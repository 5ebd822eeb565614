SPECIFICATION Spec
CONSTANTS
  Works = {w1}
  ClaimIds = {c1, c2}
  Assets = {a1}
  Contents = {d1, d2}
  ClaimLease = 4
  PublishingLease = 2
  WorkTtl = 9
  RetentionEnds = TRUE
  MaxLag = 1
  Workers = {p1}
  Flushers = {f1}
  Messages = {m1, m2}
  ScanDeadline = 1
  PublicationDeadline = 2
  QueueVisibility = 3
  RecoveryActive = TRUE
  MaxFaults = 2
  None = None
SYMMETRY Symmetry
INVARIANTS
  PublishedIsVerified
  CompletedIsIndexed
  OutboxIsExact
  
PROPERTIES
  StoreSpec
  ImplementsTicket
  AcknowledgedOnlyWhenSettled
