SPECIFICATION FairSpec
CONSTANTS
  Works = {w1}
  ClaimIds = {c1, c2}
  Assets = {a1}
  Contents = {d1}
  ClaimLease = 4
  PublishingLease = 2
  WorkTtl = 9
  RetentionEnds = FALSE
  MaxLag = 0
  Workers = {p1}
  Flushers = {f1}
  Messages = {m1, m2, m3}
  ScanDeadline = 1
  PublicationDeadline = 2
  QueueVisibility = 3
  RecoveryActive = FALSE
  MaxFaults = 2
  None = None
PROPERTIES
  EventuallySettled
  JobEventuallyAnswered
