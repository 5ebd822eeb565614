SPECIFICATION MCSpec
CONSTANTS
  t1 = t1
  t2 = t2
  m1 = m1
  m2 = m2
  m3 = m3
  m4 = m4
  m5 = m5
  m6 = m6
  None = None
  Threads = {t1, t2}
  Messages = {m1, m2, m3, m4, m5, m6}
  Home <- HomeOf
  After <- AfterWhom
  Resets = {m4}
  Unsendable = {m1}
  Public = {m2}
  MaxLineage = 1
  MaxGenerations = 3
  MaxFaults = 2
CHECK_DEADLOCK FALSE
INVARIANTS
  ContextTypeOK
  ContextIsTracked
  EvidenceStaysInItsTurn
PROPERTIES
  NothingWithdrawnIsAnswered
