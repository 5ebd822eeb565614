SPECIFICATION FairSpec
CONSTANTS
  Workers = {p1}
  Dispatchers = {d1}
  Messages = {m1, m2, m3, m4}
  MaxFaults = 1
  Scenarios = {{"unsend"}}
  None = None
CHECK_DEADLOCK FALSE
PROPERTIES
  WithdrawalIsCleanedUp
  IntakeIsSettled
