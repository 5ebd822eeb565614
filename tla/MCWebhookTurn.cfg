SPECIFICATION FairSpec
CONSTANTS
  Events = {e1}
  Turns = {t1, t2}
  ReceiptLease = 2
  Nobody = Nobody
  JobLease = 2
  MaxFaults = 2
INVARIANTS
  AtMostOneExecution
  ReceiptTellsHistory
  OneReplyPerTurn
  FailedRunIsUncertain
PROPERTIES
  ReceiptSpec
  ResultEventuallyKnown
