SPECIFICATION Spec
CONSTANTS
  Workers = {p1, p2}
  Dispatchers = {d1}
  Messages = {m1, m2}
  MaxFaults = 1
  Scenarios = {{"manual", "unsend"}, {"pause", "unsend"}, {"unbind", "retry"}, {"delete_collection", "revoke", "unsend"}}
  None = None
SYMMETRY Symmetry
CHECK_DEADLOCK FALSE
INVARIANTS
  CleanupLeavesNothing
  UnsettledWorkIsQueued
  ConfirmedSaveIsPending
  JobTellsSave
PROPERTIES
  JournalSpec
