SPECIFICATION Spec
CONSTANTS
  Workers = {p1}
  Dispatchers = {d1}
  Messages = {m1}
  MaxFaults = 0
  Scenarios = {{"manual"}}
  None = None
CHECK_DEADLOCK FALSE
INVARIANTS
  DispatchedWorkIsQueued
