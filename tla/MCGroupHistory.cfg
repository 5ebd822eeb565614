SPECIFICATION MCSpec
CONSTANTS
  p1 = p1
  p2 = p2
  p3 = p3
  g1 = g1
  g2 = g2
  a1 = a1
  a2 = a2
  None = None
  Processes = {p1, p2, p3}
  Groups = {g1, g2}
  Messages = {1, 2, 3}
  Answers = {a1, a2}
  GroupOf <- GroupOfKey
  Configs <- Plan
  Reaches <- ReachesWhom
  MaxQueue = 1
  Batch = 1
CHECK_DEADLOCK FALSE
INVARIANTS
  LateMessagesStayGone
PROPERTIES
  SentAnswersAreLive
