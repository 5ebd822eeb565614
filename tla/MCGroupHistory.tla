--------------------------- MODULE MCGroupHistory ---------------------------
(* A small instance of GroupHistory. *)
EXTENDS GroupHistory, TLC

CONSTANTS p1, p2, p3, g1, g2, a1, a2

GroupOfKey == [k \in Keys |-> IF k = 3 THEN g2 ELSE g1]

ReachesWhom == [p \in Processes |-> IF p = p1 THEN {1, 2} ELSE {1, 3}]

P(on, cap) == [revision |-> 1, since |-> 0, on |-> on, groupCap |-> cap, totalCap |-> cap]

\* The capacity is raised, lowered again by what one eviction removes, then the policy is removed.
Plan == <<P(TRUE, 2), P(TRUE, 3), P(TRUE, 2), P(FALSE, 3)>>
ASSUME PlanIsOnePolicy == OnePolicy

\* Two answers of one process in one group, of which one may be an anchor of the other, or one
\* answer of two processes in two groups.
MCInit ==
  /\ HistoryInit
  /\ \/ {p \in Processes : config[p] = 1} = {p1}
     \/ {p \in Processes : config[p] = 1} = {p2, p3} /\ answer[a2].step = "done"
MCSpec == MCInit /\ [][HistoryNext]_vars
=============================================================================
