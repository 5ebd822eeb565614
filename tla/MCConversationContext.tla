------------------------ MODULE MCConversationContext ------------------------
(* A small instance of ConversationContext: two requesters of a group. *)
EXTENDS ConversationContext, TLC

CONSTANTS t1, t2, m1, m2, m3, m4, m5, m6

HomeOf == (m1 :> t1) @@ (m2 :> t1) @@ (m3 :> t2) @@ (m4 :> t1) @@ (m5 :> t1) @@ (m6 :> t2)

AfterWhom ==
  [m \in Messages |-> CASE m = m2 -> {m1} [] m \in {m5, m6} -> {m2} [] OTHER -> {}]

\* The messages in ms come, and n failures may happen.
Only(ms, n) ==
  /\ \A m \in Messages : pc[m] = IF m \in ms THEN "new" ELSE "done"
  /\ faults = MaxFaults - n

\* Without a failure: two messages of one requester, one after the other, and one of the other
\* requester beside them, or one of each after them.  With two failures: two messages of one
\* requester at once, or a message and a /reset.
MCInit ==
  /\ ContextInit
  /\ Only({m1, m2, m3}, 0) \/ Only({m1, m2, m5, m6}, 0)
     \/ Only({m1, m5}, 2) \/ Only({m1, m4}, 2)
MCSpec == MCInit /\ [][ContextNext]_vars
=============================================================================
