------------------------- MODULE PublicationJournal -------------------------
(***************************************************************************)
(* What docs/media-publication-journal.md and the attempt columns promise  *)
(* of each publication of a message: one durable attempt, reserved before  *)
(* anything outside is touched; one external call under it; a result that  *)
(* is recorded by that attempt or stays unknown; and removal of nothing    *)
(* but what the journal owns.                                              *)
(***************************************************************************)
EXTENDS Naturals

CONSTANT Types

VARIABLES
  journal,  \* journal[t]: free, reserved, owned or declined
  calls,    \* calls[t]: how often the destination was asked to publish
  thing     \* thing[t]: what the destination keeps

vars == <<journal, calls, thing>>

Init ==
  /\ journal = [t \in Types |-> "free"]
  /\ calls = [t \in Types |-> 0]
  /\ thing = [t \in Types |-> "none"]

Reserve(t) ==
  /\ journal[t] = "free" /\ journal' = [journal EXCEPT ![t] = "reserved"]
  /\ UNCHANGED <<calls, thing>>

\* The call may take effect or not, whether or not its answer arrives.
Publish(t) ==
  /\ journal[t] = "reserved" /\ calls[t] = 0
  /\ calls' = [calls EXCEPT ![t] = 1]
  /\ thing' \in {thing, [thing EXCEPT ![t] = "live"]}
  /\ UNCHANGED journal

Record(t) ==
  /\ journal[t] = "reserved" /\ calls[t] = 1
  /\ journal' = [journal EXCEPT ![t] = IF thing[t] = "none" THEN "declined" ELSE "owned"]
  /\ UNCHANGED <<calls, thing>>

Remove(t) ==
  /\ journal[t] = "owned" /\ thing[t] = "live"
  /\ thing' = [thing EXCEPT ![t] = "removed"]
  /\ UNCHANGED <<journal, calls>>

Next == \E t \in Types : Reserve(t) \/ Publish(t) \/ Record(t) \/ Remove(t)

Spec == Init /\ [][Next]_vars
=============================================================================
