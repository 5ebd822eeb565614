--------------------------- MODULE MCCatalogSync ---------------------------
(* Small instances of CatalogSync. *)
EXTENDS CatalogSync, TLC

CONSTANTS r1, r2, f1, f2, n1, hidden, u1

SameName == [u \in Uploads |-> n1]
Alike == Permutations(Runs)
\* Three changes of owners, or one of them before anything else and two next to an upload.
MCInit ==
  /\ SourceInit
  /\ rows = [f \in Files |-> None] /\ titled = {}
  /\ run = [r \in Runs |-> IdleRun]
  /\ asOf = None /\ faults = 0
  /\ \/ log = <<>> /\ upload = [u \in Uploads |-> [step |-> "done", file |-> None]]
     \/ /\ log \in {<<[file |-> f1, name |-> n]>> : n \in Names}
        /\ upload = [u \in Uploads |-> [step |-> "waiting", file |-> None]]
MCSpec == MCInit /\ [][CatalogNext]_vars
=============================================================================
