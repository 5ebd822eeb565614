---------------------------- MODULE CatalogSource ----------------------------
(***************************************************************************)
(* One row of catalog_sources (src/catalog/postgres-store.ts) and the runs *)
(* of the synchronization that read it.  A revision only grows, so a run   *)
(* need not remember its number: a read of the row is *current* until the  *)
(* revision is promoted, and an update "where revision = $2" succeeds just *)
(* as long.                                                                *)
(***************************************************************************)
EXTENDS Naturals

CONSTANTS
  Runs,             \* processes that may synchronize: the scheduled job, commands of administrators
  None

VARIABLES
  source,           \* the row
  current           \* the reads of each run that still have the revision of the row

Reads == {"listed", "read"}
Cursors == Nat \cup {None}
SourceRow ==
  [enabled : BOOLEAN, cursor : Cursors, health : {"never", "ready", "unavailable"}]

NoReads == [r \in Runs |-> {}]

\* createSourceIfMissing, and an administrator who has not enabled it yet
SourceInit ==
  /\ source \in [enabled : BOOLEAN, cursor : {None}, health : {"never"}]
  /\ current = NoReads

\* The source as listed at the start of a run, and read again by the adapter.
ListSource(r) == current' = [current EXCEPT ![r] = {"listed"}]
ReadSource(r) == current' = [current EXCEPT ![r] = @ \cup {"read"}]
Forget(r) == current' = [current EXCEPT ![r] = {}]

\* A publication: the revision is promoted.
Promote(cursor) ==
  /\ source' = [source EXCEPT !.cursor = cursor, !.health = "ready"]
  /\ current' = NoReads

\* faulty: an upserted item leaves the revision alone
ReadyByItem == source' = [source EXCEPT !.health = "ready"] /\ UNCHANGED current
\* upsertItem promotes as well, and keeps the cursor.
PromoteByItem == Promote(source.cursor)

\* updateSourceSyncCursor and updateSourceEnabled do neither look at nor promote the revision.
SetCursor(cursor) == source' = [source EXCEPT !.cursor = cursor]
SetEnabled(on) == source' = [source EXCEPT !.enabled = on]

\* markSourceSyncFailure with the revision that run r listed
MarkFailure(r) ==
  source' = IF "listed" \in current[r] THEN [source EXCEPT !.health = "unavailable"] ELSE source
=============================================================================
