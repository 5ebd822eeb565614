--------------------------- MODULE MediaSyncStore ---------------------------
(***************************************************************************)
(* The PostgreSQL rows of one LINE message in media sync                   *)
(* (src/media-sync/store.ts): its ingest, its collection and manual        *)
(* publications, its intake and delete outbox entries, its withdrawal      *)
(* tombstone, and the binding of its group.  Every method of the store is  *)
(* one transaction under the source lock or the collection lock, hence one *)
(* action.  Messages share nothing but the binding, so one is enough.      *)
(***************************************************************************)
CONSTANTS
  Workers,      \* media sync workers
  Dispatchers,  \* runs of the outbox dispatcher, in the API and in the worker
  None

ASSUME ClaimantAssumption ==
  /\ None \notin Workers \cup Dispatchers /\ Workers \cap Dispatchers = {}

VARIABLES
  ingest,       \* ingest.state, and whether the row names its Asset
  publication,  \* publication[t]: the row of a publication type
  outbox,       \* outbox[op]: the row of an outbox operation
  tombstone,    \* the source has been withdrawn
  binding,      \* the binding the ingest was received under
  admitted,     \* the group's execution generation is still the binding's
  deletion      \* the deletion of the collection has begun

storeVars == <<ingest, publication, outbox, tombstone, binding, admitted, deletion>>

Claimants == Workers \cup Dispatchers
PublicationTypes == {"collection", "manual"}
Operations == {"intake", "delete"}

IngestRow ==
  [state : {"absent", "pending", "processing", "awaiting_scan", "ready", "failed", "tombstoned"},
   asset : BOOLEAN]

\* attempt: who reserved the one publication attempt.  blocked: the category
\* manual_authority_unavailable.  confirmed: manual_source_key is set.
PublicationRow ==
  [state : {"none", "pending", "published", "failed", "revoked"}, confirmed : BOOLEAN,
   blocked : BOOLEAN, target : BOOLEAN, attempt : Workers \cup {None}, open : BOOLEAN]

\* claimedBy and lapsed stand for claimed_until: the lease token, and its running out.
OutboxRow ==
  [row : {"absent", "open", "done"}, dispatched : BOOLEAN, claimedBy : Claimants \cup {None},
   lapsed : BOOLEAN, error : {"none", "retryable", "uncertain", "other"}]

NoPublication ==
  [state |-> "none", confirmed |-> FALSE, blocked |-> FALSE, target |-> FALSE,
   attempt |-> None, open |-> FALSE]

NoEntry ==
  [row |-> "absent", dispatched |-> FALSE, claimedBy |-> None, lapsed |-> FALSE,
   error |-> "none"]

OpenEntry == [NoEntry EXCEPT !.row = "open"]

StoreTypeOK ==
  /\ ingest \in IngestRow
  /\ publication \in [PublicationTypes -> PublicationRow]
  /\ outbox \in [Operations -> OutboxRow]
  /\ tombstone \in BOOLEAN /\ admitted \in BOOLEAN /\ deletion \in BOOLEAN
  /\ binding \in {"active", "paused", "unbound"}

StoreInit ==
  /\ ingest = [state |-> "absent", asset |-> FALSE]
  /\ publication = [t \in PublicationTypes |-> NoPublication]
  /\ outbox = [op \in Operations |-> NoEntry]
  /\ tombstone = FALSE /\ binding = "active" /\ admitted = TRUE /\ deletion = FALSE

bindingVars == <<binding, admitted, deletion>>
Received == ingest.state # "absent"
Withdrawn == ingest.state = "tombstoned"

-----------------------------------------------------------------------------
(* Leases and the binding fence.                                           *)

Unclaimed(op) == outbox[op].claimedBy = None \/ outbox[op].lapsed

\* The exact lease token, still running, on an unfinished entry.
Owns(op, p) ==
  /\ outbox[op].row = "open" /\ outbox[op].claimedBy = p /\ ~outbox[op].lapsed

OwnsIntake(p) == Owns("intake", p) /\ ~Withdrawn
OwnsDelete(p) == Owns("delete", p) /\ tombstone

IsBindingAdmitted == binding # "unbound" /\ admitted

\* withCollectionDeletionFence.
FenceOpen == Received /\ ~Withdrawn /\ ~deletion /\ binding = "active" /\ admitted

\* bindingFence of the worker: a collection whose deletion has begun has no binding.
BindingFence ==
  CASE ~IsBindingAdmitted \/ deletion -> "unavailable"
    [] IsBindingAdmitted /\ ~deletion /\ binding = "paused" -> "paused"
    [] OTHER -> "active"

OpenAttempt == \E t \in PublicationTypes : publication[t].open

LeaseLapses(op) ==
  /\ outbox[op].claimedBy # None /\ ~outbox[op].lapsed
  /\ outbox' = [outbox EXCEPT ![op].lapsed = TRUE]
  /\ UNCHANGED <<ingest, publication, tombstone, bindingVars>>

Released(entry) == [entry EXCEPT !.claimedBy = None, !.lapsed = FALSE]
Claimed(entry, p) == [entry EXCEPT !.claimedBy = p, !.lapsed = FALSE]
Completed(entry) == [Released(entry) EXCEPT !.row = "done"]

\* The upserts that hand an entry back to the dispatcher: the delete entry keeps its
\* last error, confirmManualPublication clears that of the intake entry.
Reopened(entry) == [Released(entry) EXCEPT !.row = "open", !.dispatched = FALSE]

-----------------------------------------------------------------------------
(* Intake, the requester's manual save, withdrawal and administration.     *)

\* A redelivered event, or the event of a withdrawn source, inserts nothing.
CreateIngest ==
  /\ ~Received /\ ~tombstone /\ binding = "active" /\ admitted /\ ~deletion
  /\ ingest' = [ingest EXCEPT !.state = "pending"]
  /\ publication' = [publication EXCEPT !["collection"].state = "pending"]
  /\ outbox' = [outbox EXCEPT !["intake"] = OpenEntry]
  /\ UNCHANGED <<tombstone, bindingVars>>

AttachManualIntent ==
  /\ Received /\ ~Withdrawn /\ ~tombstone /\ publication["manual"].state = "none"
  /\ publication' = [publication EXCEPT !["manual"].state = "pending"]
  /\ UNCHANGED <<ingest, outbox, tombstone, bindingVars>>

CanConfirmManual ==
  /\ Received /\ ~Withdrawn
  /\ publication["manual"].state = "pending" /\ ~publication["manual"].confirmed

ConfirmManualWithoutReopen ==            \* faulty: leaves a completed entry completed
  /\ CanConfirmManual
  /\ publication' = [publication EXCEPT !["manual"].confirmed = TRUE]
  /\ UNCHANGED <<ingest, outbox, tombstone, bindingVars>>

\* Whatever the entry's state, claimed, dispatched or completed, it is reopened.
ConfirmManualPublication ==
  /\ CanConfirmManual
  /\ publication' = [publication EXCEPT !["manual"].confirmed = TRUE]
  /\ outbox' = [outbox EXCEPT !["intake"] = [Reopened(@) EXCEPT !.error = "none"]]
  /\ UNCHANGED <<ingest, tombstone, bindingVars>>

AllRevoked == [t \in PublicationTypes |->
  IF publication[t].state = "none" THEN publication[t]
  ELSE [publication[t] EXCEPT !.state = "revoked"]]

TombstoneSource ==
  /\ tombstone' = TRUE
  /\ IF Received
     THEN /\ ingest' = [ingest EXCEPT !.state = "tombstoned"]
          /\ publication' = AllRevoked
          /\ outbox' = [intake |-> Completed(outbox["intake"]),
                        delete |-> Reopened(outbox["delete"])]
     ELSE UNCHANGED <<ingest, publication, outbox>>
  /\ UNCHANGED bindingVars

Unstarted(t) ==
  /\ publication[t].state = "pending" /\ ~publication[t].target
  /\ publication[t].attempt = None

BlockedManual ==
  IF Unstarted("manual") THEN [publication["manual"] EXCEPT !.blocked = TRUE]
  ELSE publication["manual"]

Undispatched ==
  IF outbox["intake"].row = "open"
  THEN [outbox EXCEPT !["intake"].dispatched = FALSE] ELSE outbox

\* mutateBinding; a change of any kind has the open intake dispatched again.
PauseBinding ==
  /\ binding = "active" /\ ~deletion
  /\ binding' = "paused"
  /\ outbox' = Undispatched
  /\ publication' = [publication EXCEPT !["manual"] = BlockedManual]
  /\ UNCHANGED <<ingest, tombstone, admitted, deletion>>

ResumeBinding ==
  /\ binding = "paused" /\ ~deletion /\ admitted
  /\ binding' = "active"
  /\ outbox' = Undispatched
  /\ UNCHANGED <<ingest, publication, tombstone, admitted, deletion>>

UnbindBinding ==
  /\ binding # "unbound" /\ ~deletion
  /\ binding' = "unbound"
  /\ outbox' = Undispatched
  /\ publication' =
       [manual |-> BlockedManual,
        collection |-> IF Unstarted("collection")
                       THEN [publication["collection"] EXCEPT !.state = "revoked"]
                       ELSE publication["collection"]]
  /\ UNCHANGED <<ingest, tombstone, admitted, deletion>>

\* The access principal of the group is disabled: its generation never comes back.
RevokeAdmission ==
  /\ admitted /\ admitted' = FALSE
  /\ UNCHANGED <<ingest, publication, outbox, tombstone, binding, deletion>>

BeginCollectionDeletion ==
  /\ ~deletion /\ deletion' = TRUE
  /\ UNCHANGED <<ingest, publication, outbox, tombstone, binding, admitted>>

CompleteCollectionDeletion ==
  /\ deletion /\ binding # "unbound" /\ binding' = "unbound"
  /\ UNCHANGED <<ingest, publication, outbox, tombstone, admitted, deletion>>

\* An administrator retries a work that waits with a temporary error.
RetryWork ==
  /\ ~deletion /\ binding = "active" /\ admitted
  /\ ingest.state \in {"pending", "processing", "awaiting_scan"}
  /\ outbox["intake"].row = "open" /\ Unclaimed("intake")
  /\ outbox["intake"].error = "retryable" /\ ~OpenAttempt
  /\ ~(publication["manual"].state = "pending" /\ publication["manual"].confirmed)
  /\ outbox' = [outbox EXCEPT !["intake"] = OpenEntry]
  /\ UNCHANGED <<ingest, publication, tombstone, bindingVars>>

-----------------------------------------------------------------------------
(* Dispatch and claim.                                                     *)

Dispatchable(op) ==
  /\ outbox[op].row = "open" /\ ~outbox[op].dispatched /\ Unclaimed(op)
  /\ IF op = "intake" THEN ~Withdrawn /\ binding # "paused" ELSE tombstone

ClaimOutboxForDispatch(d, op) ==
  /\ Dispatchable(op)
  /\ outbox' = [outbox EXCEPT ![op] = Claimed(@, d)]
  /\ UNCHANGED <<ingest, publication, tombstone, bindingVars>>

CanMarkDispatched(d, op) == Owns(op, d) /\ (op = "delete" => tombstone)

MarkOutboxDispatched(d, op) ==
  /\ CanMarkDispatched(d, op)
  /\ outbox' = [outbox EXCEPT ![op] = [Released(@) EXCEPT !.dispatched = TRUE]]
  /\ UNCHANGED <<ingest, publication, tombstone, bindingVars>>

CanClaim(op) ==
  /\ outbox[op].row = "open" /\ outbox[op].dispatched /\ Unclaimed(op)
  /\ IF op = "intake" THEN ~Withdrawn /\ binding = "active" /\ admitted ELSE tombstone

ClaimWork(op, p) ==
  /\ CanClaim(op)
  /\ outbox' = [outbox EXCEPT ![op] = [Claimed(@, p) EXCEPT !.error = "none"]]
  /\ UNCHANGED <<ingest, publication, tombstone, bindingVars>>

\* What claimWork answers when it has not claimed the entry.
Disposition(op) ==
  IF outbox[op].row = "absent" THEN "missing"
  ELSE IF \/ outbox[op].row = "done"
          \/ op = "intake" /\ ingest.state \in {"ready", "failed", "tombstoned"}
          \/ op = "delete" /\ ~tombstone THEN "terminal"
  ELSE IF op = "intake" /\ ~IsBindingAdmitted THEN "unavailable"
  ELSE IF op = "intake" /\ binding = "paused" THEN "paused"
  ELSE "busy"

-----------------------------------------------------------------------------
(* The intake lease: each operation of its holder, and where it applies.   *)

RetryDispatched(op, p, error) ==         \* faulty: the dispatcher never sees it again
  /\ IF op = "intake" THEN OwnsIntake(p) ELSE OwnsDelete(p)
  /\ outbox' = [outbox EXCEPT ![op] = [Released(@) EXCEPT !.error = error]]
  /\ UNCHANGED <<ingest, publication, tombstone, bindingVars>>

\* retryOutbox; the delay before the entry is available again is left out.
RetryOutbox(op, p, error) ==
  /\ IF op = "intake" THEN OwnsIntake(p) ELSE OwnsDelete(p)
  /\ outbox' = [outbox EXCEPT ![op] =
                  [Released(@) EXCEPT !.dispatched = FALSE, !.error = error]]
  /\ UNCHANGED <<ingest, publication, tombstone, bindingVars>>

CompletedIntake(error) ==
  [outbox EXCEPT !["intake"] = [Completed(@) EXCEPT !.error = error]]

FailClaimedWork(p) ==
  /\ OwnsIntake(p)
  /\ ingest' = [ingest EXCEPT !.state = "failed"]
  /\ publication' = [t \in PublicationTypes |->
       IF publication[t].state = "pending"
       THEN [publication[t] EXCEPT !.state = "failed", !.blocked = FALSE]
       ELSE publication[t]]
  /\ outbox' = CompletedIntake("other")
  /\ UNCHANGED <<tombstone, bindingVars>>

CanHold(p) == OwnsIntake(p) /\ binding = "paused"

HoldPausedWork(p) ==
  /\ CanHold(p)
  /\ outbox' = [outbox EXCEPT !["intake"] =
                  [Released(@) EXCEPT !.dispatched = FALSE, !.error = "other"]]
  /\ UNCHANGED <<ingest, publication, tombstone, bindingVars>>

\* With the lease of p, or without one when nobody holds the entry.
CanBlock(p) == OwnsIntake(p)
CanBlockUnclaimed ==
  /\ Received /\ ~Withdrawn /\ outbox["intake"].row = "open" /\ Unclaimed("intake")
  /\ ~IsBindingAdmitted

Unavailable(t) ==
  LET pub == publication[t] IN
  IF pub.state # "pending" THEN pub
  ELSE IF pub.target THEN [pub EXCEPT !.state = "published", !.blocked = FALSE]
  ELSE IF pub.open THEN [pub EXCEPT !.blocked = FALSE]
  ELSE IF t = "collection" THEN [pub EXCEPT !.state = "revoked"]
  ELSE [pub EXCEPT !.blocked = TRUE]

BlockUnavailableWork ==
  /\ publication' = [t \in PublicationTypes |-> Unavailable(t)]
  /\ ingest' = [ingest EXCEPT !.state = "failed"]
  /\ outbox' = CompletedIntake("other")
  /\ UNCHANGED <<tombstone, bindingVars>>

TombstoneClaimedWorkForCleanup(p) ==
  /\ OwnsIntake(p)
  /\ tombstone' = TRUE
  /\ ingest' = [ingest EXCEPT !.state = "tombstoned"]
  /\ publication' = AllRevoked
  /\ outbox' = [intake |-> Completed(outbox["intake"]),
                delete |-> Reopened(outbox["delete"])]
  /\ UNCHANGED bindingVars

CanPersistAsset(p) == FenceOpen /\ OwnsIntake(p)

PersistCompletedAsset(p) ==
  /\ CanPersistAsset(p)
  /\ ingest' = [state |-> "awaiting_scan", asset |-> TRUE]
  /\ UNCHANGED <<publication, outbox, tombstone, bindingVars>>

CanReserve(t, p) ==
  /\ FenceOpen /\ OwnsIntake(p)
  /\ publication[t].state = "pending" /\ ~publication[t].target
  /\ publication[t].attempt = None /\ ~publication[t].blocked
  /\ t = "manual" => publication[t].confirmed

ReservePublication(t, p) ==
  /\ CanReserve(t, p)
  /\ publication' = [publication EXCEPT ![t].attempt = p, ![t].open = TRUE]
  /\ UNCHANGED <<ingest, outbox, tombstone, bindingVars>>

\* No lease is needed to record the result of one's own attempt.
CanSettle(t, p) == Received /\ publication[t].attempt = p /\ publication[t].open

ReopenUncertain ==
  IF outbox["intake"].error = "uncertain"
  THEN /\ outbox' = [outbox EXCEPT !["intake"].row = "open", !["intake"].dispatched = FALSE,
                                   !["intake"].error = "none"]
       /\ ingest' = [ingest EXCEPT !.state = IF @ = "failed" THEN "processing" ELSE @]
  ELSE UNCHANGED <<ingest, outbox>>

\* target is FALSE for a manual duplicate, which owns nothing.
SettlePublication(t, p, target) ==
  /\ CanSettle(t, p)
  /\ publication' = [publication EXCEPT ![t] =
       [@ EXCEPT !.open = FALSE, !.target = target, !.blocked = FALSE,
                 !.state = IF Withdrawn THEN "revoked"
                           ELSE IF target THEN "published" ELSE "failed"]]
  /\ IF Withdrawn
     THEN /\ outbox' = [outbox EXCEPT !["delete"] = Reopened(@)]
          /\ UNCHANGED ingest
     ELSE ReopenUncertain
  /\ UNCHANGED <<tombstone, bindingVars>>

CanBlockUncertain(p) == OwnsIntake(p) /\ OpenAttempt

BlockUncertainPublication(p) ==
  /\ CanBlockUncertain(p)
  /\ publication' = [t \in PublicationTypes |->
       IF publication[t].open THEN [publication[t] EXCEPT !.blocked = FALSE]
       ELSE publication[t]]
  /\ ingest' = [ingest EXCEPT !.state = "failed"]
  /\ outbox' = CompletedIntake("uncertain")
  /\ UNCHANGED <<tombstone, bindingVars>>

CanFailManual(p) ==
  /\ OwnsIntake(p)
  /\ publication["manual"].state = "pending" /\ publication["manual"].confirmed

FailManualPublication(p) ==
  /\ CanFailManual(p)
  /\ publication' = [publication EXCEPT !["manual"].state = "failed",
                                        !["manual"].blocked = FALSE]
  /\ UNCHANGED <<ingest, outbox, tombstone, bindingVars>>

\* A publication that completion has to wait for.
Outstanding(t) ==
  /\ publication[t].state = "pending" /\ ~publication[t].blocked
  /\ t = "manual" => publication[t].confirmed

CanComplete(p) ==
  /\ FenceOpen /\ OwnsIntake(p) /\ \A t \in PublicationTypes : ~Outstanding(t)

CompleteClaimedWork(p) ==
  /\ CanComplete(p)
  /\ ingest' = [ingest EXCEPT !.state = "ready"]
  /\ outbox' = CompletedIntake("none")
  /\ UNCHANGED <<publication, tombstone, bindingVars>>

-----------------------------------------------------------------------------
(* Withdrawal work, and handles remembered without a lease.                *)

CanCompleteDelete(p) == OwnsDelete(p) /\ ~OpenAttempt

CompleteDeleteWork(p) ==
  /\ CanCompleteDelete(p)
  /\ outbox' = [outbox EXCEPT !["delete"] = [Completed(@) EXCEPT !.error = "none"]]
  /\ UNCHANGED <<ingest, publication, tombstone, bindingVars>>

ReopenNothing ==                         \* faulty: a finished cleanup never hears of it
  UNCHANGED outbox

ReopenDeleteIfWithdrawn ==
  outbox' = IF tombstone THEN [outbox EXCEPT !["delete"] = Reopened(@)] ELSE outbox

RememberExternalHandle(t) ==
  /\ publication' = [publication EXCEPT ![t] =
       [@ EXCEPT !.target = TRUE,
                 !.state = IF tombstone THEN "revoked" ELSE publication[t].state]]
  /\ ReopenDeleteIfWithdrawn
  /\ UNCHANGED <<ingest, tombstone, bindingVars>>

RememberOwnedAsset ==
  /\ ingest' = [ingest EXCEPT !.asset = TRUE]
  /\ ReopenDeleteIfWithdrawn
  /\ UNCHANGED <<publication, tombstone, bindingVars>>
=============================================================================
