--------------------------- MODULE MediaSyncWorker --------------------------
(***************************************************************************)
(* Media sync of one LINE message: the outbox dispatcher, the storage      *)
(* queue, the workers (src/media-sync/worker.ts) with the Asset API and    *)
(* the resource publisher they call, and the requester's agent job.  The   *)
(* rows are those of MediaSyncStore; every transaction and every call to a *)
(* service is one action.  A check of the fence that follows a call        *)
(* belongs to that call's action: what it read may be stale at the next.   *)
(***************************************************************************)
EXTENDS MediaSyncStore, Naturals, Sequences

CONSTANTS
  Messages,   \* slots of the storage queue: bounds the copies it holds
  Scenarios,  \* sets of operations of the requester and the administrators
  MaxFaults   \* bounds crashes, lost replies, errors, overrun leases, repeated unsends

AdminOperations ==
  {"manual", "unsend", "pause", "unbind", "revoke", "delete_collection", "retry"}

ASSUME WorkerAssumption ==
  /\ None \notin Messages /\ Scenarios \subseteq SUBSET AdminOperations /\ MaxFaults \in Nat

VARIABLES
  dispatcher,  \* dispatcher[d]: step and operation of a dispatcher run
  queue,       \* queue[m]: a message with the work id, or a free slot
  pc,          \* pc[p]: the next call of worker p
  run,         \* run[p]: the local variables of worker p
  asset,       \* upload state and scan verdict of the work's record in the Asset API
  thing,       \* thing[t]: the collection occurrence, the resource in the drive
  calls,       \* history: how often each destination was asked to publish
  job,         \* status of the agent job of the manual save
  scenario,    \* which of the operations occur in this behaviour
  faults       \* how many of them have happened

limits == <<scenario, faults>>
serviceVars == <<asset, thing, calls, job>>
vars == <<storeVars, dispatcher, queue, pc, run, serviceVars, limits>>

IntakeSteps ==
  {"load", "get_asset", "source", "create_asset", "upload", "persist", "reserve", "publish",
   "settle", "prepare", "fail_manual", "job", "complete", "uncertain", "hold",
   "block", "retry", "remember", "compensate", "tombstone", "fail"}
DeleteSteps == {"claim_delete", "explain_delete", "load_delete", "remove",
                "retry_delete"}
WorkerSteps ==
  {"idle", "claim", "explain", "block_unclaimed", "ack"} \cup IntakeSteps \cup DeleteSteps

Owners == {"asset"} \cup PublicationTypes
NoWork == [asset |-> FALSE, pub |-> [t \in PublicationTypes |-> NoPublication]]

NoRun ==
  [message |-> None, claim |-> None, work |-> NoWork, scan |-> "pending", type |-> "collection",
   owners |-> <<>>, failed |-> FALSE, owned |-> FALSE, error |-> "none", next |-> "idle"]

RunRecord ==
  [message : Messages \cup {None}, claim : Operations \cup {None},
   work : [asset : BOOLEAN, pub : [PublicationTypes -> PublicationRow]],
   scan : {"pending", "clean", "infected"}, type : PublicationTypes, owners : Seq(Owners),
   failed : BOOLEAN, owned : BOOLEAN, error : {"none", "retryable", "other"},
   next : {"idle", "hold", "block"}]

FreeSlot == [there |-> FALSE, hidden |-> FALSE, holder |-> None]

Init ==
  /\ StoreInit
  /\ dispatcher = [d \in Dispatchers |-> [step |-> "idle", op |-> "intake"]]
  /\ queue = [m \in Messages |-> FreeSlot]
  /\ pc = [p \in Workers |-> "idle"] /\ run = [p \in Workers |-> NoRun]
  /\ asset = [upload |-> "none", scan |-> "pending"]
  /\ thing = [t \in PublicationTypes |-> "none"]
  /\ calls = [t \in PublicationTypes |-> 0]
  /\ job = "none" /\ scenario \in Scenarios /\ faults = 0

Fault == faults < MaxFaults /\ faults' = faults + 1 /\ UNCHANGED scenario
NoFault == UNCHANGED limits

-----------------------------------------------------------------------------
(* The queue (external), and the outbox dispatcher.                        *)

Send ==
  \E m \in Messages :
    /\ ~queue[m].there /\ queue' = [queue EXCEPT ![m] = [FreeSlot EXCEPT !.there = TRUE]]

dispatcherUnchanged == <<pc, run, serviceVars>>

DispatcherTo(d, step, op) == dispatcher' = [dispatcher EXCEPT ![d] = [step |-> step, op |-> op]]

ClaimForDispatch(d, op) ==
  /\ dispatcher[d].step = "idle"
  /\ ClaimOutboxForDispatch(d, op)
  /\ DispatcherTo(d, "send", op)
  /\ UNCHANGED <<queue, dispatcherUnchanged, limits>>

DispatcherSends(d) ==
  /\ dispatcher[d].step = "send"
  /\ \/ Send /\ DispatcherTo(d, "mark", dispatcher[d].op) /\ NoFault
     \/ Send /\ DispatcherTo(d, "idle", "intake") /\ Fault
     \/ UNCHANGED queue /\ DispatcherTo(d, "idle", "intake") /\ Fault
  /\ UNCHANGED <<storeVars, dispatcherUnchanged>>

DispatcherMarks(d) ==
  LET op == dispatcher[d].op IN
  /\ dispatcher[d].step = "mark"
  /\ DispatcherTo(d, "idle", "intake")
  /\ \/ MarkOutboxDispatched(d, op) /\ NoFault
     \/ ~CanMarkDispatched(d, op) /\ UNCHANGED storeVars /\ NoFault
     \/ UNCHANGED storeVars /\ Fault
  /\ UNCHANGED <<queue, dispatcherUnchanged>>

Dispatcher(d) ==
  \/ \E op \in Operations : ClaimForDispatch(d, op)
  \/ DispatcherSends(d) \/ DispatcherMarks(d)

-----------------------------------------------------------------------------
(* The local steps of a worker run.                                        *)

Go(p, step) == pc' = [pc EXCEPT ![p] = step] /\ UNCHANGED run

GoWith(p, step, locals) ==
  pc' = [pc EXCEPT ![p] = step] /\ run' = [run EXCEPT ![p] = locals]

\* contention, or an error that leaves runMediaSyncWorker: the message is not deleted.
Finish(p) == GoWith(p, "idle", NoRun)

\* What the steps that end a run still read.
Ending(p) == [NoRun EXCEPT !.message = run[p].message, !.claim = run[p].claim]

Retry(p, error) == GoWith(p, "retry", [Ending(p) EXCEPT !.error = error])
Acknowledge(p) == GoWith(p, "ack", Ending(p))

\* The work as loadClaimedWork returns it, and what terminalFailure works on: the
\* current rows under a running lease, otherwise what the run had read before.
Loaded == [asset |-> ingest.asset,
           pub |-> [t \in PublicationTypes |-> [publication[t] EXCEPT !.attempt = None]]]
Latest(p, work) == IF OwnsIntake(p) THEN Loaded ELSE work

Holds(work, o) == IF o = "asset" THEN work.asset ELSE work.pub[o].target
Kept(work, o) == IF Holds(work, o) THEN <<o>> ELSE <<>>

CompensationOrder(work) ==
  Kept(work, "asset") \o Kept(work, "collection") \o Kept(work, "manual")
DeletionOrder(work) ==
  Kept(work, "collection") \o Kept(work, "manual") \o Kept(work, "asset")

Compensate(p, work) ==
  GoWith(p, "compensate",
         [Ending(p) EXCEPT !.owners = CompensationOrder(Latest(p, work))])

\* eligibilityAfterExternal, and what a failed execution fence makes of the run.
Eligibility(p) == IF OwnsIntake(p) THEN BindingFence ELSE "lost"

Rejected(p) ==
  \/ Eligibility(p) = "lost" /\ Finish(p)
  \/ Eligibility(p) = "paused" /\ GoWith(p, "hold", Ending(p))
  \/ Eligibility(p) = "unavailable" /\ GoWith(p, "block", Ending(p))

Checked(p, step, locals) ==
  \/ Eligibility(p) = "active" /\ GoWith(p, step, locals)
  \/ Rejected(p)

\* requireAssetExecutionFence: the Asset is remembered before the run is rejected.
AssetChecked(p, step, locals) ==
  \/ Eligibility(p) = "active" /\ GoWith(p, step, locals)
  \/ /\ Eligibility(p) # "active"
     /\ GoWith(p, "remember",
               [Ending(p) EXCEPT !.next = CASE Eligibility(p) = "lost" -> "idle"
                                            [] Eligibility(p) = "paused" -> "hold"
                                            [] OTHER -> "block"])

\* The manual branch of a run whose collection occurrence is settled.  No row is pending
\* with a target, so neither branch has a remembered target to finalize.
Due(pub) == pub.state = "pending" /\ ~pub.blocked /\ pub.confirmed

AfterCollection(p, work) ==
  LET manual == work.pub["manual"]
      locals == [run[p] EXCEPT !.work = work, !.type = "manual"]
  IN
  Checked(p, CASE Due(manual) -> "prepare"
               [] manual.state = "published" /\ manual.confirmed -> "job"
               [] OTHER -> "complete",
          locals)

AfterClean(p, work) ==
  LET occurrence == work.pub["collection"]
      locals == [run[p] EXCEPT !.work = work, !.type = "collection"]
  IN
  \/ ~occurrence.target /\ Checked(p, "reserve", locals)
  \/ occurrence.target /\ AfterCollection(p, work)

ByVerdict(p, scan, work) ==
  \/ scan = "pending" /\ Retry(p, "retryable")
  \/ scan = "infected" /\ Compensate(p, work)
  \/ scan = "clean" /\ AfterClean(p, work)

-----------------------------------------------------------------------------
(* Receiving, claiming and loading.                                        *)

storeCallUnchanged == <<dispatcher, queue, serviceVars>>

ReceiveMessage(p, m) ==
  /\ pc[p] = "idle" /\ queue[m].there /\ ~queue[m].hidden
  /\ queue' = [queue EXCEPT ![m].hidden = TRUE, ![m].holder = p]
  /\ GoWith(p, "claim", [NoRun EXCEPT !.message = m])
  /\ UNCHANGED <<storeVars, dispatcher, serviceVars, limits>>

\* claimWork updates the entry, and asks for the reason in a second query when it did not.
ClaimIntake(p) ==
  /\ pc[p] = "claim"
  /\ \/ ClaimWork("intake", p) /\ GoWith(p, "load", [run[p] EXCEPT !.claim = "intake"])
     \/ ~CanClaim("intake") /\ UNCHANGED storeVars /\ Go(p, "explain")
  /\ UNCHANGED <<storeCallUnchanged, limits>>

ExplainIntake(p) ==
  LET reason == Disposition("intake") IN
  /\ pc[p] = "explain"
  /\ \/ reason \in {"missing", "paused"} /\ Acknowledge(p)
     \/ reason = "terminal" /\ Go(p, "claim_delete")
     \/ reason = "unavailable" /\ Go(p, "block_unclaimed")
     \/ reason = "busy" /\ Finish(p)
  /\ UNCHANGED <<storeVars, storeCallUnchanged, limits>>

BlockUnclaimed(p) ==
  /\ pc[p] = "block_unclaimed"
  /\ \/ CanBlockUnclaimed /\ BlockUnavailableWork /\ Acknowledge(p)
     \/ ~CanBlockUnclaimed /\ UNCHANGED storeVars /\ Finish(p)
  /\ UNCHANGED <<storeCallUnchanged, limits>>

LoadIntake(p) ==
  /\ pc[p] = "load"
  /\ \/ OwnsIntake(p) /\ OpenAttempt /\ GoWith(p, "uncertain", Ending(p))
     \/ /\ OwnsIntake(p) => ~OpenAttempt
        /\ Checked(p, IF ingest.asset THEN "get_asset" ELSE "source",
                   [run[p] EXCEPT !.work = Loaded])
  /\ UNCHANGED <<storeVars, storeCallUnchanged, limits>>

-----------------------------------------------------------------------------
(* The source and its Asset.                                               *)

\* Transcoding status, LINE content, and the fence in front of createUpload.
DownloadSource(p) ==
  /\ pc[p] = "source"
  /\ \/ Checked(p, "create_asset", run[p])
     \/ GoWith(p, "fail", Ending(p))
  /\ UNCHANGED <<storeVars, storeCallUnchanged, limits>>

\* createUpload with the source's idempotency key: the same record every time.
CreateAsset(p) ==
  /\ pc[p] = "create_asset"
  /\ \/ /\ asset.upload \in {"none", "created"}
        /\ asset' = [asset EXCEPT !.upload = "created"]
        /\ \/ AssetChecked(p, "upload", run[p]) /\ NoFault
           \/ Retry(p, "retryable") /\ Fault
     \/ /\ asset.upload = "live" /\ UNCHANGED asset /\ NoFault
        /\ AssetChecked(p, "persist", [run[p] EXCEPT !.scan = asset.scan])
     \/ asset.upload = "deleted" /\ UNCHANGED asset /\ NoFault /\ Compensate(p, run[p].work)
  /\ UNCHANGED <<storeVars, dispatcher, queue, thing, calls, job>>

\* uploadFile and complete, each followed by the fence.  The service rejects them for an
\* Asset that is complete or deleted already.
UploadAsset(p) ==
  /\ pc[p] = "upload"
  /\ \/ /\ asset.upload = "created" /\ asset' = [asset EXCEPT !.upload = "live"]
        /\ \/ AssetChecked(p, "persist", run[p]) /\ NoFault
           \/ Retry(p, "retryable") /\ Fault
     \/ /\ Eligibility(p) # "active" /\ UNCHANGED asset
        /\ AssetChecked(p, "persist", run[p]) /\ NoFault
     \/ asset.upload # "created" /\ UNCHANGED asset /\ NoFault /\ Compensate(p, run[p].work)
  /\ UNCHANGED <<storeVars, dispatcher, queue, thing, calls, job>>

RememberAsset(p) ==
  /\ pc[p] = "remember"
  /\ RememberOwnedAsset
  /\ GoWith(p, run[p].next, IF run[p].next = "idle" THEN NoRun ELSE Ending(p))
  /\ UNCHANGED <<storeCallUnchanged, limits>>

PersistAsset(p) ==
  /\ pc[p] = "persist"
  /\ \/ /\ PersistCompletedAsset(p)
        /\ ByVerdict(p, run[p].scan, [Loaded EXCEPT !.asset = TRUE]) /\ NoFault
     \/ PersistCompletedAsset(p) /\ Retry(p, "retryable") /\ Fault
     \/ /\ ~CanPersistAsset(p) /\ UNCHANGED storeVars
        /\ GoWith(p, "remember", Ending(p)) /\ NoFault
  /\ UNCHANGED storeCallUnchanged

\* assets.get answers, or rejects the request for good (also a deleted Asset).
GetAsset(p) ==
  /\ pc[p] = "get_asset"
  /\ \/ /\ asset.upload = "live" /\ Eligibility(p) = "active"
        /\ ByVerdict(p, asset.scan, Loaded)
     \/ asset.upload = "live" /\ Rejected(p)
     \/ asset.upload # "live" /\ Compensate(p, run[p].work)
     \/ Compensate(p, run[p].work)
  /\ UNCHANGED <<storeVars, storeCallUnchanged, limits>>

-----------------------------------------------------------------------------
(* The two publications.                                                   *)

\* An error after the reservation took effect leaves the attempt open for the next claim.
Reserve(p) ==
  LET t == run[p].type IN
  /\ pc[p] = "reserve"
  /\ \/ ReservePublication(t, p) /\ Go(p, "publish") /\ NoFault
     \/ ReservePublication(t, p) /\ Retry(p, "retryable") /\ Fault
     \/ ~CanReserve(t, p) /\ UNCHANGED storeVars /\ Finish(p) /\ NoFault
  /\ UNCHANGED storeCallUnchanged

PublishAgain(p) ==                       \* faulty: repeats a call that was not answered
  LET t == run[p].type IN
  /\ pc[p] = "publish"
  /\ calls' = [calls EXCEPT ![t] = @ + 1]
  /\ thing' = [thing EXCEPT ![t] = "live"]
  /\ \/ GoWith(p, "settle", [run[p] EXCEPT !.owned = TRUE]) /\ NoFault
     \/ Go(p, "publish") /\ Fault
  /\ UNCHANGED <<storeVars, dispatcher, queue, asset, job>>

\* addCollectionItem and publishVerifiedResource; a manual resource may be a duplicate.
Publish(p) ==
  LET t == run[p].type IN
  /\ pc[p] = "publish"
  /\ calls' = [calls EXCEPT ![t] = @ + 1]
  /\ \/ /\ thing' = [thing EXCEPT ![t] = "live"]
        /\ \/ GoWith(p, "settle", [run[p] EXCEPT !.owned = TRUE]) /\ NoFault
           \/ GoWith(p, "uncertain", Ending(p)) /\ Fault
     \/ /\ t = "manual" /\ UNCHANGED thing
        /\ GoWith(p, "settle", [run[p] EXCEPT !.owned = FALSE]) /\ NoFault
     \/ UNCHANGED thing /\ GoWith(p, "uncertain", Ending(p)) /\ Fault
  /\ UNCHANGED <<storeVars, dispatcher, queue, asset, job>>

\* The run's own copy of the row, as the code updates it.
Settled(p) ==
  [run[p].work EXCEPT !.pub[run[p].type] =
     [@ EXCEPT !.state = IF run[p].owned THEN "published" ELSE "failed",
               !.target = run[p].owned]]

SettleLocally(p) ==                      \* faulty: a lost settlement of the save goes unnoticed
  /\ pc[p] = "settle" /\ NoFault
  /\ IF run[p].type = "collection"
     THEN SettlePublication("collection", p, run[p].owned) /\ AfterCollection(p, Settled(p))
     ELSE UNCHANGED storeVars /\ GoWith(p, "job", [run[p] EXCEPT !.work = Settled(p)])
  /\ UNCHANGED storeCallUnchanged

Settle(p) ==
  LET t == run[p].type IN
  /\ pc[p] = "settle"
  /\ \/ /\ SettlePublication(t, p, run[p].owned) /\ NoFault
        /\ IF t = "collection" THEN AfterCollection(p, Settled(p))
           ELSE GoWith(p, "job", [run[p] EXCEPT !.work = Settled(p)])
     \/ SettlePublication(t, p, run[p].owned) /\ GoWith(p, "uncertain", Ending(p)) /\ Fault
     \/ UNCHANGED storeVars /\ GoWith(p, "uncertain", Ending(p)) /\ Fault
  /\ UNCHANGED storeCallUnchanged

\* grantServiceRead, download and the format check.  A pause in between is only
\* noticed by the fence in front of the reservation.
PrepareManual(p) ==
  /\ pc[p] = "prepare"
  /\ \/ Checked(p, "reserve", run[p]) /\ NoFault
     \/ Eligibility(p) = "unavailable" /\ Finish(p) /\ NoFault
     \/ Go(p, "fail_manual") /\ NoFault
     \/ Retry(p, "other") /\ Fault
  /\ UNCHANGED <<storeVars, storeCallUnchanged>>

FailManual(p) ==
  /\ pc[p] = "fail_manual"
  /\ \/ /\ FailManualPublication(p)
        /\ GoWith(p, "job", [run[p] EXCEPT !.work.pub["manual"].state = "failed"])
     \/ ~CanFailManual(p) /\ UNCHANGED storeVars /\ Finish(p)
  /\ UNCHANGED <<storeCallUnchanged, limits>>

\* Only an unrecorded success sends the work round again.
SettleJob(p) ==
  LET saved == run[p].work.pub["manual"].state = "published" IN
  /\ pc[p] = "job"
  /\ \/ /\ job' \in IF saved THEN {"completed"} ELSE {"completed", "failed"}
        /\ Checked(p, "complete", run[p]) /\ NoFault
     \/ /\ UNCHANGED job /\ Fault
        /\ IF saved THEN Retry(p, "other") ELSE Checked(p, "complete", run[p])
  /\ UNCHANGED <<storeVars, dispatcher, queue, asset, thing, calls>>

Complete(p) ==
  /\ pc[p] = "complete"
  /\ \/ CompleteClaimedWork(p) /\ Acknowledge(p)
     \/ ~CanComplete(p) /\ UNCHANGED storeVars /\ Finish(p)
  /\ UNCHANGED <<storeCallUnchanged, limits>>

-----------------------------------------------------------------------------
(* The ways an intake run gives its entry back.                            *)

BlockUncertain(p) ==
  /\ pc[p] = "uncertain"
  /\ \/ BlockUncertainPublication(p) /\ Acknowledge(p)
     \/ ~CanBlockUncertain(p) /\ UNCHANGED storeVars /\ Finish(p)
  /\ UNCHANGED <<storeCallUnchanged, limits>>

Hold(p) ==
  /\ pc[p] = "hold"
  /\ \/ HoldPausedWork(p) /\ Acknowledge(p)
     \/ ~CanHold(p) /\ UNCHANGED storeVars /\ Finish(p)
  /\ UNCHANGED <<storeCallUnchanged, limits>>

BlockOwned(p) ==
  /\ pc[p] = "block"
  /\ \/ CanBlock(p) /\ BlockUnavailableWork /\ Acknowledge(p)
     \/ ~CanBlock(p) /\ UNCHANGED storeVars /\ Finish(p)
  /\ UNCHANGED <<storeCallUnchanged, limits>>

Release(p) ==
  /\ pc[p] = "retry"
  /\ \/ RetryOutbox("intake", p, run[p].error) /\ Acknowledge(p)
     \/ ~OwnsIntake(p) /\ UNCHANGED storeVars /\ Finish(p)
  /\ UNCHANGED <<storeCallUnchanged, limits>>

FailIntake(p) ==
  /\ pc[p] = "fail"
  /\ \/ FailClaimedWork(p) /\ Acknowledge(p)
     \/ ~OwnsIntake(p) /\ UNCHANGED storeVars /\ Finish(p)
  /\ UNCHANGED <<storeCallUnchanged, limits>>

\* The effect of deleting the next owner at its service.
DeleteOwner(o) ==
  IF o = "asset"
  THEN asset' = [asset EXCEPT !.upload = "deleted"] /\ UNCHANGED <<thing, calls, job>>
  ELSE thing' = [thing EXCEPT ![o] = "removed"] /\ UNCHANGED <<asset, calls, job>>

RememberOwner(o) == IF o = "asset" THEN RememberOwnedAsset ELSE RememberExternalHandle(o)

\* compensatePersistedOwners: an owner that could not be deleted is remembered.
CompensateOwner(p) ==
  LET o == Head(run[p].owners)
      rest == [run[p] EXCEPT !.owners = Tail(@)] IN
  /\ pc[p] = "compensate" /\ run[p].owners # <<>>
  /\ \/ DeleteOwner(o) /\ UNCHANGED storeVars /\ GoWith(p, "compensate", rest)
     \/ /\ RememberOwner(o) /\ UNCHANGED serviceVars
        /\ GoWith(p, "compensate", [rest EXCEPT !.failed = TRUE])
  /\ UNCHANGED <<dispatcher, queue, limits>>

\* ... and hands the work over to the delete entry.
FinishCompensation(p) ==
  /\ pc[p] = "compensate" /\ run[p].owners = <<>>
  /\ GoWith(p, IF run[p].failed THEN "tombstone" ELSE "fail", Ending(p))
  /\ UNCHANGED <<storeVars, storeCallUnchanged, limits>>

TombstoneWork(p) ==
  /\ pc[p] = "tombstone"
  /\ \/ TombstoneClaimedWorkForCleanup(p) /\ Acknowledge(p)
     \/ ~OwnsIntake(p) /\ UNCHANGED storeVars /\ Finish(p)
  /\ UNCHANGED <<storeCallUnchanged, limits>>

-----------------------------------------------------------------------------
(* runDeleteWorker.                                                        *)

ClaimDelete(p) ==
  /\ pc[p] = "claim_delete"
  /\ \/ ClaimWork("delete", p) /\ GoWith(p, "load_delete", [run[p] EXCEPT !.claim = "delete"])
     \/ ~CanClaim("delete") /\ UNCHANGED storeVars /\ Go(p, "explain_delete")
  /\ UNCHANGED <<storeCallUnchanged, limits>>

AcknowledgeBusy(p) ==                    \* faulty: acknowledges whatever it could not claim
  /\ pc[p] = "explain_delete" /\ Acknowledge(p)
  /\ UNCHANGED <<storeVars, storeCallUnchanged, limits>>

ExplainDelete(p) ==
  /\ pc[p] = "explain_delete"
  /\ IF Disposition("delete") \in {"missing", "terminal"} THEN Acknowledge(p) ELSE Finish(p)
  /\ UNCHANGED <<storeVars, storeCallUnchanged, limits>>

LoadDelete(p) ==
  /\ pc[p] = "load_delete"
  /\ \/ ~OwnsDelete(p) /\ Finish(p)
     \/ OwnsDelete(p) /\ OpenAttempt /\ Go(p, "retry_delete")
     \/ /\ OwnsDelete(p) /\ ~OpenAttempt
        /\ GoWith(p, "remove", [run[p] EXCEPT !.owners = DeletionOrder(Loaded)])
  /\ UNCHANGED <<storeVars, storeCallUnchanged, limits>>

\* One owner, already gone or deleted now, and the lease checked behind it.
RemoveOwner(p) ==
  LET o == Head(run[p].owners) IN
  /\ pc[p] = "remove" /\ run[p].owners # <<>>
  /\ \/ /\ DeleteOwner(o) /\ NoFault
        /\ IF OwnsDelete(p) THEN GoWith(p, "remove", [run[p] EXCEPT !.owners = Tail(@)])
           ELSE Finish(p)
     \/ DeleteOwner(o) /\ Go(p, "retry_delete") /\ Fault
     \/ UNCHANGED serviceVars /\ Go(p, "retry_delete") /\ Fault
  /\ UNCHANGED <<storeVars, dispatcher, queue>>

CompleteDelete(p) ==
  /\ pc[p] = "remove" /\ run[p].owners = <<>>
  /\ \/ CompleteDeleteWork(p) /\ Acknowledge(p)
     \/ ~CanCompleteDelete(p) /\ UNCHANGED storeVars /\ Finish(p)
  /\ UNCHANGED <<storeCallUnchanged, limits>>

ReleaseDelete(p) ==
  /\ pc[p] = "retry_delete"
  /\ \/ RetryOutbox("delete", p, "other") /\ Acknowledge(p)
     \/ ~OwnsDelete(p) /\ UNCHANGED storeVars /\ Finish(p)
  /\ UNCHANGED <<storeCallUnchanged, limits>>

-----------------------------------------------------------------------------
(* Acknowledgement, errors, leases, and the rest of the world.             *)

\* deleteMessage fails when a later receive has replaced the pop receipt.
DeleteMessage(p) ==
  LET m == run[p].message IN
  /\ pc[p] = "ack" /\ Finish(p)
  /\ queue' = IF queue[m].holder = p THEN [queue EXCEPT ![m] = FreeSlot] ELSE queue
  /\ UNCHANGED <<storeVars, dispatcher, serviceVars, limits>>

\* A temporary error of a service or of the database inside the worker's try block.
TransientError(p) ==
  /\ pc[p] \in {"source", "create_asset", "upload", "persist", "get_asset", "reserve",
                "fail_manual", "complete"}
  /\ Retry(p, "retryable") /\ Fault
  /\ UNCHANGED <<storeVars, storeCallUnchanged>>

\* Also an error that leaves runMediaSyncWorker.
WorkerStops(p) ==
  /\ pc[p] # "idle" /\ Finish(p) /\ Fault
  /\ UNCHANGED <<storeVars, storeCallUnchanged>>

Worker(p) ==
  \/ \E m \in Messages : ReceiveMessage(p, m)
  \/ ClaimIntake(p) \/ ExplainIntake(p) \/ BlockUnclaimed(p) \/ LoadIntake(p)
  \/ DownloadSource(p) \/ CreateAsset(p) \/ UploadAsset(p) \/ RememberAsset(p)
  \/ PersistAsset(p) \/ GetAsset(p)
  \/ Reserve(p) \/ Publish(p) \/ Settle(p) \/ PrepareManual(p)
  \/ FailManual(p) \/ SettleJob(p) \/ Complete(p)
  \/ BlockUncertain(p) \/ Hold(p) \/ BlockOwned(p) \/ Release(p) \/ FailIntake(p)
  \/ CompensateOwner(p) \/ FinishCompensation(p) \/ TombstoneWork(p)
  \/ ClaimDelete(p) \/ ExplainDelete(p) \/ LoadDelete(p) \/ RemoveOwner(p)
  \/ CompleteDelete(p) \/ ReleaseDelete(p)
  \/ DeleteMessage(p) \/ TransientError(p) \/ WorkerStops(p)

\* A run still relies on its lease, or on its message being hidden.
Relied(op) ==
  \/ \E p \in Workers : outbox[op].claimedBy = p /\ run[p].claim = op
  \/ \E d \in Dispatchers :
       outbox[op].claimedBy = d /\ dispatcher[d].step # "idle" /\ dispatcher[d].op = op

LeaseEnds(op) ==
  /\ LeaseLapses(op)
  /\ IF Relied(op) THEN Fault ELSE NoFault
  /\ UNCHANGED <<dispatcher, queue, pc, run, serviceVars>>

\* A pop receipt nobody will use any more is forgotten.
MessageReappears(m) ==
  /\ queue[m].hidden
  /\ IF \E p \in Workers : queue[m].holder = p /\ run[p].message = m
     THEN queue' = [queue EXCEPT ![m].hidden = FALSE] /\ Fault
     ELSE queue' = [queue EXCEPT ![m].hidden = FALSE, ![m].holder = None] /\ NoFault
  /\ UNCHANGED <<storeVars, dispatcher, pc, run, serviceVars>>

Scanner ==
  /\ asset.upload = "live" /\ asset.scan = "pending"
  /\ \E verdict \in {"clean", "infected"} : asset' = [asset EXCEPT !.scan = verdict]
  /\ UNCHANGED <<storeVars, dispatcher, queue, pc, run, thing, calls, job, limits>>

\* The intake of an event, and what people do to the message and to its binding.
Administer ==
  /\ \/ CreateIngest
     \/ "manual" \in scenario /\ AttachManualIntent
     \/ "pause" \in scenario /\ PauseBinding
     \/ "pause" \in scenario /\ ResumeBinding
     \/ "unbind" \in scenario /\ UnbindBinding
     \/ "revoke" \in scenario /\ RevokeAdmission
     \/ "delete_collection" \in scenario /\ BeginCollectionDeletion
     \/ "delete_collection" \in scenario /\ CompleteCollectionDeletion
     \/ "retry" \in scenario /\ RetryWork
  /\ UNCHANGED <<dispatcher, queue, pc, run, serviceVars, limits>>

\* The unsend event, and its redelivery.
Withdraw ==
  /\ "unsend" \in scenario /\ TombstoneSource
  /\ IF tombstone THEN Fault ELSE NoFault
  /\ UNCHANGED <<dispatcher, queue, pc, run, serviceVars>>

\* The requester's manual save: its agent job is created first.
ConfirmManual ==
  /\ "manual" \in scenario /\ ConfirmManualPublication
  /\ job' = "pending"
  /\ UNCHANGED <<dispatcher, queue, pc, run, asset, thing, calls, limits>>

Environment ==
  \/ \E op \in Operations : LeaseEnds(op)
  \/ \E m \in Messages : MessageReappears(m)
  \/ Scanner \/ Administer \/ Withdraw \/ ConfirmManual

Next ==
  \/ \E d \in Dispatchers : Dispatcher(d)
  \/ \E p \in Workers : Worker(p)
  \/ Environment

Spec == Init /\ [][Next]_vars

-----------------------------------------------------------------------------
(* Safety properties.                                                      *)

\* Every variable of media sync stays in its type.
TypeOK ==
  /\ StoreTypeOK
  /\ dispatcher \in [Dispatchers -> [step : {"idle", "send", "mark"}, op : Operations]]
  /\ queue \in [Messages -> [there : BOOLEAN, hidden : BOOLEAN, holder : Workers \cup {None}]]
  /\ pc \in [Workers -> WorkerSteps]
  /\ run \in [Workers -> RunRecord]
  /\ asset \in [upload : {"none", "created", "live", "deleted"},
               scan : {"pending", "clean", "infected"}]
  /\ thing \in [PublicationTypes -> {"none", "live", "removed"}]
  /\ calls \in [PublicationTypes -> Nat]
  /\ job \in {"none", "pending", "completed", "failed"}
  /\ scenario \in Scenarios
  /\ faults \in Nat

\* A withdrawal that is reported as done has left neither the collection occurrence nor
\* the manual resource, nor an Asset the ingest names, also when results arrive late,
\* leases run out, or workers stop half way.
CleanupLeavesNothing ==
  outbox["delete"].row = "done" =>
    /\ \A t \in PublicationTypes : thing[t] # "live"
    /\ ingest.asset => asset.upload = "deleted"

\* The dispatcher never takes a work from the outbox that nobody will hear of: an open
\* entry that counts as dispatched has its message in the queue.  Of the intake this
\* holds while no manual save has reopened it and no pause has taken its message away
\* (see DispatchedWorkIsQueued).
UnsettledWorkIsQueued ==
  \A op \in Operations :
    /\ outbox[op].row = "open" /\ outbox[op].dispatched
    /\ op = "intake" => ~publication["manual"].confirmed /\ "pause" \notin scenario
    => \E m \in Messages : queue[m].there

\* A manual save the requester has confirmed stays somebody's work until it is decided:
\* the intake entry is open, an unfinished attempt of the message blocks it for review,
\* or a pause or an unavailable binding has set it aside.
ConfirmedSaveIsPending ==
  LET save == publication["manual"] IN
  save.confirmed /\ save.state = "pending" /\ ~save.blocked =>
    OpenAttempt \/ outbox["intake"].row = "open"

\* What the agent job of the manual save says is what became of the save, whichever
\* worker settled it and whichever of the two updates was lost.
JobTellsSave ==
  /\ job = "completed" => publication["manual"].state # "pending"
  /\ job = "failed" => publication["manual"].state \in {"failed", "revoked"}

\* src/__tests__/media-sync-worker.test.ts:194 of the repository: "ACKs only returned
\* outcomes after durable retry or terminal state", so an open entry that counts as
\* dispatched still has its message.
DispatchedWorkIsQueued ==
  outbox["intake"].row = "open" /\ outbox["intake"].dispatched /\ binding = "active" =>
    \E m \in Messages : queue[m].there

-----------------------------------------------------------------------------
(* The publication journal as the rows keep it.                            *)

JournalState(pub) ==
  CASE pub.attempt = None -> "free"
    [] pub.attempt # None /\ pub.open -> "reserved"
    [] pub.attempt # None /\ ~pub.open /\ pub.target -> "owned"
    [] OTHER -> "declined"

Journal == INSTANCE PublicationJournal WITH
  Types <- PublicationTypes,
  journal <- [t \in PublicationTypes |-> JournalState(publication[t])]

\* Whatever runs out, stops or is redelivered, each destination is asked at most once,
\* under a reserved attempt; what it then keeps is never forgotten (it is owned, or its
\* attempt is still open); and only owned things are removed.
JournalSpec == Journal!Spec

-----------------------------------------------------------------------------
(* Progress.  Dispatchers run on a timer, a delivered message starts a     *)
(* worker, leases and hidden messages nobody relies on run out, and scans  *)
(* end; faults are bounded.                                                *)

LeftBehind == \E op \in Operations : ~Relied(op) /\ LeaseEnds(op)

Fairness ==
  /\ \A d \in Dispatchers : WF_vars(Dispatcher(d))
  /\ \A p \in Workers : WF_vars(Worker(p))
  /\ \A m \in Messages : WF_vars(MessageReappears(m))
  /\ WF_vars(LeftBehind) /\ WF_vars(Scanner)

FairSpec == Spec /\ Fairness

\* Once the source is withdrawn, what was published and stored is eventually gone, or
\* the unknown result of a publication attempt keeps the cleanup open for review.
WithdrawalIsCleanedUp == Withdrawn ~> outbox["delete"].row = "done" \/ OpenAttempt

\* Every received message is eventually settled.  (A confirmed manual save need not be:
\* DispatchedWorkIsQueued.)
IntakeIsSettled ==
  outbox["intake"].row = "open" ~>
    outbox["intake"].row = "done" \/ publication["manual"].confirmed
=============================================================================
