------------------------- MODULE AttachmentPipeline -------------------------
(***************************************************************************)
(* From the requester's confirmation of an attachment to its publication:  *)
(* the webhook handler that hands the work off, the outbox dispatcher, the *)
(* storage queue, the attachment workers with the Asset API and the        *)
(* publisher they call, and the requester's agent job.  The work records   *)
(* are those of ScanWorkStore; every call to Redis, to the queue or to a   *)
(* service is one action, and between two of them any other process may    *)
(* run, a lease may expire or the process may crash.                       *)
(***************************************************************************)
EXTENDS ScanWorkStore

CONSTANTS
  Workers,          \* attachment worker processes
  Flushers,         \* overlapping runs of the outbox dispatcher
  Messages,         \* slots of the storage queue: bounds the copies it holds
  ScanDeadline,     \* scanDeadlineMs, from the start of a worker run
  PublicationDeadline,  \* publicationDeadlineMs, from the start of a worker run
  QueueVisibility,  \* queueVisibilityMs
  RecoveryActive,   \* recoveryCutoff(env) is set
  MaxFaults         \* bounds the crashes, lost replies and transient errors

ASSUME PipelineTimingAssumption ==
  /\ ScanDeadline \in Nat \ {0} /\ PublicationDeadline \in Nat \ {0}
  /\ ScanDeadline < PublicationDeadline /\ PublicationDeadline < QueueVisibility
  /\ QueueVisibility \in Nat /\ QueueVisibility < ClaimLease
  /\ RecoveryActive \in BOOLEAN /\ MaxFaults \in Nat

ASSUME ActorAssumption == None \notin Workers \cup Works \cup Messages

VARIABLES
  job,        \* job[w]: status of the agent job of w ("none": not created)
  handler,    \* handler[w]: where the confirmation of w stands
  flusher,    \* flusher[f]: step and work of a dispatcher run
  queue,      \* queue[m]: a queue message, or a free slot
  pc,         \* pc[p]: the next call of worker p
  run,        \* run[p]: the local variables of worker p
  asset,      \* asset[a]: the record the Asset API keeps
  drive,      \* drive[w]: the file uploaded for w, or None
  catalog,    \* catalog[w]: whether w's file is indexed in the catalog
  uploads,    \* history: how often the file of w was sent to Graph
  faults      \* crashes, lost replies and transient errors so far

externalVars == <<asset, drive, catalog, uploads>>
vars == <<storeVars, job, handler, flusher, queue, pc, run, externalVars, faults>>

JobStatuses == {"none", "pending", "completed", "failed"}
HandlerSteps == {"confirm", "create_work", "fail_job", "enqueue", "mark", "replied", "refused"}
FlusherSteps == {"idle", "send", "mark", "unindex"}

BeforePublishing ==
  {"source", "describe", "create_asset", "upload", "record_asset", "scan", "verify", "begin"}
PublishingSteps == {"check", "upload_file", "index", "compensate", "complete"}
WorkerSteps ==
  {"idle", "claim", "fail", "release", "update_job", "clear_update", "ack"}
    \cup BeforePublishing \cup PublishingSteps

FreeSlot == [work |-> None, hidden |-> 0, holder |-> None]

\* holder stands for the pop receipt: the worker of the latest receive of a message.
QueueSlot ==
  [work : Works \cup {None}, hidden : 0 .. QueueVisibility, holder : Workers \cup {None}]

NoRun ==
  [message |-> None, work |-> None, claim |-> None, descriptor |-> None, resource |-> None,
   asset |-> None, scanLeft |-> 0, publishLeft |-> Floor, failure |-> None,
   update |-> None]

RunRecord ==
  [message : Messages \cup {None}, work : Works \cup {None}, claim : ClaimIds \cup {None},
   descriptor : Contents \cup {None}, resource : Contents \cup {None},
   asset : Assets \cup {None}, scanLeft : 0 .. ScanDeadline, publishLeft : Int,
   failure : FailureCodes \cup {None}, update : Terminal \cup {None}]

AssetRecord ==
  [owner : Works \cup {None}, content : Contents \cup {None},
   scan : {"pending", "clean", "infected", "error"}]

Init ==
  /\ StoreInit
  /\ job = [w \in Works |-> "none"]
  /\ handler = [w \in Works |-> "confirm"]
  /\ flusher = [f \in Flushers |-> [step |-> "idle", work |-> None]]
  /\ queue = [m \in Messages |-> FreeSlot]
  /\ pc = [p \in Workers |-> "idle"]
  /\ run = [p \in Workers |-> NoRun]
  /\ asset = [a \in Assets |-> [owner |-> None, content |-> None, scan |-> "pending"]]
  /\ drive = [w \in Works |-> None]
  /\ catalog = [w \in Works |-> FALSE]
  /\ uploads = [w \in Works |-> 0]
  /\ faults = 0

\* An error the environment may inject: a crash, a reply lost after the call took
\* effect, or a call that failed.
Fault == faults < MaxFaults /\ faults' = faults + 1
NoFault == UNCHANGED faults

-----------------------------------------------------------------------------
(* The agent job (src/agent/jobs.ts).                                      *)

CreatePending(w) == job' = [job EXCEPT ![w] = "pending"]

\* complete and fail of the job store; this pipeline never makes a job uncertain.
SettleJob(w, status) ==
  job' = IF job[w] = "pending" THEN [job EXCEPT ![w] = status] ELSE job

-----------------------------------------------------------------------------
(* The queue (external).                                                   *)

Send(w) ==
  \E m \in Messages :
    /\ queue[m] = FreeSlot
    /\ queue' = [queue EXCEPT ![m] = [FreeSlot EXCEPT !.work = w]]

-----------------------------------------------------------------------------
(* The webhook handler: enqueueAttachmentScan of attachment-intake.ts and  *)
(* dispatchAttachmentScanWork of scan-outbox.ts.                           *)

handlerUnchanged == <<flusher, pc, run, externalVars>>

HandlerTo(w, step) == handler' = [handler EXCEPT ![w] = step]

\* createPending; when its reply is lost, the job exists but nobody knows its id.
ConfirmAttachment(w) ==
  /\ handler[w] = "confirm"
  /\ CreatePending(w)
  /\ \/ HandlerTo(w, "create_work") /\ NoFault
     \/ HandlerTo(w, "refused") /\ Fault
  /\ UNCHANGED <<storeVars, queue, handlerUnchanged>>

\* A failed create sends the handler to fail the job, also when the reply was lost
\* after the work and its outbox entry were written.
HandOffWork(w) ==
  /\ handler[w] = "create_work"
  /\ \/ CreateWork(w) /\ HandlerTo(w, "enqueue") /\ NoFault
     \/ CreateWork(w) /\ HandlerTo(w, "fail_job") /\ Fault
     \/ UNCHANGED storeVars /\ HandlerTo(w, "fail_job") /\ Fault
  /\ UNCHANGED <<job, queue, handlerUnchanged>>

\* failAgentJobBestEffort: an error is swallowed.
HandlerFailsJob(w) ==
  /\ handler[w] = "fail_job"
  /\ HandlerTo(w, "refused")
  /\ \/ SettleJob(w, "failed") /\ NoFault
     \/ UNCHANGED job /\ Fault
  /\ UNCHANGED <<storeVars, queue, handlerUnchanged>>

\* The store retries hand-offs durably, so an error is answered as retry_scheduled.
HandlerEnqueues(w) ==
  /\ handler[w] = "enqueue"
  /\ \/ Send(w) /\ HandlerTo(w, "mark") /\ NoFault
     \/ Send(w) /\ HandlerTo(w, "replied") /\ Fault
     \/ UNCHANGED queue /\ HandlerTo(w, "replied") /\ Fault
  /\ UNCHANGED <<storeVars, job, handlerUnchanged>>

HandlerMarksEnqueued(w) ==
  /\ handler[w] = "mark"
  /\ HandlerTo(w, "replied")
  /\ \/ MarkEnqueued(w) /\ NoFault
     \/ ~CanMarkEnqueued(w) /\ UNCHANGED storeVars /\ NoFault
     \/ UNCHANGED storeVars /\ Fault
  /\ UNCHANGED <<job, queue, handlerUnchanged>>

HandlerCrashes(w) ==
  /\ handler[w] \in {"create_work", "fail_job", "enqueue", "mark"}
  /\ HandlerTo(w, "replied") /\ Fault
  /\ UNCHANGED <<storeVars, job, queue, handlerUnchanged>>

Handler(w) ==
  \/ ConfirmAttachment(w) \/ HandOffWork(w) \/ HandlerFailsJob(w)
  \/ HandlerEnqueues(w) \/ HandlerMarksEnqueued(w) \/ HandlerCrashes(w)

-----------------------------------------------------------------------------
(* The outbox dispatcher: flushAttachmentScanOutbox, one index entry at a  *)
(* time.  Its read of the record and its use of what it read are separate. *)

flusherUnchanged == <<job, handler, pc, run, externalVars>>

FlusherTo(f, step, w) == flusher' = [flusher EXCEPT ![f] = [step |-> step, work |-> w]]

ReadOutboxEntryUnchecked(f, w) ==        \* faulty: drops what it has just read
  /\ flusher[f].step = "idle" /\ w \in outbox
  /\ \E step \in {"send", "unindex"} : FlusherTo(f, step, w)
  /\ UNCHANGED <<storeVars, queue, flusherUnchanged, faults>>

ReadOutboxEntry(f, w) ==
  /\ flusher[f].step = "idle" /\ w \in outbox
  /\ FlusherTo(f, IF work[w].status = "pending_enqueue" THEN "send" ELSE "unindex", w)
  /\ UNCHANGED <<storeVars, queue, flusherUnchanged, faults>>

RemoveStaleEntry(f) ==
  /\ flusher[f].step = "unindex"
  /\ DropFromOutbox(flusher[f].work)
  /\ FlusherTo(f, "idle", None)
  /\ UNCHANGED <<queue, flusherUnchanged, faults>>

FlusherEnqueues(f) ==
  /\ flusher[f].step = "send"
  /\ \/ Send(flusher[f].work) /\ FlusherTo(f, "mark", flusher[f].work) /\ NoFault
     \/ Send(flusher[f].work) /\ FlusherTo(f, "idle", None) /\ Fault
     \/ UNCHANGED queue /\ FlusherTo(f, "idle", None) /\ Fault
  /\ UNCHANGED <<storeVars, flusherUnchanged>>

FlusherMarksEnqueued(f) ==
  /\ flusher[f].step = "mark"
  /\ FlusherTo(f, "idle", None)
  /\ LET w == flusher[f].work IN
       \/ MarkEnqueued(w) /\ NoFault
       \/ ~CanMarkEnqueued(w) /\ UNCHANGED storeVars /\ NoFault
       \/ UNCHANGED storeVars /\ Fault
  /\ UNCHANGED <<queue, flusherUnchanged>>

Flusher(f) ==
  \/ \E w \in Works : ReadOutboxEntry(f, w)
  \/ RemoveStaleEntry(f) \/ FlusherEnqueues(f) \/ FlusherMarksEnqueued(f)

-----------------------------------------------------------------------------
(* The attachment worker: runAttachmentWorkerQueueLease around             *)
(* runAttachmentAssetWorker (src/attachments/asset-worker.ts).             *)

Go(p, step) == pc' = [pc EXCEPT ![p] = step] /\ UNCHANGED run

GoWith(p, step, locals) ==
  pc' = [pc EXCEPT ![p] = step] /\ run' = [run EXCEPT ![p] = locals]

\* The run ends and its message stays in the queue (contention, retry, a crash).
Finish(p) == GoWith(p, "idle", NoRun)

\* What a run still reads after its last decision: its message, its work, its claim.
Settling(p) ==
  [NoRun EXCEPT !.message = run[p].message, !.work = run[p].work, !.claim = run[p].claim]

\* permanentFailure and transientRetry.
FailWith(p, code) == GoWith(p, "fail", [Settling(p) EXCEPT !.failure = code])
Retry(p) == GoWith(p, "release", Settling(p))

\* A call of the worker that failed, or whose reply was lost after it took effect.
RetryAfterError(p)  == Fault /\ Retry(p)
FinishAfterError(p) == Fault /\ Finish(p)

workerUnchanged == <<handler, flusher>>
storeCallUnchanged == <<job, handler, flusher, queue, externalVars>>

ReceiveMessage(p, m) ==
  /\ pc[p] = "idle" /\ queue[m].work # None /\ queue[m].hidden = 0
  /\ queue' = [queue EXCEPT ![m].hidden = QueueVisibility, ![m].holder = p]
  /\ GoWith(p, "claim",
            [NoRun EXCEPT !.message = m, !.work = queue[m].work, !.scanLeft = ScanDeadline,
                          !.publishLeft = PublicationDeadline])
  /\ UNCHANGED <<storeVars, job, workerUnchanged, externalVars, faults>>

\* claimIdFactory: an id no record and no running worker holds.
FreshClaims ==
  ClaimIds \ ({work[w].claim : w \in Works} \cup {run[q].claim : q \in Workers})

FirstStep(w) ==
  IF work[w].asset # None THEN "scan"
  ELSE IF work[w].descriptor # None THEN "create_asset" ELSE "source"

\* reconcileTerminalJobUpdate starts from the record the script returned.
Reconcile(p, update) ==
  IF update = None THEN GoWith(p, "ack", Settling(p))
  ELSE GoWith(p, "update_job", [Settling(p) EXCEPT !.update = update])

AcknowledgeMissing(p) ==                 \* faulty: ignores recoveryActive
  /\ pc[p] = "claim" /\ ~Exists(run[p].work)
  /\ GoWith(p, "ack", Settling(p))
  /\ UNCHANGED <<storeVars, storeCallUnchanged, faults>>

ClaimMissing(p) ==
  /\ pc[p] = "claim" /\ ~Exists(run[p].work)
  /\ IF RecoveryActive THEN Finish(p) ELSE GoWith(p, "ack", Settling(p))
  /\ UNCHANGED <<storeVars, storeCallUnchanged, faults>>

AcknowledgeTerminal(p) ==                \* faulty: leaves the job update pending
  /\ pc[p] = "claim" /\ work[run[p].work].status \in Terminal
  /\ Reconcile(p, None)
  /\ UNCHANGED <<storeVars, storeCallUnchanged, faults>>

ClaimTerminal(p) ==
  /\ pc[p] = "claim" /\ work[run[p].work].status \in Terminal
  /\ Reconcile(p, work[run[p].work].jobUpdate)
  /\ UNCHANGED <<storeVars, storeCallUnchanged, faults>>

AcknowledgeActive(p) ==                  \* faulty: acknowledges contention
  /\ pc[p] = "claim" /\ Exists(run[p].work) /\ work[run[p].work].status \notin Terminal
  /\ \E lag \in Lags : ~Claimable(run[p].work, lag) /\ ~Abandonable(run[p].work, lag)
  /\ GoWith(p, "ack", Settling(p))
  /\ UNCHANGED <<storeVars, storeCallUnchanged, faults>>

ClaimActive(p) ==
  /\ pc[p] = "claim" /\ Exists(run[p].work) /\ work[run[p].work].status \notin Terminal
  /\ \E lag \in Lags : ~Claimable(run[p].work, lag) /\ ~Abandonable(run[p].work, lag)
  /\ Finish(p)
  /\ UNCHANGED <<storeVars, storeCallUnchanged, faults>>

ClaimAbandoned(p) ==
  /\ pc[p] = "claim"
  /\ \E lag \in Lags : AbandonPublication(run[p].work, lag)
  /\ \/ Reconcile(p, "failed") /\ NoFault
     \/ FinishAfterError(p)
  /\ UNCHANGED storeCallUnchanged

ClaimGranted(p) ==
  LET w == run[p].work IN
  /\ pc[p] = "claim"
  /\ \E lag \in Lags, c \in FreshClaims :
       /\ Claim(w, c, lag)
       /\ \/ /\ GoWith(p, FirstStep(w),
                       [run[p] EXCEPT !.claim = c, !.descriptor = work[w].descriptor,
                                      !.asset = work[w].asset])
             /\ NoFault
          \/ FinishAfterError(p)
  /\ UNCHANGED storeCallUnchanged

ClaimWork(p) ==
  \/ ClaimMissing(p) \/ ClaimTerminal(p) \/ ClaimActive(p) \/ ClaimAbandoned(p)
  \/ ClaimGranted(p)

\* validWorkTarget and prepareWorkResource: the LINE content may be anything.
ReadSource(p) ==
  /\ pc[p] = "source"
  /\ \/ \E c \in Contents :
          GoWith(p, "describe", [run[p] EXCEPT !.resource = c, !.descriptor = c])
     \/ FailWith(p, "validation_failed")
  /\ UNCHANGED <<storeVars, storeCallUnchanged, faults>>

DescribeUpload(p) ==
  LET w == run[p].work  c == run[p].claim  d == run[p].descriptor IN
  /\ pc[p] = "describe"
  /\ \E lag \in Lags :
       \/ RecordUploadDescriptor(w, c, d, lag) /\ Go(p, "create_asset") /\ NoFault
       \/ RecordUploadDescriptor(w, c, d, lag) /\ RetryAfterError(p)
       \/ ~CanRecordDescriptor(w, c, d, lag) /\ UNCHANGED storeVars /\ Finish(p) /\ NoFault
  /\ UNCHANGED storeCallUnchanged

assetCallUnchanged == <<storeVars, job, workerUnchanged, queue, drive, catalog, uploads>>

\* createUpload with the idempotency key of the work: the same work, the same asset.
AssetFor(w) ==
  LET owned == {a \in Assets : asset[a].owner = w} IN
  IF owned # {} THEN owned ELSE {a \in Assets : asset[a].owner = None}

CreateAsset(p) ==
  /\ pc[p] = "create_asset"
  /\ \E a \in AssetFor(run[p].work) :
       /\ asset' = [asset EXCEPT ![a].owner = run[p].work]
       /\ \/ /\ GoWith(p, IF asset[a].content = None THEN "upload" ELSE "record_asset",
                       [run[p] EXCEPT !.asset = a])
             /\ NoFault
          \/ RetryAfterError(p)
  /\ UNCHANGED assetCallUnchanged

\* upload and complete.  A resumed run downloads the source again and compares it
\* with the descriptor recorded by the earlier claim.
UploadContent(p) ==
  /\ pc[p] = "upload"
  /\ \E r \in IF run[p].resource = None THEN Contents ELSE {run[p].resource} :
       \/ /\ r # run[p].descriptor
          /\ FailWith(p, "validation_failed") /\ NoFault /\ UNCHANGED asset
       \/ /\ r = run[p].descriptor
          /\ asset' = [asset EXCEPT ![run[p].asset].content = r]
          /\ \/ Go(p, "record_asset") /\ NoFault
             \/ RetryAfterError(p)
  /\ UNCHANGED assetCallUnchanged

RecordAssetId(p) ==
  LET w == run[p].work  c == run[p].claim  a == run[p].asset IN
  /\ pc[p] = "record_asset"
  /\ \E lag \in Lags :
       \/ RecordAsset(w, c, a, lag) /\ Go(p, "scan") /\ NoFault
       \/ RecordAsset(w, c, a, lag) /\ RetryAfterError(p)
       \/ ~CanRecordAsset(w, c, a, lag) /\ UNCHANGED storeVars /\ Finish(p) /\ NoFault
  /\ UNCHANGED storeCallUnchanged

\* waitForScan polls until the deadline; a record that no longer matches the
\* descriptor (its detected type, say) fails the work.
WaitForScan(p) ==
  LET scan == asset[run[p].asset].scan IN
  /\ pc[p] = "scan"
  /\ \/ scan = "pending" /\ run[p].scanLeft = 0 /\ Retry(p)
     \/ scan = "infected" /\ FailWith(p, "scan_infected")
     \/ scan = "error" /\ FailWith(p, "scan_unavailable")
     \/ scan = "clean" /\ GoWith(p, "verify", [run[p] EXCEPT !.scanLeft = 0])
     \/ FailWith(p, "validation_failed")
  /\ UNCHANGED <<storeVars, storeCallUnchanged, faults>>

AcceptDownload(p) ==                     \* faulty: no comparison
  /\ pc[p] = "verify"
  /\ \E c \in Contents : GoWith(p, "begin", [run[p] EXCEPT !.resource = c])
  /\ UNCHANGED <<storeVars, storeCallUnchanged, faults>>

\* grantServiceRead, download, and the comparison with the descriptor: the bytes
\* that come back are not trusted to be the ones that were scanned.
VerifyDownload(p) ==
  /\ pc[p] = "verify"
  /\ \E c \in Contents :
       \/ c = run[p].descriptor /\ GoWith(p, "begin", [run[p] EXCEPT !.resource = c])
       \/ c # run[p].descriptor /\ FailWith(p, "validation_failed")
  /\ UNCHANGED <<storeVars, storeCallUnchanged, faults>>

BeginPublication(p) ==
  LET w == run[p].work  c == run[p].claim  deadline == run[p].publishLeft IN
  /\ pc[p] = "begin"
  /\ \E lag \in Lags :
       \/ /\ BeginPublishing(w, c, deadline, lag)
          /\ GoWith(p, "check", [Settling(p) EXCEPT !.resource = run[p].resource]) /\ NoFault
       \/ BeginPublishing(w, c, deadline, lag) /\ RetryAfterError(p)
       \/ /\ ~CanBeginPublishing(w, c, deadline, lag)
          /\ UNCHANGED storeVars /\ Finish(p) /\ NoFault
  /\ UNCHANGED storeCallUnchanged

-----------------------------------------------------------------------------
(* publishVerifiedResource (src/functions/resource-binary-publisher.ts).   *)

publisherUnchanged == <<storeVars, job, workerUnchanged, queue, asset>>

\* The writable source and the catalog conflicts; once publishing, an error leaves
\* the work to its publishing lease.
CheckTarget(p) ==
  /\ pc[p] = "check"
  /\ \/ Go(p, "upload_file") /\ NoFault
     \/ Go(p, "complete") /\ NoFault             \* a duplicate is a result, too
     \/ FailWith(p, "publish_failed") /\ NoFault
     \/ FinishAfterError(p)
  /\ UNCHANGED <<publisherUnchanged, drive, catalog, uploads>>

UploadFile(p) ==
  LET w == run[p].work IN
  /\ pc[p] = "upload_file"
  /\ uploads' = [uploads EXCEPT ![w] = @ + 1]
  /\ \/ drive' = [drive EXCEPT ![w] = run[p].resource] /\ Go(p, "index") /\ NoFault
     \/ /\ drive' = [drive EXCEPT ![w] = run[p].resource]
        /\ FailWith(p, "publish_failed") /\ Fault
     \/ UNCHANGED drive /\ FailWith(p, "publish_failed") /\ Fault
  /\ UNCHANGED <<publisherUnchanged, catalog>>

IndexFileBestEffort(p) ==                \* faulty: completes without the index
  /\ pc[p] = "index"
  /\ \/ catalog' = [catalog EXCEPT ![run[p].work] = TRUE] /\ NoFault
     \/ UNCHANGED catalog /\ Fault
  /\ Go(p, "complete")
  /\ UNCHANGED <<publisherUnchanged, drive, uploads>>

IndexFile(p) ==
  /\ pc[p] = "index"
  /\ \/ catalog' = [catalog EXCEPT ![run[p].work] = TRUE] /\ Go(p, "complete") /\ NoFault
     \/ catalog' = [catalog EXCEPT ![run[p].work] = TRUE] /\ Go(p, "compensate") /\ Fault
     \/ UNCHANGED catalog /\ Go(p, "compensate") /\ Fault
  /\ UNCHANGED <<publisherUnchanged, drive, uploads>>

CompensateUpload(p) ==
  /\ pc[p] = "compensate"
  /\ FailWith(p, "publish_failed")
  /\ \/ drive' = [drive EXCEPT ![run[p].work] = None] /\ NoFault
     \/ UNCHANGED drive /\ Fault
  /\ UNCHANGED <<publisherUnchanged, catalog, uploads>>

-----------------------------------------------------------------------------
(* Settling the work, telling the job, and acknowledging the message.      *)

CompleteUnfenced(p) ==                   \* faulty: ignores a refused completion
  LET w == run[p].work  c == run[p].claim IN
  /\ pc[p] = "complete"
  /\ \E lag \in Lags :
       \/ Complete(w, c, lag)
       \/ ~CanComplete(w, c, lag) /\ UNCHANGED storeVars
  /\ Reconcile(p, "completed") /\ NoFault
  /\ UNCHANGED storeCallUnchanged

CompleteWork(p) ==
  LET w == run[p].work  c == run[p].claim IN
  /\ pc[p] = "complete"
  /\ \E lag \in Lags :
       \/ Complete(w, c, lag) /\ Reconcile(p, "completed") /\ NoFault
       \/ Complete(w, c, lag) /\ FinishAfterError(p)
       \/ ~CanComplete(w, c, lag) /\ UNCHANGED storeVars /\ Finish(p) /\ NoFault
  /\ UNCHANGED storeCallUnchanged

FailWork(p) ==
  LET w == run[p].work  c == run[p].claim IN
  /\ pc[p] = "fail"
  /\ \E lag \in Lags :
       \/ Fail(w, c, run[p].failure, lag) /\ Reconcile(p, "failed") /\ NoFault
       \/ Fail(w, c, run[p].failure, lag) /\ FinishAfterError(p)
       \/ ~CanFail(w, c, lag) /\ UNCHANGED storeVars /\ Finish(p) /\ NoFault
  /\ UNCHANGED storeCallUnchanged

ReleaseWork(p) ==
  LET w == run[p].work  c == run[p].claim IN
  /\ pc[p] = "release"
  /\ Finish(p)
  /\ \E lag \in Lags :
       \/ ReleaseForRetry(w, c, lag)
       \/ ~OwnsClaim(w, c, lag) /\ UNCHANGED storeVars
  /\ UNCHANGED <<storeCallUnchanged, faults>>

UpdateJob(p) ==
  /\ pc[p] = "update_job"
  /\ \/ SettleJob(run[p].work, run[p].update) /\ Go(p, "clear_update") /\ NoFault
     \/ SettleJob(run[p].work, run[p].update) /\ FinishAfterError(p)
  /\ UNCHANGED <<storeVars, workerUnchanged, queue, externalVars>>

ClearUpdate(p) ==
  /\ pc[p] = "clear_update"
  /\ \/ ClearPendingJobUpdate(run[p].work)
     \/ ~HasPendingJobUpdate(run[p].work) /\ UNCHANGED storeVars
  /\ \/ Go(p, "ack") /\ NoFault
     \/ FinishAfterError(p)
  /\ UNCHANGED storeCallUnchanged

\* deleteMessage fails when a later receive has replaced the pop receipt.
Acknowledge(p) ==
  LET m == run[p].message IN
  /\ pc[p] = "ack"
  /\ Finish(p)
  /\ queue' = IF queue[m].holder = p THEN [queue EXCEPT ![m] = FreeSlot] ELSE queue
  /\ UNCHANGED <<storeVars, job, workerUnchanged, externalVars, faults>>

-----------------------------------------------------------------------------
(* Errors of the services, crashes, the scanner, and time.                 *)

\* A transient error before publishing releases the claim for a retry.
TransientError(p) ==
  /\ pc[p] \in BeforePublishing /\ RetryAfterError(p)
  /\ UNCHANGED <<storeVars, storeCallUnchanged>>

AssetApiRejects(p) ==
  /\ pc[p] \in {"create_asset", "upload", "scan", "verify"}
  /\ FailWith(p, "scan_unavailable")
  /\ UNCHANGED <<storeVars, storeCallUnchanged, faults>>

SourceGone(p) ==
  /\ pc[p] \in {"source", "upload"} /\ (pc[p] = "upload" => run[p].resource = None)
  /\ FailWith(p, "download_failed")
  /\ UNCHANGED <<storeVars, storeCallUnchanged, faults>>

\* Also an error that ends the run where only the queue redelivers.
WorkerCrashes(p) ==
  /\ pc[p] # "idle" /\ FinishAfterError(p)
  /\ UNCHANGED <<storeVars, storeCallUnchanged>>

Worker(p) ==
  \/ \E m \in Messages : ReceiveMessage(p, m)
  \/ ClaimWork(p) \/ ReadSource(p) \/ DescribeUpload(p) \/ CreateAsset(p)
  \/ UploadContent(p) \/ RecordAssetId(p) \/ WaitForScan(p) \/ VerifyDownload(p)
  \/ BeginPublication(p) \/ CheckTarget(p) \/ UploadFile(p) \/ IndexFile(p)
  \/ CompensateUpload(p) \/ CompleteWork(p) \/ FailWork(p) \/ ReleaseWork(p)
  \/ UpdateJob(p) \/ ClearUpdate(p) \/ Acknowledge(p)
  \/ TransientError(p) \/ AssetApiRejects(p) \/ SourceGone(p) \/ WorkerCrashes(p)

Scanner ==
  /\ \E a \in Assets, verdict \in {"clean", "infected", "error"} :
       /\ asset[a].content # None /\ asset[a].scan = "pending"
       /\ asset' = [asset EXCEPT ![a].scan = verdict]
  /\ UNCHANGED <<storeVars, job, handler, flusher, queue, pc, run, drive, catalog, uploads,
                 faults>>

Tick ==
  /\ AgeWorks
  /\ queue' = [m \in Messages |->
                 [queue[m] EXCEPT !.hidden = IF @ > 0 THEN @ - 1 ELSE 0]]
  /\ run' = [p \in Workers |->
               [run[p] EXCEPT !.scanLeft = IF @ > 0 THEN @ - 1 ELSE 0,
                              !.publishLeft = Down(@)]]
  /\ UNCHANGED <<job, handler, flusher, pc, externalVars, faults>>

Steps ==
  \/ \E w \in Works : Handler(w)
  \/ \E f \in Flushers : Flusher(f)
  \/ \E p \in Workers : Worker(p)
  \/ Scanner

Next == Steps \/ Tick

Spec == Init /\ [][Next]_vars

-----------------------------------------------------------------------------
(* Safety properties.                                                      *)

\* Every variable of the pipeline stays in its type.
TypeOK ==
  /\ StoreTypeOK
  /\ job \in [Works -> JobStatuses]
  /\ handler \in [Works -> HandlerSteps]
  /\ flusher \in [Flushers -> [step : FlusherSteps, work : Works \cup {None}]]
  /\ queue \in [Messages -> QueueSlot]
  /\ pc \in [Workers -> WorkerSteps]
  /\ run \in [Workers -> RunRecord]
  /\ asset \in [Assets -> AssetRecord]
  /\ drive \in [Works -> Contents \cup {None}]
  /\ catalog \in [Works -> BOOLEAN]
  /\ uploads \in [Works -> Nat]
  /\ faults \in Nat

\* The file of a confirmed attachment is sent to Graph at most once, whatever
\* messages are duplicated or redelivered, leases run out, or workers crash.
AtMostOnePublication == \A w \in Works : uploads[w] <= 1

\* A file in the drive is what the scanner found clean in the asset of its work and
\* what the work's recorded descriptor describes, also when several claims took part.
PublishedIsVerified ==
  \A w \in Works : drive[w] # None =>
    /\ \E a \in Assets :
         asset[a].owner = w /\ asset[a].content = drive[w] /\ asset[a].scan = "clean"
    /\ Exists(w) => work[w].descriptor = drive[w]

\* No work is forgotten: until its outcome has reached its agent job, it waits in the
\* outbox or a message for it is in the queue.
Unsettled(w) ==
  \/ work[w].status \in {"queued", "claimed", "publishing"}
  \/ HasPendingJobUpdate(w)

NoForgottenWork ==
  \A w \in Works :
    /\ work[w].status = "pending_enqueue" => w \in outbox
    /\ Unsettled(w) => \E m \in Messages : queue[m].work = w

\* What the requester's job says is what became of the work.  Only a hand-off the
\* requester was told had failed may be contradicted by a later publication.
JobTellsOutcome ==
  \A w \in Works :
    /\ job[w] = "completed" => work[w].status \in {"completed", "gone"}
    /\ job[w] = "failed" /\ handler[w] # "refused" => work[w].status \in {"failed", "gone"}

\* A completed work left no half-done publication: a file it uploaded is indexed.
CompletedIsIndexed ==
  \A w \in Works :
    work[w].status = "completed" /\ uploads[w] > 0 => drive[w] # None /\ catalog[w]

\* A work that failed before publishing was never sent to Graph by anybody, not even
\* by a worker whose claim had run out.
RejectedIsNotPublished ==
  \A w \in Works :
    work[w].failure \in WorkerFailureCodes \ {"publish_failed"} => uploads[w] = 0

\* A message leaves the queue only when its work needs no other delivery.  During
\* recovery a record that is missing may be restored, so its messages are kept unless
\* its outcome had reached its job.
AcknowledgedOnlyWhenSettled ==
  [][\A m \in Messages :
       queue[m].work # None /\ queue'[m].work = None =>
         \/ work[queue[m].work].status \in Terminal /\ ~HasPendingJobUpdate(queue[m].work)
         \/ /\ work[queue[m].work].status = "gone"
            /\ RecoveryActive => job[queue[m].work] # "pending"]_vars

-----------------------------------------------------------------------------
(* Liveness.  A step of a process takes far less than a unit of time (ten  *)
(* minutes), so in the specification with fairness time passes only while  *)
(* every worker is idle or waits for the scanner.                          *)

Prompt ==
  \A p \in Workers :
    \/ pc[p] = "idle"
    \/ pc[p] = "scan" /\ asset[run[p].asset].scan = "pending" /\ run[p].scanLeft > 0

PromptTick == Prompt /\ Tick

Fairness ==
  /\ \A w \in Works : WF_vars(handler[w] # "confirm" /\ Handler(w))
  /\ \A f \in Flushers : WF_vars(Flusher(f))
  /\ \A p \in Workers : WF_vars(Worker(p))
  /\ WF_vars(Scanner) /\ WF_vars(PromptTick)

FairSpec == Init /\ [][Steps \/ PromptTick]_vars /\ Fairness

\* Once written to the outbox, a work is eventually settled and its outcome has
\* reached its job, despite lost replies, crashes and duplicated messages.
EventuallySettled ==
  \A w \in Works :
    work[w].status = "pending_enqueue" ~>
      work[w].status \in Terminal /\ ~HasPendingJobUpdate(w)

\* A job whose work was stored does not stay pending: the requester gets an answer.
JobEventuallyAnswered ==
  \A w \in Works : job[w] = "pending" /\ Exists(w) ~> job[w] # "pending"

=============================================================================
