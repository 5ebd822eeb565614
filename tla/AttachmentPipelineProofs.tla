---------------------- MODULE AttachmentPipelineProofs ----------------------
(***************************************************************************)
(* Proofs about AttachmentPipeline, for any number of works, workers,      *)
(* dispatcher runs, messages and faults.                                   *)
(*                                                                         *)
(* The pipeline is first shown to use the work store as any client of it   *)
(* may (Spec => StoreSpec), so that what ScanWorkStoreProofs establishes   *)
(* holds in the pipeline.  Then, one inductive invariant each:             *)
(*   PublicationInv  a file is sent at most once;                          *)
(*   SettleInv       what is left to do has somebody who will do it, and   *)
(*                   the job learns the outcome;                           *)
(*   ClaimInv        claim ids tell the runs apart, so that a rejected     *)
(*                   file was never sent;                                  *)
(*   IndexedInv      a completed publication is in drive and catalog;      *)
(*   VerifiedInv     what is sent is what was described and found clean.   *)
(***************************************************************************)
EXTENDS AttachmentPipeline, ScanWorkStoreProofs

\* What a worker's local variables hold when it is about to take a step.
GoodRun(step, r) ==
  /\ step # "idle" => r.message \in Messages /\ r.work \in Works
  /\ step \in BeforePublishing \cup PublishingSteps \cup {"fail", "release"} =>
       r.claim \in ClaimIds
  /\ step = "describe" => r.descriptor \in Contents
  /\ step \in {"upload", "record_asset"} => r.asset \in Assets
  /\ step = "fail" => r.failure \in WorkerFailureCodes
  /\ step = "update_job" => r.update \in Terminal
  /\ r.publishLeft >= Floor

WorkersOK ==
  /\ pc \in [Workers -> WorkerSteps]
  /\ run \in [Workers -> RunRecord]
  /\ \A p \in Workers : GoodRun(pc[p], run[p])

\* A dispatcher run removes an entry only for a work that no longer waits.
FlushersOK ==
  /\ flusher \in [Flushers -> [step : FlusherSteps, work : Works \cup {None}]]
  /\ \A f \in Flushers :
       /\ flusher[f].step # "idle" => flusher[f].work \in Works
       /\ flusher[f].step = "unindex" =>
            work[flusher[f].work].status \notin {"unborn", "pending_enqueue"}

\* The variables no step depends on for its type.
OthersOK ==
  /\ job \in [Works -> JobStatuses]
  /\ handler \in [Works -> HandlerSteps]
  /\ queue \in [Messages -> QueueSlot]
  /\ asset \in [Assets -> AssetRecord]
  /\ drive \in [Works -> Contents \cup {None}]
  /\ catalog \in [Works -> BOOLEAN]
  /\ uploads \in [Works -> Nat]
  /\ faults \in Nat

PipelineInv == StoreInv /\ WorkersOK /\ FlushersOK /\ OthersOK

LEMMA InvImpliesTypeOK == PipelineInv => TypeOK
  BY DEF PipelineInv, StoreInv, WorkersOK, FlushersOK, OthersOK, TypeOK

-----------------------------------------------------------------------------
(* The local variables of a worker: each way to write them keeps the type. *)

LEMMA FloorInt == Floor \in Int /\ Floor <= 0 /\ PublicationDeadline \in Nat
                    /\ PublishingLease \in Nat /\ ScanDeadline \in Nat
                    /\ QueueVisibility \in Nat /\ Floor >= Floor
  BY TimingAssumption, PipelineTimingAssumption DEF Floor

LEMMA NoRunType == NoRun \in RunRecord /\ NoRun.publishLeft = Floor
  BY FloorInt DEF NoRun, RunRecord

LEMMA StartType ==
  ASSUME NEW r \in RunRecord, NEW m \in Messages, NEW w \in Works,
         NEW i \in 0 .. ScanDeadline, NEW j \in Int
  PROVE  [r EXCEPT !.message = m, !.work = w, !.scanLeft = i, !.publishLeft = j]
           \in RunRecord
  BY FloorInt DEF RunRecord

LEMMA KeepType ==
  ASSUME NEW r \in RunRecord, NEW s \in RunRecord
  PROVE  [r EXCEPT !.message = s.message, !.work = s.work, !.claim = s.claim] \in RunRecord
  <1>1. s.message \in Messages \cup {None} /\ s.work \in Works \cup {None}
          /\ s.claim \in ClaimIds \cup {None}
    BY DEF RunRecord
  <1> QED BY <1>1, FloorInt DEF RunRecord

LEMMA SettlingType ==
  ASSUME NEW p \in Workers, run[p] \in RunRecord
  PROVE  /\ Settling(p) \in RunRecord
         /\ Settling(p).message = run[p].message /\ Settling(p).work = run[p].work
         /\ Settling(p).claim = run[p].claim /\ Settling(p).publishLeft = Floor
  <1>1. Settling(p) \in RunRecord BY NoRunType, KeepType DEF Settling
  <1> QED BY <1>1 DEF Settling, NoRun

LEMMA RunUpdates ==
  ASSUME NEW r \in RunRecord
  PROVE  /\ \A c \in ClaimIds, d \in Contents \cup {None}, a \in Assets \cup {None} :
              [r EXCEPT !.claim = c, !.descriptor = d, !.asset = a] \in RunRecord
         /\ \A c \in Contents : [r EXCEPT !.resource = c, !.descriptor = c] \in RunRecord
         /\ \A c \in Contents \cup {None} : [r EXCEPT !.resource = c] \in RunRecord
         /\ \A a \in Assets : [r EXCEPT !.asset = a] \in RunRecord
         /\ [r EXCEPT !.scanLeft = 0] \in RunRecord
         /\ \A code \in FailureCodes : [r EXCEPT !.failure = code] \in RunRecord
         /\ \A status \in Terminal : [r EXCEPT !.update = status] \in RunRecord
  <1> USE FloorInt DEF RunRecord
  <1>1. \A c \in ClaimIds, d \in Contents \cup {None}, a \in Assets \cup {None} :
              [r EXCEPT !.claim = c, !.descriptor = d, !.asset = a] \in RunRecord
    OBVIOUS
  <1>2. \A c \in Contents : [r EXCEPT !.resource = c, !.descriptor = c] \in RunRecord
    OBVIOUS
  <1>3. \A c \in Contents \cup {None} : [r EXCEPT !.resource = c] \in RunRecord OBVIOUS
  <1>4. \A a \in Assets : [r EXCEPT !.asset = a] \in RunRecord OBVIOUS
  <1>5. [r EXCEPT !.scanLeft = 0] \in RunRecord OBVIOUS
  <1>6. \A code \in FailureCodes : [r EXCEPT !.failure = code] \in RunRecord OBVIOUS
  <1>7. \A status \in Terminal : [r EXCEPT !.update = status] \in RunRecord OBVIOUS
  <1> HIDE DEF RunRecord
  <1> QED BY <1>1, <1>2, <1>3, <1>4, <1>5, <1>6, <1>7

LEMMA RunTimers ==
  ASSUME NEW r \in RunRecord, NEW i \in 0 .. ScanDeadline, NEW j \in Int
  PROVE  [r EXCEPT !.scanLeft = i, !.publishLeft = j] \in RunRecord
  BY FloorInt DEF RunRecord

-----------------------------------------------------------------------------
(* The ways a worker goes on.                                              *)

LEMMA GoWithOK ==
  ASSUME WorkersOK, NEW p \in Workers, NEW step \in WorkerSteps, NEW r \in RunRecord,
         GoodRun(step, r), GoWith(p, step, r)
  PROVE  WorkersOK'
  <1>1. pc' \in [Workers -> WorkerSteps] /\ run' \in [Workers -> RunRecord]
    BY DEF WorkersOK, GoWith
  <1>2. ASSUME NEW q \in Workers PROVE GoodRun(pc'[q], run'[q])
    <2>1. CASE q = p
      <3>1. pc'[q] = step /\ run'[q] = r BY <2>1 DEF WorkersOK, GoWith
      <3> QED BY <3>1
    <2>2. CASE q # p
      <3>1. pc'[q] = pc[q] /\ run'[q] = run[q] BY <2>2 DEF WorkersOK, GoWith
      <3> QED BY <3>1 DEF WorkersOK
    <2> QED BY <2>1, <2>2
  <1>3. \A q \in Workers : GoodRun(pc[q], run[q])' BY <1>2 DEF GoodRun, Floor
  <1> QED BY <1>1, <1>3 DEF WorkersOK

LEMMA GoOK ==
  ASSUME WorkersOK, NEW p \in Workers, NEW step \in WorkerSteps,
         GoodRun(step, run[p]), Go(p, step)
  PROVE  WorkersOK'
  <1>1. run[p] \in RunRecord BY DEF WorkersOK
  <1>2. GoWith(p, step, run[p]) BY DEF WorkersOK, Go, GoWith
  <1> QED BY <1>1, <1>2, GoWithOK

LEMMA FinishOK ==
  ASSUME WorkersOK, NEW p \in Workers, Finish(p)
  PROVE  WorkersOK'
  <1>1. GoodRun("idle", NoRun)
    BY NoRunType, FloorInt DEF GoodRun, BeforePublishing, PublishingSteps
  <1> QED BY <1>1, NoRunType, GoWithOK DEF Finish, WorkerSteps

LEMMA FailWithOK ==
  ASSUME WorkersOK, NEW p \in Workers, NEW code \in WorkerFailureCodes,
         pc[p] \in BeforePublishing \cup PublishingSteps, FailWith(p, code)
  PROVE  WorkersOK'
  <1> DEFINE r == [Settling(p) EXCEPT !.failure = code]
  <1>1. run[p] \in RunRecord /\ GoodRun(pc[p], run[p]) BY DEF WorkersOK
  <1>2. r \in RunRecord BY <1>1, SettlingType, RunUpdates DEF FailureCodes
  <1>3. GoodRun("fail", r)
    BY <1>1, SettlingType, FloorInt
    DEF GoodRun, BeforePublishing, PublishingSteps, RunRecord
  <1>4. GoWith(p, "fail", r) BY DEF FailWith
  <1> HIDE DEF r
  <1> QED BY <1>2, <1>3, <1>4, GoWithOK DEF WorkerSteps

LEMMA RetryOK ==
  ASSUME WorkersOK, NEW p \in Workers, pc[p] \in BeforePublishing, Retry(p)
  PROVE  WorkersOK'
  <1>1. run[p] \in RunRecord /\ GoodRun(pc[p], run[p]) BY DEF WorkersOK
  <1>2. GoodRun("release", Settling(p))
    BY <1>1, SettlingType, FloorInt DEF GoodRun, BeforePublishing, PublishingSteps
  <1> QED BY <1>1, <1>2, SettlingType, GoWithOK DEF Retry, WorkerSteps

LEMMA ReconcileOK ==
  ASSUME WorkersOK, NEW p \in Workers, pc[p] # "idle",
         NEW update \in Terminal \cup {None}, Reconcile(p, update)
  PROVE  WorkersOK'
  <1>1. run[p] \in RunRecord /\ GoodRun(pc[p], run[p]) BY DEF WorkersOK
  <1>2. CASE update = None
    <2>1. GoodRun("ack", Settling(p))
      BY <1>1, SettlingType, FloorInt DEF GoodRun, BeforePublishing, PublishingSteps
    <2> QED BY <1>1, <1>2, <2>1, SettlingType, GoWithOK DEF Reconcile, WorkerSteps
  <1>3. CASE update # None
    <2> DEFINE r == [Settling(p) EXCEPT !.update = update]
    <2>1. r \in RunRecord BY <1>1, <1>3, SettlingType, RunUpdates
    <2>2. GoodRun("update_job", r)
      BY <1>1, <1>3, SettlingType, FloorInt
      DEF GoodRun, BeforePublishing, PublishingSteps, RunRecord
    <2>3. GoWith(p, "update_job", r) BY <1>3 DEF Reconcile
    <2> HIDE DEF r
    <2> QED BY <2>1, <2>2, <2>3, GoWithOK DEF WorkerSteps
  <1> QED BY <1>2, <1>3

\* A call that loses its reply ends the run or releases the claim; both are covered above.
LEMMA AfterErrorOK ==
  ASSUME WorkersOK, NEW p \in Workers
  PROVE  /\ FinishAfterError(p) => WorkersOK'
         /\ pc[p] \in BeforePublishing /\ RetryAfterError(p) => WorkersOK'
  BY FinishOK, RetryOK DEF FinishAfterError, RetryAfterError

-----------------------------------------------------------------------------
(* Every action of a worker.                                               *)

LEMMA ReceiveOK ==
  ASSUME WorkersOK, OthersOK, NEW p \in Workers, NEW m \in Messages, ReceiveMessage(p, m)
  PROVE  WorkersOK'
  <1> DEFINE r == [NoRun EXCEPT !.message = m, !.work = queue[m].work,
                                !.scanLeft = ScanDeadline,
                                !.publishLeft = PublicationDeadline]
  <1>1. queue[m].work \in Works BY DEF ReceiveMessage, OthersOK, QueueSlot
  <1>2. ScanDeadline \in 0 .. ScanDeadline /\ PublicationDeadline \in Int BY FloorInt
  <1>3. r \in RunRecord BY <1>1, <1>2, NoRunType, StartType
  <1>4. r.message = m /\ r.work = queue[m].work /\ r.publishLeft = PublicationDeadline
    BY DEF NoRun
  <1>5. GoWith(p, "claim", r) BY DEF ReceiveMessage
  <1> HIDE DEF r
  <1>6. GoodRun("claim", r)
    BY <1>1, <1>4, FloorInt DEF GoodRun, BeforePublishing, PublishingSteps
  <1> QED BY <1>3, <1>5, <1>6, GoWithOK DEF WorkerSteps

LEMMA ClaimOK ==
  ASSUME WorkersOK, StoreInv, NEW p \in Workers, ClaimWork(p)
  PROVE  WorkersOK'
  <1>1. /\ pc[p] = "claim" /\ run[p] \in RunRecord /\ GoodRun(pc[p], run[p])
        /\ run[p].work \in Works
    BY DEF WorkersOK, GoodRun, ClaimWork, ClaimMissing, ClaimTerminal, ClaimActive,
           ClaimAbandoned, ClaimGranted
  <1>2. work[run[p].work] \in WorkRecord BY <1>1 DEF StoreInv, StoreTypeOK
  <1>3. CASE ClaimMissing(p)
    <2>1. CASE RecoveryActive BY <1>3, <2>1, FinishOK DEF ClaimMissing
    <2>2. CASE ~RecoveryActive
      <3>1. GoodRun("ack", Settling(p))
        BY <1>1, SettlingType, FloorInt DEF GoodRun, BeforePublishing, PublishingSteps
      <3> QED BY <1>1, <1>3, <2>2, <3>1, SettlingType, GoWithOK DEF ClaimMissing, WorkerSteps
    <2> QED BY <2>1, <2>2
  <1>4. CASE ClaimTerminal(p)
    <2>1. work[run[p].work].jobUpdate \in Terminal \cup {None} BY <1>2 DEF WorkRecord
    <2> QED BY <1>1, <1>4, <2>1, ReconcileOK DEF ClaimTerminal
  <1>5. CASE ClaimActive(p) BY <1>5, FinishOK DEF ClaimActive
  <1>6. CASE ClaimAbandoned(p)
    BY <1>1, <1>6, ReconcileOK, AfterErrorOK DEF ClaimAbandoned, Terminal
  <1>7. CASE ClaimGranted(p)
    <2> DEFINE w == run[p].work
    <2>1. CASE FinishAfterError(p) BY <2>1, AfterErrorOK
    <2>2. ASSUME NEW c \in ClaimIds,
                 GoWith(p, FirstStep(w), [run[p] EXCEPT !.claim = c,
                          !.descriptor = work[w].descriptor, !.asset = work[w].asset])
          PROVE  WorkersOK'
      <3> DEFINE r == [run[p] EXCEPT !.claim = c, !.descriptor = work[w].descriptor,
                                     !.asset = work[w].asset]
      <3>1. work[w].descriptor \in Contents \cup {None} /\ work[w].asset \in Assets \cup {None}
        BY <1>2 DEF WorkRecord
      <3>2. r \in RunRecord BY <1>1, <3>1, RunUpdates
      <3>3. /\ r.message = run[p].message /\ r.work = run[p].work /\ r.claim = c
            /\ r.publishLeft = run[p].publishLeft
        BY <1>1 DEF RunRecord
      <3>4. FirstStep(w) \in {"scan", "create_asset", "source"} BY DEF FirstStep
      <3>5. GoodRun(FirstStep(w), r) /\ FirstStep(w) \in WorkerSteps
        BY <1>1, <3>3, <3>4 DEF GoodRun, WorkerSteps, BeforePublishing, PublishingSteps
      <3> HIDE DEF r
      <3>6. GoWith(p, FirstStep(w), r) BY <2>2 DEF r
      <3> QED BY <3>2, <3>5, <3>6, GoWithOK
    <2> QED BY <1>7, <2>1, <2>2 DEF ClaimGranted, FreshClaims
  <1> QED BY <1>3, <1>4, <1>5, <1>6, <1>7 DEF ClaimWork

LEMMA PrepareOK ==
  ASSUME WorkersOK, OthersOK, NEW p \in Workers,
         \/ ReadSource(p) \/ DescribeUpload(p) \/ CreateAsset(p)
         \/ UploadContent(p) \/ RecordAssetId(p)
  PROVE  WorkersOK'
  <1>1. run[p] \in RunRecord /\ GoodRun(pc[p], run[p]) BY DEF WorkersOK
  <1> USE DEF WorkerSteps, BeforePublishing, PublishingSteps, WorkerFailureCodes
  <1>2. CASE ReadSource(p)
    <2>1. ASSUME NEW c \in Contents,
                 GoWith(p, "describe", [run[p] EXCEPT !.resource = c, !.descriptor = c])
          PROVE  WorkersOK'
      <3> DEFINE r == [run[p] EXCEPT !.resource = c, !.descriptor = c]
      <3>1. r \in RunRecord BY <1>1, RunUpdates
      <3>2. GoodRun("describe", r) BY <1>1, <1>2 DEF ReadSource, GoodRun, RunRecord
      <3> HIDE DEF r
      <3>3. GoWith(p, "describe", r) BY <2>1 DEF r
      <3> QED BY <3>1, <3>2, <3>3, GoWithOK
    <2>2. CASE FailWith(p, "validation_failed") BY <1>2, <2>2, FailWithOK DEF ReadSource
    <2> QED BY <1>2, <2>1, <2>2 DEF ReadSource
  <1>3. CASE DescribeUpload(p)
    <2>1. CASE Go(p, "create_asset")
      <3>1. GoodRun("create_asset", run[p]) BY <1>1, <1>3 DEF DescribeUpload, GoodRun
      <3> QED BY <2>1, <3>1, GoOK
    <2>2. CASE RetryAfterError(p) BY <1>3, <2>2, AfterErrorOK DEF DescribeUpload
    <2>3. CASE Finish(p) BY <2>3, FinishOK
    <2> QED BY <1>3, <2>1, <2>2, <2>3 DEF DescribeUpload
  <1>4. CASE CreateAsset(p)
    <2>1. ASSUME NEW a \in Assets, NEW step \in {"upload", "record_asset"},
                 GoWith(p, step, [run[p] EXCEPT !.asset = a])
          PROVE  WorkersOK'
      <3> DEFINE r == [run[p] EXCEPT !.asset = a]
      <3>1. r \in RunRecord BY <1>1, RunUpdates
      <3>2. GoodRun(step, r) BY <1>1, <1>4 DEF CreateAsset, GoodRun, RunRecord
      <3> HIDE DEF r
      <3>3. GoWith(p, step, r) BY <2>1 DEF r
      <3> QED BY <3>1, <3>2, <3>3, GoWithOK
    <2>2. CASE RetryAfterError(p) BY <1>4, <2>2, AfterErrorOK DEF CreateAsset
    <2>3. AssetFor(run[p].work) \subseteq Assets BY DEF AssetFor
    <2> QED BY <1>4, <2>1, <2>2, <2>3 DEF CreateAsset
  <1>5. CASE UploadContent(p)
    <2>1. CASE Go(p, "record_asset")
      <3>1. GoodRun("record_asset", run[p]) BY <1>1, <1>5 DEF UploadContent, GoodRun
      <3> QED BY <2>1, <3>1, GoOK
    <2>2. CASE RetryAfterError(p) BY <1>5, <2>2, AfterErrorOK DEF UploadContent
    <2>3. CASE FailWith(p, "validation_failed") BY <1>5, <2>3, FailWithOK DEF UploadContent
    <2> QED BY <1>5, <2>1, <2>2, <2>3 DEF UploadContent
  <1>6. CASE RecordAssetId(p)
    <2>1. CASE Go(p, "scan")
      <3>1. GoodRun("scan", run[p]) BY <1>1, <1>6 DEF RecordAssetId, GoodRun
      <3> QED BY <2>1, <3>1, GoOK
    <2>2. CASE RetryAfterError(p) BY <1>6, <2>2, AfterErrorOK DEF RecordAssetId
    <2>3. CASE Finish(p) BY <2>3, FinishOK
    <2> QED BY <1>6, <2>1, <2>2, <2>3 DEF RecordAssetId
  <1> QED BY <1>2, <1>3, <1>4, <1>5, <1>6

LEMMA VerifyOK ==
  ASSUME WorkersOK, NEW p \in Workers,
         WaitForScan(p) \/ VerifyDownload(p) \/ BeginPublication(p)
  PROVE  WorkersOK'
  <1>1. run[p] \in RunRecord /\ GoodRun(pc[p], run[p]) BY DEF WorkersOK
  <1> USE DEF WorkerSteps, BeforePublishing, PublishingSteps, WorkerFailureCodes
  <1>2. CASE WaitForScan(p)
    <2>1. ASSUME NEW code \in WorkerFailureCodes, FailWith(p, code) PROVE WorkersOK'
      BY <1>2, <2>1, FailWithOK DEF WaitForScan
    <2>2. CASE Retry(p) BY <1>2, <2>2, RetryOK DEF WaitForScan
    <2>3. CASE GoWith(p, "verify", [run[p] EXCEPT !.scanLeft = 0])
      <3> DEFINE r == [run[p] EXCEPT !.scanLeft = 0]
      <3>1. r \in RunRecord BY <1>1, RunUpdates
      <3>2. GoodRun("verify", r) BY <1>1, <1>2 DEF WaitForScan, GoodRun, RunRecord
      <3> HIDE DEF r
      <3>3. GoWith(p, "verify", r) BY <2>3 DEF r
      <3> QED BY <3>1, <3>2, <3>3, GoWithOK
    <2> QED BY <1>2, <2>1, <2>2, <2>3 DEF WaitForScan
  <1>3. CASE VerifyDownload(p)
    <2>1. ASSUME NEW c \in Contents, GoWith(p, "begin", [run[p] EXCEPT !.resource = c])
          PROVE  WorkersOK'
      <3> DEFINE r == [run[p] EXCEPT !.resource = c]
      <3>1. r \in RunRecord BY <1>1, RunUpdates
      <3>2. GoodRun("begin", r) BY <1>1, <1>3 DEF VerifyDownload, GoodRun, RunRecord
      <3> HIDE DEF r
      <3>3. GoWith(p, "begin", r) BY <2>1 DEF r
      <3> QED BY <3>1, <3>2, <3>3, GoWithOK
    <2>2. CASE FailWith(p, "validation_failed") BY <1>3, <2>2, FailWithOK DEF VerifyDownload
    <2> QED BY <1>3, <2>1, <2>2 DEF VerifyDownload
  <1>4. CASE BeginPublication(p)
    <2>1. CASE GoWith(p, "check", [Settling(p) EXCEPT !.resource = run[p].resource])
      <3> DEFINE r == [Settling(p) EXCEPT !.resource = run[p].resource]
      <3>0. run[p].resource \in Contents \cup {None} BY <1>1 DEF RunRecord
      <3>1. r \in RunRecord BY <1>1, <3>0, SettlingType, RunUpdates
      <3>2. /\ r.message = run[p].message /\ r.work = run[p].work
            /\ r.claim = run[p].claim /\ r.publishLeft = Floor
        BY <1>1, SettlingType DEF RunRecord
      <3> HIDE DEF r
      <3>3. GoodRun("check", r) BY <1>1, <1>4, <3>2, FloorInt DEF BeginPublication, GoodRun
      <3>4. GoWith(p, "check", r) BY <2>1 DEF r
      <3> QED BY <3>1, <3>3, <3>4, GoWithOK
    <2>2. CASE RetryAfterError(p) BY <1>4, <2>2, AfterErrorOK DEF BeginPublication
    <2>3. CASE Finish(p) BY <2>3, FinishOK
    <2> QED BY <1>4, <2>1, <2>2, <2>3 DEF BeginPublication
  <1> QED BY <1>2, <1>3, <1>4

LEMMA PublishOK ==
  ASSUME WorkersOK, NEW p \in Workers,
         CheckTarget(p) \/ UploadFile(p) \/ IndexFile(p) \/ CompensateUpload(p)
  PROVE  WorkersOK'
  <1>1. GoodRun(pc[p], run[p]) BY DEF WorkersOK
  <1> USE DEF WorkerSteps, BeforePublishing, PublishingSteps, WorkerFailureCodes
  <1>2. pc[p] \in PublishingSteps BY DEF CheckTarget, UploadFile, IndexFile, CompensateUpload
  <1>3. ASSUME NEW step \in PublishingSteps, Go(p, step) PROVE WorkersOK'
    <2>1. GoodRun(step, run[p]) BY <1>1, <1>2 DEF GoodRun
    <2> QED BY <1>3, <2>1, GoOK
  <1>4. CASE FailWith(p, "publish_failed") BY <1>2, <1>4, FailWithOK
  <1>5. CASE FinishAfterError(p) BY <1>5, AfterErrorOK
  <1> QED BY <1>3, <1>4, <1>5 DEF CheckTarget, UploadFile, IndexFile, CompensateUpload

LEMMA SettleOK ==
  ASSUME WorkersOK, NEW p \in Workers,
         \/ CompleteWork(p) \/ FailWork(p) \/ ReleaseWork(p) \/ UpdateJob(p)
         \/ ClearUpdate(p) \/ Acknowledge(p)
  PROVE  WorkersOK'
  <1>1. GoodRun(pc[p], run[p]) BY DEF WorkersOK
  <1> USE DEF WorkerSteps, BeforePublishing, PublishingSteps
  <1>2. CASE Finish(p) \/ FinishAfterError(p) BY <1>2, FinishOK, AfterErrorOK
  <1>3. ASSUME NEW update \in Terminal, Reconcile(p, update), pc[p] # "idle" PROVE WorkersOK'
    BY <1>3, ReconcileOK
  <1>4. CASE pc[p] = "update_job" /\ Go(p, "clear_update")
    <2>1. GoodRun("clear_update", run[p]) BY <1>1, <1>4 DEF GoodRun
    <2> QED BY <1>4, <2>1, GoOK
  <1>5. CASE pc[p] = "clear_update" /\ Go(p, "ack")
    <2>1. GoodRun("ack", run[p]) BY <1>1, <1>5 DEF GoodRun
    <2> QED BY <1>5, <2>1, GoOK
  <1> QED
    BY <1>2, <1>3, <1>4, <1>5
    DEF CompleteWork, FailWork, ReleaseWork, UpdateJob, ClearUpdate, Acknowledge, Terminal

LEMMA ErrorOK ==
  ASSUME WorkersOK, NEW p \in Workers,
         TransientError(p) \/ AssetApiRejects(p) \/ SourceGone(p) \/ WorkerCrashes(p)
  PROVE  WorkersOK'
  <1> USE DEF BeforePublishing, PublishingSteps, WorkerFailureCodes
  <1>1. CASE TransientError(p) BY <1>1, AfterErrorOK DEF TransientError
  <1>2. CASE AssetApiRejects(p) BY <1>2, FailWithOK DEF AssetApiRejects
  <1>3. CASE SourceGone(p) BY <1>3, FailWithOK DEF SourceGone
  <1>4. CASE WorkerCrashes(p) BY <1>4, AfterErrorOK DEF WorkerCrashes
  <1> QED BY <1>1, <1>2, <1>3, <1>4

LEMMA WorkerOK ==
  ASSUME WorkersOK, OthersOK, StoreInv, NEW p \in Workers, Worker(p)
  PROVE  WorkersOK'
  BY ReceiveOK, ClaimOK, PrepareOK, VerifyOK, PublishOK, SettleOK, ErrorOK DEF Worker

-----------------------------------------------------------------------------
(* The types of the variables that are not the worker's own.               *)

LEMMA FaultType ==
  ASSUME OthersOK, Fault \/ NoFault
  PROVE  faults' \in Nat
  BY DEF OthersOK, Fault, NoFault

LEMMA SendType ==
  ASSUME OthersOK, NEW w \in Works, Send(w)
  PROVE  queue' \in [Messages -> QueueSlot]
  BY FloorInt DEF OthersOK, Send, FreeSlot, QueueSlot

LEMMA SettleJobType ==
  ASSUME OthersOK, NEW w \in Works, NEW status \in Terminal, SettleJob(w, status)
  PROVE  job' \in [Works -> JobStatuses]
  BY DEF OthersOK, SettleJob, JobStatuses, Terminal

LEMMA HandlerTypes ==
  ASSUME OthersOK, NEW w \in Works, Handler(w)
  PROVE  OthersOK'
  <1>1. handler' \in [Works -> HandlerSteps]
    BY DEF Handler, ConfirmAttachment, HandOffWork, HandlerFailsJob, HandlerEnqueues,
           HandlerMarksEnqueued, HandlerCrashes, HandlerTo, OthersOK, HandlerSteps
  <1>2. job' \in [Works -> JobStatuses]
    BY SettleJobType
    DEF Handler, ConfirmAttachment, HandOffWork, HandlerFailsJob, HandlerEnqueues,
        HandlerMarksEnqueued, HandlerCrashes, CreatePending, OthersOK, JobStatuses, Terminal
  <1>3. queue' \in [Messages -> QueueSlot]
    BY SendType
    DEF Handler, ConfirmAttachment, HandOffWork, HandlerFailsJob, HandlerEnqueues,
        HandlerMarksEnqueued, HandlerCrashes, OthersOK
  <1>4. faults' \in Nat
    BY FaultType
    DEF Handler, ConfirmAttachment, HandOffWork, HandlerFailsJob, HandlerEnqueues,
        HandlerMarksEnqueued, HandlerCrashes
  <1>5. UNCHANGED externalVars
    BY DEF Handler, ConfirmAttachment, HandOffWork, HandlerFailsJob, HandlerEnqueues,
           HandlerMarksEnqueued, HandlerCrashes, handlerUnchanged
  <1> QED BY <1>1, <1>2, <1>3, <1>4, <1>5 DEF OthersOK, externalVars

LEMMA FlusherTypes ==
  ASSUME OthersOK, FlushersOK, NEW f \in Flushers, Flusher(f)
  PROVE  OthersOK'
  <1>1. flusher[f].step # "idle" => flusher[f].work \in Works BY DEF FlushersOK
  <1>2. queue' \in [Messages -> QueueSlot]
    BY <1>1, SendType
    DEF Flusher, ReadOutboxEntry, RemoveStaleEntry, FlusherEnqueues, FlusherMarksEnqueued,
        OthersOK
  <1>3. faults' \in Nat
    <2>1. UNCHANGED faults \/ Fault \/ NoFault
      BY DEF Flusher, ReadOutboxEntry, RemoveStaleEntry, FlusherEnqueues,
             FlusherMarksEnqueued
    <2> QED BY <2>1, FaultType DEF NoFault
  <1>4. UNCHANGED <<job, handler, externalVars>>
    BY DEF Flusher, ReadOutboxEntry, RemoveStaleEntry, FlusherEnqueues,
           FlusherMarksEnqueued, flusherUnchanged
  <1> QED BY <1>2, <1>3, <1>4 DEF OthersOK, externalVars

LEMMA WorkerTypes ==
  ASSUME OthersOK, WorkersOK, NEW p \in Workers, Worker(p)
  PROVE  OthersOK'
  <1>1. run[p] \in RunRecord /\ GoodRun(pc[p], run[p]) BY DEF WorkersOK
  <1>2. pc[p] # "idle" => run[p].work \in Works /\ run[p].message \in Messages
    BY <1>1 DEF GoodRun
  <1>3. faults' \in Nat
    <2>1. UNCHANGED faults \/ Fault \/ NoFault
      BY DEF Worker, ReceiveMessage, ClaimWork, ClaimMissing, ClaimTerminal, ClaimActive,
             ClaimAbandoned, ClaimGranted, ReadSource, DescribeUpload, CreateAsset,
             UploadContent, RecordAssetId, WaitForScan, VerifyDownload, BeginPublication,
             CheckTarget, UploadFile, IndexFile, CompensateUpload, CompleteWork, FailWork,
             ReleaseWork, UpdateJob, ClearUpdate, Acknowledge, TransientError,
             AssetApiRejects, SourceGone, WorkerCrashes, FinishAfterError, RetryAfterError
    <2> QED BY <2>1, FaultType DEF NoFault
  <1>4. CASE UNCHANGED <<job, handler, queue, externalVars>>
    BY <1>3, <1>4 DEF OthersOK, externalVars
  <1>5. ASSUME NEW m \in Messages, ReceiveMessage(p, m) PROVE OthersOK'
    <2>1. queue' \in [Messages -> QueueSlot]
      <3> DEFINE slot == [queue[m] EXCEPT !.hidden = QueueVisibility, !.holder = p]
      <3>1. queue \in [Messages -> QueueSlot] /\ QueueVisibility \in 0 .. QueueVisibility
        BY FloorInt DEF OthersOK
      <3>2. slot \in QueueSlot BY <3>1 DEF QueueSlot
      <3>3. queue' = [queue EXCEPT ![m] = slot] BY <1>5, <3>1 DEF ReceiveMessage
      <3> QED BY <3>1, <3>2, <3>3
    <2> QED BY <1>3, <1>5, <2>1 DEF ReceiveMessage, OthersOK, workerUnchanged, externalVars
  <1>6. CASE CreateAsset(p)
    <2>1. asset' \in [Assets -> AssetRecord]
      BY <1>2, <1>6, ZenonT(60) DEF CreateAsset, OthersOK, AssetRecord
    <2> QED BY <1>3, <1>6, <2>1 DEF CreateAsset, OthersOK, assetCallUnchanged, workerUnchanged
  <1>7. CASE UploadContent(p)
    <2>1. run[p].resource \in Contents \cup {None} BY <1>1 DEF RunRecord
    <2>2. asset' \in [Assets -> AssetRecord]
      BY <1>7, <2>1 DEF UploadContent, OthersOK, AssetRecord
    <2> QED
      BY <1>3, <1>7, <2>2 DEF UploadContent, OthersOK, assetCallUnchanged, workerUnchanged
  <1>8. CASE CheckTarget(p)
    BY <1>3, <1>8 DEF CheckTarget, OthersOK, publisherUnchanged, workerUnchanged
  <1>9. CASE UploadFile(p)
    <2>1. run[p].resource \in Contents \cup {None} BY <1>1 DEF RunRecord
    <2>2. drive' \in [Works -> Contents \cup {None}]
      BY <1>9, <2>1 DEF UploadFile, OthersOK
    <2>3. uploads' \in [Works -> Nat]
      <3>1. uploads \in [Works -> Nat] /\ \A w \in Works : uploads[w] + 1 \in Nat
        BY DEF OthersOK
      <3>2. \E w \in Works : uploads' = [uploads EXCEPT ![w] = uploads[w] + 1]
        BY <1>2, <1>9 DEF UploadFile
      <3> QED BY <3>1, <3>2
    <2> QED
      BY <1>3, <1>9, <2>2, <2>3 DEF UploadFile, OthersOK, publisherUnchanged, workerUnchanged
  <1>10. CASE IndexFile(p)
    <2>1. catalog' \in [Works -> BOOLEAN] BY <1>10 DEF IndexFile, OthersOK
    <2> QED
      BY <1>3, <1>10, <2>1 DEF IndexFile, OthersOK, publisherUnchanged, workerUnchanged
  <1>11. CASE CompensateUpload(p)
    <2>1. drive' \in [Works -> Contents \cup {None}]
      BY <1>11 DEF CompensateUpload, OthersOK
    <2> QED
      BY <1>3, <1>11, <2>1
      DEF CompensateUpload, OthersOK, publisherUnchanged, workerUnchanged
  <1>12. CASE UpdateJob(p)
    <2>1. run[p].update \in Terminal BY <1>1, <1>12 DEF UpdateJob, GoodRun
    <2>2. job' \in [Works -> JobStatuses]
      BY <1>2, <1>12, <2>1, SettleJobType DEF UpdateJob
    <2> QED BY <1>3, <1>12, <2>2 DEF UpdateJob, OthersOK, workerUnchanged, externalVars
  <1>13. CASE Acknowledge(p)
    <2>1. queue' \in [Messages -> QueueSlot]
      <3>1. FreeSlot \in QueueSlot BY FloorInt DEF FreeSlot, QueueSlot
      <3>2. queue \in [Messages -> QueueSlot] BY DEF OthersOK
      <3>3. queue' = queue \/ queue' = [queue EXCEPT ![run[p].message] = FreeSlot]
        BY <1>13 DEF Acknowledge
      <3> QED BY <3>1, <3>2, <3>3
    <2> QED BY <1>3, <1>13, <2>1 DEF Acknowledge, OthersOK, workerUnchanged, externalVars
  <1> QED
    BY <1>4, <1>5, <1>6, <1>7, <1>8, <1>9, <1>10, <1>11, <1>12, <1>13
    DEF Worker, ClaimWork, ClaimMissing, ClaimTerminal, ClaimActive, ClaimAbandoned,
        ClaimGranted, ReadSource, DescribeUpload, RecordAssetId, WaitForScan,
        VerifyDownload, BeginPublication, CompleteWork, FailWork, ReleaseWork, ClearUpdate,
        TransientError, AssetApiRejects, SourceGone, WorkerCrashes, storeCallUnchanged

LEMMA EnvironmentTypes ==
  ASSUME OthersOK, Scanner \/ Tick
  PROVE  OthersOK'
  <1>1. CASE Scanner
    <2>1. asset' \in [Assets -> AssetRecord] BY <1>1 DEF Scanner, OthersOK, AssetRecord
    <2> QED BY <1>1, <2>1 DEF Scanner, OthersOK
  <1>2. CASE Tick
    <2>1. ASSUME NEW m \in Messages
          PROVE  [queue[m] EXCEPT !.hidden = IF @ > 0 THEN @ - 1 ELSE 0] \in QueueSlot
      BY FloorInt DEF OthersOK, QueueSlot
    <2>2. queue' \in [Messages -> QueueSlot] BY <1>2, <2>1 DEF Tick
    <2> QED BY <1>2, <2>2 DEF Tick, OthersOK, externalVars
  <1> QED BY <1>1, <1>2

-----------------------------------------------------------------------------
(* Every step of the pipeline uses the store as a client may.              *)

LEMMA CallIsStoreStep ==
  ASSUME NEW w \in Works, NEW c \in ClaimIds, NEW lag \in Lags, WorkerCall(w, c, lag)
  PROVE  StoreStep(w)
  BY DEF StoreStep

\* A deadline later than the publishing lease bounds nothing.
LEMMA BeginIsCall ==
  ASSUME StoreInv, NEW w \in Works, NEW c \in ClaimIds, NEW lag \in Lags,
         NEW d \in Int, d >= Floor, BeginPublishing(w, c, d, lag)
  PROVE  WorkerCall(w, c, lag)
  <1> DEFINE e == Smaller(d, PublishingLease)
  <1>1. lag \in Nat /\ work[w].ttl \in Int /\ PublishingLease \in Nat
    BY TimingAssumption DEF StoreInv, StoreTypeOK, WorkRecord, Lags
  <1>2. e \in Floor .. PublishingLease BY <1>1, FloorInt DEF Smaller
  <1>3. BoundedLease(w, e, lag) = BoundedLease(w, d, lag)
    BY <1>1, <1>2 DEF BoundedLease, Smaller
  <1> HIDE DEF e
  <1>4. BeginPublishing(w, c, e, lag) BY <1>3 DEF BeginPublishing, CanBeginPublishing
  <1> QED BY <1>2, <1>4 DEF WorkerCall

LEMMA HandlerStore ==
  ASSUME NEW w \in Works, Handler(w)
  PROVE  [StoreNext]_storeVars
  BY DEF Handler, ConfirmAttachment, HandOffWork, HandlerFailsJob, HandlerEnqueues,
         HandlerMarksEnqueued, HandlerCrashes, StoreNext, StoreStep

LEMMA FlusherStore ==
  ASSUME FlushersOK, NEW f \in Flushers, Flusher(f)
  PROVE  [StoreNext]_storeVars
  <1>1. /\ flusher[f].step # "idle" => flusher[f].work \in Works
        /\ flusher[f].step = "unindex" =>
             work[flusher[f].work].status \notin {"unborn", "pending_enqueue"}
    BY DEF FlushersOK
  <1>2. CASE RemoveStaleEntry(f) BY <1>1, <1>2 DEF RemoveStaleEntry, StoreNext, StoreStep
  <1>3. CASE FlusherMarksEnqueued(f)
    BY <1>1, <1>3 DEF FlusherMarksEnqueued, StoreNext, StoreStep
  <1>4. CASE FlusherEnqueues(f) BY <1>4 DEF FlusherEnqueues
  <1>5. ASSUME NEW w \in Works, ReadOutboxEntry(f, w) PROVE UNCHANGED storeVars
    BY <1>5 DEF ReadOutboxEntry
  <1> QED BY <1>2, <1>3, <1>4, <1>5 DEF Flusher

LEMMA WorkerStore ==
  ASSUME StoreInv, WorkersOK, NEW p \in Workers, Worker(p)
  PROVE  [StoreNext]_storeVars
  <1> DEFINE w == run[p].work
             c == run[p].claim
  <1>1. run[p] \in RunRecord /\ GoodRun(pc[p], run[p]) BY DEF WorkersOK
  <1>2. SUFFICES UNCHANGED storeVars \/ (w \in Works /\ StoreStep(w)) BY DEF StoreNext
  <1>3. CASE UNCHANGED storeVars BY <1>3
  <1>4. pc[p] # "idle" => w \in Works BY <1>1 DEF GoodRun
  <1>5. pc[p] \in BeforePublishing \cup PublishingSteps \cup {"fail", "release"} =>
          c \in ClaimIds
    BY <1>1 DEF GoodRun
  <1> HIDE DEF w, c
  <1>6. CASE ClaimAbandoned(p) BY <1>4, <1>6 DEF ClaimAbandoned, StoreStep, w
  <1>7. CASE ClaimGranted(p)
    BY <1>4, <1>7, CallIsStoreStep DEF ClaimGranted, FreshClaims, WorkerCall, w
  <1>8. CASE DescribeUpload(p)
    <2>1. run[p].descriptor \in Contents BY <1>1, <1>8 DEF DescribeUpload, GoodRun
    <2> QED
      BY <1>4, <1>5, <1>8, <2>1, CallIsStoreStep
      DEF DescribeUpload, WorkerCall, BeforePublishing, w, c
  <1>9. CASE RecordAssetId(p)
    <2>1. run[p].asset \in Assets BY <1>1, <1>9 DEF RecordAssetId, GoodRun
    <2> QED
      BY <1>4, <1>5, <1>9, <2>1, CallIsStoreStep
      DEF RecordAssetId, WorkerCall, BeforePublishing, w, c
  <1>10. CASE BeginPublication(p)
    <2>1. run[p].publishLeft \in Int /\ run[p].publishLeft >= Floor
      BY <1>1 DEF GoodRun, RunRecord
    <2> QED
      BY <1>4, <1>5, <1>10, <2>1, BeginIsCall, CallIsStoreStep
      DEF BeginPublication, BeforePublishing, w, c
  <1>11. CASE CompleteWork(p)
    BY <1>4, <1>5, <1>11, CallIsStoreStep DEF CompleteWork, WorkerCall, PublishingSteps, w, c
  <1>12. CASE FailWork(p)
    <2>1. run[p].failure \in WorkerFailureCodes BY <1>1, <1>12 DEF FailWork, GoodRun
    <2> QED
      BY <1>4, <1>5, <1>12, <2>1, CallIsStoreStep DEF FailWork, WorkerCall, w, c
  <1>13. CASE ReleaseWork(p)
    BY <1>4, <1>5, <1>13, CallIsStoreStep DEF ReleaseWork, WorkerCall, w, c
  <1>14. CASE ClearUpdate(p) BY <1>4, <1>14 DEF ClearUpdate, StoreStep, w
  <1> QED
    BY <1>3, <1>6, <1>7, <1>8, <1>9, <1>10, <1>11, <1>12, <1>13, <1>14
    DEF Worker, ReceiveMessage, ClaimWork, ClaimMissing, ClaimTerminal, ClaimActive,
        ReadSource, CreateAsset, UploadContent, WaitForScan, VerifyDownload, CheckTarget,
        UploadFile, IndexFile, CompensateUpload, UpdateJob, Acknowledge, TransientError,
        AssetApiRejects, SourceGone, WorkerCrashes, assetCallUnchanged, publisherUnchanged

LEMMA StoreUse ==
  ASSUME PipelineInv, [Next]_vars
  PROVE  [StoreNext]_storeVars
  <1> USE DEF PipelineInv
  <1>1. CASE UNCHANGED vars BY <1>1 DEF vars
  <1>2. CASE Tick BY <1>2 DEF Tick, StoreNext
  <1>3. CASE Scanner BY <1>3 DEF Scanner
  <1> QED BY <1>1, <1>2, <1>3, HandlerStore, FlusherStore, WorkerStore DEF Next, Steps

-----------------------------------------------------------------------------
(* The invariant of the pipeline.                                          *)

LEMMA PipelineInit == Init => PipelineInv
  <1> SUFFICES ASSUME Init PROVE PipelineInv OBVIOUS
  <1> USE DEF Init
  <1>1. StoreInv BY InitInv
  <1>2. WorkersOK
    BY NoRunType, FloorInt DEF WorkersOK, WorkerSteps, GoodRun, BeforePublishing, PublishingSteps
  <1>3. FlushersOK BY DEF FlushersOK, FlusherSteps
  <1>4. OthersOK
    <2>1. FreeSlot \in QueueSlot BY FloorInt DEF FreeSlot, QueueSlot
    <2> QED BY <2>1 DEF OthersOK, JobStatuses, HandlerSteps, AssetRecord
  <1> QED BY <1>1, <1>2, <1>3, <1>4 DEF PipelineInv

LEMMA TickWorkers ==
  ASSUME WorkersOK, Tick
  PROVE  WorkersOK'
  <1> DEFINE r(p) == [run[p] EXCEPT !.scanLeft = IF run[p].scanLeft > 0
                                                   THEN run[p].scanLeft - 1 ELSE 0,
                                    !.publishLeft = Down(run[p].publishLeft)]
  <1>1. run' = [p \in Workers |-> r(p)] /\ pc' = pc BY DEF Tick
  <1>2. ASSUME NEW p \in Workers PROVE r(p) \in RunRecord /\ GoodRun(pc[p], r(p))
    <2>1. run[p] \in RunRecord /\ GoodRun(pc[p], run[p]) BY DEF WorkersOK
    <2>2. run[p].scanLeft \in 0 .. ScanDeadline /\ run[p].publishLeft \in Int
      BY <2>1 DEF RunRecord
    <2>3. run[p].publishLeft >= Floor BY <2>1 DEF GoodRun
    <2>4. (IF run[p].scanLeft > 0 THEN run[p].scanLeft - 1 ELSE 0) \in 0 .. ScanDeadline
      BY <2>2, FloorInt
    <2>5. Down(run[p].publishLeft) \in Int /\ Down(run[p].publishLeft) >= Floor
      BY <2>2, <2>3, FloorInt DEF Down
    <2>6. r(p) \in RunRecord BY <2>1, <2>4, <2>5, RunTimers
    <2>7. /\ r(p).message = run[p].message /\ r(p).work = run[p].work
          /\ r(p).claim = run[p].claim /\ r(p).descriptor = run[p].descriptor
          /\ r(p).asset = run[p].asset /\ r(p).failure = run[p].failure
          /\ r(p).update = run[p].update
          /\ r(p).publishLeft = Down(run[p].publishLeft)
      BY <2>1 DEF RunRecord
    <2> HIDE DEF r
    <2> QED BY <2>1, <2>5, <2>6, <2>7 DEF GoodRun
  <1> HIDE DEF r
  <1>3. \A p \in Workers : run'[p] = r(p) /\ pc'[p] = pc[p] BY <1>1
  <1>4. \A p \in Workers : GoodRun(pc[p], run[p])' BY <1>2, <1>3 DEF GoodRun, Floor
  <1>5. run' \in [Workers -> RunRecord] BY <1>1, <1>2
  <1>6. pc' \in [Workers -> WorkerSteps] BY <1>1 DEF WorkersOK
  <1> QED BY <1>4, <1>5, <1>6 DEF WorkersOK

LEMMA FlushersStep ==
  ASSUME PipelineInv, [Next]_vars
  PROVE  FlushersOK'
  <1> USE DEF PipelineInv
  <1>1. \A w \in Works : work[w].status \notin {"unborn", "pending_enqueue"} =>
          work'[w].status \notin {"unborn", "pending_enqueue"}
    BY StoreUse, NextShape DEF Moved, StatusMoves
  <1>2. CASE UNCHANGED flusher BY <1>1, <1>2 DEF FlushersOK
  <1>3. ASSUME NEW f \in Flushers, Flusher(f) PROVE FlushersOK'
    <2>0. /\ flusher[f].step # "idle" => flusher[f].work \in Works
          /\ flusher \in [Flushers -> [step : FlusherSteps, work : Works \cup {None}]]
      BY DEF FlushersOK
    <2>1. ASSUME NEW step \in FlusherSteps, NEW w \in Works \cup {None}, FlusherTo(f, step, w),
                 step # "idle" => w \in Works,
                 step = "unindex" => work'[w].status \notin {"unborn", "pending_enqueue"}
          PROVE  FlushersOK'
      BY <1>1, <2>0, <2>1 DEF FlushersOK, FlusherTo
    <2>2. CASE RemoveStaleEntry(f) BY <2>1, <2>2 DEF RemoveStaleEntry, FlusherSteps
    <2>3. CASE FlusherEnqueues(f) BY <2>0, <2>1, <2>3 DEF FlusherEnqueues, FlusherSteps
    <2>4. CASE FlusherMarksEnqueued(f) BY <2>1, <2>4 DEF FlusherMarksEnqueued, FlusherSteps
    <2>5. ASSUME NEW w \in Works, ReadOutboxEntry(f, w) PROVE FlushersOK'
      <3>1. work' = work BY <2>5 DEF ReadOutboxEntry, storeVars
      <3>2. work[w].status \in {"pending_enqueue", "gone"}
        BY <2>5 DEF ReadOutboxEntry, StoreInv, WorkInv, IndexFollowsStatus
      <3> QED BY <2>1, <2>5, <3>1, <3>2 DEF ReadOutboxEntry, FlusherSteps
    <2> QED BY <1>3, <2>2, <2>3, <2>4, <2>5 DEF Flusher
  <1>4. ASSUME NEW w \in Works, Handler(w) PROVE UNCHANGED flusher
    BY <1>4 DEF Handler, ConfirmAttachment, HandOffWork, HandlerFailsJob, HandlerEnqueues,
                HandlerMarksEnqueued, HandlerCrashes, handlerUnchanged
  <1>5. ASSUME NEW p \in Workers, Worker(p) PROVE UNCHANGED flusher
    BY <1>5
    DEF Worker, ReceiveMessage, ClaimWork, ClaimMissing, ClaimTerminal, ClaimActive,
        ClaimAbandoned, ClaimGranted, ReadSource, DescribeUpload, CreateAsset,
        UploadContent, RecordAssetId, WaitForScan, VerifyDownload, BeginPublication,
        CheckTarget, UploadFile, IndexFile, CompensateUpload, CompleteWork, FailWork,
        ReleaseWork, UpdateJob, ClearUpdate, Acknowledge, TransientError, AssetApiRejects,
        SourceGone, WorkerCrashes, storeCallUnchanged, workerUnchanged,
        assetCallUnchanged, publisherUnchanged
  <1>6. CASE Scanner BY <1>2, <1>6 DEF Scanner
  <1>7. CASE Tick BY <1>2, <1>7 DEF Tick
  <1>8. CASE UNCHANGED vars BY <1>2, <1>8 DEF vars
  <1> QED BY <1>2, <1>3, <1>4, <1>5, <1>6, <1>7, <1>8 DEF Next, Steps

LEMMA PipelineStep ==
  ASSUME PipelineInv, [Next]_vars
  PROVE  PipelineInv'
  <1>1. StoreInv' BY StoreUse, StoreNextInv DEF PipelineInv
  <1>2. FlushersOK' BY FlushersStep
  <1>3. WorkersOK'
    <2>1. CASE UNCHANGED <<pc, run>> BY <2>1 DEF PipelineInv, WorkersOK, GoodRun, Floor
    <2>2. ASSUME NEW w \in Works, Handler(w) PROVE UNCHANGED <<pc, run>>
      BY <2>2 DEF Handler, ConfirmAttachment, HandOffWork, HandlerFailsJob,
                  HandlerEnqueues, HandlerMarksEnqueued, HandlerCrashes, handlerUnchanged
    <2>3. ASSUME NEW f \in Flushers, Flusher(f) PROVE UNCHANGED <<pc, run>>
      BY <2>3 DEF Flusher, ReadOutboxEntry, RemoveStaleEntry, FlusherEnqueues,
                  FlusherMarksEnqueued, flusherUnchanged
    <2>4. ASSUME NEW p \in Workers, Worker(p) PROVE WorkersOK'
      BY <2>4, WorkerOK DEF PipelineInv
    <2>5. CASE Scanner BY <2>1, <2>5 DEF Scanner
    <2>6. CASE Tick BY <2>6, TickWorkers DEF PipelineInv
    <2>7. CASE UNCHANGED vars BY <2>1, <2>7 DEF vars
    <2> QED BY <2>1, <2>2, <2>3, <2>4, <2>5, <2>6, <2>7 DEF Next, Steps
  <1>4. OthersOK'
    <2>1. CASE UNCHANGED vars BY <2>1 DEF PipelineInv, OthersOK, vars, externalVars
    <2> QED BY <2>1, HandlerTypes, FlusherTypes, WorkerTypes, EnvironmentTypes
            DEF PipelineInv, Next, Steps
  <1> QED BY <1>1, <1>2, <1>3, <1>4 DEF PipelineInv

\* The invariant holds in every reachable state of the pipeline.
THEOREM PipelineInvariant == Spec => []PipelineInv
  <1>1. Init => PipelineInv BY PipelineInit
  <1>2. PipelineInv /\ [Next]_vars => PipelineInv' BY PipelineStep
  <1> QED BY <1>1, <1>2, PTL DEF Spec

\* All processes of the pipeline together, with their crashes and retries, use the store
\* as its specification lets a client use it.
THEOREM PipelineImplementsStore == Spec => StoreSpec
  <1>1. Init => StoreInit BY DEF Init
  <1>2. PipelineInv /\ [Next]_vars => [StoreNext]_storeVars BY StoreUse
  <1> QED BY <1>1, <1>2, PipelineInvariant, PTL DEF Spec, StoreSpec

\* Every variable of the pipeline stays in its type: no local variable of a worker is
\* read before the step that sets it, and no client passes the store an absent value.
THEOREM PipelineTypeCorrect == Spec => []TypeOK
  BY InvImpliesTypeOK, PipelineInvariant, PTL

-----------------------------------------------------------------------------
(* A file is sent to Graph at most once.  The grant a worker holds while   *)
(* it publishes is the only one its work will ever get; so no two workers  *)
(* publish for one work, and whoever is about to send the file is first.   *)

PublicationInv ==
  /\ \A w \in Works : uploads[w] \in {0, 1} /\ (grants[w] = 0 => uploads[w] = 0)
  /\ \A p \in Workers : pc[p] \in PublishingSteps => grants[run[p].work] # 0
  /\ \A p \in Workers : pc[p] \in {"check", "upload_file"} => uploads[run[p].work] = 0
  /\ \A p, q \in Workers :
       p # q /\ pc[p] \in PublishingSteps /\ pc[q] \in PublishingSteps =>
         run[p].work # run[q].work

\* A step that grants nothing and sends nothing keeps the invariant when the workers that
\* publish after it were publishing before.
LEMMA QuietStep ==
  ASSUME PublicationInv, PipelineInv, UNCHANGED <<grants, uploads>>,
         \A p \in Workers : pc'[p] \in PublishingSteps =>
            /\ pc[p] \in PublishingSteps /\ run'[p].work = run[p].work
            /\ pc'[p] \in {"check", "upload_file"} => pc[p] \in {"check", "upload_file"}
  PROVE  PublicationInv'
  <1>1. (\A w \in Works : uploads[w] \in {0, 1} /\ (grants[w] = 0 => uploads[w] = 0))'
    BY DEF PublicationInv
  <1>2. (\A p \in Workers : pc[p] \in PublishingSteps => grants[run[p].work] # 0)'
    <2> SUFFICES ASSUME NEW p \in Workers, pc'[p] \in PublishingSteps
                 PROVE  grants'[run'[p].work] # 0
      BY DEF PublishingSteps
    <2>1. pc[p] \in PublishingSteps /\ run'[p].work = run[p].work OBVIOUS
    <2>2. grants[run[p].work] # 0 BY <2>1 DEF PublicationInv
    <2> QED BY <2>1, <2>2
  <1>3. (\A p \in Workers : pc[p] \in {"check", "upload_file"} => uploads[run[p].work] = 0)'
    <2> SUFFICES ASSUME NEW p \in Workers, pc'[p] \in {"check", "upload_file"}
                 PROVE  uploads'[run'[p].work] = 0
      OBVIOUS
    <2>1. pc'[p] \in PublishingSteps BY DEF PublishingSteps
    <2>2. pc[p] \in {"check", "upload_file"} /\ run'[p].work = run[p].work BY <2>1
    <2>3. uploads[run[p].work] = 0 BY <2>2 DEF PublicationInv
    <2> QED BY <2>2, <2>3
  <1>4. (\A p, q \in Workers :
          p # q /\ pc[p] \in PublishingSteps /\ pc[q] \in PublishingSteps =>
            run[p].work # run[q].work)'
    <2> SUFFICES ASSUME NEW p \in Workers, NEW q \in Workers, p # q,
                        pc'[p] \in PublishingSteps, pc'[q] \in PublishingSteps
                 PROVE  run'[p].work # run'[q].work
      BY DEF PublishingSteps
    <2>1. /\ pc[p] \in PublishingSteps /\ run'[p].work = run[p].work
          /\ pc[q] \in PublishingSteps /\ run'[q].work = run[q].work
      OBVIOUS
    <2> QED BY <2>1 DEF PublicationInv
  <1> QED BY <1>1, <1>2, <1>3, <1>4 DEF PublicationInv

LEMMA GoEffect ==
  ASSUME PipelineInv, NEW p \in Workers, NEW step, NEW r, GoWith(p, step, r)
  PROVE  /\ pc'[p] = step /\ run'[p] = r
         /\ \A q \in Workers : q # p => pc'[q] = pc[q] /\ run'[q] = run[q]
  BY DEF PipelineInv, WorkersOK, GoWith

\* A worker that goes on publishing its work, or to a step that does not publish.
LEMMA QuietGo ==
  ASSUME PublicationInv, PipelineInv, UNCHANGED <<grants, uploads>>,
         NEW p \in Workers, NEW step, NEW r, GoWith(p, step, r),
         step \in PublishingSteps =>
           /\ pc[p] \in PublishingSteps /\ r.work = run[p].work
           /\ step \in {"check", "upload_file"} => pc[p] \in {"check", "upload_file"}
  PROVE  PublicationInv'
  BY GoEffect, QuietStep

LEMMA QuietLeave ==
  ASSUME PublicationInv, PipelineInv, UNCHANGED <<grants, uploads>>, NEW p \in Workers,
         \/ Finish(p) \/ Retry(p) \/ RetryAfterError(p) \/ FinishAfterError(p)
         \/ \E code \in WorkerFailureCodes : FailWith(p, code)
         \/ \E update \in Terminal \cup {None} : Reconcile(p, update)
  PROVE  PublicationInv'
  <1>1. \E step \in {"idle", "release", "fail", "ack", "update_job"} :
          \E r : GoWith(p, step, r)
    BY DEF Finish, Retry, RetryAfterError, FinishAfterError, FailWith, Reconcile
  <1> QED BY <1>1, QuietGo DEF PublishingSteps

LEMMA QuietStay ==
  ASSUME PublicationInv, PipelineInv, UNCHANGED <<grants, uploads>>, NEW p \in Workers,
         NEW step, Go(p, step),
         step \in PublishingSteps =>
           /\ pc[p] \in PublishingSteps
           /\ step \in {"check", "upload_file"} => pc[p] \in {"check", "upload_file"}
  PROVE  PublicationInv'
  <1>1. GoWith(p, step, run[p]) BY DEF PipelineInv, WorkersOK, Go, GoWith
  <1> QED BY <1>1, QuietGo

LEMMA QuietPreparing ==
  ASSUME PublicationInv, PipelineInv, NEW p \in Workers,
         \/ \E m \in Messages : ReceiveMessage(p, m)
         \/ ReadSource(p) \/ DescribeUpload(p) \/ CreateAsset(p) \/ UploadContent(p)
         \/ RecordAssetId(p) \/ WaitForScan(p) \/ VerifyDownload(p)
  PROVE  PublicationInv'
  <1>1. UNCHANGED <<grants, uploads>>
    BY DEF ReceiveMessage, ReadSource, DescribeUpload, CreateAsset, UploadContent,
           RecordAssetId, WaitForScan, VerifyDownload, RecordUploadDescriptor, RecordAsset,
           storeVars, externalVars, storeCallUnchanged, assetCallUnchanged
  <1>2. \/ \E step \in WorkerSteps \ PublishingSteps : \E r : GoWith(p, step, r)
        \/ \E step \in WorkerSteps \ PublishingSteps : Go(p, step)
        \/ Finish(p) \/ Retry(p) \/ RetryAfterError(p)
        \/ \E code \in WorkerFailureCodes : FailWith(p, code)
    BY DEF ReceiveMessage, ReadSource, DescribeUpload, CreateAsset, UploadContent,
           RecordAssetId, WaitForScan, VerifyDownload, WorkerSteps, BeforePublishing,
           PublishingSteps, WorkerFailureCodes
  <1> QED BY <1>1, <1>2, QuietGo, QuietStay, QuietLeave

LEMMA QuietSettling ==
  ASSUME PublicationInv, PipelineInv, NEW p \in Workers,
         \/ ClaimWork(p) \/ CheckTarget(p) \/ IndexFile(p) \/ CompensateUpload(p)
         \/ CompleteWork(p) \/ FailWork(p) \/ ReleaseWork(p) \/ UpdateJob(p)
         \/ ClearUpdate(p) \/ Acknowledge(p) \/ TransientError(p) \/ AssetApiRejects(p)
         \/ SourceGone(p) \/ WorkerCrashes(p)
  PROVE  PublicationInv'
  <1>1. UNCHANGED <<grants, uploads>>
    BY DEF ClaimWork, ClaimMissing, ClaimTerminal, ClaimActive, ClaimAbandoned, ClaimGranted,
           CheckTarget, IndexFile, CompensateUpload, CompleteWork, FailWork, ReleaseWork,
           UpdateJob, ClearUpdate, Acknowledge, TransientError, AssetApiRejects, SourceGone,
           WorkerCrashes, Claim, AbandonPublication, Complete, Fail, Settle,
           ReleaseForRetry, ClearPendingJobUpdate, storeVars, externalVars,
           storeCallUnchanged, publisherUnchanged
  <1>2. CASE ClaimWork(p)
    <2>1. pc[p] = "claim" /\ run[p].work \in Works
      BY <1>2 DEF PipelineInv, WorkersOK, GoodRun, ClaimWork, ClaimMissing, ClaimTerminal,
                  ClaimActive, ClaimAbandoned, ClaimGranted
    <2>2. work[run[p].work].jobUpdate \in Terminal \cup {None}
      BY <2>1 DEF PipelineInv, StoreInv, StoreTypeOK, WorkRecord
    <2>3. \/ \E step \in WorkerSteps \ PublishingSteps : \E r : GoWith(p, step, r)
          \/ Finish(p) \/ FinishAfterError(p)
          \/ \E update \in Terminal \cup {None} : Reconcile(p, update)
      BY <1>2, <2>2
      DEF ClaimWork, ClaimMissing, ClaimTerminal, ClaimActive, ClaimAbandoned, ClaimGranted,
          FirstStep, WorkerSteps, BeforePublishing, PublishingSteps, Terminal
    <2> QED BY <1>1, <2>3, QuietGo, QuietLeave
  <1>3. CASE CheckTarget(p) \/ IndexFile(p) \/ CompensateUpload(p)
    <2>1. pc[p] \in PublishingSteps BY <1>3 DEF CheckTarget, IndexFile, CompensateUpload,
                                                PublishingSteps
    <2>2. \/ pc[p] = "check" /\ Go(p, "upload_file")
          \/ Go(p, "complete") \/ Go(p, "compensate")
          \/ FailWith(p, "publish_failed") \/ FinishAfterError(p)
      BY <1>3 DEF CheckTarget, IndexFile, CompensateUpload
    <2>3. CASE pc[p] = "check" /\ Go(p, "upload_file") BY <1>1, <2>1, <2>3, QuietStay
    <2>4. CASE Go(p, "complete") BY <1>1, <2>1, <2>4, QuietStay
    <2>5. CASE Go(p, "compensate") BY <1>1, <2>1, <2>5, QuietStay
    <2> QED BY <1>1, <2>2, <2>3, <2>4, <2>5, QuietLeave DEF WorkerFailureCodes
  <1>4. CASE UpdateJob(p) \/ ClearUpdate(p)
    <2>1. Go(p, "clear_update") \/ Go(p, "ack") \/ FinishAfterError(p)
      BY <1>4 DEF UpdateJob, ClearUpdate
    <2>2. CASE Go(p, "clear_update") BY <1>1, <2>2, QuietStay DEF PublishingSteps
    <2>3. CASE Go(p, "ack") BY <1>1, <2>3, QuietStay DEF PublishingSteps
    <2> QED BY <1>1, <2>1, <2>2, <2>3, QuietLeave
  <1>5. CASE \/ CompleteWork(p) \/ FailWork(p) \/ ReleaseWork(p) \/ Acknowledge(p)
             \/ TransientError(p) \/ AssetApiRejects(p) \/ SourceGone(p)
             \/ WorkerCrashes(p)
    <2>1. \/ Finish(p) \/ RetryAfterError(p) \/ FinishAfterError(p)
          \/ \E code \in WorkerFailureCodes : FailWith(p, code)
          \/ \E update \in Terminal \cup {None} : Reconcile(p, update)
      BY <1>5 DEF CompleteWork, FailWork, ReleaseWork, Acknowledge, TransientError,
                  AssetApiRejects, SourceGone, WorkerCrashes, WorkerFailureCodes, Terminal
    <2> QED BY <1>1, <2>1, QuietLeave
  <1> QED BY <1>2, <1>3, <1>4, <1>5

\* The grant is the first of its work, so no other worker publishes it or ever did.
LEMMA BeginPublicationInv ==
  ASSUME PublicationInv, PipelineInv, NEW p \in Workers, BeginPublication(p)
  PROVE  PublicationInv'
  <1> DEFINE w == run[p].work
             r == [Settling(p) EXCEPT !.resource = run[p].resource]
  <1>1. w \in Works /\ run[p] \in RunRecord /\ uploads' = uploads
    BY DEF PipelineInv, WorkersOK, GoodRun, BeginPublication, storeCallUnchanged, externalVars
  <1>2. CASE UNCHANGED storeVars /\ Finish(p)
    BY <1>1, <1>2, QuietLeave DEF storeVars
  <1>3. ASSUME NEW c, NEW deadline, NEW lag, BeginPublishing(w, c, deadline, lag),
               GoWith(p, "check", r) \/ RetryAfterError(p)
        PROVE  PublicationInv'
    <2>1. grants[w] = 0
      BY <1>1, <1>3 DEF PipelineInv, StoreInv, WorkInv, GrantsFollowStatus, BeginPublishing,
                        CanBeginPublishing, OwnsClaim
    <2>2. grants \in [Works -> Nat] BY DEF PipelineInv, StoreInv, StoreTypeOK
    <2>3. grants'[w] = 1 /\ \A v \in Works : v # w => grants'[v] = grants[v]
      BY <1>1, <1>3, <2>1, <2>2 DEF BeginPublishing
    <2>4. uploads[w] = 0 BY <1>1, <2>1 DEF PublicationInv
    <2>5. \A q \in Workers : pc[q] \in PublishingSteps => run[q].work # w
      BY <2>1 DEF PublicationInv
    <2>6. \A q \in Workers : pc[q] \in PublishingSteps => run[q].work \in Works
      BY DEF PipelineInv, WorkersOK, GoodRun, PublishingSteps
    <2>7. r.work = w BY <1>1, SettlingType DEF RunRecord
    <2>8. \/ pc'[p] = "check" /\ run'[p].work = w
          \/ pc'[p] = "release"
      BY <1>3, <2>7, GoEffect DEF RetryAfterError, Retry
    <2>9. \A q \in Workers : q # p => pc'[q] = pc[q] /\ run'[q] = run[q]
      BY <1>3, GoEffect DEF RetryAfterError, Retry
    <2> HIDE DEF w, r
    <2>10. (\A v \in Works : uploads[v] \in {0, 1} /\ (grants[v] = 0 => uploads[v] = 0))'
      BY <1>1, <2>3, <2>4 DEF PublicationInv
    <2>11. ASSUME NEW q \in Workers, pc'[q] \in PublishingSteps
           PROVE  /\ grants'[run'[q].work] # 0
                  /\ pc'[q] \in {"check", "upload_file"} => uploads'[run'[q].work] = 0
                  /\ run'[q].work = w <=> q = p
      <3>1. CASE q = p BY <1>1, <2>3, <2>4, <2>8, <2>11, <3>1 DEF PublishingSteps
      <3>2. CASE q # p
        BY <1>1, <2>3, <2>5, <2>6, <2>9, <2>11, <3>2 DEF PublicationInv
      <3> QED BY <3>1, <3>2
    <2>12. ASSUME NEW q \in Workers, NEW s \in Workers, q # s,
                  pc'[q] \in PublishingSteps, pc'[s] \in PublishingSteps
           PROVE  run'[q].work # run'[s].work
      <3>1. CASE q = p \/ s = p BY <2>11, <2>12, <3>1
      <3>2. CASE q # p /\ s # p BY <2>9, <2>12, <3>2 DEF PublicationInv
      <3> QED BY <3>1, <3>2
    <2>13. {"check", "upload_file"} \subseteq PublishingSteps BY DEF PublishingSteps
    <2>14. PublishingSteps' = PublishingSteps BY DEF PublishingSteps
    <2> QED BY <2>10, <2>11, <2>12, <2>13, <2>14 DEF PublicationInv
  <1> HIDE DEF w, r
  <1> QED BY <1>2, <1>3 DEF BeginPublication, w, r

\* Who sends the file has not sent it before, and goes on to a step that does not send.
LEMMA UploadFileInv ==
  ASSUME PublicationInv, PipelineInv, NEW p \in Workers, UploadFile(p)
  PROVE  PublicationInv'
  <1> DEFINE w == run[p].work
  <1>1. w \in Works /\ pc[p] = "upload_file" /\ pc[p] \in PublishingSteps
    BY DEF PipelineInv, WorkersOK, GoodRun, UploadFile, PublishingSteps
  <1>2. uploads[w] = 0 /\ grants[w] # 0 BY <1>1 DEF PublicationInv
  <1>3. grants' = grants BY DEF UploadFile, publisherUnchanged, storeVars
  <1>4. uploads'[w] = 1 /\ \A v \in Works : v # w => uploads'[v] = uploads[v]
    BY <1>1, <1>2 DEF UploadFile, PipelineInv, OthersOK
  <1>5. \/ pc'[p] = "index" /\ run'[p].work = w
        \/ pc'[p] = "fail"
    <2>1. \/ GoWith(p, "index", run[p])
          \/ GoWith(p, "fail", [Settling(p) EXCEPT !.failure = "publish_failed"])
      BY DEF UploadFile, Go, GoWith, FailWith, PipelineInv, WorkersOK
    <2> QED BY <2>1, GoEffect
  <1>6. \A q \in Workers : q # p => pc'[q] = pc[q] /\ run'[q] = run[q]
    BY DEF UploadFile, Go, GoWith, FailWith, PipelineInv, WorkersOK
  <1>7. \A q \in Workers : q # p /\ pc[q] \in PublishingSteps =>
          run[q].work # w /\ run[q].work \in Works
    BY <1>1 DEF PublicationInv, PipelineInv, WorkersOK, GoodRun, PublishingSteps
  <1> HIDE DEF w
  <1>8. (\A v \in Works : uploads[v] \in {0, 1} /\ (grants[v] = 0 => uploads[v] = 0))'
    BY <1>1, <1>2, <1>3, <1>4 DEF PublicationInv
  <1>9. ASSUME NEW q \in Workers, pc'[q] \in PublishingSteps
        PROVE  /\ grants'[run'[q].work] # 0
               /\ pc'[q] \in {"check", "upload_file"} => uploads'[run'[q].work] = 0
               /\ run'[q].work = w <=> q = p
    <2>1. CASE q = p BY <1>2, <1>3, <1>5, <1>9, <2>1 DEF PublishingSteps
    <2>2. CASE q # p BY <1>3, <1>4, <1>6, <1>7, <1>9, <2>2 DEF PublicationInv
    <2> QED BY <2>1, <2>2
  <1>10. ASSUME NEW q \in Workers, NEW s \in Workers, q # s,
                pc'[q] \in PublishingSteps, pc'[s] \in PublishingSteps
         PROVE  run'[q].work # run'[s].work
    <2>1. CASE q = p \/ s = p BY <1>9, <1>10, <2>1
    <2>2. CASE q # p /\ s # p BY <1>6, <1>10, <2>2 DEF PublicationInv
    <2> QED BY <2>1, <2>2
  <1>11. {"check", "upload_file"} \subseteq PublishingSteps /\ PublishingSteps' = PublishingSteps
    BY DEF PublishingSteps
  <1> QED BY <1>8, <1>9, <1>10, <1>11 DEF PublicationInv

LEMMA PublicationStep ==
  ASSUME PublicationInv, PipelineInv, [Next]_vars
  PROVE  PublicationInv'
  <1>1. CASE UNCHANGED <<grants, uploads, pc, run>> BY <1>1, QuietStep
  <1>2. ASSUME NEW p \in Workers, Worker(p) PROVE PublicationInv'
    BY <1>2, QuietPreparing, QuietSettling, BeginPublicationInv, UploadFileInv DEF Worker
  <1>3. ASSUME NEW w \in Works, Handler(w) PROVE UNCHANGED <<grants, uploads, pc, run>>
    BY <1>3 DEF Handler, ConfirmAttachment, HandOffWork, HandlerFailsJob, HandlerEnqueues,
                HandlerMarksEnqueued, HandlerCrashes, CreateWork, MarkEnqueued, storeVars,
                handlerUnchanged, externalVars
  <1>4. ASSUME NEW f \in Flushers, Flusher(f) PROVE UNCHANGED <<grants, uploads, pc, run>>
    BY <1>4 DEF Flusher, ReadOutboxEntry, RemoveStaleEntry, FlusherEnqueues,
                FlusherMarksEnqueued, MarkEnqueued, DropFromOutbox, storeVars,
                flusherUnchanged, externalVars
  <1>5. CASE Scanner BY <1>1, <1>5 DEF Scanner, storeVars
  <1>6. CASE Tick
    <2>1. ASSUME NEW p \in Workers PROVE run'[p].work = run[p].work
      BY <1>6 DEF Tick, PipelineInv, WorkersOK, RunRecord
    <2>2. UNCHANGED <<grants, uploads, pc>> BY <1>6 DEF Tick, AgeWorks, externalVars
    <2> QED BY <2>1, <2>2, QuietStep
  <1>7. CASE UNCHANGED vars BY <1>1, <1>7 DEF vars, storeVars, externalVars
  <1> QED BY <1>1, <1>2, <1>3, <1>4, <1>5, <1>6, <1>7 DEF Next, Steps

\* A publisher holds a grant, nobody else publishes for its work, and it sends the file
\* only while nobody has.
THEOREM PublicationInvariant == Spec => []PublicationInv
  <1>1. Init => PublicationInv BY DEF Init, StoreInit, PublicationInv, PublishingSteps
  <1>2. PublicationInv /\ PipelineInv /\ [Next]_vars => PublicationInv' BY PublicationStep
  <1> QED BY <1>1, <1>2, PipelineInvariant, PTL DEF Spec

\* The file of a confirmed attachment is sent to Graph at most once, for any number of
\* workers and messages, any leases and any crashes.
THEOREM PublishedAtMostOnce == Spec => []AtMostOnePublication
  <1>1. PublicationInv => AtMostOnePublication BY DEF PublicationInv, AtMostOnePublication
  <1> QED BY <1>1, PublicationInvariant, PTL

-----------------------------------------------------------------------------
USE DEF Lags, Floor, Stored, Terminal, Statuses, WorkerFailureCodes, FailureCodes

(* What is still to be done for a work has somebody who will do it: the    *)
(* outbox before its first message is sent, from then on a message that is *)
(* not acknowledged before the outcome has reached the job.                *)

Queued(w) == \E m \in Messages : queue[m].work = w
Settled(w) == work[w].status \in Terminal /\ work[w].jobUpdate = None

JobKnows(w) ==
  /\ job[w] = "completed" => work[w].status \in {"completed", "gone"}
  /\ job[w] = "failed" /\ handler[w] # "refused" => work[w].status \in {"failed", "gone"}
  /\ Settled(w) => job[w] # "pending"

HandlerKnows(w) ==
  /\ handler[w] \in {"confirm", "create_work"} => work[w].status = "unborn"
  /\ handler[w] \in {"enqueue", "mark"} => work[w].status # "unborn"
  /\ handler[w] = "mark" /\ work[w].status = "pending_enqueue" => Queued(w)

FlusherKnows(f) ==
  /\ flusher[f].step \in {"send", "mark"} => work[flusher[f].work].status # "unborn"
  /\ flusher[f].step = "mark" /\ work[flusher[f].work].status = "pending_enqueue" =>
       Queued(flusher[f].work)

QueueKnows(m) == queue[m].work # None => work[queue[m].work].status # "unborn"

\* A worker acknowledges the message of its work, and only when nothing is left to be done.
WorkerKnows(p) ==
  pc[p] # "idle" =>
    /\ work[run[p].work].status # "unborn"
    /\ queue[run[p].message].holder = p => queue[run[p].message].work = run[p].work
    /\ pc[p] = "update_job" => work[run[p].work].status \in {run[p].update, "gone"}
    /\ pc[p] = "clear_update" =>
         work[run[p].work].status \in Terminal \cup {"gone"} /\ job[run[p].work] # "pending"
    /\ pc[p] = "ack" =>
         \/ Settled(run[p].work)
         \/ /\ work[run[p].work].status = "gone"
            /\ RecoveryActive => job[run[p].work] # "pending"

SettleInv ==
  /\ \A w \in Works : JobKnows(w) /\ HandlerKnows(w) /\ (Unsettled(w) => Queued(w))
  /\ \A f \in Flushers : FlusherKnows(f)
  /\ \A m \in Messages : QueueKnows(m)
  /\ \A p \in Workers : WorkerKnows(p)

\* What a step may do to a record without leaving a delivery to nobody.
Calm(v) ==
  /\ Settled(v)' => Settled(v) \/ job[v] # "pending"
  /\ Settled(v) => Settled(v)' \/ work'[v].status = "gone"
  /\ Unsettled(v)' => Unsettled(v) \/ Queued(v)
  /\ work'[v].status = "unborn" <=> work[v].status = "unborn"
  /\ work'[v].status = "pending_enqueue" => work[v].status = "pending_enqueue"
  /\ work[v].status \in Terminal => work'[v].status \in {work[v].status, "gone"}
  /\ work[v].status = "gone" => work'[v].status = "gone"

Born(v) == work[v].status = "unborn" /\ work'[v].status = "pending_enqueue"

\* The same message, if any, for the same work, and the same step to take.
SameRun(p) ==
  /\ pc'[p] = pc[p] /\ run'[p].work = run[p].work /\ run'[p].message = run[p].message
  /\ run'[p].update = run[p].update
  /\ pc[p] # "idle" /\ queue'[run[p].message].holder = p =>
       /\ queue[run[p].message].holder = p
       /\ queue'[run[p].message].work = queue[run[p].message].work

\* A call of a worker is made on a work that is to be delivered, and what it settles it
\* settles with an update for the job.
LEMMA CallShape ==
  ASSUME StoreInv, NEW w \in Works, NEW c, NEW lag,
         \/ Claim(w, c, lag) \/ AbandonPublication(w, lag)
         \/ \E d : BeginPublishing(w, c, d, lag)
         \/ \E d : RecordUploadDescriptor(w, c, d, lag)
         \/ \E a : RecordAsset(w, c, a, lag)
         \/ ReleaseForRetry(w, c, lag) \/ Complete(w, c, lag)
         \/ \E code : Fail(w, c, code, lag)
  PROVE  /\ \A v \in Works : v # w => work'[v] = work[v]
         /\ work[w].status \in {"queued", "claimed", "publishing"}
         /\ work'[w].status \in {"queued", "claimed", "publishing"} \cup Terminal
         /\ work'[w].status \in Terminal => work'[w].jobUpdate = work'[w].status
  <1> DEFINE Shape ==
        /\ \A v \in Works : v # w => work'[v] = work[v]
        /\ work[w].status \in {"queued", "claimed", "publishing"}
        /\ work'[w].status \in {"queued", "claimed", "publishing"} \cup Terminal
        /\ work'[w].status \in Terminal => work'[w].jobUpdate = work'[w].status
  <1> SUFFICES Shape OBVIOUS
  <1> USE DEF WorkRecord
  <1>0. work \in [Works -> WorkRecord] BY DEF StoreInv, StoreTypeOK
  <1>1. CASE Claim(w, c, lag) BY <1>0, <1>1 DEF Claim, Claimable
  <1>2. CASE AbandonPublication(w, lag) BY <1>0, <1>2 DEF AbandonPublication, Abandonable
  <1>3. ASSUME NEW d, BeginPublishing(w, c, d, lag) PROVE Shape
    BY <1>0, <1>3 DEF BeginPublishing, CanBeginPublishing, OwnsClaim
  <1>4. ASSUME NEW d, RecordUploadDescriptor(w, c, d, lag) PROVE Shape
    BY <1>0, <1>4 DEF RecordUploadDescriptor, CanRecordDescriptor, OwnsClaim
  <1>5. ASSUME NEW a, RecordAsset(w, c, a, lag) PROVE Shape
    BY <1>0, <1>5 DEF RecordAsset, CanRecordAsset, OwnsClaim
  <1>6. CASE ReleaseForRetry(w, c, lag) BY <1>0, <1>6 DEF ReleaseForRetry, OwnsClaim
  <1>7. CASE Complete(w, c, lag)
    BY <1>0, <1>7 DEF Complete, CanComplete, Settle, OwnsPublication
  <1>8. ASSUME NEW code, Fail(w, c, code, lag) PROVE Shape
    <2>1. work[w].status \in {"claimed", "publishing"}
      BY <1>8 DEF Fail, CanFail, OwnsClaim, OwnsPublication
    <2>2. Settle(w, "failed", code) BY <1>8 DEF Fail
    <2>3. /\ \A v \in Works : v # w => work'[v] = work[v]
          /\ work'[w].status = "failed" /\ work'[w].jobUpdate = "failed"
      BY <1>0, <2>2 DEF Settle
    <2> QED BY <2>1, <2>3
  <1> HIDE DEF Shape, WorkRecord
  <1> QED BY <1>1, <1>2, <1>3, <1>4, <1>5, <1>6, <1>7, <1>8

LEMMA SameIsCalm ==
  ASSUME NEW v, work'[v] = work[v]
  PROVE  Calm(v)
  BY DEF Calm, Settled, Unsettled, HasPendingJobUpdate

LEMMA CallIsCalm ==
  ASSUME NEW v, work[v].status \in {"queued", "claimed", "publishing"},
         work'[v].status \in {"queued", "claimed", "publishing"} \cup Terminal,
         work'[v].status \in Terminal => work'[v].jobUpdate = work'[v].status
  PROVE  Calm(v)
  BY NoneAssumption DEF Calm, Settled, Unsettled, HasPendingJobUpdate

LEMMA AgeIsCalm ==
  ASSUME StoreInv, NEW v \in Works, AgeWorks
  PROVE  Calm(v)
  <1>1. work[v] \in WorkRecord /\ work'[v] = Aged(work[v])
    BY DEF StoreInv, StoreTypeOK, AgeWorks
  <1>2. ASSUME work'[v].status = "gone", work[v].status \in Stored PROVE Calm(v)
    BY <1>2 DEF Calm, Settled, Unsettled, HasPendingJobUpdate
  <1>3. ASSUME work'[v].status = work[v].status, work'[v].jobUpdate = work[v].jobUpdate
        PROVE  Calm(v)
    BY <1>3 DEF Calm, Settled, Unsettled, HasPendingJobUpdate
  <1>4. NoRecord("gone").status = "gone" BY DEF NoRecord
  <1> QED BY <1>1, <1>2, <1>3, <1>4, AgedFields

\* Each part of the invariant over a step that is calm for the work it speaks of.
LEMMA JobStill ==
  ASSUME NEW v, JobKnows(v), Calm(v) \/ Born(v), job'[v] = job[v],
         handler[v] = "refused" => handler'[v] = "refused"
  PROVE  JobKnows(v)'
  BY DEF JobKnows, Calm, Born, Settled

LEMMA HandlerStill ==
  ASSUME NEW v, HandlerKnows(v), Calm(v), handler'[v] = handler[v],
         Queued(v) => Queued(v)' \/ work'[v].status # "pending_enqueue"
  PROVE  HandlerKnows(v)'
  BY DEF HandlerKnows, Calm

LEMMA FlusherStill ==
  ASSUME NEW f, FlusherKnows(f), flusher'[f] = flusher[f],
         flusher[f].step # "idle" => flusher[f].work \in Works,
         \A v \in Works : Calm(v) \/ Born(v),
         \A v \in Works : Queued(v) => Queued(v)' \/ work'[v].status # "pending_enqueue"
  PROVE  FlusherKnows(f)'
  <1> SUFFICES ASSUME flusher'[f].step \in {"send", "mark"} PROVE FlusherKnows(f)'
    BY DEF FlusherKnows
  <1>1. PICK v \in Works : v = flusher[f].work OBVIOUS
  <1>2. work[v].status # "unborn" BY <1>1 DEF FlusherKnows
  <1>3. Calm(v) BY <1>2 DEF Born
  <1>4. work'[v].status # "unborn" BY <1>2, <1>3 DEF Calm
  <1>5. flusher[f].step = "mark" /\ work'[v].status = "pending_enqueue" => Queued(v)'
    BY <1>1, <1>3 DEF Calm, FlusherKnows
  <1> QED BY <1>1, <1>4, <1>5 DEF FlusherKnows, Queued

LEMMA WorkerStill ==
  ASSUME NEW p, WorkerKnows(p), SameRun(p), pc[p] # "idle" => run[p].work \in Works,
         \A v \in Works : JobKnows(v) /\ (Calm(v) \/ Born(v)),
         \A v \in Works : job'[v] = job[v] \/ job'[v] # "pending" \/ work[v].status = "unborn",
         pc[p] = "update_job" => run[p].update \in Terminal
  PROVE  WorkerKnows(p)'
  <1> SUFFICES ASSUME pc'[p] # "idle" PROVE WorkerKnows(p)' BY DEF WorkerKnows
  <1>1. PICK v \in Works : v = run[p].work BY DEF SameRun
  <1>2. /\ pc'[p] = pc[p] /\ run'[p].work = v /\ run'[p].message = run[p].message
        /\ run'[p].update = run[p].update
    BY <1>1 DEF SameRun
  <1>3. pc[p] # "idle" BY <1>2
  <1>4. work[v].status # "unborn" BY <1>1, <1>3 DEF WorkerKnows
  <1>5. Calm(v) /\ JobKnows(v) /\ (job[v] # "pending" => job'[v] # "pending")
    BY <1>4 DEF Born
  <1>6. work'[v].status # "unborn" BY <1>4, <1>5 DEF Calm
  <1>7. queue'[run[p].message].holder = p => queue'[run[p].message].work = v
    BY <1>1, <1>3 DEF SameRun, WorkerKnows
  <1>8. pc[p] = "update_job" => work'[v].status \in {run[p].update, "gone"}
    BY <1>1, <1>5 DEF Calm, WorkerKnows
  <1>9. pc[p] = "clear_update" =>
          work'[v].status \in Terminal \cup {"gone"} /\ job'[v] # "pending"
    BY <1>1, <1>5 DEF Calm, WorkerKnows
  <1>10. pc[p] = "ack" => \/ Settled(v)'
                          \/ /\ work'[v].status = "gone"
                             /\ RecoveryActive => job'[v] # "pending"
    <2>1. CASE Settled(v) BY <1>5, <2>1 DEF Calm, JobKnows
    <2>2. CASE ~Settled(v) BY <1>1, <1>5, <2>2 DEF Calm, WorkerKnows, Settled
    <2> QED BY <2>1, <2>2
  <1> QED BY <1>2, <1>6, <1>7, <1>8, <1>9, <1>10 DEF WorkerKnows, Settled

\* A step that is calm for every work, or creates it, keeps the invariant: the job, the
\* handler, a dispatcher run or a worker it moves must know again what the invariant says.
LEMMA SettleStill ==
  ASSUME SettleInv, PipelineInv,
         \A v \in Works : Calm(v) \/ (Born(v) /\ HandlerKnows(v)'),
         \A v \in Works :
           \/ job'[v] = job[v]
           \/ JobKnows(v)' /\ (job'[v] # "pending" \/ work[v].status = "unborn"),
         \A v \in Works :
           \/ handler'[v] = handler[v]
           \/ handler[v] # "refused" /\ HandlerKnows(v)',
         \A v \in Works :
           Queued(v) => \/ Queued(v)'
                        \/ ~Unsettled(v)' /\ work'[v].status # "pending_enqueue",
         \A f \in Flushers : flusher'[f] = flusher[f] \/ FlusherKnows(f)',
         \A m \in Messages :
           queue'[m].work = queue[m].work \/ QueueKnows(m)',
         \A p \in Workers : SameRun(p) \/ WorkerKnows(p)'
  PROVE  SettleInv'
  <1>1. ASSUME NEW v \in Works PROVE (JobKnows(v) /\ HandlerKnows(v))'
    <2>1. JobKnows(v) /\ HandlerKnows(v) BY DEF SettleInv
    <2>2. JobKnows(v)' BY <2>1, JobStill
    <2>3. HandlerKnows(v)' BY <2>1, HandlerStill
    <2> QED BY <2>2, <2>3
  <1>2. ASSUME NEW v \in Works, Unsettled(v)' PROVE Queued(v)'
    <2>1. CASE Calm(v) BY <1>2, <2>1 DEF Calm, SettleInv
    <2>2. CASE Born(v) BY <1>2, <2>2 DEF Born, Unsettled, HasPendingJobUpdate
    <2> QED BY <2>1, <2>2
  <1>3. ASSUME NEW f \in Flushers PROVE FlusherKnows(f)'
    <2>1. flusher[f].step # "idle" => flusher[f].work \in Works
      BY DEF PipelineInv, FlushersOK
    <2> QED BY <2>1, FlusherStill DEF SettleInv
  <1>4. ASSUME NEW m \in Messages PROVE QueueKnows(m)'
    <2>1. CASE queue'[m].work = queue[m].work /\ queue[m].work # None
      <3>1. PICK v \in Works : v = queue[m].work
        BY <2>1 DEF PipelineInv, OthersOK, QueueSlot
      <3>2. work[v].status # "unborn" BY <2>1, <3>1 DEF SettleInv, QueueKnows
      <3>3. work'[v].status # "unborn" BY <3>2 DEF Calm, Born
      <3> QED BY <2>1, <3>1, <3>3 DEF QueueKnows
    <2>2. CASE queue'[m].work = queue[m].work /\ queue[m].work = None BY <2>2 DEF QueueKnows
    <2> QED BY <2>1, <2>2
  <1>5. ASSUME NEW p \in Workers PROVE WorkerKnows(p)'
    <2>1. /\ pc[p] # "idle" => run[p].work \in Works
          /\ pc[p] = "update_job" => run[p].update \in Terminal
      BY DEF PipelineInv, WorkersOK, GoodRun
    <2> QED BY <2>1, WorkerStill DEF SettleInv
  <1> QED BY <1>1, <1>2, <1>3, <1>4, <1>5 DEF SettleInv

-----------------------------------------------------------------------------
(* What a step of a worker does to the workers: it moves one, which ends   *)
(* its run or goes on with the same message, work and, but for a claim,    *)
(* the same claim id.                                                      *)

OthersStay(p) == \A q \in Workers : q # p => pc'[q] = pc[q] /\ run'[q] = run[q]

GoesOn(p) ==
  /\ pc[p] # "idle"
  /\ run'[p].message = run[p].message /\ run'[p].work = run[p].work
  /\ run'[p].claim = run[p].claim

LEMMA WaysOn ==
  ASSUME PipelineInv, NEW p \in Workers, pc[p] # "idle"
  PROVE  /\ Finish(p) => OthersStay(p) /\ pc'[p] = "idle" /\ run'[p] = NoRun
         /\ Retry(p) => OthersStay(p) /\ pc'[p] = "release" /\ GoesOn(p)
         /\ \A code \in FailureCodes : FailWith(p, code) =>
              OthersStay(p) /\ pc'[p] = "fail" /\ run'[p].failure = code /\ GoesOn(p)
         /\ \A step : Go(p, step) =>
              OthersStay(p) /\ pc'[p] = step /\ run'[p] = run[p] /\ GoesOn(p)
         /\ \A update \in Terminal \cup {None} : Reconcile(p, update) =>
              /\ OthersStay(p) /\ GoesOn(p)
              /\ pc'[p] = IF update = None THEN "ack" ELSE "update_job"
              /\ update # None => run'[p].update = update
  <1>1. run[p] \in RunRecord BY DEF PipelineInv, WorkersOK
  <1>2. /\ Settling(p) \in RunRecord
        /\ Settling(p).message = run[p].message /\ Settling(p).work = run[p].work
        /\ Settling(p).claim = run[p].claim
    BY <1>1, SettlingType
  <1>3. ASSUME Finish(p) PROVE OthersStay(p) /\ pc'[p] = "idle" /\ run'[p] = NoRun
    BY <1>3, GoEffect DEF Finish, OthersStay
  <1>4. ASSUME Retry(p) PROVE OthersStay(p) /\ pc'[p] = "release" /\ GoesOn(p)
    BY <1>2, <1>4, GoEffect DEF Retry, OthersStay, GoesOn
  <1>5. ASSUME NEW code \in FailureCodes, FailWith(p, code)
        PROVE  OthersStay(p) /\ pc'[p] = "fail" /\ run'[p].failure = code /\ GoesOn(p)
    <2> DEFINE r == [Settling(p) EXCEPT !.failure = code]
    <2>1. /\ r.message = run[p].message /\ r.work = run[p].work /\ r.claim = run[p].claim
          /\ r.failure = code
      BY <1>2 DEF RunRecord
    <2>2. GoWith(p, "fail", r) BY <1>5 DEF FailWith
    <2> HIDE DEF r
    <2> QED BY <2>1, <2>2, GoEffect DEF OthersStay, GoesOn
  <1>6. ASSUME NEW step, Go(p, step)
        PROVE  OthersStay(p) /\ pc'[p] = step /\ run'[p] = run[p] /\ GoesOn(p)
    BY <1>6 DEF Go, OthersStay, GoesOn, PipelineInv, WorkersOK
  <1>7. ASSUME NEW update \in Terminal \cup {None}, Reconcile(p, update)
        PROVE  /\ OthersStay(p) /\ GoesOn(p)
               /\ pc'[p] = IF update = None THEN "ack" ELSE "update_job"
               /\ update # None => run'[p].update = update
    <2>1. CASE update = None
      BY <1>2, <1>7, <2>1, GoEffect DEF Reconcile, OthersStay, GoesOn
    <2>2. CASE update # None
      <3> DEFINE r == [Settling(p) EXCEPT !.update = update]
      <3>1. /\ r.message = run[p].message /\ r.work = run[p].work
            /\ r.claim = run[p].claim /\ r.update = update
        BY <1>2 DEF RunRecord
      <3>2. GoWith(p, "update_job", r) BY <1>7, <2>2 DEF Reconcile
      <3> HIDE DEF r
      <3> QED BY <2>2, <3>1, <3>2, GoEffect DEF OthersStay, GoesOn
    <2> QED BY <2>1, <2>2
  <1> QED BY <1>3, <1>4, <1>5, <1>6, <1>7

\* The steps that write local variables in their own way.
LEMMA SourceWay ==
  ASSUME PipelineInv, NEW p \in Workers, pc[p] # "idle", NEW step, NEW c \in Contents,
         GoWith(p, step, [run[p] EXCEPT !.resource = c, !.descriptor = c])
  PROVE  /\ OthersStay(p) /\ GoesOn(p) /\ pc'[p] = step
         /\ run'[p].resource = c /\ run'[p].descriptor = c
  <1> DEFINE r == [run[p] EXCEPT !.resource = c, !.descriptor = c]
  <1>1. run[p] \in RunRecord BY DEF PipelineInv, WorkersOK
  <1>3. /\ r.message = run[p].message /\ r.work = run[p].work /\ r.claim = run[p].claim
        /\ r.resource = c /\ r.descriptor = c
    BY <1>1 DEF RunRecord
  <1>4. GoWith(p, step, r) OBVIOUS
  <1> HIDE DEF r
  <1> QED BY <1>3, <1>4, GoEffect DEF OthersStay, GoesOn

LEMMA DownloadWay ==
  ASSUME PipelineInv, NEW p \in Workers, pc[p] # "idle", NEW step, NEW c \in Contents,
         GoWith(p, step, [run[p] EXCEPT !.resource = c])
  PROVE  /\ OthersStay(p) /\ GoesOn(p) /\ pc'[p] = step
         /\ run'[p].resource = c /\ run'[p].descriptor = run[p].descriptor
  <1> DEFINE r == [run[p] EXCEPT !.resource = c]
  <1>1. run[p] \in RunRecord BY DEF PipelineInv, WorkersOK
  <1>3. /\ r.message = run[p].message /\ r.work = run[p].work /\ r.claim = run[p].claim
        /\ r.resource = c /\ r.descriptor = run[p].descriptor
    BY <1>1 DEF RunRecord
  <1>4. GoWith(p, step, r) OBVIOUS
  <1> HIDE DEF r
  <1> QED BY <1>3, <1>4, GoEffect DEF OthersStay, GoesOn

LEMMA AssetWay ==
  ASSUME PipelineInv, NEW p \in Workers, pc[p] # "idle", NEW step, NEW a \in Assets,
         GoWith(p, step, [run[p] EXCEPT !.asset = a])
  PROVE  /\ OthersStay(p) /\ GoesOn(p) /\ pc'[p] = step
         /\ run'[p].asset = a /\ run'[p].descriptor = run[p].descriptor
  <1> DEFINE r == [run[p] EXCEPT !.asset = a]
  <1>1. run[p] \in RunRecord BY DEF PipelineInv, WorkersOK
  <1>3. /\ r.message = run[p].message /\ r.work = run[p].work /\ r.claim = run[p].claim
        /\ r.asset = a /\ r.descriptor = run[p].descriptor
    BY <1>1 DEF RunRecord
  <1>4. GoWith(p, step, r) OBVIOUS
  <1> HIDE DEF r
  <1> QED BY <1>3, <1>4, GoEffect DEF OthersStay, GoesOn

LEMMA ScannedWay ==
  ASSUME PipelineInv, NEW p \in Workers, pc[p] # "idle", NEW step,
         GoWith(p, step, [run[p] EXCEPT !.scanLeft = 0])
  PROVE  /\ OthersStay(p) /\ GoesOn(p) /\ pc'[p] = step
         /\ run'[p].asset = run[p].asset /\ run'[p].descriptor = run[p].descriptor
  <1> DEFINE r == [run[p] EXCEPT !.scanLeft = 0]
  <1>1. run[p] \in RunRecord BY DEF PipelineInv, WorkersOK
  <1>3. /\ r.message = run[p].message /\ r.work = run[p].work /\ r.claim = run[p].claim
        /\ r.asset = run[p].asset /\ r.descriptor = run[p].descriptor
    BY <1>1 DEF RunRecord
  <1>4. GoWith(p, step, r) OBVIOUS
  <1> HIDE DEF r
  <1> QED BY <1>3, <1>4, GoEffect DEF OthersStay, GoesOn

LEMMA GrantWay ==
  ASSUME PipelineInv, NEW p \in Workers, pc[p] # "idle", NEW step,
         GoWith(p, step, [Settling(p) EXCEPT !.resource = run[p].resource])
  PROVE  /\ OthersStay(p) /\ GoesOn(p) /\ pc'[p] = step
         /\ run'[p].resource = run[p].resource
  <1> DEFINE r == [Settling(p) EXCEPT !.resource = run[p].resource]
  <1>1. run[p] \in RunRecord BY DEF PipelineInv, WorkersOK
  <1>2. /\ Settling(p) \in RunRecord
        /\ Settling(p).message = run[p].message /\ Settling(p).work = run[p].work
        /\ Settling(p).claim = run[p].claim
    BY <1>1, SettlingType
  <1>3. /\ r.message = run[p].message /\ r.work = run[p].work /\ r.claim = run[p].claim
        /\ r.resource = run[p].resource
    BY <1>2 DEF RunRecord
  <1>4. GoWith(p, step, r) OBVIOUS
  <1> HIDE DEF r
  <1> QED BY <1>3, <1>4, GoEffect DEF OthersStay, GoesOn

\* A claim goes on with the id it was given.
LEMMA GrantedWay ==
  ASSUME PipelineInv, NEW p \in Workers, pc[p] = "claim", NEW c \in ClaimIds,
         GoWith(p, FirstStep(run[p].work),
                [run[p] EXCEPT !.claim = c, !.descriptor = work[run[p].work].descriptor,
                               !.asset = work[run[p].work].asset])
  PROVE  /\ OthersStay(p) /\ pc'[p] = FirstStep(run[p].work)
         /\ run'[p].message = run[p].message /\ run'[p].work = run[p].work
         /\ run'[p].claim = c /\ run'[p].descriptor = work[run[p].work].descriptor
         /\ run'[p].asset = work[run[p].work].asset
  <1> DEFINE r == [run[p] EXCEPT !.claim = c, !.descriptor = work[run[p].work].descriptor,
                                 !.asset = work[run[p].work].asset]
  <1>1. run[p] \in RunRecord BY DEF PipelineInv, WorkersOK
  <1>2. /\ r.message = run[p].message /\ r.work = run[p].work /\ r.claim = c
        /\ r.descriptor = work[run[p].work].descriptor /\ r.asset = work[run[p].work].asset
    BY <1>1 DEF RunRecord
  <1>3. GoWith(p, FirstStep(run[p].work), r) OBVIOUS
  <1> HIDE DEF r
  <1> QED BY <1>2, <1>3, GoEffect DEF OthersStay

\* Every step of a worker but the receipt of a message and a granted claim.
WorkerGoes(p) ==
  /\ OthersStay(p)
  /\ (pc'[p] = "idle" /\ run'[p] = NoRun) \/ GoesOn(p)

LEMMA ErrorWays ==
  ASSUME PipelineInv, NEW p \in Workers, pc[p] # "idle"
  PROVE  /\ FinishAfterError(p) => WorkerGoes(p) /\ pc'[p] = "idle"
         /\ RetryAfterError(p) => WorkerGoes(p) /\ pc'[p] = "release"
  BY WaysOn DEF FinishAfterError, RetryAfterError, WorkerGoes

LEMMA FetchGoes ==
  ASSUME PipelineInv, NEW p \in Workers,
         \/ ReadSource(p) \/ DescribeUpload(p) \/ CreateAsset(p)
         \/ UploadContent(p) \/ RecordAssetId(p)
  PROVE  WorkerGoes(p) /\ pc'[p] \notin {"update_job", "clear_update", "ack"}
  <1> USE DEF WorkerGoes
  <1>1. CASE ReadSource(p)
    <2>1. ASSUME NEW c \in Contents,
                 GoWith(p, "describe", [run[p] EXCEPT !.resource = c, !.descriptor = c])
          PROVE  OthersStay(p) /\ GoesOn(p) /\ pc'[p] = "describe"
      BY <1>1, <2>1, SourceWay DEF ReadSource
    <2> QED BY <1>1, <2>1, WaysOn DEF ReadSource
  <1>2. CASE DescribeUpload(p) BY <1>2, WaysOn, ErrorWays DEF DescribeUpload
  <1>3. CASE CreateAsset(p)
    <2>1. AssetFor(run[p].work) \subseteq Assets BY DEF AssetFor
    <2>2. ASSUME NEW a \in Assets, NEW step, GoWith(p, step, [run[p] EXCEPT !.asset = a])
          PROVE  OthersStay(p) /\ GoesOn(p) /\ pc'[p] = step
      BY <1>3, <2>2, AssetWay DEF CreateAsset
    <2> QED BY <1>3, <2>1, <2>2, ErrorWays DEF CreateAsset
  <1>4. CASE UploadContent(p) BY <1>4, WaysOn, ErrorWays DEF UploadContent
  <1>5. CASE RecordAssetId(p) BY <1>5, WaysOn, ErrorWays DEF RecordAssetId
  <1> QED BY <1>1, <1>2, <1>3, <1>4, <1>5

LEMMA VerifyGoes ==
  ASSUME PipelineInv, NEW p \in Workers,
         WaitForScan(p) \/ VerifyDownload(p) \/ BeginPublication(p)
  PROVE  WorkerGoes(p) /\ pc'[p] \notin {"update_job", "clear_update", "ack"}
  <1> USE DEF WorkerGoes
  <1>1. CASE WaitForScan(p)
    <2>1. ASSUME GoWith(p, "verify", [run[p] EXCEPT !.scanLeft = 0])
          PROVE  OthersStay(p) /\ GoesOn(p) /\ pc'[p] = "verify"
      BY <1>1, <2>1, ScannedWay DEF WaitForScan
    <2> QED BY <1>1, <2>1, WaysOn DEF WaitForScan
  <1>2. CASE VerifyDownload(p)
    <2>1. ASSUME NEW c \in Contents, GoWith(p, "begin", [run[p] EXCEPT !.resource = c])
          PROVE  OthersStay(p) /\ GoesOn(p) /\ pc'[p] = "begin"
      BY <1>2, <2>1, DownloadWay DEF VerifyDownload
    <2> QED BY <1>2, <2>1, WaysOn DEF VerifyDownload
  <1>3. CASE BeginPublication(p)
    <2>1. ASSUME GoWith(p, "check", [Settling(p) EXCEPT !.resource = run[p].resource])
          PROVE  OthersStay(p) /\ GoesOn(p) /\ pc'[p] = "check"
      BY <1>3, <2>1, GrantWay DEF BeginPublication
    <2> QED BY <1>3, <2>1, WaysOn, ErrorWays DEF BeginPublication
  <1> QED BY <1>1, <1>2, <1>3

LEMMA PublishGoes ==
  ASSUME PipelineInv, NEW p \in Workers,
         CheckTarget(p) \/ UploadFile(p) \/ IndexFile(p) \/ CompensateUpload(p)
  PROVE  WorkerGoes(p) /\ pc'[p] \notin {"update_job", "clear_update", "ack"}
  BY WaysOn, ErrorWays
  DEF CheckTarget, UploadFile, IndexFile, CompensateUpload, WorkerGoes

LEMMA ErrorGoes ==
  ASSUME PipelineInv, NEW p \in Workers,
         TransientError(p) \/ AssetApiRejects(p) \/ SourceGone(p) \/ WorkerCrashes(p)
  PROVE  WorkerGoes(p) /\ pc'[p] \notin {"update_job", "clear_update", "ack"}
  BY WaysOn, ErrorWays
  DEF TransientError, AssetApiRejects, SourceGone, WorkerCrashes, WorkerGoes,
      BeforePublishing

-----------------------------------------------------------------------------
(* The steps of a worker keep SettleInv.                                   *)

LEMMA CallsAreCalm ==
  ASSUME StoreInv, NEW w \in Works, NEW c, NEW lag,
         \/ Claim(w, c, lag) \/ AbandonPublication(w, lag)
         \/ \E d : BeginPublishing(w, c, d, lag)
         \/ \E d : RecordUploadDescriptor(w, c, d, lag)
         \/ \E a : RecordAsset(w, c, a, lag)
         \/ ReleaseForRetry(w, c, lag) \/ Complete(w, c, lag)
         \/ \E code : Fail(w, c, code, lag)
  PROVE  \A v \in Works : Calm(v)
  <1> SUFFICES ASSUME NEW v \in Works PROVE Calm(v) OBVIOUS
  <1>1. CASE v # w BY <1>1, CallShape, SameIsCalm
  <1>2. CASE v = w
    <2>1. /\ work[v].status \in {"queued", "claimed", "publishing"}
          /\ work'[v].status \in {"queued", "claimed", "publishing"} \cup Terminal
          /\ work'[v].status \in Terminal => work'[v].jobUpdate = work'[v].status
      BY <1>2, CallShape
    <2> QED BY <2>1, CallIsCalm
  <1> QED BY <1>1, <1>2

LEMMA UnchangedIsCalm == UNCHANGED storeVars => \A v \in Works : Calm(v)
  BY SameIsCalm DEF storeVars

\* The works a worker may call the store for.
LEMMA OwnWork ==
  ASSUME PipelineInv, NEW p \in Workers, pc[p] # "idle"
  PROVE  run[p].work \in Works /\ run[p].message \in Messages
  BY DEF PipelineInv, WorkersOK, GoodRun

LEMMA OwnStep ==
  ASSUME SettleInv, PipelineInv, NEW p \in Workers, \A v \in Works : Calm(v),
         UNCHANGED <<job, handler, flusher, queue>>, OthersStay(p), WorkerKnows(p)'
  PROVE  SettleInv'
  <1>1. \A q \in Workers : SameRun(q) \/ WorkerKnows(q)' BY DEF OthersStay, SameRun
  <1>2. \A v \in Works : Queued(v) => Queued(v)' BY DEF Queued
  <1>3. \A v \in Works : Calm(v) \/ (Born(v) /\ HandlerKnows(v)') OBVIOUS
  <1>4. \A v \in Works : job'[v] = job[v] /\ handler'[v] = handler[v] OBVIOUS
  <1>5. \A f \in Flushers : flusher'[f] = flusher[f] \/ FlusherKnows(f)' OBVIOUS
  <1>6. \A m \in Messages : queue'[m].work = queue[m].work \/ QueueKnows(m)' OBVIOUS
  <1>7. \A v \in Works : 
          \/ job'[v] = job[v]
          \/ JobKnows(v)' /\ (job'[v] # "pending" \/ work[v].status = "unborn")
    BY <1>4
  <1>8. \A v \in Works :
          \/ handler'[v] = handler[v]
          \/ handler[v] # "refused" /\ HandlerKnows(v)'
    BY <1>4
  <1>9. \A v \in Works :
          Queued(v) => \/ Queued(v)'
                       \/ ~Unsettled(v)' /\ work'[v].status # "pending_enqueue"
    BY <1>2
  <1> QED BY <1>1, <1>3, <1>5, <1>6, <1>7, <1>8, <1>9, SettleStill

LEMMA PlainStep ==
  ASSUME SettleInv, PipelineInv, NEW p \in Workers, \A v \in Works : Calm(v),
         UNCHANGED <<job, handler, flusher, queue>>,
         WorkerGoes(p), pc'[p] \notin {"update_job", "clear_update", "ack"}
  PROVE  SettleInv'
  <1>1. WorkerKnows(p)'
    <2>1. CASE pc'[p] = "idle" BY <2>1 DEF WorkerKnows
    <2>2. CASE GoesOn(p)
      <3>1. WorkerKnows(p) /\ pc[p] # "idle" BY <2>2 DEF GoesOn, SettleInv
      <3>2. PICK v \in Works : v = run[p].work BY <3>1, OwnWork
      <3>3. work'[v].status # "unborn" BY <3>1, <3>2 DEF WorkerKnows, Calm
      <3> QED BY <2>2, <3>1, <3>2, <3>3 DEF GoesOn, WorkerKnows
    <2> QED BY <2>1, <2>2 DEF WorkerGoes
  <1> QED BY <1>1, OwnStep DEF WorkerGoes

LEMMA ReconcileStep ==
  ASSUME SettleInv, PipelineInv, NEW p \in Workers, pc[p] # "idle", \A v \in Works : Calm(v),
         UNCHANGED <<job, handler, flusher, queue>>,
         NEW update \in Terminal \cup {None}, Reconcile(p, update),
         NEW v \in Works, v = run[p].work,
         work'[v].status \in Terminal,
         IF update = None THEN work'[v].jobUpdate = None ELSE work'[v].status = update
  PROVE  SettleInv'
  <1>1. /\ OthersStay(p) /\ GoesOn(p)
        /\ pc'[p] = IF update = None THEN "ack" ELSE "update_job"
        /\ update # None => run'[p].update = update
    BY WaysOn
  <1>2. WorkerKnows(p) BY DEF SettleInv
  <1>3. WorkerKnows(p)' BY <1>1, <1>2 DEF GoesOn, WorkerKnows, Settled
  <1> QED BY <1>1, <1>3, OwnStep

LEMMA PrepareSettles ==
  ASSUME SettleInv, PipelineInv, NEW p \in Workers,
         \/ ReadSource(p) \/ DescribeUpload(p) \/ CreateAsset(p) \/ UploadContent(p)
         \/ RecordAssetId(p) \/ WaitForScan(p) \/ VerifyDownload(p) \/ BeginPublication(p)
  PROVE  SettleInv'
  <1>1. pc[p] # "idle"
    BY DEF ReadSource, DescribeUpload, CreateAsset, UploadContent, RecordAssetId, WaitForScan,
           VerifyDownload, BeginPublication
  <1>2. UNCHANGED <<job, handler, flusher, queue>>
    BY DEF ReadSource, DescribeUpload, CreateAsset, UploadContent, RecordAssetId, WaitForScan,
           VerifyDownload, BeginPublication, storeCallUnchanged, assetCallUnchanged,
           workerUnchanged
  <1>3. PICK w \in Works : w = run[p].work BY <1>1, OwnWork
  <1>4. \/ UNCHANGED storeVars
        \/ \E c, lag : \/ \E d : RecordUploadDescriptor(w, c, d, lag)
                       \/ \E a : RecordAsset(w, c, a, lag)
                       \/ \E d : BeginPublishing(w, c, d, lag)
    BY <1>3 DEF ReadSource, DescribeUpload, CreateAsset, UploadContent, RecordAssetId,
           WaitForScan, VerifyDownload, BeginPublication, assetCallUnchanged
  <1>5. \A v \in Works : Calm(v)
    BY <1>4, CallsAreCalm, UnchangedIsCalm DEF PipelineInv
  <1> QED BY <1>2, <1>5, FetchGoes, VerifyGoes, PlainStep

LEMMA PublishSettles ==
  ASSUME SettleInv, PipelineInv, NEW p \in Workers,
         \/ CheckTarget(p) \/ UploadFile(p) \/ IndexFile(p) \/ CompensateUpload(p)
         \/ TransientError(p) \/ AssetApiRejects(p) \/ SourceGone(p) \/ WorkerCrashes(p)
  PROVE  SettleInv'
  <1>1. UNCHANGED <<storeVars, job, handler, flusher, queue>>
    BY DEF CheckTarget, UploadFile, IndexFile, CompensateUpload, TransientError,
           AssetApiRejects, SourceGone, WorkerCrashes, storeCallUnchanged,
           publisherUnchanged, workerUnchanged
  <1> QED BY <1>1, UnchangedIsCalm, PublishGoes, ErrorGoes, PlainStep

LEMMA ClaimSettles ==
  ASSUME SettleInv, PipelineInv, NEW p \in Workers, ClaimWork(p)
  PROVE  SettleInv'
  <1>1. pc[p] = "claim" /\ UNCHANGED <<job, handler, flusher, queue>>
    BY DEF ClaimWork, ClaimMissing, ClaimTerminal, ClaimActive, ClaimAbandoned, ClaimGranted,
           storeCallUnchanged
  <1>2. PICK w \in Works : w = run[p].work BY <1>1, OwnWork
  <1>3. WorkerKnows(p) /\ work[w].status # "unborn"
    BY <1>1, <1>2 DEF SettleInv, WorkerKnows
  <1>4. CASE ClaimMissing(p)
    <2>1. \A v \in Works : Calm(v) BY <1>4, UnchangedIsCalm DEF ClaimMissing
    <2>2. CASE Finish(p)
      BY <1>1, <2>1, <2>2, WaysOn, PlainStep DEF WorkerGoes
    <2>3. CASE ~RecoveryActive /\ GoWith(p, "ack", Settling(p))
      <3>1. work'[w].status = "gone"
        BY <1>2, <1>3, <1>4
        DEF ClaimMissing, Exists, storeVars, PipelineInv, StoreInv, StoreTypeOK, WorkRecord
      <3>2. Reconcile(p, None) BY <2>3 DEF Reconcile
      <3>3. OthersStay(p) /\ GoesOn(p) /\ pc'[p] = "ack" BY <1>1, <3>2, WaysOn
      <3>4. WorkerKnows(p)' BY <1>2, <1>3, <2>3, <3>1, <3>3, <1>1 DEF GoesOn, WorkerKnows
      <3> QED BY <1>1, <2>1, <3>3, <3>4, OwnStep
    <2> QED BY <1>4, <2>2, <2>3 DEF ClaimMissing
  <1>5. CASE ClaimTerminal(p)
    <2>1. \A v \in Works : Calm(v) BY <1>5, UnchangedIsCalm DEF ClaimTerminal
    <2>2. work' = work /\ work[w].status \in Terminal /\ Reconcile(p, work[w].jobUpdate)
      BY <1>2, <1>5 DEF ClaimTerminal, storeVars
    <2>3. /\ work[w].jobUpdate \in Terminal \cup {None}
          /\ work[w].jobUpdate # None => work[w].jobUpdate = work[w].status
      BY DEF PipelineInv, StoreInv, StoreTypeOK, WorkRecord, WorkInv, OutcomeFollowsStatus
    <2> QED BY <1>1, <1>2, <2>1, <2>2, <2>3, ReconcileStep
  <1>6. CASE ClaimActive(p)
    BY <1>1, <1>6, UnchangedIsCalm, WaysOn, PlainStep DEF ClaimActive, WorkerGoes
  <1>7. CASE ClaimAbandoned(p)
    <2>1. PICK lag : AbandonPublication(w, lag) BY <1>2, <1>7 DEF ClaimAbandoned
    <2>2. \A v \in Works : Calm(v) BY <2>1, CallsAreCalm DEF PipelineInv
    <2>3. work'[w].status = "failed"
      BY <2>1 DEF AbandonPublication, PipelineInv, StoreInv, StoreTypeOK, WorkRecord
    <2>4. CASE Reconcile(p, "failed")
      BY <1>1, <1>2, <2>2, <2>3, <2>4, NoneAssumption, ReconcileStep
    <2>5. CASE FinishAfterError(p) BY <1>1, <2>2, <2>5, ErrorWays, PlainStep
    <2> QED BY <1>7, <2>4, <2>5 DEF ClaimAbandoned
  <1>8. CASE ClaimGranted(p)
    <2>1. PICK lag \in Lags, c \in FreshClaims :
            /\ Claim(w, c, lag)
            /\ \/ GoWith(p, FirstStep(run[p].work),
                         [run[p] EXCEPT !.claim = c,
                                        !.descriptor = work[run[p].work].descriptor,
                                        !.asset = work[run[p].work].asset])
               \/ FinishAfterError(p)
      BY <1>2, <1>8 DEF ClaimGranted
    <2>2. \A v \in Works : Calm(v) BY <2>1, CallsAreCalm DEF PipelineInv
    <2>3. CASE FinishAfterError(p) BY <1>1, <2>2, <2>3, ErrorWays, PlainStep
    <2>4. CASE ~FinishAfterError(p)
      <3>1. /\ OthersStay(p) /\ pc'[p] = FirstStep(run[p].work)
            /\ run'[p].message = run[p].message /\ run'[p].work = run[p].work
        BY <1>1, <2>1, <2>4, GrantedWay DEF FreshClaims
      <3>2. pc'[p] \in {"scan", "create_asset", "source"} BY <3>1 DEF FirstStep
      <3>3. work'[w].status # "unborn" BY <1>3, <2>2 DEF Calm
      <3>4. WorkerKnows(p)' BY <1>1, <1>2, <1>3, <3>1, <3>2, <3>3 DEF WorkerKnows
      <3> QED BY <1>1, <2>2, <3>1, <3>4, OwnStep
    <2> QED BY <2>3, <2>4
  <1> QED BY <1>4, <1>5, <1>6, <1>7, <1>8 DEF ClaimWork

LEMMA OutcomeSettles ==
  ASSUME SettleInv, PipelineInv, NEW p \in Workers,
         CompleteWork(p) \/ FailWork(p) \/ ReleaseWork(p)
  PROVE  SettleInv'
  <1>1. pc[p] # "idle" /\ UNCHANGED <<job, handler, flusher, queue>>
    BY DEF CompleteWork, FailWork, ReleaseWork, storeCallUnchanged
  <1>2. PICK w \in Works : w = run[p].work BY <1>1, OwnWork
  <1>3. \/ UNCHANGED storeVars
        \/ \E c, lag : \/ Complete(w, c, lag) \/ ReleaseForRetry(w, c, lag)
                       \/ \E code : Fail(w, c, code, lag)
    BY <1>2 DEF CompleteWork, FailWork, ReleaseWork
  <1>4. \A v \in Works : Calm(v)
    BY <1>3, CallsAreCalm, UnchangedIsCalm DEF PipelineInv
  <1>5. CASE Finish(p) \/ FinishAfterError(p)
    BY <1>1, <1>4, <1>5, WaysOn, ErrorWays, PlainStep DEF WorkerGoes
  <1>6. ASSUME NEW lag, Complete(w, run[p].claim, lag), Reconcile(p, "completed")
        PROVE  SettleInv'
    <2>1. work'[w].status = "completed"
      BY <1>6 DEF Complete, Settle, PipelineInv, StoreInv, StoreTypeOK, WorkRecord
    <2> QED BY <1>1, <1>2, <1>4, <1>6, <2>1, NoneAssumption, ReconcileStep
  <1>7. ASSUME NEW lag, Fail(w, run[p].claim, run[p].failure, lag), Reconcile(p, "failed")
        PROVE  SettleInv'
    <2>1. Settle(w, "failed", run[p].failure) BY <1>7 DEF Fail
    <2>2. work'[w].status = "failed"
      BY <2>1 DEF Settle, PipelineInv, StoreInv, StoreTypeOK, WorkRecord
    <2> QED BY <1>1, <1>2, <1>4, <1>7, <2>2, NoneAssumption, ReconcileStep
  <1> QED BY <1>2, <1>5, <1>6, <1>7 DEF CompleteWork, FailWork, ReleaseWork

\* The outcome reaches the job while the record still asks for it.
LEMMA UpdateJobSettles ==
  ASSUME SettleInv, PipelineInv, NEW p \in Workers, UpdateJob(p)
  PROVE  SettleInv'
  <1>1. pc[p] = "update_job" /\ UNCHANGED <<storeVars, handler, flusher, queue>>
    BY DEF UpdateJob, workerUnchanged
  <1>2. PICK w \in Works : w = run[p].work BY <1>1, OwnWork
  <1>3. /\ WorkerKnows(p) /\ work[w].status \in {run[p].update, "gone"}
        /\ run[p].update \in Terminal
    BY <1>1, <1>2 DEF SettleInv, WorkerKnows, PipelineInv, WorkersOK, GoodRun
  <1>4. job' = IF job[w] = "pending" THEN [job EXCEPT ![w] = run[p].update] ELSE job
    BY <1>2 DEF UpdateJob, SettleJob
  <1>5. /\ \A v \in Works : v # w => job'[v] = job[v]
        /\ job'[w] = IF job[w] = "pending" THEN run[p].update ELSE job[w]
    BY <1>4 DEF PipelineInv, OthersOK
  <1>6. job'[w] # "pending" BY <1>3, <1>5
  <1>7. JobKnows(w)'
    <2>1. JobKnows(w) BY DEF SettleInv
    <2> QED BY <1>1, <1>3, <1>5, <2>1 DEF JobKnows, Settled, storeVars
  <1>8. /\ OthersStay(p)
        /\ \/ pc'[p] = "idle"
           \/ pc'[p] = "clear_update" /\ GoesOn(p)
    BY <1>1, WaysOn, ErrorWays DEF UpdateJob, WorkerGoes
  <1>9. WorkerKnows(p)'
    BY <1>1, <1>2, <1>3, <1>6, <1>8 DEF WorkerKnows, GoesOn, storeVars
  <1>10. \A q \in Workers : SameRun(q) \/ WorkerKnows(q)'
    BY <1>1, <1>8, <1>9 DEF OthersStay, SameRun
  <1>11. \A v \in Works :
           \/ job'[v] = job[v]
           \/ JobKnows(v)' /\ (job'[v] # "pending" \/ work[v].status = "unborn")
    BY <1>5, <1>6, <1>7
  <1>12. \A v \in Works : Calm(v) BY <1>1, UnchangedIsCalm
  <1>13. \A v \in Works : Queued(v) => Queued(v)' BY <1>1 DEF Queued
  <1>14. /\ \A v \in Works : handler'[v] = handler[v]
         /\ \A f \in Flushers : flusher'[f] = flusher[f]
         /\ \A m \in Messages : queue'[m].work = queue[m].work
    BY <1>1
  <1> QED BY <1>10, <1>11, <1>12, <1>13, <1>14, SettleStill

\* The record is cleared of its update only when its job has been told.
LEMMA ClearUpdateSettles ==
  ASSUME SettleInv, PipelineInv, NEW p \in Workers, ClearUpdate(p)
  PROVE  SettleInv'
  <1>1. pc[p] = "clear_update" /\ UNCHANGED <<job, handler, flusher, queue>>
    BY DEF ClearUpdate, storeCallUnchanged
  <1>2. PICK w \in Works : w = run[p].work BY <1>1, OwnWork
  <1>3. /\ WorkerKnows(p) /\ job[w] # "pending"
        /\ work[w].status \in Terminal \cup {"gone"}
    BY <1>1, <1>2 DEF SettleInv, WorkerKnows
  <1>4. /\ \A v \in Works : v # w => work'[v] = work[v]
        /\ work'[w].status = work[w].status
        /\ Settled(w)' \/ work'[w].status = "gone"
    <2>1. CASE ClearPendingJobUpdate(w)
      BY <2>1
      DEF ClearPendingJobUpdate, HasPendingJobUpdate, Settled, PipelineInv, StoreInv,
          StoreTypeOK, WorkRecord
    <2>2. CASE ~HasPendingJobUpdate(w) /\ UNCHANGED storeVars
      BY <1>3, <2>2 DEF HasPendingJobUpdate, Settled, storeVars
    <2> QED BY <1>2, <2>1, <2>2 DEF ClearUpdate
  <1>5. Calm(w) BY <1>3, <1>4 DEF Calm, Settled, Unsettled, HasPendingJobUpdate
  <1>6. \A v \in Works : Calm(v) BY <1>4, <1>5, SameIsCalm
  <1>7. /\ OthersStay(p)
        /\ \/ pc'[p] = "idle"
           \/ pc'[p] = "ack" /\ GoesOn(p)
    BY <1>1, WaysOn, ErrorWays DEF ClearUpdate, WorkerGoes
  <1>8. WorkerKnows(p)'
    <2>1. work'[w].status # "unborn" BY <1>3, <1>4
    <2> QED BY <1>1, <1>2, <1>3, <1>4, <1>7, <2>1 DEF WorkerKnows, GoesOn, Settled
  <1> QED BY <1>1, <1>6, <1>7, <1>8, OwnStep

\* The slot that becomes free held the message of the worker's own work.
LEMMA AcknowledgeSettles ==
  ASSUME SettleInv, PipelineInv, NEW p \in Workers, Acknowledge(p)
  PROVE  SettleInv'
  <1>1. pc[p] = "ack" /\ UNCHANGED <<storeVars, job, handler, flusher>> /\ Finish(p)
    BY DEF Acknowledge, workerUnchanged
  <1>2. PICK w \in Works, m \in Messages : w = run[p].work /\ m = run[p].message
    BY <1>1, OwnWork
  <1>3. /\ WorkerKnows(p)
        /\ Settled(w) \/ work[w].status = "gone"
        /\ queue[m].holder = p => queue[m].work = w
    BY <1>1, <1>2 DEF SettleInv, WorkerKnows
  <1>4. OthersStay(p) /\ pc'[p] = "idle" BY <1>1, WaysOn
  <1>5. queue' = IF queue[m].holder = p THEN [queue EXCEPT ![m] = FreeSlot] ELSE queue
    BY <1>2 DEF Acknowledge
  <1>6. \A n \in Messages :
          queue'[n] = queue[n] \/ (queue'[n] = FreeSlot /\ queue[n].work = w)
    BY <1>3, <1>5 DEF PipelineInv, OthersOK
  <1>7. ~Unsettled(w)' /\ work'[w].status # "pending_enqueue"
    BY <1>1, <1>3, NoneAssumption DEF Settled, Unsettled, HasPendingJobUpdate, storeVars
  <1>8. \A v \in Works :
          Queued(v) => \/ Queued(v)'
                       \/ ~Unsettled(v)' /\ work'[v].status # "pending_enqueue"
    BY <1>6, <1>7 DEF Queued
  <1>9. \A n \in Messages : queue'[n].work = queue[n].work \/ QueueKnows(n)'
    BY <1>6 DEF QueueKnows, FreeSlot
  <1>10. ASSUME NEW q \in Workers PROVE SameRun(q) \/ WorkerKnows(q)'
    <2>1. CASE q = p BY <1>4, <2>1 DEF WorkerKnows
    <2>2. CASE q # p
      <3>1. pc'[q] = pc[q] /\ run'[q] = run[q] BY <1>4, <2>2 DEF OthersStay
      <3>2. pc[q] # "idle" => run[q].message \in Messages BY OwnWork
      <3>3. pc[q] # "idle" => queue'[run[q].message] \in {queue[run[q].message], FreeSlot}
        BY <1>6, <3>2
      <3>4. FreeSlot.holder # q BY ActorAssumption DEF FreeSlot
      <3> QED BY <3>1, <3>3, <3>4 DEF SameRun
    <2> QED BY <2>1, <2>2
  <1>11. \A v \in Works : Calm(v) BY <1>1, UnchangedIsCalm
  <1>12. /\ \A v \in Works : job'[v] = job[v] /\ handler'[v] = handler[v]
         /\ \A f \in Flushers : flusher'[f] = flusher[f]
    BY <1>1
  <1> QED BY <1>8, <1>9, <1>10, <1>11, <1>12, SettleStill

\* A later receive takes the message from the worker that held it before.
LEMMA ReceiveSettles ==
  ASSUME SettleInv, PipelineInv, NEW p \in Workers, NEW m \in Messages, ReceiveMessage(p, m)
  PROVE  SettleInv'
  <1>1. UNCHANGED <<storeVars, job, handler, flusher>> BY DEF ReceiveMessage, workerUnchanged
  <1>2. PICK w \in Works : w = queue[m].work
    BY DEF ReceiveMessage, PipelineInv, OthersOK, QueueSlot
  <1>3. /\ \A n \in Messages : n # m => queue'[n] = queue[n]
        /\ queue'[m].work = w /\ queue'[m].holder = p
    BY <1>2 DEF ReceiveMessage, PipelineInv, OthersOK, QueueSlot
  <1>4. OthersStay(p) /\ pc'[p] = "claim" /\ run'[p].work = w /\ run'[p].message = m
    <2> DEFINE r == [NoRun EXCEPT !.message = m, !.work = queue[m].work,
                                  !.scanLeft = ScanDeadline,
                                  !.publishLeft = PublicationDeadline]
    <2>1. r.message = m /\ r.work = queue[m].work BY DEF NoRun
    <2>2. GoWith(p, "claim", r) BY DEF ReceiveMessage
    <2> HIDE DEF r
    <2> QED BY <1>2, <2>1, <2>2, GoEffect DEF OthersStay
  <1>5. work'[w].status # "unborn"
    BY <1>1, <1>2, NoneAssumption, ActorAssumption DEF SettleInv, QueueKnows, storeVars
  <1>6. WorkerKnows(p)' BY <1>3, <1>4, <1>5 DEF WorkerKnows
  <1>7. ASSUME NEW q \in Workers PROVE SameRun(q) \/ WorkerKnows(q)'
    <2>1. CASE q = p BY <1>6, <2>1
    <2>2. CASE q # p
      <3>1. pc'[q] = pc[q] /\ run'[q] = run[q] BY <1>4, <2>2 DEF OthersStay
      <3>2. pc[q] # "idle" => run[q].message \in Messages BY OwnWork
      <3> QED BY <1>3, <2>2, <3>1, <3>2 DEF SameRun
    <2> QED BY <2>1, <2>2
  <1>8. \A n \in Messages : queue'[n].work = queue[n].work BY <1>2, <1>3
  <1>9. \A v \in Works : Queued(v) => Queued(v)' BY <1>8 DEF Queued
  <1>10. \A v \in Works : Calm(v) BY <1>1, UnchangedIsCalm
  <1>11. /\ \A v \in Works : job'[v] = job[v] /\ handler'[v] = handler[v]
         /\ \A f \in Flushers : flusher'[f] = flusher[f]
    BY <1>1
  <1> QED BY <1>7, <1>8, <1>9, <1>10, <1>11, SettleStill

LEMMA WorkerSettles ==
  ASSUME SettleInv, PipelineInv, NEW p \in Workers, Worker(p)
  PROVE  SettleInv'
  BY PrepareSettles, PublishSettles, ClaimSettles, OutcomeSettles, UpdateJobSettles,
     ClearUpdateSettles, AcknowledgeSettles, ReceiveSettles DEF Worker

-----------------------------------------------------------------------------
(* The steps of the handler, the dispatcher and the environment.           *)

\* A message is sent into a free slot, which no worker holds.
LEMMA SendEffect ==
  ASSUME PipelineInv, NEW w \in Works, work[w].status # "unborn", Send(w), work' = work,
         UNCHANGED <<pc, run>>
  PROVE  /\ Queued(w)' /\ \A v \in Works : Queued(v) => Queued(v)'
         /\ \A m \in Messages : queue'[m].work = queue[m].work \/ QueueKnows(m)'
         /\ \A p \in Workers : SameRun(p)
  <1>1. PICK m \in Messages :
          /\ queue[m] = FreeSlot
          /\ queue' = [queue EXCEPT ![m] = [FreeSlot EXCEPT !.work = w]]
    BY DEF Send
  <1>2. /\ queue'[m].work = w /\ queue'[m].holder = None /\ queue[m].work = None
        /\ \A n \in Messages : n # m => queue'[n] = queue[n]
    BY <1>1 DEF FreeSlot, PipelineInv, OthersOK
  <1>3. Queued(w)' BY <1>2 DEF Queued
  <1>4. ASSUME NEW v \in Works, Queued(v) PROVE Queued(v)'
    <2>1. v # None BY ActorAssumption
    <2>2. PICK n \in Messages : queue[n].work = v BY <1>4 DEF Queued
    <2>3. n # m BY <1>2, <2>1, <2>2
    <2> QED BY <1>2, <2>2, <2>3 DEF Queued
  <1>5. \A n \in Messages : queue'[n].work = queue[n].work \/ QueueKnows(n)'
    BY <1>2 DEF QueueKnows
  <1>6. \A p \in Workers : SameRun(p)
    <2> SUFFICES ASSUME NEW p \in Workers PROVE SameRun(p) OBVIOUS
    <2>1. pc[p] # "idle" => run[p].message \in Messages BY OwnWork
    <2>2. None # p BY ActorAssumption
    <2> QED BY <1>2, <2>1, <2>2 DEF SameRun
  <1> QED BY <1>3, <1>4, <1>5, <1>6

\* The mark takes a work from the outbox to the queue, where its message already is.
LEMMA MarkIsCalm ==
  ASSUME PipelineInv, NEW w \in Works, Queued(w), MarkEnqueued(w)
  PROVE  \A v \in Works : Calm(v)
  <1>1. /\ \A v \in Works : v # w => work'[v] = work[v]
        /\ work[w].status = "pending_enqueue" /\ work'[w].status = "queued"
    BY DEF MarkEnqueued, CanMarkEnqueued, PipelineInv, StoreInv, StoreTypeOK, WorkRecord
  <1>2. Calm(w) BY <1>1 DEF Calm, Settled, Unsettled
  <1> QED BY <1>1, <1>2, SameIsCalm

\* A step of a handler that neither touches the job nor creates the work.
LEMMA HandlerMoves ==
  ASSUME SettleInv, PipelineInv, NEW w \in Works, NEW step, HandlerTo(w, step),
         handler[w] # "refused", HandlerKnows(w)', \A v \in Works : Calm(v),
         UNCHANGED <<job, flusher, pc, run>>,
         \A v \in Works : Queued(v) => Queued(v)',
         \A m \in Messages : queue'[m].work = queue[m].work \/ QueueKnows(m)',
         \A p \in Workers : SameRun(p)
  PROVE  SettleInv'
  <1>1. \A v \in Works : \/ handler'[v] = handler[v]
                         \/ handler[v] # "refused" /\ HandlerKnows(v)'
    BY DEF HandlerTo, PipelineInv, OthersOK
  <1>2. /\ \A v \in Works : job'[v] = job[v]
        /\ \A f \in Flushers : flusher'[f] = flusher[f]
    OBVIOUS
  <1> QED BY <1>1, <1>2, SettleStill

LEMMA QueueStays ==
  ASSUME UNCHANGED <<queue, pc, run>>
  PROVE  /\ \A v \in Works : Queued(v) => Queued(v)'
         /\ \A m \in Messages : queue'[m].work = queue[m].work
         /\ \A p \in Workers : SameRun(p)
  BY DEF Queued, SameRun

LEMMA HandlerEnqueueSettles ==
  ASSUME SettleInv, PipelineInv, NEW w \in Works,
         HandlerEnqueues(w) \/ HandlerMarksEnqueued(w)
  PROVE  SettleInv'
  <1>1. UNCHANGED <<job, flusher, pc, run>>
    BY DEF HandlerEnqueues, HandlerMarksEnqueued, handlerUnchanged
  <1>2. /\ handler[w] \in {"enqueue", "mark"} /\ work[w].status # "unborn"
        /\ handler[w] = "mark" /\ work[w].status = "pending_enqueue" => Queued(w)
    BY DEF HandlerEnqueues, HandlerMarksEnqueued, SettleInv, HandlerKnows
  <1>3. \A step : HandlerTo(w, step) => handler'[w] = step
    BY DEF HandlerTo, PipelineInv, OthersOK
  <1>4. HandlerTo(w, "replied") => HandlerKnows(w)' BY <1>3 DEF HandlerKnows
  <1>5. CASE HandlerEnqueues(w)
    <2>1. work' = work /\ \A v \in Works : Calm(v)
      BY <1>5, UnchangedIsCalm DEF HandlerEnqueues, storeVars
    <2>2. CASE Send(w)
      <3>1. /\ Queued(w)' /\ \A v \in Works : Queued(v) => Queued(v)'
            /\ \A m \in Messages : queue'[m].work = queue[m].work \/ QueueKnows(m)'
            /\ \A p \in Workers : SameRun(p)
        BY <1>1, <1>2, <2>1, <2>2, SendEffect
      <3>2. HandlerTo(w, "mark") => HandlerKnows(w)'
        BY <1>2, <1>3, <2>1, <3>1 DEF HandlerKnows
      <3>3. PICK step \in {"mark", "replied"} : HandlerTo(w, step) /\ HandlerKnows(w)'
        BY <1>4, <1>5, <3>2 DEF HandlerEnqueues
      <3> QED BY <1>1, <1>2, <2>1, <3>1, <3>3, HandlerMoves
    <2>3. CASE UNCHANGED queue /\ HandlerTo(w, "replied")
      BY <1>1, <1>2, <1>4, <2>1, <2>3, QueueStays, HandlerMoves
    <2> QED BY <1>5, <2>2, <2>3 DEF HandlerEnqueues
  <1>6. CASE HandlerMarksEnqueued(w)
    <2>1. HandlerTo(w, "replied") /\ UNCHANGED queue /\ handler[w] = "mark"
      BY <1>6 DEF HandlerMarksEnqueued
    <2>2. \A v \in Works : Calm(v)
      BY <1>2, <1>6, <2>1, MarkIsCalm, UnchangedIsCalm
      DEF HandlerMarksEnqueued, MarkEnqueued, CanMarkEnqueued
    <2> QED BY <1>1, <1>2, <1>4, <2>1, <2>2, QueueStays, HandlerMoves
  <1> QED BY <1>5, <1>6

LEMMA HandlerJobSettles ==
  ASSUME SettleInv, PipelineInv, NEW w \in Works,
         ConfirmAttachment(w) \/ HandlerFailsJob(w)
  PROVE  SettleInv'
  <1>1. UNCHANGED <<storeVars, queue, flusher, pc, run>>
    BY DEF ConfirmAttachment, HandlerFailsJob, handlerUnchanged
  <1>2. \A v \in Works : Calm(v) BY <1>1, UnchangedIsCalm
  <1>3. JobKnows(w) /\ HandlerKnows(w) BY DEF SettleInv
  <1>4. /\ handler[w] \in {"confirm", "fail_job"}
        /\ handler'[w] \in {"create_work", "refused"}
        /\ handler[w] = "fail_job" => handler'[w] = "refused"
        /\ \A v \in Works : v # w => handler'[v] = handler[v]
    BY DEF ConfirmAttachment, HandlerFailsJob, HandlerTo, PipelineInv, OthersOK
  <1>5. HandlerKnows(w)' BY <1>1, <1>3, <1>4 DEF HandlerKnows, storeVars
  <1>6. \A v \in Works : v # w => job'[v] = job[v]
    BY DEF ConfirmAttachment, HandlerFailsJob, CreatePending, SettleJob, PipelineInv, OthersOK
  <1>7. \/ job'[w] = job[w]
        \/ JobKnows(w)' /\ (job'[w] # "pending" \/ work[w].status = "unborn")
    <2>1. CASE ConfirmAttachment(w)
      <3>1. work[w].status = "unborn" /\ job'[w] = "pending"
        BY <1>3, <2>1
        DEF HandlerKnows, ConfirmAttachment, CreatePending, PipelineInv, OthersOK
      <3> QED BY <1>1, <3>1 DEF JobKnows, Settled, storeVars
    <2>2. CASE HandlerFailsJob(w)
      <3>1. handler'[w] = "refused" BY <2>2, <1>4 DEF HandlerFailsJob
      <3>2. job'[w] = job[w] \/ job'[w] = "failed"
        BY <2>2 DEF HandlerFailsJob, SettleJob, PipelineInv, OthersOK
      <3> QED BY <3>1, <3>2 DEF JobKnows
    <2> QED BY <2>1, <2>2
  <1>8. \A v \in Works :
          \/ job'[v] = job[v]
          \/ JobKnows(v)' /\ (job'[v] # "pending" \/ work[v].status = "unborn")
    BY <1>6, <1>7
  <1>9. \A v \in Works : \/ handler'[v] = handler[v]
                         \/ handler[v] # "refused" /\ HandlerKnows(v)'
    BY <1>4, <1>5
  <1>10. \A f \in Flushers : flusher'[f] = flusher[f] BY <1>1
  <1> QED BY <1>1, <1>2, <1>8, <1>9, <1>10, QueueStays, SettleStill

\* The work, and its outbox entry, are created before anybody else knows of it.
LEMMA HandOffSettles ==
  ASSUME SettleInv, PipelineInv, NEW w \in Works, HandOffWork(w) \/ HandlerCrashes(w)
  PROVE  SettleInv'
  <1>1. UNCHANGED <<job, queue, flusher, pc, run>>
    BY DEF HandOffWork, HandlerCrashes, handlerUnchanged
  <1>2. /\ handler[w] # "refused"
        /\ handler'[w] \in {"enqueue", "fail_job", "replied"}
        /\ handler'[w] = "enqueue" => CreateWork(w)
        /\ \A v \in Works : v # w => handler'[v] = handler[v]
    BY DEF HandOffWork, HandlerCrashes, HandlerTo, PipelineInv, OthersOK
  <1>3. CreateWork(w) \/ UNCHANGED storeVars BY DEF HandOffWork, HandlerCrashes
  <1>4. CreateWork(w) => Born(w) /\ \A v \in Works : v # w => work'[v] = work[v]
    BY DEF CreateWork, Born, PipelineInv, StoreInv, StoreTypeOK, WorkRecord
  <1>5. HandlerKnows(w)' BY <1>2, <1>4 DEF HandlerKnows, Born
  <1>6. \A v \in Works : Calm(v) \/ (Born(v) /\ HandlerKnows(v)')
    BY <1>3, <1>4, <1>5, SameIsCalm, UnchangedIsCalm
  <1>7. \A v \in Works : \/ handler'[v] = handler[v]
                         \/ handler[v] # "refused" /\ HandlerKnows(v)'
    BY <1>2, <1>5
  <1>8. /\ \A v \in Works : job'[v] = job[v]
        /\ \A f \in Flushers : flusher'[f] = flusher[f]
    BY <1>1
  <1> QED BY <1>1, <1>6, <1>7, <1>8, QueueStays, SettleStill

LEMMA FlusherSettles ==
  ASSUME SettleInv, PipelineInv, NEW f \in Flushers, Flusher(f)
  PROVE  SettleInv'
  <1>1. UNCHANGED <<job, handler, pc, run>>
    BY DEF Flusher, ReadOutboxEntry, RemoveStaleEntry, FlusherEnqueues, FlusherMarksEnqueued,
           flusherUnchanged
  <1>2. \A step, v : FlusherTo(f, step, v) =>
          /\ flusher'[f].step = step /\ flusher'[f].work = v
          /\ \A g \in Flushers : g # f => flusher'[g] = flusher[g]
    BY DEF FlusherTo, PipelineInv, FlushersOK
  <1>3. /\ FlusherKnows(f)
        /\ flusher[f].step # "idle" => flusher[f].work \in Works
    BY DEF SettleInv, PipelineInv, FlushersOK
  <1>4. /\ \A v \in Works : job'[v] = job[v] /\ handler'[v] = handler[v]
    BY <1>1
  <1>5. ASSUME NEW w \in Works, ReadOutboxEntry(f, w) PROVE SettleInv'
    <2>1. UNCHANGED <<storeVars, queue>> BY <1>5 DEF ReadOutboxEntry
    <2>2. work[w].status \in {"pending_enqueue", "gone"}
      BY <1>5 DEF ReadOutboxEntry, PipelineInv, StoreInv, WorkInv, IndexFollowsStatus
    <2>3. /\ flusher'[f].work = w
          /\ flusher'[f].step \in {"send", "unindex"}
          /\ \A g \in Flushers : g # f => flusher'[g] = flusher[g]
      BY <1>2, <1>5 DEF ReadOutboxEntry
    <2>4. FlusherKnows(f)' BY <2>1, <2>2, <2>3 DEF FlusherKnows, storeVars
    <2>5. \A g \in Flushers : flusher'[g] = flusher[g] \/ FlusherKnows(g)' BY <2>3, <2>4
    <2> QED BY <1>1, <1>4, <2>1, <2>5, UnchangedIsCalm, QueueStays, SettleStill
  <1>6. ASSUME FlusherTo(f, "idle", None), UNCHANGED queue, \A v \in Works : Calm(v)
        PROVE  SettleInv'
    <2>1. FlusherKnows(f)' BY <1>2, <1>6 DEF FlusherKnows
    <2>2. \A g \in Flushers : flusher'[g] = flusher[g] \/ FlusherKnows(g)'
      BY <1>2, <1>6, <2>1
    <2> QED BY <1>1, <1>4, <1>6, <2>2, QueueStays, SettleStill
  <1>7. CASE RemoveStaleEntry(f)
    <2>1. work' = work BY <1>7 DEF RemoveStaleEntry, DropFromOutbox
    <2>2. \A v \in Works : Calm(v) BY <2>1, SameIsCalm
    <2> QED BY <1>6, <1>7, <2>2 DEF RemoveStaleEntry
  <1>8. CASE FlusherMarksEnqueued(f)
    <2>1. PICK w \in Works : w = flusher[f].work BY <1>3, <1>8 DEF FlusherMarksEnqueued
    <2>2. work[w].status = "pending_enqueue" => Queued(w)
      BY <1>3, <1>8, <2>1 DEF FlusherMarksEnqueued, FlusherKnows
    <2>3. MarkEnqueued(w) \/ UNCHANGED storeVars BY <1>8, <2>1 DEF FlusherMarksEnqueued
    <2>4. \A v \in Works : Calm(v)
      BY <2>2, <2>3, MarkIsCalm, UnchangedIsCalm DEF MarkEnqueued, CanMarkEnqueued
    <2> QED BY <1>6, <1>8, <2>4 DEF FlusherMarksEnqueued
  <1>9. CASE FlusherEnqueues(f)
    <2>1. PICK w \in Works : w = flusher[f].work BY <1>3, <1>9 DEF FlusherEnqueues
    <2>2. work' = work /\ \A v \in Works : Calm(v)
      BY <1>9, UnchangedIsCalm DEF FlusherEnqueues, storeVars
    <2>3. work[w].status # "unborn" BY <1>3, <1>9, <2>1 DEF FlusherEnqueues, FlusherKnows
    <2>4. CASE Send(w)
      <3>1. /\ Queued(w)' /\ \A v \in Works : Queued(v) => Queued(v)'
            /\ \A m \in Messages : queue'[m].work = queue[m].work \/ QueueKnows(m)'
            /\ \A p \in Workers : SameRun(p)
        BY <1>1, <2>2, <2>3, <2>4, SendEffect
      <3>2. \/ flusher'[f].step = "idle"
            \/ flusher'[f].step = "mark" /\ flusher'[f].work = w
        BY <1>2, <1>9, <2>1 DEF FlusherEnqueues
      <3>3. FlusherKnows(f)' BY <2>2, <2>3, <3>1, <3>2 DEF FlusherKnows, Queued
      <3>4. \A g \in Flushers : flusher'[g] = flusher[g] \/ FlusherKnows(g)'
        BY <1>2, <1>9, <3>3 DEF FlusherEnqueues
      <3> QED BY <1>4, <2>2, <3>1, <3>4, SettleStill
    <2> QED BY <1>6, <1>9, <2>1, <2>2, <2>4 DEF FlusherEnqueues
  <1> QED BY <1>5, <1>7, <1>8, <1>9 DEF Flusher

LEMMA TickQueue ==
  ASSUME PipelineInv, Tick, NEW m \in Messages
  PROVE  queue'[m].work = queue[m].work /\ queue'[m].holder = queue[m].holder
  BY DEF Tick, PipelineInv, OthersOK, QueueSlot

LEMMA TickSettles ==
  ASSUME SettleInv, PipelineInv, Tick
  PROVE  SettleInv'
  <1>1. \A v \in Works : Calm(v) BY AgeIsCalm DEF Tick, PipelineInv
  <1>2. \A m \in Messages :
          queue'[m].work = queue[m].work /\ queue'[m].holder = queue[m].holder
    BY TickQueue
  <1>3. ASSUME NEW p \in Workers PROVE SameRun(p)
    <2>1. /\ run'[p].work = run[p].work /\ run'[p].message = run[p].message
          /\ run'[p].update = run[p].update /\ pc'[p] = pc[p]
      BY DEF Tick, PipelineInv, WorkersOK, RunRecord
    <2>2. pc[p] # "idle" => run[p].message \in Messages BY OwnWork
    <2> QED BY <1>2, <2>1, <2>2 DEF SameRun
  <1>4. \A v \in Works : Queued(v) => Queued(v)' BY <1>2 DEF Queued
  <1>5. /\ \A v \in Works : job'[v] = job[v] /\ handler'[v] = handler[v]
        /\ \A f \in Flushers : flusher'[f] = flusher[f]
    BY DEF Tick
  <1> QED BY <1>1, <1>2, <1>3, <1>4, <1>5, SettleStill

LEMMA SettleStep ==
  ASSUME SettleInv, PipelineInv, [Next]_vars
  PROVE  SettleInv'
  <1>1. CASE UNCHANGED <<storeVars, job, handler, flusher, queue, pc, run>>
    <2>1. /\ \A v \in Works : job'[v] = job[v] /\ handler'[v] = handler[v]
          /\ \A f \in Flushers : flusher'[f] = flusher[f]
      BY <1>1
    <2> QED BY <1>1, <2>1, UnchangedIsCalm, QueueStays, SettleStill
  <1>2. CASE Scanner \/ UNCHANGED vars BY <1>1, <1>2 DEF Scanner, vars
  <1>3. ASSUME NEW w \in Works, Handler(w) PROVE SettleInv'
    BY <1>3, HandlerEnqueueSettles, HandlerJobSettles, HandOffSettles DEF Handler
  <1> QED BY <1>2, <1>3, FlusherSettles, WorkerSettles, TickSettles DEF Next, Steps

\* Always: a record without job or message is in the outbox or with its handler, and an
\* unacknowledged message stands behind every work that is not settled.
THEOREM SettleInvariant == Spec => []SettleInv
  <1>1. Init => SettleInv
    BY NoneAssumption
    DEF Init, StoreInit, NoRecord, SettleInv, JobKnows, HandlerKnows, FlusherKnows,
        QueueKnows, WorkerKnows, Settled, Unsettled, HasPendingJobUpdate, FreeSlot
  <1>2. SettleInv /\ PipelineInv /\ [Next]_vars => SettleInv' BY SettleStep
  <1> QED BY <1>1, <1>2, PipelineInvariant, PTL DEF Spec

\* The job of a file is completed only by a completed work and, unless the hand-off was
\* refused, failed only by a failed one (updateJob, after the store's transition).
THEOREM JobIsTold == Spec => []JobTellsOutcome
  <1>1. SettleInv => JobTellsOutcome BY DEF SettleInv, JobKnows, JobTellsOutcome
  <1> QED BY <1>1, SettleInvariant, PTL

\* A work that waits to be enqueued is in the outbox, and a work whose outcome has not
\* reached the job has a message in the queue, whatever was lost or crashed on the way.
THEOREM NoWorkForgotten == Spec => []NoForgottenWork
  <1>1. SettleInv /\ PipelineInv => NoForgottenWork
    BY DEF SettleInv, PipelineInv, StoreInv, WorkInv, IndexFollowsStatus, NoForgottenWork,
           Queued
  <1> QED BY <1>1, SettleInvariant, PipelineInvariant, PTL

\* The worker acknowledges a message only when its work is final and the job knows it,
\* or when the work is gone and nobody waits for the job any more.
THEOREM NothingAcknowledgedEarly == Spec => AcknowledgedOnlyWhenSettled
  <1> DEFINE NeedsNoOther(m) ==
        \/ work[queue[m].work].status \in Terminal /\ ~HasPendingJobUpdate(queue[m].work)
        \/ /\ work[queue[m].work].status = "gone"
           /\ RecoveryActive => job[queue[m].work] # "pending"
      Body == \A m \in Messages :
                queue[m].work # None /\ queue'[m].work = None => NeedsNoOther(m)
  <1>1. SettleInv /\ PipelineInv /\ [Next]_vars => [Body]_vars
    <2> SUFFICES ASSUME SettleInv, PipelineInv, Next, NEW m \in Messages,
                        queue[m].work # None, queue'[m].work = None
                 PROVE  NeedsNoOther(m)
      OBVIOUS
    <2>1. queue'[m] # queue[m] OBVIOUS
    <2>2. ASSUME NEW w \in Works, Send(w) PROVE FALSE
      BY <2>2, ActorAssumption DEF Send, FreeSlot, PipelineInv, OthersOK
    <2>3. \A w \in Works : ~Handler(w)
      BY <2>1, <2>2 DEF Handler, ConfirmAttachment, HandOffWork, HandlerFailsJob,
                HandlerEnqueues, HandlerMarksEnqueued, HandlerCrashes
    <2>4. \A f \in Flushers : ~Flusher(f)
      BY <2>1, <2>2 DEF Flusher, ReadOutboxEntry, RemoveStaleEntry, FlusherEnqueues,
                FlusherMarksEnqueued, PipelineInv, FlushersOK
    <2>5. ~Scanner BY <2>1 DEF Scanner
    <2>6. ~Tick BY TickQueue
    <2>7. ASSUME NEW p \in Workers, NEW n \in Messages PROVE ~ReceiveMessage(p, n)
      BY DEF ReceiveMessage, PipelineInv, OthersOK, QueueSlot
    <2>8. PICK p \in Workers : Acknowledge(p)
      BY <2>1, <2>3, <2>4, <2>5, <2>6, <2>7
      DEF Next, Steps, Worker, ClaimWork, ClaimMissing, ClaimTerminal, ClaimActive,
          ClaimAbandoned, ClaimGranted, ReadSource, DescribeUpload, CreateAsset,
          UploadContent, RecordAssetId, WaitForScan, VerifyDownload, BeginPublication,
          CheckTarget, UploadFile, IndexFile, CompensateUpload, CompleteWork, FailWork,
          ReleaseWork, UpdateJob, ClearUpdate, TransientError, AssetApiRejects, SourceGone,
          WorkerCrashes, storeCallUnchanged, assetCallUnchanged, publisherUnchanged
    <2>9. pc[p] = "ack" /\ WorkerKnows(p) BY <2>8 DEF Acknowledge, SettleInv
    <2>10. m = run[p].message /\ queue[m].holder = p
      BY <2>1, <2>8 DEF Acknowledge, PipelineInv, OthersOK
    <2> QED BY <2>9, <2>10 DEF WorkerKnows, Settled, HasPendingJobUpdate
  <1>2. Spec => [][Body]_vars BY <1>1, SettleInvariant, PipelineInvariant, PTL DEF Spec
  <1> QED BY <1>2 DEF AcknowledgedOnlyWhenSettled

-----------------------------------------------------------------------------
(* Claim ids.  An id is held by one work and by one run, which is a run    *)
(* for that work; so the holder of a publication is not a worker that has  *)
(* yet to begin it, and a work that was rejected was never granted one.    *)

Rejecting == WorkerFailureCodes \ {"publish_failed"}

HolderKnows(p, w) ==
  run[p].claim # None /\ work[w].claim = run[p].claim =>
    /\ run[p].work = w
    /\ work[w].status = "publishing" =>
         /\ pc[p] \notin BeforePublishing
         /\ pc[p] = "fail" => run[p].failure = "publish_failed"

ClaimInv ==
  /\ \A p, q \in Workers : p # q /\ run[p].claim # None => run[p].claim # run[q].claim
  /\ \A v, w \in Works : v # w /\ work[v].claim # None => work[v].claim # work[w].claim
  /\ \A p \in Workers, w \in Works : HolderKnows(p, w)
  /\ \A w \in Works : work[w].failure \in Rejecting => grants[w] = 0

LEMMA ClaimStill ==
  ASSUME ClaimInv,
         \A p \in Workers :
           \/ run'[p].claim = None
           \/ run'[p].claim = run[p].claim /\ run'[p].work = run[p].work,
         \A w \in Works : work'[w].claim \in {None, work[w].claim},
         \A p \in Workers, w \in Works :
           (/\ run[p].claim # None /\ run'[p].claim = run[p].claim
            /\ work[w].claim = run[p].claim /\ work'[w].claim = work[w].claim
            /\ work'[w].status = "publishing") =>
              /\ pc'[p] \notin BeforePublishing
              /\ pc'[p] = "fail" => run'[p].failure = "publish_failed",
         \A w \in Works : work'[w].failure \in Rejecting => grants'[w] = 0
  PROVE  ClaimInv'
  <1>1. ASSUME NEW p \in Workers, NEW q \in Workers, p # q, run'[p].claim # None
        PROVE  run'[p].claim # run'[q].claim
    BY <1>1 DEF ClaimInv
  <1>2. ASSUME NEW v \in Works, NEW w \in Works, v # w, work'[v].claim # None
        PROVE  work'[v].claim # work'[w].claim
    BY <1>2 DEF ClaimInv
  <1>3. ASSUME NEW p \in Workers, NEW w \in Works PROVE HolderKnows(p, w)'
    <2> SUFFICES ASSUME run'[p].claim # None, work'[w].claim = run'[p].claim
                 PROVE  /\ run'[p].work = w
                        /\ work'[w].status = "publishing" =>
                             /\ pc'[p] \notin BeforePublishing
                             /\ pc'[p] = "fail" => run'[p].failure = "publish_failed"
      BY DEF HolderKnows, BeforePublishing
    <2>1. /\ run'[p].claim = run[p].claim /\ run'[p].work = run[p].work
          /\ work'[w].claim = work[w].claim
      OBVIOUS
    <2>2. run[p].work = w BY <2>1 DEF ClaimInv, HolderKnows
    <2> QED BY <2>1, <2>2
  <1> QED BY <1>1, <1>2, <1>3 DEF ClaimInv, Rejecting

\* The calls that give no claim, grant nothing and reject nothing.
LEMMA OtherCalls ==
  ASSUME StoreInv, NEW w \in Works, NEW c, NEW lag,
         \/ AbandonPublication(w, lag)
         \/ \E d : RecordUploadDescriptor(w, c, d, lag)
         \/ \E a : RecordAsset(w, c, a, lag)
         \/ ReleaseForRetry(w, c, lag) \/ Complete(w, c, lag)
         \/ ClearPendingJobUpdate(w) \/ CreateWork(w) \/ MarkEnqueued(w)
         \/ DropFromOutbox(w) \/ UNCHANGED storeVars \/ AgeWorks
  PROVE  /\ grants' = grants
         /\ \A v \in Works :
              /\ work'[v].claim \in {None, work[v].claim}
              /\ work'[v].status = "publishing" => work[v].status = "publishing"
              /\ work'[v].failure \in Rejecting => work'[v].failure = work[v].failure
  <1> DEFINE Shape ==
        /\ grants' = grants
        /\ \A v \in Works :
             /\ work'[v].claim \in {None, work[v].claim}
             /\ work'[v].status = "publishing" => work[v].status = "publishing"
             /\ work'[v].failure \in Rejecting => work'[v].failure = work[v].failure
  <1> SUFFICES Shape OBVIOUS
  <1>0. work \in [Works -> WorkRecord] BY DEF StoreInv, StoreTypeOK
  <1> USE <1>0, NoneAssumption DEF Rejecting
  <1>1. CASE AgeWorks
    <2>1. NoRecord("gone").status = "gone" /\ NoRecord("gone").claim = None
          /\ NoRecord("gone").failure = None
      BY DEF NoRecord
    <2>2. \A v \in Works : work[v] \in WorkRecord /\ work'[v] = Aged(work[v])
      BY <1>1 DEF AgeWorks
    <2> QED BY <1>1, <2>1, <2>2, AgedFields DEF AgeWorks
  <1> USE DEF WorkRecord
  <1>2. CASE AbandonPublication(w, lag) BY <1>2 DEF AbandonPublication, Abandonable
  <1>3. ASSUME NEW d, RecordUploadDescriptor(w, c, d, lag) PROVE Shape
    BY <1>3 DEF RecordUploadDescriptor
  <1>4. ASSUME NEW a, RecordAsset(w, c, a, lag) PROVE Shape BY <1>4 DEF RecordAsset
  <1>5. CASE ReleaseForRetry(w, c, lag) BY <1>5 DEF ReleaseForRetry
  <1>6. CASE Complete(w, c, lag) BY <1>6 DEF Complete, Settle
  <1>7. CASE ClearPendingJobUpdate(w) BY <1>7 DEF ClearPendingJobUpdate
  <1>8. CASE CreateWork(w) BY <1>8 DEF CreateWork
  <1>9. CASE MarkEnqueued(w) BY <1>9 DEF MarkEnqueued
  <1>10. CASE DropFromOutbox(w) \/ UNCHANGED storeVars BY <1>10 DEF DropFromOutbox, storeVars
  <1> HIDE DEF Shape, WorkRecord
  <1> QED BY <1>1, <1>2, <1>3, <1>4, <1>5, <1>6, <1>7, <1>8, <1>9, <1>10

\* A worker comes to a step before publishing from another one, and fails with another
\* code than the publisher's only from there.
KeepsStage(p) ==
  /\ pc'[p] \in BeforePublishing => pc[p] \in BeforePublishing
  /\ pc'[p] = "fail" => pc[p] \in BeforePublishing \/ run'[p].failure = "publish_failed"

LEMMA StageKept ==
  ASSUME PipelineInv, NEW p \in Workers, Worker(p), ~ClaimGranted(p),
         \A m \in Messages : ~ReceiveMessage(p, m)
  PROVE  WorkerGoes(p) /\ KeepsStage(p)
  <1> USE DEF KeepsStage
  <1>1. CASE \/ ReadSource(p) \/ DescribeUpload(p) \/ CreateAsset(p)
             \/ UploadContent(p) \/ RecordAssetId(p)
    BY <1>1, FetchGoes
    DEF ReadSource, DescribeUpload, CreateAsset, UploadContent, RecordAssetId,
        BeforePublishing
  <1>2. CASE WaitForScan(p) \/ VerifyDownload(p) \/ BeginPublication(p)
    BY <1>2, VerifyGoes DEF WaitForScan, VerifyDownload, BeginPublication, BeforePublishing
  <1>3. CASE CheckTarget(p) \/ UploadFile(p) \/ IndexFile(p) \/ CompensateUpload(p)
    BY <1>3, PublishGoes, WaysOn, ErrorWays
    DEF CheckTarget, UploadFile, IndexFile, CompensateUpload, BeforePublishing
  <1>4. CASE TransientError(p) \/ AssetApiRejects(p) \/ SourceGone(p) \/ WorkerCrashes(p)
    BY <1>4, ErrorGoes, WaysOn, ErrorWays
    DEF TransientError, AssetApiRejects, SourceGone, WorkerCrashes, BeforePublishing
  <1>5. CASE \/ CompleteWork(p) \/ FailWork(p) \/ ReleaseWork(p) \/ UpdateJob(p)
             \/ ClearUpdate(p) \/ Acknowledge(p)
    BY <1>5, WaysOn, ErrorWays
    DEF CompleteWork, FailWork, ReleaseWork, UpdateJob, ClearUpdate, Acknowledge,
        WorkerGoes, BeforePublishing
  <1>6. CASE ClaimWork(p)
    <2>1. CASE ClaimMissing(p)
      <3>1. Finish(p) \/ Reconcile(p, None) BY <2>1 DEF ClaimMissing, Reconcile
      <3> QED BY <2>1, <3>1, WaysOn DEF ClaimMissing, WorkerGoes, BeforePublishing
    <2>2. CASE ClaimTerminal(p)
      <3>1. pc[p] = "claim" /\ Reconcile(p, work[run[p].work].jobUpdate)
        BY <2>2 DEF ClaimTerminal
      <3>2. work[run[p].work].jobUpdate \in Terminal \cup {None}
        BY <3>1, OwnWork DEF PipelineInv, StoreInv, StoreTypeOK, WorkRecord
      <3> QED BY <3>1, <3>2, WaysOn DEF WorkerGoes, BeforePublishing
    <2>3. CASE ClaimActive(p) \/ ClaimAbandoned(p)
      BY <2>3, WaysOn, ErrorWays DEF ClaimActive, ClaimAbandoned, WorkerGoes, BeforePublishing
    <2> QED BY <1>6, <2>1, <2>2, <2>3 DEF ClaimWork
  <1> QED BY <1>1, <1>2, <1>3, <1>4, <1>5, <1>6 DEF Worker
\* A worker step that claims, grants and rejects nothing.
LEMMA ClaimsKept ==
  ASSUME ClaimInv, PipelineInv, NEW p \in Workers, WorkerGoes(p), KeepsStage(p),
         grants' = grants,
         \A v \in Works :
           /\ work'[v].claim \in {None, work[v].claim}
           /\ work'[v].status = "publishing" => work[v].status = "publishing"
           /\ work'[v].failure \in Rejecting => work'[v].failure = work[v].failure
  PROVE  ClaimInv'
  <1>1. \A q \in Workers :
          \/ run'[q].claim = None
          \/ run'[q].claim = run[q].claim /\ run'[q].work = run[q].work
    BY DEF WorkerGoes, GoesOn, OthersStay, NoRun
  <1>2. ASSUME NEW q \in Workers, NEW w \in Works,
               run[q].claim # None, run'[q].claim = run[q].claim,
               work[w].claim = run[q].claim, work'[w].claim = work[w].claim,
               work'[w].status = "publishing"
        PROVE  /\ pc'[q] \notin BeforePublishing
               /\ pc'[q] = "fail" => run'[q].failure = "publish_failed"
    <2>1. work[w].status = "publishing" BY <1>2
    <2>2. /\ pc[q] \notin BeforePublishing
          /\ pc[q] = "fail" => run[q].failure = "publish_failed"
      BY <1>2, <2>1 DEF ClaimInv, HolderKnows
    <2>3. CASE q = p BY <2>2, <2>3 DEF KeepsStage
    <2>4. CASE q # p BY <2>2, <2>4 DEF WorkerGoes, OthersStay
    <2> QED BY <2>3, <2>4
  <1>3. \A w \in Works : work'[w].failure \in Rejecting => grants'[w] = 0
    BY DEF ClaimInv
  <1>4. \A w \in Works : work'[w].claim \in {None, work[w].claim} OBVIOUS
  <1> QED BY <1>1, <1>2, <1>3, <1>4, ClaimStill

LEMMA ReceiveClaims ==
  ASSUME ClaimInv, PipelineInv, NEW p \in Workers, NEW m \in Messages, ReceiveMessage(p, m)
  PROVE  ClaimInv'
  <1>1. UNCHANGED storeVars BY DEF ReceiveMessage
  <1>2. OthersStay(p) /\ run'[p].claim = None
    <2> DEFINE r == [NoRun EXCEPT !.message = m, !.work = queue[m].work,
                                  !.scanLeft = ScanDeadline,
                                  !.publishLeft = PublicationDeadline]
    <2>1. r.claim = None BY DEF NoRun
    <2>2. GoWith(p, "claim", r) BY DEF ReceiveMessage
    <2> HIDE DEF r
    <2> QED BY <2>1, <2>2, GoEffect DEF OthersStay
  <1>3. work' = work /\ grants' = grants BY <1>1 DEF storeVars
  <1>4. \A q \in Workers :
          \/ run'[q].claim = None
          \/ run'[q].claim = run[q].claim /\ run'[q].work = run[q].work
    BY <1>2 DEF OthersStay
  <1>5. ASSUME NEW q \in Workers, NEW w \in Works,
               run[q].claim # None, run'[q].claim = run[q].claim,
               work[w].claim = run[q].claim, work'[w].claim = work[w].claim,
               work'[w].status = "publishing"
        PROVE  /\ pc'[q] \notin BeforePublishing
               /\ pc'[q] = "fail" => run'[q].failure = "publish_failed"
    <2>1. q # p BY <1>2, <1>5
    <2>2. pc'[q] = pc[q] /\ run'[q] = run[q] BY <1>2, <2>1 DEF OthersStay
    <2> QED BY <1>3, <1>5, <2>2 DEF ClaimInv, HolderKnows
  <1>6. \A w \in Works : work'[w].failure \in Rejecting => grants'[w] = 0
    BY <1>3 DEF ClaimInv
  <1>7. \A w \in Works : work'[w].claim \in {None, work[w].claim} BY <1>3
  <1> QED BY <1>4, <1>5, <1>6, <1>7, ClaimStill

\* The id a claim gives is held by nobody; that of the run it replaces was none.
LEMMA GrantedClaims ==
  ASSUME ClaimInv, PipelineInv, NEW p \in Workers, ClaimGranted(p)
  PROVE  ClaimInv'
  <1>1. pc[p] = "claim" BY DEF ClaimGranted
  <1>2. PICK w \in Works : w = run[p].work BY <1>1, OwnWork
  <1>3. PICK lag \in Lags, c \in FreshClaims :
          /\ Claim(w, c, lag)
          /\ \/ GoWith(p, FirstStep(run[p].work),
                       [run[p] EXCEPT !.claim = c,
                                      !.descriptor = work[run[p].work].descriptor,
                                      !.asset = work[run[p].work].asset])
             \/ FinishAfterError(p)
    BY <1>2 DEF ClaimGranted
  <1>4. /\ c \in ClaimIds /\ c # None
        /\ \A v \in Works : work[v].claim # c
        /\ \A q \in Workers : run[q].claim # c
    BY NoneAssumption DEF FreshClaims
  <1>5. /\ \A v \in Works : v # w => work'[v] = work[v]
        /\ work'[w].claim = c /\ work'[w].status = "claimed"
        /\ work'[w].failure = work[w].failure /\ grants' = grants
    BY <1>3 DEF Claim, PipelineInv, StoreInv, StoreTypeOK, WorkRecord
  <1>6. /\ OthersStay(p)
        /\ run'[p].claim = None \/ (run'[p].claim = c /\ run'[p].work = w)
    <2>1. CASE FinishAfterError(p)
      BY <1>1, <2>1, WaysOn DEF FinishAfterError, NoRun
    <2>2. CASE ~FinishAfterError(p) BY <1>1, <1>2, <1>3, <1>4, <2>2, GrantedWay
    <2> QED BY <2>1, <2>2
  <1>7. ASSUME NEW q \in Workers, NEW s \in Workers, q # s, run'[q].claim # None
        PROVE  run'[q].claim # run'[s].claim
    BY <1>4, <1>6, <1>7 DEF ClaimInv, OthersStay
  <1>8. ASSUME NEW u \in Works, NEW v \in Works, u # v, work'[u].claim # None
        PROVE  work'[u].claim # work'[v].claim
    BY <1>4, <1>5, <1>8 DEF ClaimInv
  <1>9. ASSUME NEW q \in Workers, NEW v \in Works PROVE HolderKnows(q, v)'
    <2> SUFFICES ASSUME run'[q].claim # None, work'[v].claim = run'[q].claim
                 PROVE  /\ run'[q].work = v
                        /\ work'[v].status = "publishing" =>
                             /\ pc'[q] \notin BeforePublishing
                             /\ pc'[q] = "fail" => run'[q].failure = "publish_failed"
      BY DEF HolderKnows, BeforePublishing
    <2>1. CASE v = w
      <3>1. q = p BY <1>4, <1>5, <1>6, <2>1 DEF OthersStay
      <3> QED BY <1>5, <1>6, <2>1, <3>1
    <2>2. CASE v # w
      <3>1. work'[v] = work[v] BY <1>5, <2>2
      <3>2. q # p BY <1>4, <1>6, <3>1
      <3>3. run'[q] = run[q] /\ pc'[q] = pc[q] BY <1>6, <3>2 DEF OthersStay
      <3> QED BY <3>1, <3>3 DEF ClaimInv, HolderKnows
    <2> QED BY <2>1, <2>2
  <1>10. \A v \in Works : work'[v].failure \in Rejecting => grants'[v] = 0
    BY <1>5 DEF ClaimInv
  <1> QED BY <1>7, <1>8, <1>9, <1>10 DEF ClaimInv, Rejecting

\* Who begins to publish is the only run that holds the claim of its work.
LEMMA BeginClaims ==
  ASSUME ClaimInv, PipelineInv, NEW p \in Workers, BeginPublication(p)
  PROVE  ClaimInv'
  <1>1. pc[p] = "begin" /\ pc'[p] \notin BeforePublishing \cup {"fail"}
    BY WaysOn, ErrorWays, GrantWay DEF BeginPublication, BeforePublishing
  <1>2. WorkerGoes(p) BY VerifyGoes
  <1>3. CASE UNCHANGED storeVars
    BY <1>1, <1>2, <1>3, ClaimsKept DEF KeepsStage, storeVars
  <1>4. CASE ~UNCHANGED storeVars
    <2>1. PICK w \in Works : w = run[p].work BY <1>1, OwnWork
    <2>2. PICK d, lag : BeginPublishing(w, run[p].claim, d, lag)
      BY <1>4, <2>1 DEF BeginPublication
    <2>3. /\ \A v \in Works : v # w => work'[v] = work[v]
          /\ work[w].claim = run[p].claim /\ work[w].status = "claimed"
          /\ work'[w].claim = work[w].claim /\ work'[w].failure = work[w].failure
      BY <2>2 DEF BeginPublishing, CanBeginPublishing, OwnsClaim, PipelineInv, StoreInv,
                  StoreTypeOK, WorkRecord
    <2>4. grants' = [grants EXCEPT ![w] = @ + 1] /\ grants \in [Works -> Nat]
      BY <2>2 DEF BeginPublishing, PipelineInv, StoreInv, StoreTypeOK
    <2>5. \A q \in Workers :
            \/ run'[q].claim = None
            \/ run'[q].claim = run[q].claim /\ run'[q].work = run[q].work
      BY <1>2 DEF WorkerGoes, GoesOn, OthersStay, NoRun
    <2>6. ASSUME NEW q \in Workers, NEW v \in Works,
                 run[q].claim # None, run'[q].claim = run[q].claim,
                 work[v].claim = run[q].claim, work'[v].claim = work[v].claim,
                 work'[v].status = "publishing"
          PROVE  /\ pc'[q] \notin BeforePublishing
                 /\ pc'[q] = "fail" => run'[q].failure = "publish_failed"
      <3>1. CASE q = p BY <1>1, <3>1
      <3>2. CASE q # p
        <4>1. v # w BY <2>3, <2>6, <3>2 DEF ClaimInv
        <4>2. pc'[q] = pc[q] /\ run'[q] = run[q] BY <1>2, <3>2 DEF WorkerGoes, OthersStay
        <4> QED BY <2>3, <2>6, <4>1, <4>2 DEF ClaimInv, HolderKnows
      <3> QED BY <3>1, <3>2
    <2>7. ASSUME NEW v \in Works, work'[v].failure \in Rejecting PROVE grants'[v] = 0
      <3>1. v # w
        <4>1. work[w].failure = None
          BY <2>3 DEF PipelineInv, StoreInv, WorkInv, OutcomeFollowsStatus
        <4> QED BY <2>3, <2>7, <4>1, NoneAssumption DEF Rejecting
      <3> QED BY <2>3, <2>4, <2>7, <3>1 DEF ClaimInv
    <2>8. \A v \in Works : work'[v].claim \in {None, work[v].claim} BY <2>3
    <2> QED BY <2>5, <2>6, <2>7, <2>8, ClaimStill
  <1> QED BY <1>3, <1>4

\* A work that is publishing is failed by its holder, which reports the publisher's code.
LEMMA FailClaims ==
  ASSUME ClaimInv, PipelineInv, NEW p \in Workers, FailWork(p)
  PROVE  ClaimInv'
  <1>1. pc[p] = "fail" BY DEF FailWork
  <1>2. WorkerGoes(p) /\ KeepsStage(p)
    BY <1>1, WaysOn, ErrorWays DEF FailWork, WorkerGoes, KeepsStage, BeforePublishing
  <1>3. CASE UNCHANGED storeVars BY <1>2, <1>3, ClaimsKept DEF storeVars
  <1>4. CASE ~UNCHANGED storeVars
    <2>1. PICK w \in Works : w = run[p].work BY <1>1, OwnWork
    <2>2. PICK lag : Fail(w, run[p].claim, run[p].failure, lag)
      BY <1>4, <2>1 DEF FailWork
    <2>3. Settle(w, "failed", run[p].failure) /\ CanFail(w, run[p].claim, lag)
      BY <2>2 DEF Fail
    <2>4. /\ \A v \in Works : v # w => work'[v] = work[v]
          /\ work'[w].claim = None /\ work'[w].status = "failed"
          /\ work'[w].failure = run[p].failure /\ grants' = grants
      BY <2>3 DEF Settle, PipelineInv, StoreInv, StoreTypeOK, WorkRecord
    <2>5. run[p].claim \in ClaimIds /\ run[p].claim # None
      BY <1>1, NoneAssumption DEF PipelineInv, WorkersOK, GoodRun
    <2>6. run[p].failure \in Rejecting => grants[w] = 0
      <3>1. CASE work[w].status = "claimed"
        BY <3>1 DEF PipelineInv, StoreInv, WorkInv, GrantsFollowStatus
      <3>2. CASE work[w].status = "publishing" /\ work[w].claim = run[p].claim
        <4>1. run[p].failure = "publish_failed"
          BY <1>1, <2>5, <3>2 DEF ClaimInv, HolderKnows
        <4> QED BY <4>1 DEF Rejecting
      <3> QED BY <2>3, <3>1, <3>2 DEF CanFail, OwnsClaim, OwnsPublication
    <2>7. \A q \in Workers :
            \/ run'[q].claim = None
            \/ run'[q].claim = run[q].claim /\ run'[q].work = run[q].work
      BY <1>2 DEF WorkerGoes, GoesOn, OthersStay, NoRun
    <2>8. ASSUME NEW q \in Workers, NEW v \in Works,
                 run[q].claim # None, run'[q].claim = run[q].claim,
                 work[v].claim = run[q].claim, work'[v].claim = work[v].claim,
                 work'[v].status = "publishing"
          PROVE  /\ pc'[q] \notin BeforePublishing
                 /\ pc'[q] = "fail" => run'[q].failure = "publish_failed"
      <3>1. v # w BY <2>4, <2>8
      <3>2. q # p BY <2>1, <2>8, <3>1 DEF ClaimInv, HolderKnows
      <3>3. pc'[q] = pc[q] /\ run'[q] = run[q] BY <1>2, <3>2 DEF WorkerGoes, OthersStay
      <3> QED BY <2>4, <2>8, <3>1, <3>3 DEF ClaimInv, HolderKnows
    <2>9. \A v \in Works : work'[v].failure \in Rejecting => grants'[v] = 0
      BY <2>4, <2>6 DEF ClaimInv
    <2>10. \A v \in Works : work'[v].claim \in {None, work[v].claim} BY <2>4
    <2> QED BY <2>7, <2>8, <2>9, <2>10, ClaimStill
  <1> QED BY <1>3, <1>4

LEMMA WorkerClaims ==
  ASSUME ClaimInv, PipelineInv, NEW p \in Workers, Worker(p)
  PROVE  ClaimInv'
  <1>1. CASE \E m \in Messages : ReceiveMessage(p, m) BY <1>1, ReceiveClaims
  <1>2. CASE ClaimGranted(p) \/ BeginPublication(p) \/ FailWork(p)
    BY <1>2, GrantedClaims, BeginClaims, FailClaims
  <1>3. CASE ~(\E m \in Messages : ReceiveMessage(p, m))
             /\ ~(ClaimGranted(p) \/ BeginPublication(p) \/ FailWork(p))
    <2>1. WorkerGoes(p) /\ KeepsStage(p) BY <1>3, StageKept
    <2>2. pc[p] # "idle"
      BY <1>3
      DEF Worker, ClaimWork, ClaimMissing, ClaimTerminal, ClaimActive, ClaimAbandoned,
          ReadSource, DescribeUpload, CreateAsset, UploadContent, RecordAssetId, WaitForScan,
          VerifyDownload, CheckTarget, UploadFile, IndexFile, CompensateUpload,
          CompleteWork, ReleaseWork, UpdateJob, ClearUpdate, Acknowledge, TransientError,
          AssetApiRejects, SourceGone, WorkerCrashes, BeforePublishing
    <2>3. PICK w \in Works : w = run[p].work BY <2>2, OwnWork
    <2>4. \/ UNCHANGED storeVars
          \/ \E c, lag :
               \/ AbandonPublication(w, lag)
               \/ \E d : RecordUploadDescriptor(w, c, d, lag)
               \/ \E a : RecordAsset(w, c, a, lag)
               \/ ReleaseForRetry(w, c, lag) \/ Complete(w, c, lag)
               \/ ClearPendingJobUpdate(w)
      BY <1>3, <2>3
      DEF Worker, ClaimWork, ClaimMissing, ClaimTerminal, ClaimActive, ClaimAbandoned,
          ReadSource, DescribeUpload, CreateAsset, UploadContent, RecordAssetId, WaitForScan,
          VerifyDownload, CheckTarget, UploadFile, IndexFile, CompensateUpload,
          CompleteWork, ReleaseWork, UpdateJob, ClearUpdate, Acknowledge, TransientError,
          AssetApiRejects, SourceGone, WorkerCrashes, assetCallUnchanged,
          publisherUnchanged
    <2>5. /\ grants' = grants
          /\ \A v \in Works :
               /\ work'[v].claim \in {None, work[v].claim}
               /\ work'[v].status = "publishing" => work[v].status = "publishing"
               /\ work'[v].failure \in Rejecting => work'[v].failure = work[v].failure
      BY <2>4, OtherCalls DEF PipelineInv
    <2> QED BY <2>1, <2>5, ClaimsKept
  <1> QED BY <1>1, <1>2, <1>3

LEMMA ClaimStep ==
  ASSUME ClaimInv, PipelineInv, [Next]_vars
  PROVE  ClaimInv'
  <1>1. ASSUME NEW p \in Workers, Worker(p) PROVE ClaimInv' BY <1>1, WorkerClaims
  <1>2. CASE \/ \E w \in Works : Handler(w)
             \/ \E f \in Flushers : Flusher(f)
             \/ Scanner \/ Tick \/ UNCHANGED vars
    <2>1. \A p \in Workers : /\ pc'[p] = pc[p] /\ run'[p].claim = run[p].claim
                             /\ run'[p].work = run[p].work
                             /\ run'[p].failure = run[p].failure
      <3>1. CASE UNCHANGED <<pc, run>> BY <3>1
      <3>2. CASE Tick BY <3>2 DEF Tick, PipelineInv, WorkersOK, RunRecord
      <3>3. Tick \/ UNCHANGED <<pc, run>>
        BY <1>2
        DEF Handler, ConfirmAttachment, HandOffWork, HandlerFailsJob, HandlerEnqueues,
            HandlerMarksEnqueued, HandlerCrashes, handlerUnchanged, Flusher,
            ReadOutboxEntry, RemoveStaleEntry, FlusherEnqueues, FlusherMarksEnqueued,
            flusherUnchanged, Scanner, vars
      <3> QED BY <3>1, <3>2, <3>3
    <2>2. \/ AgeWorks \/ UNCHANGED storeVars
          \/ \E w \in Works : CreateWork(w) \/ MarkEnqueued(w) \/ DropFromOutbox(w)
      BY <1>2
      DEF Handler, ConfirmAttachment, HandOffWork, HandlerFailsJob, HandlerEnqueues,
          HandlerMarksEnqueued, HandlerCrashes, Flusher, ReadOutboxEntry, RemoveStaleEntry,
          FlusherEnqueues, FlusherMarksEnqueued, Scanner, Tick, vars, PipelineInv,
          FlushersOK
    <2>3. /\ grants' = grants
          /\ \A v \in Works :
               /\ work'[v].claim \in {None, work[v].claim}
               /\ work'[v].status = "publishing" => work[v].status = "publishing"
               /\ work'[v].failure \in Rejecting => work'[v].failure = work[v].failure
      <3>1. CASE \E w \in Works : CreateWork(w) \/ MarkEnqueued(w) \/ DropFromOutbox(w)
        BY <3>1, OtherCalls DEF PipelineInv
      <3>2. CASE UNCHANGED storeVars BY <3>2 DEF storeVars
      <3>3. CASE AgeWorks /\ Works # {} BY <3>3, OtherCalls DEF PipelineInv
      <3>4. CASE AgeWorks /\ Works = {} BY <3>4 DEF AgeWorks
      <3> QED BY <2>2, <3>1, <3>2, <3>3, <3>4
    <2>4. ASSUME NEW q \in Workers, NEW w \in Works,
                 run[q].claim # None, run'[q].claim = run[q].claim,
                 work[w].claim = run[q].claim, work'[w].claim = work[w].claim,
                 work'[w].status = "publishing"
          PROVE  /\ pc'[q] \notin BeforePublishing
                 /\ pc'[q] = "fail" => run'[q].failure = "publish_failed"
      BY <2>1, <2>3, <2>4 DEF ClaimInv, HolderKnows
    <2>5. \A w \in Works : work'[w].failure \in Rejecting => grants'[w] = 0
      BY <2>3 DEF ClaimInv
    <2>6. \A w \in Works : work'[w].claim \in {None, work[w].claim} BY <2>3
    <2>7. \A p \in Workers :
            \/ run'[p].claim = None
            \/ run'[p].claim = run[p].claim /\ run'[p].work = run[p].work
      BY <2>1
    <2> QED BY <2>4, <2>5, <2>6, <2>7, ClaimStill
  <1> QED BY <1>1, <1>2 DEF Next, Steps

\* Always: a claim id belongs to one run and one work, and the holder of a publication is
\* past the step that began it.
THEOREM ClaimInvariant == Spec => []ClaimInv
  <1>1. Init => ClaimInv
    BY NoneAssumption
    DEF Init, StoreInit, NoRecord, NoRun, ClaimInv, HolderKnows, Rejecting
  <1>2. ClaimInv /\ PipelineInv /\ [Next]_vars => ClaimInv' BY ClaimStep
  <1> QED BY <1>1, <1>2, PipelineInvariant, PTL DEF Spec

\* A file whose check failed (not found clean, changed, too large, expired) has never been
\* granted a publication, so nothing of it was ever sent to the drive.
THEOREM RejectedUnpublished == Spec => []RejectedIsNotPublished
  <1>1. ClaimInv /\ PublicationInv => RejectedIsNotPublished
    BY DEF ClaimInv, PublicationInv, RejectedIsNotPublished, Rejecting
  <1> QED BY <1>1, ClaimInvariant, PublicationInvariant, PTL

-----------------------------------------------------------------------------
(* What a worker is about to send it has verified: it holds the content.   *)

ResourceInv ==
  \A p \in Workers : pc[p] \in {"begin", "check", "upload_file"} => run[p].resource \in Contents

\* Only these steps lead to publishing or go on with it.
LEMMA OthersPrepare ==
  ASSUME PipelineInv, NEW p \in Workers, Worker(p),
         ~VerifyDownload(p), ~BeginPublication(p), ~CheckTarget(p), ~UploadFile(p),
         ~IndexFile(p), ~CompensateUpload(p)
  PROVE  OthersStay(p) /\ pc'[p] \notin PublishingSteps \cup {"begin"}
  <1> USE DEF PublishingSteps, WorkerGoes
  <1>1. CASE \/ ReadSource(p) \/ DescribeUpload(p) \/ CreateAsset(p)
             \/ UploadContent(p) \/ RecordAssetId(p)
    <2>1. OthersStay(p) BY <1>1, FetchGoes
    <2>2. CASE ReadSource(p)
      <3>1. ASSUME NEW c \in Contents,
                   GoWith(p, "describe", [run[p] EXCEPT !.resource = c, !.descriptor = c])
            PROVE  pc'[p] = "describe"
        BY <2>2, <3>1, SourceWay DEF ReadSource
      <3> QED BY <2>1, <2>2, <3>1, WaysOn DEF ReadSource
    <2>3. CASE CreateAsset(p)
      <3>1. AssetFor(run[p].work) \subseteq Assets BY DEF AssetFor
      <3>2. ASSUME NEW a \in Assets, NEW step, GoWith(p, step, [run[p] EXCEPT !.asset = a])
            PROVE  pc'[p] = step
        BY <2>3, <3>2, AssetWay DEF CreateAsset
      <3> QED BY <2>1, <2>3, <3>1, <3>2, ErrorWays DEF CreateAsset
    <2>4. CASE DescribeUpload(p)
      BY <2>1, <2>4, WaysOn, ErrorWays DEF DescribeUpload
    <2>5. CASE UploadContent(p) BY <2>1, <2>5, WaysOn, ErrorWays DEF UploadContent
    <2>6. CASE RecordAssetId(p) BY <2>1, <2>6, WaysOn, ErrorWays DEF RecordAssetId
    <2> QED BY <1>1, <2>2, <2>3, <2>4, <2>5, <2>6
  <1>2. CASE WaitForScan(p)
    <2>1. ASSUME GoWith(p, "verify", [run[p] EXCEPT !.scanLeft = 0])
          PROVE  OthersStay(p) /\ pc'[p] = "verify"
      BY <1>2, <2>1, ScannedWay DEF WaitForScan
    <2> QED BY <1>2, <2>1, WaysOn DEF WaitForScan
  <1>3. CASE TransientError(p) \/ AssetApiRejects(p) \/ SourceGone(p) \/ WorkerCrashes(p)
    BY <1>3, WaysOn, ErrorWays
    DEF TransientError, AssetApiRejects, SourceGone, WorkerCrashes, BeforePublishing
  <1>4. CASE \/ CompleteWork(p) \/ FailWork(p) \/ ReleaseWork(p) \/ UpdateJob(p)
             \/ ClearUpdate(p) \/ Acknowledge(p)
    BY <1>4, WaysOn, ErrorWays
    DEF CompleteWork, FailWork, ReleaseWork, UpdateJob, ClearUpdate, Acknowledge
  <1>5. CASE ClaimWork(p)
    <2>1. CASE ClaimMissing(p)
      <3>1. pc[p] = "claim" /\ (Finish(p) \/ Reconcile(p, None))
        BY <2>1 DEF ClaimMissing, Reconcile
      <3> QED BY <3>1, WaysOn
    <2>2. CASE ClaimTerminal(p)
      <3>1. pc[p] = "claim" /\ Reconcile(p, work[run[p].work].jobUpdate)
        BY <2>2 DEF ClaimTerminal
      <3>2. work[run[p].work].jobUpdate \in Terminal \cup {None}
        BY <3>1, OwnWork DEF PipelineInv, StoreInv, StoreTypeOK, WorkRecord
      <3> QED BY <3>1, <3>2, WaysOn
    <2>3. CASE ClaimActive(p) \/ ClaimAbandoned(p)
      BY <2>3, WaysOn, ErrorWays DEF ClaimActive, ClaimAbandoned
    <2>4. CASE ClaimGranted(p)
      <3>1. pc[p] = "claim" BY <2>4 DEF ClaimGranted
      <3>2. ASSUME NEW c \in ClaimIds,
                   GoWith(p, FirstStep(run[p].work),
                     [run[p] EXCEPT !.claim = c,
                                    !.descriptor = work[run[p].work].descriptor,
                                    !.asset = work[run[p].work].asset])
            PROVE  OthersStay(p) /\ pc'[p] = FirstStep(run[p].work)
        BY <3>1, <3>2, GrantedWay
      <3>3. FirstStep(run[p].work) \in {"scan", "create_asset", "source"} BY DEF FirstStep
      <3>4. CASE FinishAfterError(p) BY <3>1, <3>4, ErrorWays
      <3> QED BY <2>4, <3>2, <3>3, <3>4 DEF ClaimGranted, FreshClaims
    <2> QED BY <1>5, <2>1, <2>2, <2>3, <2>4 DEF ClaimWork
  <1>6. ASSUME NEW m \in Messages, ReceiveMessage(p, m)
        PROVE  OthersStay(p) /\ pc'[p] = "claim"
    BY <1>6, GoEffect DEF ReceiveMessage, OthersStay
  <1> QED BY <1>1, <1>2, <1>3, <1>4, <1>5, <1>6 DEF Worker

\* Time passes for the workers without a step of theirs.
LEMMA TickRun ==
  ASSUME PipelineInv, Tick, NEW p \in Workers
  PROVE  /\ pc'[p] = pc[p] /\ run'[p].work = run[p].work
         /\ run'[p].resource = run[p].resource /\ run'[p].descriptor = run[p].descriptor
         /\ run'[p].asset = run[p].asset
  BY DEF Tick, PipelineInv, WorkersOK, RunRecord

\* Who else moves leaves the workers and the files where they are.
LEMMA ElsewhereStep ==
  ASSUME FlushersOK,
         \/ \E w \in Works : Handler(w)
         \/ \E f \in Flushers : Flusher(f)
         \/ Scanner \/ UNCHANGED vars
  PROVE  UNCHANGED <<pc, run, drive, catalog, uploads>>
  BY DEF Handler, ConfirmAttachment, HandOffWork, HandlerFailsJob, HandlerEnqueues,
         HandlerMarksEnqueued, HandlerCrashes, handlerUnchanged, Flusher,
         ReadOutboxEntry, RemoveStaleEntry, FlusherEnqueues, FlusherMarksEnqueued,
         flusherUnchanged, Scanner, vars, externalVars

LEMMA ResourceStep ==
  ASSUME ResourceInv, PipelineInv, [Next]_vars
  PROVE  ResourceInv'
  <1> SUFFICES ASSUME NEW q \in Workers, pc'[q] \in {"begin", "check", "upload_file"}
               PROVE  run'[q].resource \in Contents
    BY DEF ResourceInv
  <1>1. CASE UNCHANGED <<pc, run>> BY <1>1 DEF ResourceInv
  <1>2. CASE Tick BY <1>2, TickRun DEF ResourceInv
  <1>3. ASSUME NEW p \in Workers, Worker(p) PROVE run'[q].resource \in Contents
    <2>1. CASE q # p /\ OthersStay(p) BY <2>1 DEF OthersStay, ResourceInv
    <2>2. CASE VerifyDownload(p)
      <3>1. OthersStay(p) BY <2>2, VerifyGoes DEF WorkerGoes
      <3>2. ASSUME NEW c \in Contents, GoWith(p, "begin", [run[p] EXCEPT !.resource = c])
            PROVE  run'[p].resource = c
        BY <2>2, <3>2, DownloadWay DEF VerifyDownload
      <3>3. ASSUME FailWith(p, "validation_failed") PROVE pc'[p] = "fail"
        BY <2>2, <3>3, WaysOn DEF VerifyDownload
      <3> QED BY <2>1, <2>2, <3>1, <3>2, <3>3 DEF VerifyDownload
    <2>3. CASE BeginPublication(p)
      <3>1. OthersStay(p) /\ pc[p] = "begin"
        BY <2>3, VerifyGoes DEF WorkerGoes, BeginPublication
      <3>2. ASSUME GoWith(p, "check", [Settling(p) EXCEPT !.resource = run[p].resource])
            PROVE  run'[p].resource = run[p].resource
        BY <3>1, <3>2, GrantWay
      <3>3. ASSUME Finish(p) \/ RetryAfterError(p) PROVE pc'[p] \in {"idle", "release"}
        BY <3>1, <3>3, WaysOn, ErrorWays
      <3> QED BY <2>1, <2>3, <3>1, <3>2, <3>3 DEF BeginPublication, ResourceInv
    <2>4. CASE CheckTarget(p) \/ UploadFile(p) \/ IndexFile(p) \/ CompensateUpload(p)
      <3>1. OthersStay(p) BY <2>4, PublishGoes DEF WorkerGoes
      <3>2. \/ pc'[p] \notin {"begin", "check", "upload_file"}
            \/ pc[p] = "check" /\ run'[p] = run[p]
        BY <2>4, WaysOn, ErrorWays
        DEF CheckTarget, UploadFile, IndexFile, CompensateUpload
      <3> QED BY <2>1, <3>1, <3>2 DEF ResourceInv
    <2> QED BY <1>3, <2>1, <2>2, <2>3, <2>4, OthersPrepare DEF PublishingSteps
  <1> QED BY <1>1, <1>2, <1>3, ElsewhereStep DEF Next, Steps, PipelineInv

-----------------------------------------------------------------------------
(* What a run has published it has indexed before it completes its work,   *)
(* and nobody publishes for a completed work any more.                     *)

IndexedRun(p) ==
  /\ pc[p] = "index" => drive[run[p].work] # None
  /\ pc[p] = "complete" /\ uploads[run[p].work] > 0 =>
       drive[run[p].work] # None /\ catalog[run[p].work]

IndexedWork(w) ==
  work[w].status = "completed" =>
    /\ \A p \in Workers : pc[p] \in PublishingSteps => run[p].work # w
    /\ uploads[w] > 0 => drive[w] # None /\ catalog[w]

IndexedInv ==
  /\ \A p \in Workers : IndexedRun(p)
  /\ \A w \in Works : IndexedWork(w)

\* Steps of nobody who publishes, which complete nothing.
LEMMA IndexedStill ==
  ASSUME IndexedInv, UNCHANGED <<drive, catalog, uploads>>,
         \A p \in Workers : pc'[p] \in PublishingSteps =>
           pc'[p] = pc[p] /\ run'[p].work = run[p].work,
         \A w \in Works : work'[w].status = "completed" => work[w].status = "completed"
  PROVE  IndexedInv'
  <1>1. ASSUME NEW p \in Workers PROVE IndexedRun(p)'
    <2>1. CASE pc'[p] \in PublishingSteps
      <3>1. pc'[p] = pc[p] /\ run'[p].work = run[p].work BY <2>1
      <3> QED BY <3>1 DEF IndexedInv, IndexedRun
    <2>2. CASE pc'[p] \notin PublishingSteps BY <2>2 DEF IndexedRun, PublishingSteps
    <2> QED BY <2>1, <2>2
  <1>2. ASSUME NEW w \in Works PROVE IndexedWork(w)'
    <2>1. PublishingSteps' = PublishingSteps BY DEF PublishingSteps
    <2> SUFFICES ASSUME work'[w].status = "completed"
                 PROVE  /\ \A p \in Workers : pc'[p] \in PublishingSteps => run'[p].work # w
                        /\ uploads'[w] > 0 => drive'[w] # None /\ catalog'[w]
      BY <2>1 DEF IndexedWork
    <2>2. IndexedWork(w) /\ work[w].status = "completed" BY DEF IndexedInv
    <2> QED BY <2>2 DEF IndexedWork
  <1> QED BY <1>1, <1>2 DEF IndexedInv

\* A step of the only worker that publishes for a work.
LEMMA PublisherIndexes ==
  ASSUME IndexedInv, NEW p \in Workers, OthersStay(p), NEW w \in Works, w = run[p].work,
         pc'[p] \in PublishingSteps => run'[p].work = w,
         \A q \in Workers : q # p /\ pc[q] \in PublishingSteps => run[q].work # w,
         \A v \in Works : v # w =>
           /\ work'[v] = work[v] /\ drive'[v] = drive[v]
           /\ catalog'[v] = catalog[v] /\ uploads'[v] = uploads[v],
         \A q \in Workers : pc[q] \in PublishingSteps => run[q].work \in Works,
         IndexedRun(p)', IndexedWork(w)'
  PROVE  IndexedInv'
  <1>1. ASSUME NEW q \in Workers PROVE IndexedRun(q)'
    <2>1. CASE q # p /\ pc[q] \in PublishingSteps
      <3>1. pc'[q] = pc[q] /\ run'[q] = run[q] BY <2>1 DEF OthersStay
      <3>2. PICK v \in Works : v = run[q].work /\ v # w BY <2>1
      <3>3. IndexedRun(q) BY DEF IndexedInv
      <3> QED BY <3>1, <3>2, <3>3 DEF IndexedRun
    <2>2. CASE q # p /\ pc[q] \notin PublishingSteps
      <3>1. pc'[q] = pc[q] BY <2>2 DEF OthersStay
      <3> QED BY <2>2, <3>1 DEF IndexedRun, PublishingSteps
    <2> QED BY <2>1, <2>2
  <1>2. ASSUME NEW v \in Works PROVE IndexedWork(v)'
    <2>1. CASE v # w
      <3>0. PublishingSteps' = PublishingSteps BY DEF PublishingSteps
      <3> SUFFICES ASSUME work'[v].status = "completed"
                   PROVE  /\ \A q \in Workers : pc'[q] \in PublishingSteps => run'[q].work # v
                          /\ uploads'[v] > 0 => drive'[v] # None /\ catalog'[v]
        BY <3>0 DEF IndexedWork
      <3>1. IndexedWork(v) /\ work[v].status = "completed" BY <2>1 DEF IndexedInv
      <3>2. \A q \in Workers : pc'[q] \in PublishingSteps => run'[q].work # v
        <4> SUFFICES ASSUME NEW q \in Workers, pc'[q] \in PublishingSteps
                     PROVE  run'[q].work # v
          OBVIOUS
        <4>1. CASE q = p BY <2>1, <4>1
        <4>2. CASE q # p BY <3>1, <4>2 DEF OthersStay, IndexedWork
        <4> QED BY <4>1, <4>2
      <3> QED BY <2>1, <3>1, <3>2 DEF IndexedWork
    <2> QED BY <2>1
  <1> QED BY <1>1, <1>2 DEF IndexedInv

\* Who publishes, publishes alone, for a work that is not completed.
LEMMA AlonePublishing ==
  ASSUME IndexedInv, PublicationInv, PipelineInv, NEW p \in Workers, pc[p] \in PublishingSteps
  PROVE  /\ run[p].work \in Works
         /\ work[run[p].work].status # "completed"
         /\ \A q \in Workers : q # p /\ pc[q] \in PublishingSteps => run[q].work # run[p].work
         /\ \A q \in Workers : pc[q] \in PublishingSteps => run[q].work \in Works
  <1>1. \A q \in Workers : pc[q] \in PublishingSteps => run[q].work \in Works
    <2> SUFFICES ASSUME NEW q \in Workers, pc[q] \in PublishingSteps
                 PROVE  run[q].work \in Works
      OBVIOUS
    <2>1. pc[q] # "idle" BY DEF PublishingSteps
    <2> QED BY <2>1, OwnWork
  <1>2. run[p].work \in Works BY <1>1
  <1>3. work[run[p].work].status # "completed" BY <1>2 DEF IndexedInv, IndexedWork
  <1> QED BY <1>1, <1>2, <1>3 DEF PublicationInv

LEMMA PublishIndexes ==
  ASSUME IndexedInv, PublicationInv, ResourceInv, PipelineInv, NEW p \in Workers,
         CheckTarget(p) \/ UploadFile(p) \/ IndexFile(p) \/ CompensateUpload(p)
  PROVE  IndexedInv'
  <1>1. pc[p] \in PublishingSteps
    BY DEF CheckTarget, UploadFile, IndexFile, CompensateUpload, PublishingSteps
  <1>2. PICK w \in Works : w = run[p].work BY <1>1, AlonePublishing
  <1>3. /\ work[w].status # "completed"
        /\ \A q \in Workers : q # p /\ pc[q] \in PublishingSteps => run[q].work # w
        /\ \A q \in Workers : pc[q] \in PublishingSteps => run[q].work \in Works
    BY <1>1, <1>2, AlonePublishing
  <1>4. work' = work
    BY DEF CheckTarget, UploadFile, IndexFile, CompensateUpload, publisherUnchanged, storeVars
  <1>5. WorkerGoes(p) BY PublishGoes
  <1>6. OthersStay(p) /\ (pc'[p] \in PublishingSteps => run'[p].work = w)
    BY <1>2, <1>5 DEF WorkerGoes, GoesOn, PublishingSteps
  <1>7. IndexedWork(w)' BY <1>3, <1>4 DEF IndexedWork
  <1>8. /\ \A v \in Works : v # w =>
             /\ drive'[v] = drive[v] /\ catalog'[v] = catalog[v] /\ uploads'[v] = uploads[v]
        /\ IndexedRun(p)'
    <2>0. /\ drive \in [Works -> Contents \cup {None}] /\ catalog \in [Works -> BOOLEAN]
          /\ uploads \in [Works -> Nat]
      BY DEF PipelineInv, OthersOK
    <2>1. CASE CheckTarget(p)
      <3>1. UNCHANGED <<drive, catalog, uploads>> /\ pc[p] = "check" BY <2>1 DEF CheckTarget
      <3>2. uploads[w] = 0 BY <1>2, <3>1 DEF PublicationInv
      <3>3. pc'[p] # "index" BY <2>1, <3>1, WaysOn, ErrorWays DEF CheckTarget
      <3> QED BY <1>6, <3>1, <3>2, <3>3 DEF IndexedRun, PublishingSteps
    <2>2. CASE UploadFile(p)
      <3>1. pc[p] = "upload_file" /\ catalog' = catalog BY <2>2 DEF UploadFile
      <3>2. uploads' = [uploads EXCEPT ![w] = @ + 1] BY <1>2, <2>2 DEF UploadFile
      <3>3. \/ drive' = [drive EXCEPT ![w] = run[p].resource] /\ Go(p, "index")
            \/ /\ drive' = [drive EXCEPT ![w] = run[p].resource] \/ drive' = drive
               /\ FailWith(p, "publish_failed")
        BY <1>2, <2>2 DEF UploadFile
      <3>4. CASE FailWith(p, "publish_failed")
        <4>1. pc'[p] = "fail" BY <3>1, <3>4, WaysOn
        <4> QED BY <2>0, <3>1, <3>2, <3>3, <4>1 DEF IndexedRun
      <3>5. CASE drive' = [drive EXCEPT ![w] = run[p].resource] /\ Go(p, "index")
        <4>1. pc'[p] = "index" /\ run'[p].work = w BY <1>2, <3>1, <3>5, WaysOn
        <4>2. run[p].resource # None
          BY <3>1, NoneAssumption DEF ResourceInv
        <4> QED BY <2>0, <3>1, <3>2, <3>5, <4>1, <4>2 DEF IndexedRun
      <3> QED BY <3>3, <3>4, <3>5
    <2>3. CASE IndexFile(p)
      <3>1. pc[p] = "index" /\ UNCHANGED <<drive, uploads>> BY <2>3 DEF IndexFile
      <3>2. drive[w] # None BY <1>2, <3>1 DEF IndexedInv, IndexedRun
      <3>3. \/ catalog' = [catalog EXCEPT ![w] = TRUE] /\ Go(p, "complete")
            \/ /\ catalog' = [catalog EXCEPT ![w] = TRUE] \/ catalog' = catalog
               /\ Go(p, "compensate")
        BY <1>2, <2>3 DEF IndexFile
      <3>4. CASE Go(p, "compensate")
        <4>1. pc'[p] = "compensate" BY <3>1, <3>4, WaysOn
        <4> QED BY <2>0, <3>1, <3>3, <4>1 DEF IndexedRun
      <3>5. CASE catalog' = [catalog EXCEPT ![w] = TRUE] /\ Go(p, "complete")
        <4>1. pc'[p] = "complete" /\ run'[p].work = w BY <1>2, <3>1, <3>5, WaysOn
        <4> QED BY <2>0, <3>1, <3>2, <3>5, <4>1 DEF IndexedRun
      <3> QED BY <3>3, <3>4, <3>5
    <2>4. CASE CompensateUpload(p)
      <3>1. pc[p] = "compensate" /\ UNCHANGED <<catalog, uploads>>
        BY <2>4 DEF CompensateUpload
      <3>2. pc'[p] = "fail" BY <2>4, <3>1, WaysOn DEF CompensateUpload
      <3>3. drive' = [drive EXCEPT ![w] = None] \/ drive' = drive
        BY <1>2, <2>4 DEF CompensateUpload
      <3> QED BY <2>0, <3>1, <3>2, <3>3 DEF IndexedRun
    <2> QED BY <2>1, <2>2, <2>3, <2>4
  <1> QED BY <1>2, <1>3, <1>4, <1>6, <1>7, <1>8, PublisherIndexes

LEMMA CompleteIndexes ==
  ASSUME IndexedInv, PublicationInv, PipelineInv, NEW p \in Workers, CompleteWork(p)
  PROVE  IndexedInv'
  <1>1. pc[p] = "complete" /\ pc[p] \in PublishingSteps
        /\ UNCHANGED <<drive, catalog, uploads>>
    BY DEF CompleteWork, PublishingSteps, storeCallUnchanged, externalVars
  <1>2. PICK w \in Works : w = run[p].work BY <1>1, AlonePublishing
  <1>3. /\ work[w].status # "completed"
        /\ \A q \in Workers : q # p /\ pc[q] \in PublishingSteps => run[q].work # w
        /\ \A q \in Workers : pc[q] \in PublishingSteps => run[q].work \in Works
    BY <1>1, <1>2, AlonePublishing
  <1>4. OthersStay(p) /\ pc'[p] \notin PublishingSteps
    BY <1>1, WaysOn, ErrorWays DEF CompleteWork, WorkerGoes, PublishingSteps
  <1>5. \A v \in Works : v # w => work'[v] = work[v]
    <2>1. UNCHANGED storeVars \/ \E c, lag : Complete(w, c, lag)
      BY <1>2 DEF CompleteWork
    <2> QED BY <2>1, CallShape DEF storeVars, PipelineInv
  <1>6. IndexedWork(w)'
    <2>1. uploads[w] > 0 => drive[w] # None /\ catalog[w]
      BY <1>1, <1>2 DEF IndexedInv, IndexedRun
    <2>2. \A q \in Workers : pc'[q] \in PublishingSteps => run'[q].work # w
      BY <1>3, <1>4 DEF OthersStay
    <2> QED BY <1>1, <2>1, <2>2 DEF IndexedWork, PublishingSteps
  <1>7. IndexedRun(p)' BY <1>4 DEF IndexedRun, PublishingSteps
  <1> QED BY <1>1, <1>2, <1>3, <1>4, <1>5, <1>6, <1>7, PublisherIndexes

\* Who begins to publish finds nobody else publishing.
LEMMA BeginIndexes ==
  ASSUME IndexedInv, PublicationInv, PipelineInv, NEW p \in Workers, BeginPublication(p)
  PROVE  IndexedInv'
  <1>1. pc[p] = "begin" /\ UNCHANGED <<drive, catalog, uploads>>
    BY DEF BeginPublication, storeCallUnchanged, externalVars
  <1>2. PICK w \in Works : w = run[p].work BY <1>1, OwnWork
  <1>3. OthersStay(p) BY VerifyGoes DEF WorkerGoes
  <1>4. CASE UNCHANGED storeVars
    <2>1. pc'[p] \in {"idle", "release"} \/ \E d, lag : BeginPublishing(w, run[p].claim, d, lag)
      BY <1>1, <1>2, WaysOn DEF BeginPublication
    <2>2. \A d, lag : ~BeginPublishing(w, run[p].claim, d, lag)
      <3> SUFFICES ASSUME NEW d, NEW lag, BeginPublishing(w, run[p].claim, d, lag) PROVE FALSE
        OBVIOUS
      <3> QED BY <1>4 DEF BeginPublishing, CanBeginPublishing, OwnsClaim, storeVars, PipelineInv,
                      StoreInv, StoreTypeOK, WorkRecord
    <2>3. \A q \in Workers : pc'[q] \in PublishingSteps =>
            pc'[q] = pc[q] /\ run'[q].work = run[q].work
      BY <1>3, <2>1, <2>2 DEF OthersStay, PublishingSteps
    <2>4. \A v \in Works : work'[v].status = "completed" => work[v].status = "completed"
      BY <1>4 DEF storeVars
    <2> QED BY <1>1, <2>3, <2>4, IndexedStill
  <1>5. CASE ~UNCHANGED storeVars
    <2>1. PICK d, lag : BeginPublishing(w, run[p].claim, d, lag)
      BY <1>2, <1>5 DEF BeginPublication
    <2>2. /\ \A v \in Works : v # w => work'[v] = work[v]
          /\ work[w].status = "claimed" /\ work'[w].status = "publishing"
      BY <2>1 DEF BeginPublishing, CanBeginPublishing, OwnsClaim, PipelineInv, StoreInv,
                  StoreTypeOK, WorkRecord
    <2>3. grants[w] = 0
      BY <2>2 DEF PipelineInv, StoreInv, WorkInv, GrantsFollowStatus
    <2>4. \A q \in Workers : pc[q] \in PublishingSteps => run[q].work # w
      BY <2>3 DEF PublicationInv
    <2>5. \A q \in Workers : pc[q] \in PublishingSteps => run[q].work \in Works
      <3> SUFFICES ASSUME NEW q \in Workers, pc[q] \in PublishingSteps
                   PROVE  run[q].work \in Works
        OBVIOUS
      <3>1. pc[q] # "idle" BY DEF PublishingSteps
      <3> QED BY <3>1, OwnWork
    <2>6. /\ pc'[p] \in PublishingSteps => run'[p].work = w
          /\ pc'[p] \notin {"index", "complete"}
      <3>1. ASSUME GoWith(p, "check", [Settling(p) EXCEPT !.resource = run[p].resource])
            PROVE  GoesOn(p) /\ pc'[p] = "check"
        BY <1>1, <3>1, GrantWay
      <3> QED BY <1>1, <1>2, <3>1, WaysOn, ErrorWays
              DEF BeginPublication, GoesOn, PublishingSteps
    <2>7. IndexedRun(p)' BY <2>6 DEF IndexedRun
    <2>8. IndexedWork(w)' BY <2>2 DEF IndexedWork
    <2> QED BY <1>1, <1>2, <1>3, <2>2, <2>4, <2>5, <2>6, <2>7, <2>8, PublisherIndexes
  <1> QED BY <1>4, <1>5

\* Nothing but the call of a worker that completes its work makes a work completed.
LEMMA OthersComplete ==
  ASSUME StoreInv, NEW w \in Works, NEW c, NEW lag,
         \/ Claim(w, c, lag) \/ AbandonPublication(w, lag)
         \/ \E d : RecordUploadDescriptor(w, c, d, lag)
         \/ \E a : RecordAsset(w, c, a, lag)
         \/ ReleaseForRetry(w, c, lag) \/ \E code : Fail(w, c, code, lag)
         \/ ClearPendingJobUpdate(w) \/ CreateWork(w) \/ MarkEnqueued(w)
         \/ DropFromOutbox(w) \/ UNCHANGED storeVars \/ AgeWorks
  PROVE  \A v \in Works : work'[v].status = "completed" => work[v].status = "completed"
  <1> DEFINE Shape ==
        \A v \in Works : work'[v].status = "completed" => work[v].status = "completed"
  <1> SUFFICES Shape OBVIOUS
  <1>0. work \in [Works -> WorkRecord] BY DEF StoreInv, StoreTypeOK
  <1> USE <1>0
  <1>1. CASE AgeWorks
    <2>1. NoRecord("gone").status = "gone" BY DEF NoRecord
    <2>2. \A v \in Works : work[v] \in WorkRecord /\ work'[v] = Aged(work[v])
      BY <1>1 DEF AgeWorks
    <2> QED BY <2>1, <2>2, AgedFields
  <1> USE DEF WorkRecord
  <1>2. CASE AbandonPublication(w, lag) BY <1>2 DEF AbandonPublication
  <1>3. ASSUME NEW d, RecordUploadDescriptor(w, c, d, lag) PROVE Shape
    BY <1>3 DEF RecordUploadDescriptor
  <1>4. ASSUME NEW a, RecordAsset(w, c, a, lag) PROVE Shape BY <1>4 DEF RecordAsset
  <1>5. CASE ReleaseForRetry(w, c, lag) BY <1>5 DEF ReleaseForRetry
  <1>6. CASE Claim(w, c, lag) BY <1>6 DEF Claim
  <1>7. CASE ClearPendingJobUpdate(w) BY <1>7 DEF ClearPendingJobUpdate
  <1>8. CASE CreateWork(w) BY <1>8 DEF CreateWork
  <1>9. CASE MarkEnqueued(w) BY <1>9 DEF MarkEnqueued
  <1>10. CASE DropFromOutbox(w) \/ UNCHANGED storeVars BY <1>10 DEF DropFromOutbox, storeVars
  <1>11. ASSUME NEW code, Fail(w, c, code, lag) PROVE Shape
    <2>1. Settle(w, "failed", code) BY <1>11 DEF Fail
    <2> QED BY <2>1 DEF Settle
  <1> HIDE DEF Shape, WorkRecord
  <1> QED BY <1>1, <1>2, <1>3, <1>4, <1>5, <1>6, <1>7, <1>8, <1>9, <1>10, <1>11

LEMMA WorkerIndexes ==
  ASSUME IndexedInv, PublicationInv, ResourceInv, PipelineInv, NEW p \in Workers, Worker(p)
  PROVE  IndexedInv'
  <1>1. CASE CheckTarget(p) \/ UploadFile(p) \/ IndexFile(p) \/ CompensateUpload(p)
    BY <1>1, PublishIndexes
  <1>2. CASE BeginPublication(p) BY <1>2, BeginIndexes
  <1>3. CASE CompleteWork(p) BY <1>3, CompleteIndexes
  <1>4. CASE /\ ~(CheckTarget(p) \/ UploadFile(p) \/ IndexFile(p) \/ CompensateUpload(p))
             /\ ~BeginPublication(p) /\ ~CompleteWork(p)
    <2>1. OthersStay(p) /\ pc'[p] \notin PublishingSteps
      <3>1. CASE VerifyDownload(p)
        <4>1. OthersStay(p) BY <3>1, VerifyGoes DEF WorkerGoes
        <4>2. ASSUME NEW c \in Contents, GoWith(p, "begin", [run[p] EXCEPT !.resource = c])
              PROVE  pc'[p] = "begin"
          BY <3>1, <4>2, DownloadWay DEF VerifyDownload
        <4>3. ASSUME FailWith(p, "validation_failed") PROVE pc'[p] = "fail"
          BY <3>1, <4>3, WaysOn DEF VerifyDownload
        <4> QED BY <3>1, <4>1, <4>2, <4>3 DEF VerifyDownload, PublishingSteps
      <3>2. CASE ~VerifyDownload(p) BY <1>4, <3>2, OthersPrepare
      <3> QED BY <3>1, <3>2
    <2>2. UNCHANGED <<drive, catalog, uploads>>
      BY <1>4
      DEF Worker, ReceiveMessage, ClaimWork, ClaimMissing, ClaimTerminal, ClaimActive,
          ClaimAbandoned, ClaimGranted, ReadSource, DescribeUpload, CreateAsset,
          UploadContent, RecordAssetId, WaitForScan, VerifyDownload, FailWork, ReleaseWork,
          UpdateJob, ClearUpdate, Acknowledge, TransientError, AssetApiRejects, SourceGone,
          WorkerCrashes, storeCallUnchanged, assetCallUnchanged, externalVars
    <2>3. CASE UNCHANGED storeVars
      BY <2>1, <2>2, <2>3, IndexedStill DEF OthersStay, storeVars
    <2>4. CASE ~UNCHANGED storeVars
      <3>1. pc[p] # "idle"
        BY <1>4, <2>4
        DEF Worker, ReceiveMessage, ClaimWork, ClaimMissing, ClaimTerminal, ClaimActive,
            ClaimAbandoned, ClaimGranted, ReadSource, DescribeUpload, CreateAsset,
            UploadContent, RecordAssetId, WaitForScan, VerifyDownload, FailWork,
            ReleaseWork, UpdateJob, ClearUpdate, Acknowledge, TransientError,
            AssetApiRejects, SourceGone, WorkerCrashes
      <3>2. PICK w \in Works : w = run[p].work BY <3>1, OwnWork
      <3>3. \E c, lag :
              \/ Claim(w, c, lag) \/ AbandonPublication(w, lag)
              \/ \E d : RecordUploadDescriptor(w, c, d, lag)
              \/ \E a : RecordAsset(w, c, a, lag)
              \/ ReleaseForRetry(w, c, lag) \/ \E code : Fail(w, c, code, lag)
              \/ ClearPendingJobUpdate(w)
        BY <1>4, <2>4, <3>2
        DEF Worker, ReceiveMessage, ClaimWork, ClaimMissing, ClaimTerminal, ClaimActive,
            ClaimAbandoned, ClaimGranted, ReadSource, DescribeUpload, CreateAsset,
            UploadContent, RecordAssetId, WaitForScan, VerifyDownload, FailWork,
            ReleaseWork, UpdateJob, ClearUpdate, Acknowledge, TransientError,
            AssetApiRejects, SourceGone, WorkerCrashes, assetCallUnchanged
      <3>4. \A v \in Works : work'[v].status = "completed" => work[v].status = "completed"
        BY <3>3, OthersComplete DEF PipelineInv
      <3> QED BY <2>1, <2>2, <3>4, IndexedStill DEF OthersStay
    <2> QED BY <2>3, <2>4
  <1> QED BY <1>1, <1>2, <1>3, <1>4

LEMMA IndexedStep ==
  ASSUME IndexedInv, PublicationInv, ResourceInv, PipelineInv, [Next]_vars
  PROVE  IndexedInv'
  <1>1. ASSUME NEW p \in Workers, Worker(p) PROVE IndexedInv' BY <1>1, WorkerIndexes
  <1>2. CASE \/ \E w \in Works : Handler(w)
             \/ \E f \in Flushers : Flusher(f)
             \/ Scanner \/ UNCHANGED vars
    <2>1. UNCHANGED <<pc, run, drive, catalog, uploads>> BY <1>2, ElsewhereStep DEF PipelineInv
    <2>2. \/ UNCHANGED storeVars
          \/ \E w \in Works : CreateWork(w) \/ MarkEnqueued(w) \/ DropFromOutbox(w)
      BY <1>2
      DEF Handler, ConfirmAttachment, HandOffWork, HandlerFailsJob, HandlerEnqueues,
          HandlerMarksEnqueued, HandlerCrashes, Flusher, ReadOutboxEntry, RemoveStaleEntry,
          FlusherEnqueues, FlusherMarksEnqueued, Scanner, vars, PipelineInv, FlushersOK
    <2>3. \A v \in Works : work'[v].status = "completed" => work[v].status = "completed"
      BY <2>2, OthersComplete DEF PipelineInv, storeVars
    <2> QED BY <2>1, <2>3, IndexedStill
  <1>3. CASE Tick
    <2>1. AgeWorks /\ UNCHANGED <<drive, catalog, uploads>> BY <1>3 DEF Tick, externalVars
    <2>2. \A v \in Works : work'[v].status = "completed" => work[v].status = "completed"
      BY <2>1, OthersComplete DEF PipelineInv
    <2> QED BY <1>3, <2>1, <2>2, TickRun, IndexedStill
  <1> QED BY <1>1, <1>2, <1>3 DEF Next, Steps

\* Always: a run that is about to publish holds the downloaded content.
THEOREM ResourceInvariant == Spec => []ResourceInv
  <1>1. Init => ResourceInv BY DEF Init, ResourceInv
  <1>2. ResourceInv /\ PipelineInv /\ [Next]_vars => ResourceInv' BY ResourceStep
  <1> QED BY <1>1, <1>2, PipelineInvariant, PTL DEF Spec

\* Always: a run that completes what it sent has sent and indexed it before, and nobody is
\* publishing for a completed work.
THEOREM IndexedInvariant == Spec => []IndexedInv
  <1>1. Init => IndexedInv
    BY DEF Init, StoreInit, NoRecord, IndexedInv, IndexedRun, IndexedWork
  <1>2. IndexedInv /\ PublicationInv /\ ResourceInv /\ PipelineInv /\ [Next]_vars => IndexedInv'
    BY IndexedStep
  <1> QED BY <1>1, <1>2, PipelineInvariant, PublicationInvariant, ResourceInvariant, PTL DEF Spec

\* A work that was published and is completed is in the drive and in the catalog; no
\* compensation of another run takes it away again.
THEOREM CompletedWorkIndexed == Spec => []CompletedIsIndexed
  <1>1. IndexedInv => CompletedIsIndexed BY DEF IndexedInv, IndexedWork, CompletedIsIndexed
  <1> QED BY <1>1, IndexedInvariant, PTL

-----------------------------------------------------------------------------
(* All that is known of the content of a work agrees: its recorded         *)
(* descriptor, what its runs describe and send, what the Asset API holds   *)
(* for it and what is in the drive.  What is sent was found clean.         *)

Described == {"create_asset", "upload", "record_asset", "scan", "verify", "begin"}
Holding   == {"upload", "record_asset", "scan", "verify"}
Sending   == {"begin", "check", "upload_file"}

Holds(p, c) ==
  /\ pc[p] \in Described => run[p].descriptor = c /\ c # None
  /\ pc[p] \in Sending => run[p].resource = c /\ c # None

\* c is the content of w; None as long as nobody knows it.
AgreeOn(w, c) ==
  /\ work[w].status # "gone" => work[w].descriptor = c
  /\ \A p \in Workers : run[p].work = w => Holds(p, c)
  /\ \A a \in Assets : asset[a].owner = w => asset[a].content \in {None, c}
  /\ drive[w] \in {None, c}

Scanned(w) ==
  \E a \in Assets :
    asset[a].owner = w /\ asset[a].content # None /\ asset[a].scan = "clean"

AssetKnows(a) ==
  /\ asset[a].content # None => asset[a].owner # None
  /\ asset[a].scan # "pending" => asset[a].content # None

WorkKnows(w) ==
  /\ work[w].asset # None =>
       asset[work[w].asset].owner = w /\ asset[work[w].asset].content # None
  /\ drive[w] # None => Scanned(w)

RunKnows(p) ==
  /\ pc[p] \in Holding => run[p].asset \in Assets /\ asset[run[p].asset].owner = run[p].work
  /\ pc[p] \in Holding \ {"upload"} => asset[run[p].asset].content # None
  /\ pc[p] = "verify" => asset[run[p].asset].scan = "clean"
  /\ pc[p] \in Sending => Scanned(run[p].work)

VerifiedInv ==
  /\ \A w \in Works : \E c : AgreeOn(w, c)
  /\ \A a \in Assets : AssetKnows(a)
  /\ \A w \in Works : WorkKnows(w)
  /\ \A p \in Workers : RunKnows(p)

\* What a step keeps: the locals of a run, the facts of an asset, a descriptor.
SameLocals(p) ==
  /\ pc'[p] = pc[p] /\ run'[p].work = run[p].work /\ run'[p].asset = run[p].asset
  /\ run'[p].descriptor = run[p].descriptor /\ run'[p].resource = run[p].resource

Grows(a) ==
  /\ asset[a].owner # None => asset'[a].owner = asset[a].owner
  /\ asset[a].content # None => asset'[a].content = asset[a].content
  /\ asset[a].scan # "pending" => asset'[a].scan = asset[a].scan

KeepsDescriptor(w) ==
  work'[w].status # "gone" =>
    work[w].status # "gone" /\ work'[w].descriptor = work[w].descriptor

KeepsAsset(w) == work'[w].asset \in {None, work[w].asset}

LEMMA AgreeStill ==
  ASSUME NEW w, NEW c, AgreeOn(w, c), KeepsDescriptor(w),
         \A p \in Workers : SameLocals(p) \/ (run'[p].work = w => Holds(p, c)'),
         \A a \in Assets : asset'[a].owner = w => asset'[a].content \in {None, c},
         drive'[w] \in {None, c}
  PROVE  AgreeOn(w, c)'
  <1>1. ASSUME NEW p \in Workers, run'[p].work = w PROVE Holds(p, c)'
    BY <1>1 DEF SameLocals, AgreeOn, Holds, Described, Sending
  <1>2. work'[w].status # "gone" => work'[w].descriptor = c BY DEF KeepsDescriptor, AgreeOn
  <1> QED BY <1>1, <1>2 DEF AgreeOn

LEMMA ScannedStill ==
  ASSUME NEW w \in Works, Scanned(w), \A a \in Assets : Grows(a)
  PROVE  Scanned(w)'
  BY ActorAssumption DEF Scanned, Grows

LEMMA RunStill ==
  ASSUME NEW p, RunKnows(p), SameLocals(p), \A a \in Assets : Grows(a),
         pc[p] # "idle" => run[p].work \in Works
  PROVE  RunKnows(p)'
  <1>1. CASE pc[p] \in Holding
    <2>1. /\ run[p].asset \in Assets /\ asset[run[p].asset].owner = run[p].work
          /\ run[p].work # None
      BY <1>1, ActorAssumption DEF RunKnows, Holding
    <2>2. PICK a \in Assets : a = run[p].asset BY <2>1
    <2>3. Grows(a) OBVIOUS
    <2> QED BY <1>1, <2>1, <2>2, <2>3 DEF RunKnows, SameLocals, Grows, Holding, Sending
  <1>2. CASE pc[p] \in Sending
    <2>1. PICK w \in Works : w = run[p].work BY <1>2 DEF Sending
    <2>2. Scanned(w)' BY <1>2, <2>1, ScannedStill DEF RunKnows
    <2> QED BY <1>2, <2>1, <2>2 DEF RunKnows, SameLocals, Holding, Sending, Scanned
  <1>3. CASE pc[p] \notin Holding \cup Sending
    BY <1>3 DEF RunKnows, SameLocals, Holding, Sending
  <1> QED BY <1>1, <1>2, <1>3

LEMMA WorkStill ==
  ASSUME NEW w \in Works, WorkKnows(w), \A a \in Assets : Grows(a),
         work[w].asset \in Assets \cup {None}, KeepsAsset(w),
         drive'[w] \in {None, drive[w]} \/ Scanned(w)
  PROVE  WorkKnows(w)'
  <1>1. work'[w].asset # None =>
          /\ asset'[work'[w].asset].owner = w
          /\ asset'[work'[w].asset].content # None
    <2> SUFFICES ASSUME work'[w].asset # None
                 PROVE  /\ asset'[work'[w].asset].owner = w
                        /\ asset'[work'[w].asset].content # None
      OBVIOUS
    <2>1. PICK a \in Assets : a = work[w].asset /\ work'[w].asset = a BY DEF KeepsAsset
    <2>2. Grows(a) /\ asset[a].owner = w /\ asset[a].content # None
      BY <2>1 DEF WorkKnows
    <2> QED BY <2>1, <2>2, ActorAssumption DEF Grows
  <1>2. drive'[w] # None => Scanned(w)' BY ScannedStill DEF WorkKnows
  <1> QED BY <1>1, <1>2 DEF WorkKnows

LEMMA VerifiedStill ==
  ASSUME VerifiedInv, PipelineInv,
         \A p \in Workers :
           \/ SameLocals(p)
           \/ /\ RunKnows(p)'
              /\ \A w \in Works : \A c :
                   run'[p].work = w /\ AgreeOn(w, c) => Holds(p, c)',
         \A a \in Assets : Grows(a) /\ AssetKnows(a)',
         \A w \in Works : KeepsDescriptor(w),
         \A w \in Works : \A c : AgreeOn(w, c) =>
           /\ \A a \in Assets : asset'[a].owner = w => asset'[a].content \in {None, c}
           /\ drive'[w] \in {None, c},
         \A w \in Works : WorkKnows(w)'
  PROVE  VerifiedInv'
  <1>1. ASSUME NEW w \in Works PROVE \E c : AgreeOn(w, c)'
    <2>1. PICK c : AgreeOn(w, c) BY DEF VerifiedInv
    <2>2. \A p \in Workers : SameLocals(p) \/ (run'[p].work = w => Holds(p, c)')
      BY <2>1
    <2>3. AgreeOn(w, c)' BY <2>1, <2>2, AgreeStill
    <2> QED BY <2>3
  <1>2. ASSUME NEW p \in Workers PROVE RunKnows(p)'
    <2>1. pc[p] # "idle" => run[p].work \in Works BY OwnWork
    <2> QED BY <2>1, RunStill DEF VerifiedInv
  <1> QED BY <1>1, <1>2 DEF VerifiedInv

\* A step that leaves the assets and the drive as they are.
LEMMA LocalVerifies ==
  ASSUME VerifiedInv, PipelineInv, NEW p \in Workers, OthersStay(p),
         UNCHANGED <<asset, drive>>,
         \A w \in Works : KeepsDescriptor(w) /\ KeepsAsset(w),
         \/ pc'[p] \notin Described \cup Sending
         \/ /\ run'[p].work = run[p].work /\ RunKnows(p)'
            /\ \A c : AgreeOn(run[p].work, c) => Holds(p, c)'
  PROVE  VerifiedInv'
  <1>1. ASSUME NEW q \in Workers
        PROVE  \/ SameLocals(q)
               \/ /\ RunKnows(q)'
                  /\ \A w \in Works : \A c :
                       run'[q].work = w /\ AgreeOn(w, c) => Holds(q, c)'
    <2>1. CASE q # p BY <2>1 DEF OthersStay, SameLocals
    <2>2. CASE q = p /\ pc'[p] \notin Described \cup Sending
      BY <2>2 DEF RunKnows, Holds, Described, Sending, Holding
    <2>3. CASE q = p /\ pc'[p] \in Described \cup Sending BY <2>3
    <2> QED BY <2>1, <2>2, <2>3
  <1>2. ASSUME NEW a \in Assets PROVE Grows(a) /\ AssetKnows(a)'
    BY DEF Grows, AssetKnows, VerifiedInv
  <1>3. ASSUME NEW w \in Works PROVE WorkKnows(w)'
    <2>1. work[w].asset \in Assets \cup {None}
      BY DEF PipelineInv, StoreInv, StoreTypeOK, WorkRecord
    <2> QED BY <1>2, <2>1, WorkStill DEF VerifiedInv
  <1>4. \A w \in Works : \A c : AgreeOn(w, c) =>
           /\ \A a \in Assets : asset'[a].owner = w => asset'[a].content \in {None, c}
           /\ drive'[w] \in {None, c}
    BY DEF AgreeOn
  <1> QED BY <1>1, <1>2, <1>3, <1>4, VerifiedStill

-----------------------------------------------------------------------------
(* The steps of a worker, of the handler, of the dispatcher and of the     *)
(* environment keep what is known of the content.                          *)

\* The worker's calls of the store leave the other works alone and this one's descriptor.
LEMMA CallsKeep ==
  ASSUME StoreInv, NEW w \in Works, NEW c, NEW lag,
         \/ Claim(w, c, lag) \/ AbandonPublication(w, lag)
         \/ \E d : BeginPublishing(w, c, d, lag)
         \/ ReleaseForRetry(w, c, lag) \/ Complete(w, c, lag)
         \/ \E code : Fail(w, c, code, lag)
         \/ ClearPendingJobUpdate(w) \/ CreateWork(w) \/ MarkEnqueued(w)
         \/ DropFromOutbox(w) \/ UNCHANGED storeVars \/ AgeWorks
  PROVE  \A v \in Works : KeepsDescriptor(v) /\ KeepsAsset(v)
  <1> DEFINE Shape == \A v \in Works : KeepsDescriptor(v) /\ KeepsAsset(v)
  <1> SUFFICES Shape OBVIOUS
  <1>0. work \in [Works -> WorkRecord] BY DEF StoreInv, StoreTypeOK
  <1> USE <1>0 DEF KeepsDescriptor, KeepsAsset
  <1>1. CASE AgeWorks
    <2>1. NoRecord("gone").status = "gone" /\ NoRecord("gone").asset = None BY DEF NoRecord
    <2>2. \A v \in Works : work[v] \in WorkRecord /\ work'[v] = Aged(work[v])
      BY <1>1 DEF AgeWorks
    <2>3. ASSUME NEW v \in Works PROVE KeepsDescriptor(v) /\ KeepsAsset(v)
      <3> DEFINE r == [work[v] EXCEPT
                         !.ttl = IF RetentionEnds THEN work[v].ttl - 1 ELSE work[v].ttl,
                         !.claimLeft = Down(work[v].claimLeft),
                         !.pubLeft = Down(work[v].pubLeft)]
      <3>1. r.status = work[v].status /\ r.descriptor = work[v].descriptor
              /\ r.asset = work[v].asset
        BY <2>2 DEF WorkRecord
      <3>2. work'[v] \in {work[v], NoRecord("gone"), r} BY <2>2 DEF Aged
      <3>3. work'[v] = r \/ work'[v] = work[v] => work[v].status # "gone" \/ work'[v].status = "gone"
        BY <3>1
      <3> HIDE DEF r
      <3> QED BY <2>1, <3>1, <3>2, <3>3
    <2> QED BY <2>3
  <1> USE DEF WorkRecord
  <1>2. CASE AbandonPublication(w, lag) BY <1>2 DEF AbandonPublication, Abandonable
  <1>3. ASSUME NEW d, BeginPublishing(w, c, d, lag) PROVE Shape
    BY <1>3 DEF BeginPublishing, CanBeginPublishing, OwnsClaim
  <1>4. CASE ReleaseForRetry(w, c, lag) BY <1>4 DEF ReleaseForRetry, OwnsClaim
  <1>5. CASE Claim(w, c, lag) BY <1>5 DEF Claim, Claimable
  <1>6. CASE ClearPendingJobUpdate(w)
    BY <1>6 DEF ClearPendingJobUpdate, HasPendingJobUpdate
  <1>7. CASE CreateWork(w) BY <1>7 DEF CreateWork
  <1>8. CASE MarkEnqueued(w) BY <1>8 DEF MarkEnqueued, CanMarkEnqueued
  <1>9. CASE DropFromOutbox(w) \/ UNCHANGED storeVars BY <1>9 DEF DropFromOutbox, storeVars
  <1>10. CASE Complete(w, c, lag)
    BY <1>10 DEF Complete, CanComplete, OwnsPublication, Settle
  <1>11. ASSUME NEW code, Fail(w, c, code, lag) PROVE Shape
    <2>1. Settle(w, "failed", code) /\ work[w].status \in {"claimed", "publishing"}
      BY <1>11 DEF Fail, CanFail, OwnsClaim, OwnsPublication
    <2> QED BY <2>1 DEF Settle
  <1> HIDE DEF Shape, WorkRecord
  <1> QED BY <1>1, <1>2, <1>3, <1>4, <1>5, <1>6, <1>7, <1>8, <1>9, <1>10, <1>11

\* Steps of a worker that lead away from the content, or not yet to it.
LEMMA LeaveVerifies ==
  ASSUME VerifiedInv, PipelineInv, NEW p \in Workers,
         \/ \E m \in Messages : ReceiveMessage(p, m)
         \/ ClaimMissing(p) \/ ClaimTerminal(p) \/ ClaimActive(p) \/ ClaimAbandoned(p)
         \/ ReadSource(p) \/ IndexFile(p) \/ CompleteWork(p) \/ FailWork(p)
         \/ ReleaseWork(p) \/ UpdateJob(p) \/ ClearUpdate(p) \/ Acknowledge(p)
         \/ TransientError(p) \/ AssetApiRejects(p) \/ SourceGone(p) \/ WorkerCrashes(p)
  PROVE  VerifiedInv'
  <1> USE DEF Described, Sending
  <1>1. UNCHANGED <<asset, drive>>
    BY DEF ReceiveMessage, ClaimMissing, ClaimTerminal, ClaimActive, ClaimAbandoned,
           ReadSource, IndexFile, CompleteWork, FailWork, ReleaseWork, UpdateJob,
           ClearUpdate, Acknowledge, TransientError, AssetApiRejects, SourceGone,
           WorkerCrashes, storeCallUnchanged, publisherUnchanged, externalVars
  <1>2. OthersStay(p) /\ pc'[p] \notin Described \cup Sending
    <2>1. ASSUME NEW m \in Messages, ReceiveMessage(p, m)
          PROVE  OthersStay(p) /\ pc'[p] = "claim"
      BY <2>1, GoEffect DEF ReceiveMessage, OthersStay
    <2>2. CASE ClaimMissing(p)
      <3>1. pc[p] = "claim" /\ (Finish(p) \/ Reconcile(p, None))
        BY <2>2 DEF ClaimMissing, Reconcile
      <3> QED BY <3>1, WaysOn
    <2>3. CASE ClaimTerminal(p)
      <3>1. pc[p] = "claim" /\ Reconcile(p, work[run[p].work].jobUpdate)
        BY <2>3 DEF ClaimTerminal
      <3>2. work[run[p].work].jobUpdate \in Terminal \cup {None}
        BY <3>1, OwnWork DEF PipelineInv, StoreInv, StoreTypeOK, WorkRecord
      <3> QED BY <3>1, <3>2, WaysOn
    <2>4. CASE ClaimActive(p) \/ ClaimAbandoned(p)
      BY <2>4, WaysOn, ErrorWays DEF ClaimActive, ClaimAbandoned, WorkerGoes
    <2>5. CASE ReadSource(p)
      <3>1. ASSUME NEW c \in Contents,
                   GoWith(p, "describe", [run[p] EXCEPT !.resource = c, !.descriptor = c])
            PROVE  OthersStay(p) /\ pc'[p] = "describe"
        BY <2>5, <3>1, SourceWay DEF ReadSource
      <3> QED BY <2>5, <3>1, WaysOn DEF ReadSource
    <2>6. CASE IndexFile(p) BY <2>6, WaysOn DEF IndexFile
    <2>7. CASE \/ CompleteWork(p) \/ FailWork(p) \/ ReleaseWork(p) \/ UpdateJob(p)
               \/ ClearUpdate(p) \/ Acknowledge(p)
      BY <2>7, WaysOn, ErrorWays
      DEF CompleteWork, FailWork, ReleaseWork, UpdateJob, ClearUpdate, Acknowledge, WorkerGoes
    <2>8. CASE TransientError(p) \/ AssetApiRejects(p) \/ SourceGone(p) \/ WorkerCrashes(p)
      BY <2>8, WaysOn, ErrorWays
      DEF TransientError, AssetApiRejects, SourceGone, WorkerCrashes, WorkerGoes,
          BeforePublishing
    <2> QED BY <2>1, <2>2, <2>3, <2>4, <2>5, <2>6, <2>7, <2>8
  <1>3. \A w \in Works : KeepsDescriptor(w) /\ KeepsAsset(w)
    <2>1. CASE UNCHANGED storeVars BY <2>1 DEF KeepsDescriptor, KeepsAsset, storeVars
    <2>2. CASE ~UNCHANGED storeVars
      <3>1. pc[p] # "idle"
        BY <2>2 DEF ReceiveMessage, ClaimMissing, ClaimTerminal, ClaimActive, ClaimAbandoned,
           ReadSource, IndexFile, CompleteWork, FailWork, ReleaseWork, UpdateJob,
           ClearUpdate, Acknowledge, TransientError, AssetApiRejects, SourceGone,
           WorkerCrashes
      <3>2. PICK w \in Works : w = run[p].work BY <3>1, OwnWork
      <3>3. \E c, lag :
              \/ AbandonPublication(w, lag) \/ ReleaseForRetry(w, c, lag)
              \/ Complete(w, c, lag) \/ \E code : Fail(w, c, code, lag)
              \/ ClearPendingJobUpdate(w)
        BY <2>2, <3>2
        DEF ReceiveMessage, ClaimMissing, ClaimTerminal, ClaimActive, ClaimAbandoned,
            ReadSource, IndexFile, CompleteWork, FailWork, ReleaseWork, UpdateJob,
            ClearUpdate, Acknowledge, TransientError, AssetApiRejects, SourceGone,
            WorkerCrashes, publisherUnchanged
      <3> QED BY <3>3, CallsKeep DEF PipelineInv
    <2> QED BY <2>1, <2>2
  <1> QED BY <1>1, <1>2, <1>3, LocalVerifies

\* A claim reads the descriptor and the asset back from the record.
LEMMA GrantedVerifies ==
  ASSUME VerifiedInv, PipelineInv, NEW p \in Workers, ClaimGranted(p)
  PROVE  VerifiedInv'
  <1>1. pc[p] = "claim" /\ UNCHANGED <<asset, drive>>
    BY DEF ClaimGranted, storeCallUnchanged, externalVars
  <1>2. PICK w \in Works : w = run[p].work BY <1>1, OwnWork
  <1>3. PICK lag \in Lags, c \in FreshClaims :
          /\ Claim(w, c, lag)
          /\ \/ GoWith(p, FirstStep(run[p].work),
                       [run[p] EXCEPT !.claim = c,
                                      !.descriptor = work[run[p].work].descriptor,
                                      !.asset = work[run[p].work].asset])
             \/ FinishAfterError(p)
    BY <1>2 DEF ClaimGranted
  <1>4. \A v \in Works : KeepsDescriptor(v) /\ KeepsAsset(v)
    BY <1>3, CallsKeep DEF PipelineInv
  <1>5. CASE FinishAfterError(p)
    BY <1>1, <1>4, <1>5, ErrorWays, LocalVerifies DEF WorkerGoes, Described, Sending
  <1>6. CASE ~FinishAfterError(p)
    <2>1. /\ OthersStay(p) /\ pc'[p] = FirstStep(w) /\ run'[p].work = w
          /\ run'[p].descriptor = work[w].descriptor /\ run'[p].asset = work[w].asset
      BY <1>1, <1>2, <1>3, <1>6, GrantedWay DEF FreshClaims
    <2>2. work[w].status # "gone" BY <1>3 DEF Claim, Claimable
    <2>3. WorkKnows(w) /\ work[w].asset \in Assets \cup {None}
      BY DEF VerifiedInv, PipelineInv, StoreInv, StoreTypeOK, WorkRecord
    <2>4. RunKnows(p)'
      BY <1>1, <2>1, <2>3 DEF RunKnows, WorkKnows, FirstStep, Holding, Sending
    <2>5. ASSUME NEW d, AgreeOn(w, d) PROVE Holds(p, d)'
      <3>1. work[w].descriptor = d BY <2>2, <2>5 DEF AgreeOn
      <3>2. work[w].asset # None => d # None
        BY <2>3, <2>5 DEF AgreeOn, WorkKnows
      <3>3. pc'[p] \in Described => d # None
        BY <2>1, <3>1, <3>2 DEF FirstStep, Described
      <3>4. pc'[p] \notin Sending BY <2>1 DEF FirstStep, Sending
      <3> QED BY <2>1, <3>1, <3>3, <3>4 DEF Holds, Described, Sending
    <2> QED BY <1>1, <1>2, <1>4, <2>1, <2>4, <2>5, LocalVerifies
  <1> QED BY <1>5, <1>6

\* The scanner's verdict and the comparison after the download.
LEMMA ScanVerifies ==
  ASSUME VerifiedInv, PipelineInv, NEW p \in Workers, WaitForScan(p)
  PROVE  VerifiedInv'
  <1> USE DEF Described, Sending, Holding
  <1>1. pc[p] = "scan" /\ UNCHANGED <<storeVars, asset, drive>>
    BY DEF WaitForScan, storeCallUnchanged, externalVars
  <1>2. \A v \in Works : KeepsDescriptor(v) /\ KeepsAsset(v)
    BY <1>1 DEF KeepsDescriptor, KeepsAsset, storeVars
  <1>3. OthersStay(p) BY VerifyGoes DEF WorkerGoes
  <1>4. CASE pc'[p] \notin Described \cup Sending BY <1>1, <1>2, <1>3, <1>4, LocalVerifies
  <1>5. CASE /\ asset[run[p].asset].scan = "clean"
             /\ GoWith(p, "verify", [run[p] EXCEPT !.scanLeft = 0])
    <2>1. /\ GoesOn(p) /\ pc'[p] = "verify"
          /\ run'[p].asset = run[p].asset /\ run'[p].descriptor = run[p].descriptor
      BY <1>1, <1>5, ScannedWay
    <2>2. RunKnows(p) BY DEF VerifiedInv
    <2>3. RunKnows(p)' BY <1>1, <1>5, <2>1, <2>2 DEF RunKnows, GoesOn
    <2>4. PICK w \in Works : w = run[p].work BY <1>1, OwnWork
    <2>5. \A c : AgreeOn(w, c) => Holds(p, c)'
      BY <1>1, <2>1, <2>4 DEF AgreeOn, Holds
    <2> QED BY <1>1, <1>2, <1>3, <2>1, <2>3, <2>4, <2>5, LocalVerifies DEF GoesOn
  <1> QED BY <1>1, <1>4, <1>5, WaysOn DEF WaitForScan

LEMMA DownloadVerifies ==
  ASSUME VerifiedInv, PipelineInv, NEW p \in Workers, VerifyDownload(p)
  PROVE  VerifiedInv'
  <1> USE DEF Described, Sending, Holding
  <1>1. pc[p] = "verify" /\ UNCHANGED <<storeVars, asset, drive>>
    BY DEF VerifyDownload, storeCallUnchanged, externalVars
  <1>2. \A v \in Works : KeepsDescriptor(v) /\ KeepsAsset(v)
    BY <1>1 DEF KeepsDescriptor, KeepsAsset, storeVars
  <1>3. OthersStay(p) BY VerifyGoes DEF WorkerGoes
  <1>4. CASE pc'[p] \notin Described \cup Sending BY <1>1, <1>2, <1>3, <1>4, LocalVerifies
  <1>5. ASSUME NEW d \in Contents, d = run[p].descriptor,
               GoWith(p, "begin", [run[p] EXCEPT !.resource = d])
        PROVE  VerifiedInv'
    <2>1. /\ GoesOn(p) /\ pc'[p] = "begin"
          /\ run'[p].resource = d /\ run'[p].descriptor = d
      BY <1>1, <1>5, DownloadWay
    <2>2. PICK w \in Works : w = run[p].work BY <1>1, OwnWork
    <2>3. Scanned(w) BY <1>1, <2>2 DEF VerifiedInv, RunKnows, Scanned
    <2>4. RunKnows(p)' BY <1>1, <2>1, <2>2, <2>3 DEF RunKnows, GoesOn, Scanned
    <2>5. \A c : AgreeOn(w, c) => Holds(p, c)'
      BY <1>1, <1>5, <2>1, <2>2 DEF AgreeOn, Holds
    <2> QED BY <1>1, <1>2, <1>3, <2>1, <2>2, <2>4, <2>5, LocalVerifies DEF GoesOn
  <1>6. ASSUME FailWith(p, "validation_failed") PROVE pc'[p] = "fail"
    BY <1>1, <1>6, WaysOn
  <1> QED BY <1>4, <1>5, <1>6 DEF VerifyDownload

LEMMA GrantVerifies ==
  ASSUME VerifiedInv, PipelineInv, NEW p \in Workers, BeginPublication(p) \/ CheckTarget(p)
  PROVE  VerifiedInv'
  <1> USE DEF Described, Sending, Holding
  <1>1. pc[p] \in {"begin", "check"} /\ UNCHANGED <<asset, drive>>
    BY DEF BeginPublication, CheckTarget, storeCallUnchanged, publisherUnchanged, externalVars
  <1>2. PICK w \in Works : w = run[p].work BY <1>1, OwnWork
  <1>3. \A v \in Works : KeepsDescriptor(v) /\ KeepsAsset(v)
    <2>1. UNCHANGED storeVars \/ \E c, d, lag : BeginPublishing(w, c, d, lag)
      BY <1>2 DEF BeginPublication, CheckTarget, publisherUnchanged
    <2> QED BY <2>1, CallsKeep DEF PipelineInv
  <1>4. OthersStay(p) BY VerifyGoes, PublishGoes DEF WorkerGoes
  <1>5. CASE pc'[p] \notin Described \cup Sending BY <1>1, <1>3, <1>4, <1>5, LocalVerifies
  <1>6. CASE /\ GoesOn(p) /\ pc'[p] \in {"check", "upload_file"}
             /\ run'[p].resource = run[p].resource
    <2>1. Scanned(w) BY <1>1, <1>2 DEF VerifiedInv, RunKnows
    <2>2. RunKnows(p)' BY <1>1, <1>2, <1>6, <2>1 DEF RunKnows, GoesOn, Scanned
    <2>3. \A c : AgreeOn(w, c) => Holds(p, c)'
      BY <1>1, <1>2, <1>6 DEF AgreeOn, Holds
    <2> QED BY <1>1, <1>2, <1>3, <1>4, <1>6, <2>2, <2>3, LocalVerifies DEF GoesOn
  <1>7. CASE BeginPublication(p)
    <2>1. ASSUME GoWith(p, "check", [Settling(p) EXCEPT !.resource = run[p].resource])
          PROVE  GoesOn(p) /\ pc'[p] = "check" /\ run'[p].resource = run[p].resource
      BY <1>1, <2>1, GrantWay
    <2>2. ASSUME Finish(p) \/ RetryAfterError(p) PROVE pc'[p] \in {"idle", "release"}
      BY <1>1, <2>2, WaysOn, ErrorWays
    <2> QED BY <1>5, <1>6, <1>7, <2>1, <2>2 DEF BeginPublication
  <1>8. CASE CheckTarget(p) BY <1>1, <1>5, <1>6, <1>8, WaysOn, ErrorWays DEF CheckTarget
  <1> QED BY <1>7, <1>8

\* The record, the runs and the assets agree on the descriptor from its first record on.
LEMMA DescribeVerifies ==
  ASSUME VerifiedInv, PipelineInv, NEW p \in Workers, DescribeUpload(p)
  PROVE  VerifiedInv'
  <1> USE DEF Described, Sending, Holding
  <1>1. pc[p] = "describe" /\ UNCHANGED <<asset, drive>>
    BY DEF DescribeUpload, storeCallUnchanged, externalVars
  <1>2. PICK w \in Works : w = run[p].work BY <1>1, OwnWork
  <1>3. WorkerGoes(p) BY FetchGoes
  <1>4. run[p].descriptor \in Contents /\ run[p].descriptor # None
    BY <1>1, NoneAssumption DEF PipelineInv, WorkersOK, GoodRun
  <1>5. CASE UNCHANGED storeVars
    <2>1. \A v \in Works : KeepsDescriptor(v) /\ KeepsAsset(v)
      BY <1>5 DEF KeepsDescriptor, KeepsAsset, storeVars
    <2>2. CASE pc'[p] \notin Described \cup Sending
      BY <1>1, <1>3, <2>1, <2>2, LocalVerifies DEF WorkerGoes
    <2>3. CASE /\ \E lag : RecordUploadDescriptor(w, run[p].claim, run[p].descriptor, lag)
               /\ Go(p, "create_asset")
      <3>1. pc'[p] = "create_asset" /\ run'[p] = run[p] BY <1>1, <2>3, WaysOn
      <3>2. work[w].descriptor = run[p].descriptor /\ work[w].status # "gone"
        BY <1>5, <2>3
        DEF RecordUploadDescriptor, CanRecordDescriptor, OwnsClaim, storeVars, PipelineInv,
            StoreInv, StoreTypeOK, WorkRecord
      <3>3. \A c : AgreeOn(w, c) => Holds(p, c)'
        BY <1>4, <3>1, <3>2 DEF AgreeOn, Holds
      <3>4. RunKnows(p)' BY <3>1 DEF RunKnows
      <3> QED BY <1>1, <1>2, <1>3, <2>1, <3>1, <3>3, <3>4, LocalVerifies DEF WorkerGoes
    <2>4. CASE Finish(p) \/ RetryAfterError(p)
      BY <1>1, <2>2, <2>4, WaysOn, ErrorWays
    <2> QED BY <1>2, <2>3, <2>4 DEF DescribeUpload
  <1>6. CASE ~UNCHANGED storeVars
    <2>0. PICK d : d = run[p].descriptor OBVIOUS
    <2>1. PICK lag : /\ RecordUploadDescriptor(w, run[p].claim, d, lag)
                     /\ Go(p, "create_asset") \/ RetryAfterError(p)
      BY <1>2, <1>6, <2>0 DEF DescribeUpload
    <2>2. /\ \A v \in Works : v # w => work'[v] = work[v]
          /\ work[w].status # "gone" /\ work[w].descriptor \in {None, d}
          /\ work'[w].descriptor = d /\ work'[w].asset = work[w].asset
      BY <2>1 DEF RecordUploadDescriptor, CanRecordDescriptor, OwnsClaim, PipelineInv,
                  StoreInv, StoreTypeOK, WorkRecord
    <2>3. \/ pc'[p] = "create_asset" /\ run'[p] = run[p]
          \/ pc'[p] = "release"
      BY <1>1, <2>1, WaysOn, ErrorWays
    <2>4. ASSUME NEW q \in Workers, q # p PROVE SameLocals(q)
      BY <1>3, <2>4 DEF WorkerGoes, OthersStay, SameLocals
    <2>5. RunKnows(p)' BY <2>3 DEF RunKnows
    <2>6. AgreeOn(w, d)'
      <3>1. PICK c : AgreeOn(w, c) BY DEF VerifiedInv
      <3>2. c \in {None, d} BY <2>2, <3>1 DEF AgreeOn
      <3>3. Holds(p, d)' BY <1>4, <2>0, <2>3 DEF Holds
      <3>4. ASSUME NEW q \in Workers, run'[q].work = w PROVE Holds(q, d)'
        <4>1. CASE q = p BY <3>3, <4>1
        <4>2. CASE q # p
          <5>1. Holds(q, c) /\ SameLocals(q)
            BY <1>3, <2>4, <3>1, <3>4, <4>2 DEF AgreeOn, WorkerGoes, OthersStay
          <5> QED BY <3>2, <5>1 DEF Holds, SameLocals
        <4> QED BY <4>1, <4>2
      <3>5. \A a \in Assets : asset'[a].owner = w => asset'[a].content \in {None, d}
        BY <1>1, <3>1, <3>2 DEF AgreeOn
      <3>6. drive'[w] \in {None, d} BY <1>1, <3>1, <3>2 DEF AgreeOn
      <3> QED BY <2>2, <3>4, <3>5, <3>6 DEF AgreeOn
    <2>7. ASSUME NEW v \in Works PROVE \E c : AgreeOn(v, c)'
      <3>1. CASE v = w BY <2>6, <3>1
      <3>2. CASE v # w
        <4>1. PICK c : AgreeOn(v, c) BY DEF VerifiedInv
        <4>2. KeepsDescriptor(v) BY <2>2, <3>2 DEF KeepsDescriptor
        <4>3. run'[p].work = v => Holds(p, c)' BY <1>2, <2>3, <3>2 DEF Holds
        <4>4. \A q \in Workers : SameLocals(q) \/ (run'[q].work = v => Holds(q, c)')
          BY <2>4, <4>3
        <4>5. /\ \A a \in Assets : asset'[a].owner = v => asset'[a].content \in {None, c}
              /\ drive'[v] \in {None, c}
          BY <1>1, <4>1 DEF AgreeOn
        <4> QED BY <4>1, <4>2, <4>4, <4>5, AgreeStill
      <3> QED BY <3>1, <3>2
    <2>8. ASSUME NEW a \in Assets PROVE Grows(a) /\ AssetKnows(a)'
      BY <1>1 DEF Grows, AssetKnows, VerifiedInv
    <2>9. ASSUME NEW v \in Works PROVE WorkKnows(v)'
      <3>1. KeepsAsset(v) BY <2>2 DEF KeepsAsset
      <3>2. work[v].asset \in Assets \cup {None}
        BY DEF PipelineInv, StoreInv, StoreTypeOK, WorkRecord
      <3> QED BY <1>1, <2>8, <3>1, <3>2, WorkStill DEF VerifiedInv
    <2>10. ASSUME NEW q \in Workers PROVE RunKnows(q)'
      <3>1. pc[q] # "idle" => run[q].work \in Works BY OwnWork
      <3> QED BY <2>4, <2>5, <2>8, <3>1, RunStill DEF VerifiedInv
    <2> QED BY <2>7, <2>8, <2>9, <2>10 DEF VerifiedInv
  <1> QED BY <1>5, <1>6

\* A step that writes one asset, of the work of the run.
LEMMA AssetVerifies ==
  ASSUME VerifiedInv, PipelineInv, NEW p \in Workers, WorkerGoes(p), pc[p] # "idle",
         UNCHANGED <<storeVars, drive>>,
         \A a \in Assets : Grows(a) /\ AssetKnows(a)',
         \A w \in Works : \A c : AgreeOn(w, c) =>
           \A a \in Assets : asset'[a].owner = w => asset'[a].content \in {None, c},
         \/ pc'[p] \notin Described \cup Sending
         \/ /\ run'[p].work = run[p].work /\ RunKnows(p)'
            /\ \A c : AgreeOn(run[p].work, c) => Holds(p, c)'
  PROVE  VerifiedInv'
  <1>1. ASSUME NEW q \in Workers
        PROVE  \/ SameLocals(q)
               \/ /\ RunKnows(q)'
                  /\ \A w \in Works : \A c :
                       run'[q].work = w /\ AgreeOn(w, c) => Holds(q, c)'
    <2>1. CASE q # p BY <2>1 DEF WorkerGoes, OthersStay, SameLocals
    <2>2. CASE q = p /\ pc'[p] \notin Described \cup Sending
      BY <2>2 DEF RunKnows, Holds, Described, Sending, Holding
    <2>3. CASE q = p /\ pc'[p] \in Described \cup Sending BY <2>3
    <2> QED BY <2>1, <2>2, <2>3
  <1>2. \A w \in Works : KeepsDescriptor(w) /\ KeepsAsset(w)
    BY DEF KeepsDescriptor, KeepsAsset, storeVars
  <1>3. ASSUME NEW w \in Works PROVE WorkKnows(w)'
    <2>1. work[w].asset \in Assets \cup {None}
      BY DEF PipelineInv, StoreInv, StoreTypeOK, WorkRecord
    <2> QED BY <1>2, <2>1, WorkStill DEF VerifiedInv
  <1>4. \A w \in Works : \A c : AgreeOn(w, c) =>
           /\ \A a \in Assets : asset'[a].owner = w => asset'[a].content \in {None, c}
           /\ drive'[w] \in {None, c}
    BY DEF AgreeOn
  <1>5. \A a \in Assets : Grows(a) /\ AssetKnows(a)' OBVIOUS
  <1> QED BY <1>1, <1>2, <1>3, <1>4, <1>5, VerifiedStill

\* One asset for the work, which keeps its owner.
LEMMA CreateVerifies ==
  ASSUME VerifiedInv, PipelineInv, NEW p \in Workers, CreateAsset(p)
  PROVE  VerifiedInv'
  <1> USE DEF Described, Sending, Holding
  <1>1. pc[p] = "create_asset" /\ UNCHANGED <<storeVars, drive>>
    BY DEF CreateAsset, assetCallUnchanged
  <1>2. PICK w \in Works : w = run[p].work BY <1>1, OwnWork
  <1>3. WorkerGoes(p) BY FetchGoes
  <1>4. PICK a \in AssetFor(w) :
          /\ asset' = [asset EXCEPT ![a].owner = w]
          /\ \/ GoWith(p, IF asset[a].content = None THEN "upload" ELSE "record_asset",
                        [run[p] EXCEPT !.asset = a])
             \/ RetryAfterError(p)
    BY <1>2 DEF CreateAsset
  <1>5. a \in Assets /\ asset[a].owner \in {w, None} /\ w # None
    BY <1>4, ActorAssumption DEF AssetFor
  <1>6. /\ asset'[a].owner = w /\ asset'[a].content = asset[a].content
        /\ asset'[a].scan = asset[a].scan
        /\ \A b \in Assets : b # a => asset'[b] = asset[b]
    BY <1>4, <1>5 DEF PipelineInv, OthersOK, AssetRecord
  <1>7. AssetKnows(a) BY <1>5 DEF VerifiedInv
  <1>8. ASSUME NEW b \in Assets PROVE Grows(b) /\ AssetKnows(b)'
    <2>1. CASE b = a BY <1>5, <1>6, <1>7, <2>1 DEF Grows, AssetKnows
    <2>2. CASE b # a BY <1>6, <2>2 DEF Grows, AssetKnows, VerifiedInv
    <2> QED BY <2>1, <2>2
  <1>9. ASSUME NEW v \in Works, NEW c, AgreeOn(v, c), NEW b \in Assets, asset'[b].owner = v
        PROVE  asset'[b].content \in {None, c}
    <2>1. CASE b = a BY <1>5, <1>6, <1>7, <1>9, <2>1 DEF AgreeOn, AssetKnows
    <2>2. CASE b # a BY <1>6, <1>9, <2>2 DEF AgreeOn
    <2> QED BY <2>1, <2>2
  <1>10. CASE RetryAfterError(p)
    BY <1>1, <1>3, <1>8, <1>9, <1>10, ErrorWays, AssetVerifies
  <1>11. CASE ~RetryAfterError(p)
    <2>1. /\ pc'[p] = IF asset[a].content = None THEN "upload" ELSE "record_asset"
          /\ run'[p].work = w /\ run'[p].asset = a
          /\ run'[p].descriptor = run[p].descriptor
      BY <1>1, <1>2, <1>4, <1>5, <1>11, AssetWay DEF GoesOn
    <2>2. RunKnows(p)' BY <1>5, <1>6, <2>1 DEF RunKnows
    <2>3. \A c : AgreeOn(w, c) => Holds(p, c)'
      BY <1>1, <1>2, <2>1 DEF AgreeOn, Holds
    <2> QED BY <1>1, <1>2, <1>3, <1>8, <1>9, <2>1, <2>2, <2>3, AssetVerifies
  <1> QED BY <1>10, <1>11

LEMMA UploadVerifies ==
  ASSUME VerifiedInv, PipelineInv, NEW p \in Workers, UploadContent(p)
  PROVE  VerifiedInv'
  <1> USE DEF Described, Sending, Holding
  <1>1. pc[p] = "upload" /\ UNCHANGED <<storeVars, drive>>
    BY DEF UploadContent, assetCallUnchanged
  <1>2. PICK w \in Works : w = run[p].work BY <1>1, OwnWork
  <1>3. WorkerGoes(p) BY FetchGoes
  <1>4. CASE asset' = asset /\ FailWith(p, "validation_failed")
    <2>1. pc'[p] = "fail" BY <1>1, <1>4, WaysOn
    <2>2. \A a \in Assets : Grows(a) /\ AssetKnows(a)'
      BY <1>4 DEF Grows, AssetKnows, VerifiedInv
    <2>3. \A v \in Works : \A c : AgreeOn(v, c) =>
            \A a \in Assets : asset'[a].owner = v => asset'[a].content \in {None, c}
      BY <1>4 DEF AgreeOn
    <2> QED BY <1>1, <1>3, <2>1, <2>2, <2>3, AssetVerifies
  <1>5. CASE /\ asset' = [asset EXCEPT ![run[p].asset].content = run[p].descriptor]
             /\ Go(p, "record_asset") \/ RetryAfterError(p)
    <2>1. RunKnows(p) BY DEF VerifiedInv
    <2>2. PICK a \in Assets : a = run[p].asset /\ asset[a].owner = w
      BY <1>1, <1>2, <2>1 DEF RunKnows
    <2>3. PICK d : d = run[p].descriptor OBVIOUS
    <2>4. /\ asset'[a].owner = w /\ asset'[a].content = d /\ asset'[a].scan = asset[a].scan
          /\ \A b \in Assets : b # a => asset'[b] = asset[b]
      BY <1>5, <2>2, <2>3 DEF PipelineInv, OthersOK, AssetRecord
    <2>5. \A c : AgreeOn(w, c) => d = c /\ c # None /\ asset[a].content \in {None, c}
      BY <1>1, <1>2, <2>2, <2>3 DEF AgreeOn, Holds
    <2>6. d # None /\ asset[a].content \in {None, d} BY <2>5 DEF VerifiedInv
    <2>7. ASSUME NEW b \in Assets PROVE Grows(b) /\ AssetKnows(b)'
      <3>1. CASE b = a BY <2>2, <2>4, <2>6, <3>1, ActorAssumption DEF Grows, AssetKnows
      <3>2. CASE b # a BY <2>4, <3>2 DEF Grows, AssetKnows, VerifiedInv
      <3> QED BY <3>1, <3>2
    <2>8. ASSUME NEW v \in Works, NEW c, AgreeOn(v, c), NEW b \in Assets, asset'[b].owner = v
          PROVE  asset'[b].content \in {None, c}
      <3>1. CASE b = a BY <2>4, <2>5, <2>8, <3>1
      <3>2. CASE b # a BY <2>4, <2>8, <3>2 DEF AgreeOn
      <3> QED BY <3>1, <3>2
    <2>9. CASE RetryAfterError(p)
      BY <1>1, <1>3, <2>7, <2>8, <2>9, ErrorWays, AssetVerifies
    <2>10. CASE Go(p, "record_asset")
      <3>1. pc'[p] = "record_asset" /\ run'[p] = run[p] BY <1>1, <2>10, WaysOn
      <3>2. RunKnows(p)' BY <1>2, <2>2, <2>4, <2>6, <3>1 DEF RunKnows
      <3>3. \A c : AgreeOn(w, c) => Holds(p, c)'
        BY <1>1, <1>2, <3>1 DEF AgreeOn, Holds
      <3> QED BY <1>1, <1>2, <1>3, <2>7, <2>8, <3>1, <3>2, <3>3, AssetVerifies
    <2> QED BY <1>5, <2>9, <2>10
  <1> QED BY <1>4, <1>5 DEF UploadContent

LEMMA RecordVerifies ==
  ASSUME VerifiedInv, PipelineInv, NEW p \in Workers, RecordAssetId(p)
  PROVE  VerifiedInv'
  <1> USE DEF Described, Sending, Holding
  <1>1. pc[p] = "record_asset" /\ UNCHANGED <<asset, drive>>
    BY DEF RecordAssetId, storeCallUnchanged, externalVars
  <1>2. PICK w \in Works : w = run[p].work BY <1>1, OwnWork
  <1>3. WorkerGoes(p) BY FetchGoes
  <1>4. RunKnows(p) BY DEF VerifiedInv
  <1>5. PICK a \in Assets : a = run[p].asset /\ asset[a].owner = w /\ asset[a].content # None
    BY <1>1, <1>2, <1>4 DEF RunKnows
  <1>6. \/ UNCHANGED storeVars
        \/ \E lag : RecordAsset(w, run[p].claim, a, lag)
    BY <1>2, <1>5 DEF RecordAssetId
  <1>7. ASSUME NEW v \in Works
        PROVE  KeepsDescriptor(v) /\ (work'[v].asset = work[v].asset \/ (v = w /\ work'[v].asset = a))
    <2>1. CASE UNCHANGED storeVars BY <2>1 DEF storeVars, KeepsDescriptor
    <2>2. ASSUME NEW lag, RecordAsset(w, run[p].claim, a, lag)
          PROVE  /\ KeepsDescriptor(v)
                 /\ work'[v].asset = work[v].asset \/ (v = w /\ work'[v].asset = a)
      BY <2>2 DEF RecordAsset, CanRecordAsset, OwnsClaim, KeepsDescriptor, PipelineInv,
                  StoreInv, StoreTypeOK, WorkRecord
    <2> QED BY <1>6, <2>1, <2>2
  <1>8. \/ pc'[p] = "scan" /\ run'[p] = run[p]
        \/ pc'[p] \in {"idle", "release"}
    BY <1>1, WaysOn, ErrorWays DEF RecordAssetId
  <1>9. ASSUME NEW q \in Workers
        PROVE  \/ SameLocals(q)
               \/ /\ RunKnows(q)'
                  /\ \A v \in Works : \A c :
                       run'[q].work = v /\ AgreeOn(v, c) => Holds(q, c)'
    <2>1. CASE q # p BY <1>3, <2>1 DEF WorkerGoes, OthersStay, SameLocals
    <2>2. CASE q = p /\ pc'[p] \in {"idle", "release"} BY <2>2 DEF RunKnows, Holds
    <2>3. CASE q = p /\ pc'[p] = "scan" /\ run'[p] = run[p]
      <3>1. RunKnows(p)' BY <1>1, <1>2, <1>5, <2>3 DEF RunKnows
      <3>2. \A v \in Works : \A c : run'[p].work = v /\ AgreeOn(v, c) => Holds(p, c)'
        BY <1>1, <2>3 DEF AgreeOn, Holds
      <3> QED BY <2>3, <3>1, <3>2
    <2> QED BY <1>8, <2>1, <2>2, <2>3
  <1>10. ASSUME NEW b \in Assets PROVE Grows(b) /\ AssetKnows(b)'
    BY <1>1 DEF Grows, AssetKnows, VerifiedInv
  <1>11. ASSUME NEW v \in Works PROVE WorkKnows(v)'
    <2>1. work[v].asset \in Assets \cup {None} /\ WorkKnows(v)
      BY DEF VerifiedInv, PipelineInv, StoreInv, StoreTypeOK, WorkRecord
    <2>2. CASE work'[v].asset = work[v].asset
      BY <1>1, <1>10, <2>1, <2>2, WorkStill DEF KeepsAsset
    <2>3. CASE v = w /\ work'[v].asset = a
      BY <1>1, <1>5, <2>1, <2>3 DEF WorkKnows, Scanned
    <2> QED BY <1>7, <2>2, <2>3
  <1>12. \A v \in Works : \A c : AgreeOn(v, c) =>
           /\ \A b \in Assets : asset'[b].owner = v => asset'[b].content \in {None, c}
           /\ drive'[v] \in {None, c}
    BY <1>1 DEF AgreeOn
  <1>13. \A v \in Works : KeepsDescriptor(v) BY <1>7
  <1> QED BY <1>9, <1>10, <1>11, <1>12, <1>13, VerifiedStill

\* What reaches the drive is what the run may send.
LEMMA DriveVerifies ==
  ASSUME VerifiedInv, PipelineInv, NEW p \in Workers, UploadFile(p) \/ CompensateUpload(p)
  PROVE  VerifiedInv'
  <1> USE DEF Described, Sending, Holding
  <1>1. pc[p] \in {"upload_file", "compensate"} /\ UNCHANGED <<storeVars, asset>>
    BY DEF UploadFile, CompensateUpload, publisherUnchanged
  <1>2. PICK w \in Works : w = run[p].work BY <1>1, OwnWork
  <1>3. WorkerGoes(p) BY PublishGoes
  <1>4. pc'[p] \in {"index", "fail"}
    BY <1>1, WaysOn DEF UploadFile, CompensateUpload
  <1>5. /\ \A v \in Works : v # w => drive'[v] = drive[v]
        /\ \/ drive'[w] \in {None, drive[w]}
           \/ pc[p] = "upload_file" /\ drive'[w] = run[p].resource
    BY <1>2 DEF UploadFile, CompensateUpload, PipelineInv, OthersOK
  <1>6. ASSUME NEW q \in Workers
        PROVE  \/ SameLocals(q)
               \/ /\ RunKnows(q)'
                  /\ \A v \in Works : \A c :
                       run'[q].work = v /\ AgreeOn(v, c) => Holds(q, c)'
    <2>1. CASE q # p BY <1>3, <2>1 DEF WorkerGoes, OthersStay, SameLocals
    <2>2. CASE q = p BY <1>4, <2>2 DEF RunKnows, Holds
    <2> QED BY <2>1, <2>2
  <1>7. ASSUME NEW a \in Assets PROVE Grows(a) /\ AssetKnows(a)'
    BY <1>1 DEF Grows, AssetKnows, VerifiedInv
  <1>8. \A v \in Works : KeepsDescriptor(v) /\ KeepsAsset(v)
    BY <1>1 DEF KeepsDescriptor, KeepsAsset, storeVars
  <1>9. ASSUME NEW v \in Works PROVE WorkKnows(v)'
    <2>1. work[v].asset \in Assets \cup {None} /\ WorkKnows(v)
      BY DEF VerifiedInv, PipelineInv, StoreInv, StoreTypeOK, WorkRecord
    <2>2. drive'[v] \in {None, drive[v]} \/ Scanned(v)
      BY <1>2, <1>5 DEF VerifiedInv, RunKnows
    <2> QED BY <1>7, <1>8, <2>1, <2>2, WorkStill
  <1>10. ASSUME NEW v \in Works, NEW c, AgreeOn(v, c)
         PROVE  /\ \A a \in Assets : asset'[a].owner = v => asset'[a].content \in {None, c}
                /\ drive'[v] \in {None, c}
    <2>1. pc[p] = "upload_file" /\ v = w => run[p].resource = c
      BY <1>2, <1>10 DEF AgreeOn, Holds
    <2> QED BY <1>1, <1>5, <1>10, <2>1 DEF AgreeOn
  <1>11. \A v \in Works : KeepsDescriptor(v) BY <1>8
  <1> QED BY <1>6, <1>7, <1>9, <1>10, <1>11, VerifiedStill

LEMMA VerifiedStep ==
  ASSUME VerifiedInv, PipelineInv, [Next]_vars
  PROVE  VerifiedInv'
  <1>1. ASSUME NEW p \in Workers, Worker(p) PROVE VerifiedInv'
    BY <1>1, LeaveVerifies, GrantedVerifies, ScanVerifies, DownloadVerifies, GrantVerifies,
       DescribeVerifies, CreateVerifies, UploadVerifies, RecordVerifies, DriveVerifies
    DEF Worker, ClaimWork
  <1>2. CASE \/ \E w \in Works : Handler(w)
             \/ \E f \in Flushers : Flusher(f)
             \/ Scanner \/ UNCHANGED vars
             \/ Tick
    <2>1. UNCHANGED drive /\ \A p \in Workers : SameLocals(p)
      <3>1. CASE Tick BY <3>1, TickRun DEF Tick, externalVars, SameLocals
      <3>2. CASE ~Tick BY <1>2, <3>2, ElsewhereStep DEF PipelineInv, SameLocals
      <3> QED BY <3>1, <3>2
    <2>2. \/ AgeWorks \/ UNCHANGED storeVars
          \/ \E w \in Works : CreateWork(w) \/ MarkEnqueued(w) \/ DropFromOutbox(w)
      BY <1>2
      DEF Handler, ConfirmAttachment, HandOffWork, HandlerFailsJob, HandlerEnqueues,
          HandlerMarksEnqueued, HandlerCrashes, Flusher, ReadOutboxEntry, RemoveStaleEntry,
          FlusherEnqueues, FlusherMarksEnqueued, Scanner, Tick, vars, PipelineInv,
          FlushersOK
    <2>3. \A v \in Works : KeepsDescriptor(v) /\ KeepsAsset(v)
      BY <2>2, CallsKeep DEF PipelineInv
    <2>4. ASSUME NEW a \in Assets
          PROVE  /\ Grows(a) /\ AssetKnows(a)'
                 /\ asset'[a].owner = asset[a].owner /\ asset'[a].content = asset[a].content
      <3>1. AssetKnows(a) BY DEF VerifiedInv
      <3>2. CASE Scanner
        <4>1. PICK b \in Assets, verdict \in {"clean", "infected", "error"} :
                /\ asset[b].content # None /\ asset[b].scan = "pending"
                /\ asset' = [asset EXCEPT ![b].scan = verdict]
          BY <3>2 DEF Scanner
        <4> QED BY <3>1, <4>1 DEF Grows, AssetKnows, PipelineInv, OthersOK, AssetRecord
      <3>3. CASE UNCHANGED asset BY <3>1, <3>3 DEF Grows, AssetKnows
      <3>4. Scanner \/ UNCHANGED asset
        BY <1>2
        DEF Handler, ConfirmAttachment, HandOffWork, HandlerFailsJob, HandlerEnqueues,
            HandlerMarksEnqueued, HandlerCrashes, handlerUnchanged, Flusher,
            ReadOutboxEntry, RemoveStaleEntry, FlusherEnqueues, FlusherMarksEnqueued,
            flusherUnchanged, Tick, vars, externalVars
      <3> QED BY <3>2, <3>3, <3>4
    <2>5. ASSUME NEW v \in Works PROVE WorkKnows(v)'
      <3>1. work[v].asset \in Assets \cup {None} /\ WorkKnows(v)
        BY DEF VerifiedInv, PipelineInv, StoreInv, StoreTypeOK, WorkRecord
      <3> QED BY <2>1, <2>3, <2>4, <3>1, WorkStill
    <2>6. \A w \in Works : \A c : AgreeOn(w, c) =>
            /\ \A a \in Assets : asset'[a].owner = w => asset'[a].content \in {None, c}
            /\ drive'[w] \in {None, c}
      BY <2>1, <2>4 DEF AgreeOn
    <2>7. \A v \in Works : KeepsDescriptor(v) BY <2>3
    <2>8. \A a \in Assets : Grows(a) /\ AssetKnows(a)' BY <2>4
    <2> QED BY <2>1, <2>5, <2>6, <2>7, <2>8, VerifiedStill
  <1> QED BY <1>1, <1>2 DEF Next, Steps

\* Always: descriptor, asset, downloaded content and drive of a work agree, and a content
\* that is being sent was scanned clean.
THEOREM VerifiedInvariant == Spec => []VerifiedInv
  <1>1. Init => VerifiedInv
    <2> SUFFICES ASSUME Init PROVE VerifiedInv OBVIOUS
    <2> USE DEF Init, StoreInit, NoRecord, Described, Sending, Holding
    <2>1. \A w \in Works : AgreeOn(w, None) BY DEF AgreeOn, Holds
    <2>2. \A a \in Assets : AssetKnows(a) BY DEF AssetKnows
    <2>3. \A w \in Works : WorkKnows(w) BY DEF WorkKnows
    <2>4. \A p \in Workers : RunKnows(p) BY DEF RunKnows
    <2> QED BY <2>1, <2>2, <2>3, <2>4 DEF VerifiedInv
  <1>2. VerifiedInv /\ PipelineInv /\ [Next]_vars => VerifiedInv' BY VerifiedStep
  <1> QED BY <1>1, <1>2, PipelineInvariant, PTL DEF Spec

\* What is in the drive is a content that the Asset API found clean for this work, and the
\* one the work's descriptor describes.
THEOREM PublicationVerified == Spec => []PublishedIsVerified
  <1>1. VerifiedInv => PublishedIsVerified
    <2> SUFFICES ASSUME VerifiedInv, NEW w \in Works, drive[w] # None
                 PROVE  /\ \E a \in Assets :
                             /\ asset[a].owner = w /\ asset[a].content = drive[w]
                             /\ asset[a].scan = "clean"
                        /\ Exists(w) => work[w].descriptor = drive[w]
      BY DEF PublishedIsVerified
    <2>1. PICK c : AgreeOn(w, c) BY DEF VerifiedInv
    <2>2. PICK a \in Assets :
            asset[a].owner = w /\ asset[a].content # None /\ asset[a].scan = "clean"
      BY DEF VerifiedInv, WorkKnows, Scanned
    <2> QED BY <2>1, <2>2 DEF AgreeOn, Exists
  <1> QED BY <1>1, VerifiedInvariant, PTL

=============================================================================
