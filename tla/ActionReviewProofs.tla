------------------------- MODULE ActionReviewProofs -------------------------
(***************************************************************************)
(* Theorems about ActionReview: types, what the result job tells, revoked  *)
(* approvals, saved attachments, answers to dropped reviews, and the files *)
(* opened under the permissions of a group.                                *)
(***************************************************************************)
EXTENDS ActionReview, FiniteSetTheorems, TLAPS

(***************************************************************************)
(* The local steps of a turn.                                              *)
(***************************************************************************)

\* A step of t leaves the other turns alone.
Others(t) == \A u \in Turns \ {t} : pc'[u] = pc[u] /\ turn'[u] = turn[u]

LEMMA GoWithMoves ==
  ASSUME NEW t \in Turns, NEW step, NEW locals, ReviewTypeOK, GoWith(t, step, locals)
  PROVE  /\ pc'[t] = step /\ turn'[t] = locals /\ Others(t)
         /\ lock' = lock /\ profile' = profile
BY DEF GoWith, ReviewTypeOK, Others

LEMMA GoMoves ==
  ASSUME NEW t \in Turns, NEW step, ReviewTypeOK, Go(t, step)
  PROVE  /\ pc'[t] = step /\ turn'[t] = turn[t] /\ Others(t)
         /\ lock' = lock /\ profile' = profile
BY GoWithMoves DEF Go

LEMMA FinishMoves ==
  ASSUME NEW t \in Turns, ReviewTypeOK, Finish(t)
  PROVE  /\ pc'[t] = "done" /\ turn'[t] = NoTurn /\ Others(t)
         /\ lock' = (IF lock = t THEN None ELSE lock) /\ profile' = profile
BY DEF Finish, ReviewTypeOK, Others

LEMMA SettleMoves ==
  ASSUME NEW t \in Turns, NEW outcome, NEW next, ReviewTypeOK, Settle(t, outcome, next)
  PROVE  /\ pc'[t] = "fail"
         /\ turn'[t].review = turn[t].review /\ turn'[t].outcome = outcome
         /\ turn'[t].next = next /\ Others(t)
         /\ lock' = lock /\ profile' = profile
<1>1. turn[t] \in TurnRecord
  BY DEF ReviewTypeOK
<1>2. turn'[t] = [turn[t] EXCEPT !.outcome = outcome, !.next = next]
  BY GoWithMoves DEF Settle
<1>3. QED
  BY <1>1, <1>2, GoWithMoves DEF Settle, TurnRecord

(***************************************************************************)
(* Types.                                                                  *)
(***************************************************************************)

\* What a step of t does to the variables of turns, typed.
TurnsTyped ==
  /\ pc' \in [Turns -> TurnSteps] /\ turn' \in [Turns -> TurnRecord]
  /\ lock' \in Turns \cup {None} /\ UNCHANGED <<chat, unsent, profile>>

LEMMA GoWithTyped ==
  ASSUME NEW t \in Turns, NEW step \in TurnSteps, NEW locals \in TurnRecord, ReviewTypeOK,
         GoWith(t, step, locals)
  PROVE  TurnsTyped
BY DEF GoWith, ReviewTypeOK, TurnsTyped

LEMMA GoTyped ==
  ASSUME NEW t \in Turns, NEW step \in TurnSteps, ReviewTypeOK, Go(t, step)
  PROVE  TurnsTyped
BY GoWithTyped DEF Go, ReviewTypeOK

LEMMA NoTurnTyped == NoTurn \in TurnRecord
BY DEF NoTurn, TurnRecord, Tasks, TurnSteps

LEMMA FinishTyped ==
  ASSUME NEW t \in Turns, ReviewTypeOK, Finish(t)
  PROVE  TurnsTyped
BY NoTurnTyped DEF Finish, ReviewTypeOK, TurnsTyped, TurnSteps

LEMMA SettleTyped ==
  ASSUME NEW t \in Turns, NEW outcome \in {"failed", "uncertain"}, NEW next \in TurnSteps,
         ReviewTypeOK, Settle(t, outcome, next)
  PROVE  TurnsTyped
<1>1. turn[t] \in TurnRecord
  BY DEF ReviewTypeOK
<1>2. [turn[t] EXCEPT !.outcome = outcome, !.next = next] \in TurnRecord
  BY <1>1 DEF TurnRecord
<1>3. QED
  BY <1>2, GoWithTyped DEF Settle, TurnSteps

LEMMA ReplacedTyped ==
  ASSUME RequesterTypeOK, NEW x \in Reviews \cup Files \cup {Intent, None}, Replaced(x)
  PROVE  slot' \in Reviews \cup Files \cup {Intent, None} /\ slot' \notin over
BY RequesterAssumption DEF RequesterTypeOK, Replaced

LEMMA RewrittenTyped ==
  ASSUME RequesterTypeOK, NEW f, NEW stage \in Stages, Rewritten(f, stage)
  PROVE  file' \in [Files -> FileRecord] /\ revision' \in Nat
<1>1. revision' \in Nat
  BY DEF RequesterTypeOK, Rewritten
<1>2. [stage |-> stage, revision |-> revision'] \in FileRecord
  BY <1>1 DEF FileRecord
<1>3. file \in [Files -> FileRecord]
  BY DEF RequesterTypeOK
<1>4. QED
  BY <1>1, <1>2, <1>3 DEF Rewritten

LEMMA JobTyped ==
  ASSUME RequesterTypeOK, NEW r,
         \/ CreatePending(r) \/ MarkStarted(r) \/ CompleteJob(r) \/ UNCHANGED job
         \/ \E outcome \in {"failed", "uncertain"} : FailPending(r, outcome)
  PROVE  job' \in [Reviews -> JobRecord]
<1>1. job \in [Reviews -> JobRecord]
  BY DEF RequesterTypeOK
<1>2. ASSUME r \in Reviews PROVE job[r] \in JobRecord
  BY <1>1, <1>2
<1>3. ASSUME NEW status \in {"none", "pending", "completed", "failed", "uncertain", "gone"}
      PROVE  [job EXCEPT ![r].status = status] \in [Reviews -> JobRecord]
  BY <1>1, <1>2 DEF JobRecord
<1>4. [job EXCEPT ![r].started = TRUE] \in [Reviews -> JobRecord]
  BY <1>1, <1>2 DEF JobRecord
<1>5. QED
  BY <1>1, <1>3, <1>4 DEF CreatePending, MarkStarted, CompleteJob, FailPending

(***************************************************************************)
(* The invariant.                                                          *)
(***************************************************************************)

\* From the moment a review is taken for execution to its result.
ExecutingSteps ==
  {"take_args", "execute", "authorize", "start", "write", "complete", "drop_args"}
Executing(t, r) == pc[t] \in ExecutingSteps /\ turn[t].review = r
Storing(t, r) == pc[t] = "store" /\ turn[t].review = r

EntrySteps == {"take", "find_old", "find_reset", "find_cancel", "find_file"}
AfterFailSteps == {"done", "preview", "find_form", "find_file"}
MainSteps ==
  {"check_job", "take_args", "drop_args", "store_args", "undo", "undo_args", "find_form",
   "drop_form"}
LockedSteps ==
  {"take", "execute", "authorize", "start", "write", "complete", "fail", "find_old", "revoke",
   "preview", "create", "store", "find_reset", "take_reset", "find_cancel", "take_cancel"}
ReviewSteps ==
  ExecutingSteps \cup {"lookup", "check_job", "take", "fail", "revoke", "store", "store_args",
                       "undo", "undo_args", "take_reset", "take_cancel", "drop_form"}
FileSteps ==
  {"opt_in", "edit", "take_file", "drop_file", "promote", "attach", "restore", "take_intent",
   "open_file"}

\* What the control of a turn says about its local variables, its profile and the lock.
TurnFits(t) ==
  /\ pc[t] = "wait" => profile = "helper" /\ turn[t].next \in EntrySteps
  /\ pc[t] = "wait" /\ turn[t].next = "take" => turn[t].review \in Reviews
  /\ pc[t] = "fail" => turn[t].next \in AfterFailSteps
  /\ pc[t] = "fail" /\ turn[t].next = "find_form" => profile = "main"
  /\ pc[t] = "revoke" => profile = "helper"
  /\ pc[t] \in MainSteps => profile = "main"
  /\ pc[t] \in ReviewSteps => turn[t].review \in Reviews
  /\ pc[t] \in FileSteps => turn[t].file \in Files
  /\ profile = "helper" /\ pc[t] \in LockedSteps => lock = t

\* A review nobody has taken.
Untaken(r) == ~job[r].started /\ \A t \in Turns : ~Executing(t, r)

\* A review that does not exist yet is named nowhere.
Fresh(r) ==
  job[r].status = "none" =>
    /\ ~job[r].started /\ slot # r /\ r \notin arguments
    /\ \A t \in Turns : turn[t].review # r

\* What is offered for a decision, or about to be, or about to be withdrawn by the helper,
\* nobody has taken.
Offered(r) ==
  /\ slot = r => Untaken(r)
  /\ \A t \in Turns : Storing(t, r) =>
       Untaken(r) /\ slot # r /\ \A u \in Turns : Storing(u, r) => u = t
  /\ \A t \in Turns :
       profile = "helper" /\ pc[t] \in {"revoke", "take_reset"} /\ turn[t].review = r =>
         Untaken(r)

\* One turn executes a review, and knows how far the review got.
Executed(r) ==
  /\ \A t, u \in Turns : Executing(t, r) /\ Executing(u, r) => t = u
  /\ \A t \in Turns : Executing(t, r) =>
       /\ pc[t] \notin {"write", "complete"} => ~job[r].started
       /\ pc[t] = "write" =>
            /\ job[r].started /\ written[r] = 0 /\ job[r].status # "completed"
            /\ job[r].status = "failed" => r \in withdrawn
       /\ pc[t] = "complete" => written[r] = 1

\* Nobody executes under an approval that was revoked.
Approved(r) ==
  \A t \in Turns : turn[t].review = r =>
    /\ profile = "helper" /\ pc[t] = "execute" => (turn[t].ended <=> r \in revoked)
    /\ pc[t] \in {"authorize", "start", "write"} => r \notin revoked

\* A turn tells a review as failed only when it is out of everybody's reach.
Refused(r) ==
  /\ \A t \in Turns : pc[t] \in {"undo", "undo_args"} /\ turn[t].review = r => r \in withdrawn
  /\ \A t \in Turns :
       pc[t] = "fail" /\ turn[t].outcome = "failed" /\ turn[t].review = r /\ r \notin withdrawn =>
         /\ written[r] = 0 /\ \A u \in Turns : ~Executing(u, r)
         /\ profile = "main" => slot # r /\ \A u \in Turns : ~Storing(u, r)

Truthful(r) ==
  /\ job[r].status = "failed" /\ r \notin withdrawn => written[r] = 0
  /\ job[r].status = "completed" => written[r] = 1
  /\ written[r] # 0 => job[r].started /\ written[r] = 1

ReviewKept(r) ==
  Fresh(r) /\ Offered(r) /\ Executed(r) /\ Approved(r) /\ Refused(r) /\ Truthful(r)

ReviewInv ==
  /\ ReviewTypeOK
  /\ \A t \in Turns : TurnFits(t)
  /\ profile = "main" => revoked = {}
  /\ \A r \in Reviews : ReviewKept(r)
  /\ SavedAsPreviewed

(***************************************************************************)
(* Every step keeps the types.                                             *)
(***************************************************************************)

HistoryTyped ==
  /\ written \in [Reviews -> Nat] /\ saved \subseteq SavedRecord
  /\ evicted \subseteq Reviews /\ withdrawn \subseteq Reviews /\ barred \subseteq Reviews
  /\ faults \in Nat /\ given \in Nat /\ opened \subseteq Files

LEMMA TypeParts ==
  ASSUME ReviewTypeOK, TurnsTyped, RequesterTypeOK', HistoryTyped'
  PROVE  ReviewTypeOK'
BY DEF ReviewTypeOK, TurnsTyped, HistoryTyped

LEMMA SameRequester ==
  ASSUME ReviewTypeOK, UNCHANGED requesterVars
  PROVE  RequesterTypeOK'
BY DEF ReviewTypeOK, RequesterTypeOK, requesterVars, sessionVars, timeVars

LEMMA SameHistory ==
  ASSUME ReviewTypeOK, UNCHANGED historyVars, Fault \/ NoFault
  PROVE  HistoryTyped'
BY TurnsAssumption
   DEF ReviewTypeOK, HistoryTyped, historyVars, reviewHistory, fileHistory, Fault, NoFault

LEMMA MembershipBoolean ==
  ASSUME NEW x, NEW S
  PROVE  (x \in S) \in BOOLEAN
OBVIOUS

\* The local variables of a turn after one of the usual assignments.
LEMMA LocalsTyped ==
  ASSUME ReviewTypeOK, NEW t \in Turns
  PROVE  /\ turn[t] \in TurnRecord /\ turn[t].next \in TurnSteps
         /\ turn[t].review \in Reviews \cup {None} /\ turn[t].file \in Files \cup {None}
         /\ turn[t].revision \in Nat
         /\ \A r \in Reviews : [turn[t] EXCEPT !.review = r] \in TurnRecord
         /\ \A b \in BOOLEAN : [turn[t] EXCEPT !.ended = b] \in TurnRecord
         /\ \A b \in BOOLEAN, step \in TurnSteps :
              [turn[t] EXCEPT !.next = step, !.ended = b] \in TurnRecord
         /\ \A f \in Files, v \in Nat :
              [turn[t] EXCEPT !.file = f, !.revision = v] \in TurnRecord
         /\ [turn[t] EXCEPT !.replaced = TRUE] \in TurnRecord
<1>1. turn[t] \in TurnRecord
  BY DEF ReviewTypeOK
<1>2. QED
  BY <1>1, Zenon DEF TurnRecord

LEMMA NewLocalsTyped ==
  /\ \A task \in Tasks : [NoTurn EXCEPT !.task = task] \in TurnRecord
  /\ \A task \in Tasks, step \in TurnSteps :
       [[NoTurn EXCEPT !.task = task] EXCEPT !.next = step] \in TurnRecord
  /\ \A task \in Tasks, r \in Reviews : [NoTurn EXCEPT !.task = task, !.review = r] \in TurnRecord
  /\ \A task \in Tasks, v \in Nat : [NoTurn EXCEPT !.task = task, !.revision = v] \in TurnRecord
  /\ \A task \in Tasks, f \in Files : [NoTurn EXCEPT !.task = task, !.file = f] \in TurnRecord
BY NoTurnTyped, Zenon DEF TurnRecord

LEMMA BeginTyped ==
  ASSUME ReviewTypeOK, NEW t \in Turns, NEW task \in Tasks, NEW step \in TurnSteps,
         Begin(t, task, step)
  PROVE  TurnsTyped
<1>1. "wait" \in TurnSteps
  BY DEF TurnSteps
<1>2. CASE profile = "helper"
  <2>1. GoWith(t, "wait", [[NoTurn EXCEPT !.task = task] EXCEPT !.next = step])
    BY <1>2 DEF Begin
  <2>2. [[NoTurn EXCEPT !.task = task] EXCEPT !.next = step] \in TurnRecord
    BY NewLocalsTyped, Zenon
  <2>3. QED
    BY <1>1, <2>1, <2>2, GoWithTyped
<1>3. CASE profile # "helper"
  <2>1. GoWith(t, step, [NoTurn EXCEPT !.task = task])
    BY <1>3 DEF Begin
  <2>2. [NoTurn EXCEPT !.task = task] \in TurnRecord
    BY NewLocalsTyped, Zenon
  <2>3. QED
    BY <2>1, <2>2, GoWithTyped
<1>4. QED
  BY <1>2, <1>3

LEMMA ReceiveTyped ==
  ASSUME ReviewTypeOK, NEW t \in Turns, Receive(t)
  PROVE  TurnsTyped
<1>1. CASE Press(t)
  BY <1>1, NewLocalsTyped, GoWithTyped, Zenon DEF Press, TurnSteps, Tasks
<1>2. CASE \/ Begin(t, "propose", "find_old") \/ Begin(t, "reset", "find_reset")
           \/ Begin(t, "cancel", "find_cancel") \/ Begin(t, "edit", "find_file")
  BY <1>2, BeginTyped DEF TurnSteps, Tasks
<1>3. CASE TalkAboutFile(t)
  <2>1. 1 .. revision \subseteq Nat
    BY DEF ReviewTypeOK, RequesterTypeOK
  <2>2. QED
    BY <1>2, <1>3, <2>1, NewLocalsTyped, GoWithTyped, Zenon DEF TalkAboutFile, TurnSteps, Tasks
<1>4. CASE UploadInGroup(t)
  BY <1>4, NewLocalsTyped, GoWithTyped, Zenon DEF UploadInGroup, TurnSteps, Tasks
<1>5. QED
  BY <1>1, <1>2, <1>3, <1>4 DEF Receive

\* Steps that leave the stores and the histories alone.
LEMMA LookingTyped ==
  ASSUME ReviewTypeOK, NEW t \in Turns,
         \/ Receive(t) \/ Enter(t) \/ Lookup(t) \/ CheckJob(t) \/ Authorize(t) \/ FindOld(t)
         \/ Preview(t) \/ FindReset(t) \/ FindForm(t) \/ FindCancel(t) \/ FindFile(t)
         \/ TurnStops(t)
  PROVE  ReviewTypeOK'
<1>1. RequesterTypeOK'
  BY SameRequester DEF Receive, Enter, Lookup, CheckJob, Authorize, FindOld, Preview, FindReset,
     FindForm, FindCancel, FindFile, TurnStops
<1>2. HistoryTyped'
  BY SameHistory DEF Receive, Enter, Lookup, CheckJob, Authorize, FindOld, Preview, FindReset,
     FindForm, FindCancel, FindFile, TurnStops, NoFault
<1>. USE DEF TurnSteps
<1>3. TurnsTyped
  <2>1. CASE Receive(t)
    BY <2>1, ReceiveTyped
  <2>2. CASE Enter(t)
    <3>1. CASE Finish(t)
      BY <3>1, FinishTyped
    <3>2. CASE lock' = t /\ pc' = [pc EXCEPT ![t] = turn[t].next]
               /\ UNCHANGED <<chat, unsent, profile, turn>>
      BY <3>2, LocalsTyped, Zenon DEF TurnsTyped, ReviewTypeOK
    <3>3. QED
      BY <2>2, <3>1, <3>2 DEF Enter
  <2>3. CASE Lookup(t)
    <3>1. (turn[t].review \in revoked) \in BOOLEAN
      BY MembershipBoolean
    <3>2. QED
      BY <2>3, <3>1, FinishTyped, GoTyped, GoWithTyped, LocalsTyped, Zenon DEF Lookup
  <2>4. CASE CheckJob(t)
    BY <2>4, FinishTyped, GoTyped DEF CheckJob
  <2>5. CASE Authorize(t)
    BY <2>5, GoTyped, SettleTyped DEF Authorize
  <2>6. CASE FindOld(t)
    BY <2>6, FinishTyped, GoTyped, GoWithTyped, LocalsTyped, Zenon DEF FindOld
  <2>7. CASE Preview(t)
    BY <2>7, FinishTyped, GoTyped DEF Preview
  <2>8. CASE FindReset(t)
    BY <2>8, GoTyped, GoWithTyped, LocalsTyped, Zenon DEF FindReset
  <2>9. CASE FindForm(t)
    <3>1. arguments \subseteq Reviews
      BY DEF ReviewTypeOK, RequesterTypeOK
    <3>2. QED
      BY <2>9, <3>1, FinishTyped, GoTyped, GoWithTyped, LocalsTyped, Zenon DEF FindForm
  <2>10. CASE FindCancel(t)
    BY <2>10, FinishTyped, GoWithTyped, LocalsTyped, Zenon DEF FindCancel
  <2>11. CASE FindFile(t)
    <3>1. \A f \in Files : file[f].revision \in Nat
      BY DEF ReviewTypeOK, RequesterTypeOK, FileRecord
    <3>2. \A task : StepOf(task) \in TurnSteps
      BY DEF StepOf
    <3>3. CASE Finish(t)
      BY <3>3, FinishTyped
    <3>4. ASSUME slot \in Files,
                 GoWith(t, StepOf(turn[t].task),
                        [turn[t] EXCEPT !.file = slot, !.revision = file[slot].revision])
          PROVE  TurnsTyped
      <4>1. [turn[t] EXCEPT !.file = slot, !.revision = file[slot].revision] \in TurnRecord
        BY <3>1, <3>4, LocalsTyped, Zenon
      <4>2. QED
        BY <3>2, <3>4, <4>1, GoWithTyped
    <3>5. QED
      BY <2>11, <3>3, <3>4 DEF FindFile
  <2>12. CASE TurnStops(t)
    BY <2>12, FinishTyped DEF TurnStops
  <2>13. QED
    BY <2>1, <2>2, <2>3, <2>4, <2>5, <2>6, <2>7, <2>8, <2>9, <2>10, <2>11, <2>12
<1>4. QED
  BY <1>1, <1>2, <1>3, TypeParts

LEMMA RequesterParts ==
  ASSUME ReviewTypeOK,
         slot' \in Reviews \cup Files \cup {Intent, None}, slot' \notin over,
         revoked' \subseteq Reviews, arguments' \subseteq Reviews,
         file' \in [Files -> FileRecord], revision' \in Nat, job' \in [Reviews -> JobRecord],
         UNCHANGED timeVars
  PROVE  RequesterTypeOK'
BY DEF ReviewTypeOK, RequesterTypeOK, timeVars

LEMMA RequesterMembers ==
  ASSUME ReviewTypeOK
  PROVE  /\ RequesterTypeOK
         /\ slot \in Reviews \cup Files \cup {Intent, None} /\ slot \notin over
         /\ revoked \subseteq Reviews /\ arguments \subseteq Reviews /\ over \subseteq Reviews
         /\ file \in [Files -> FileRecord] /\ revision \in Nat /\ job \in [Reviews -> JobRecord]
         /\ None \notin over /\ Intent \notin over /\ Files \cap over = {}
BY RequesterAssumption DEF ReviewTypeOK, RequesterTypeOK

LEMMA HistoryMembers ==
  ASSUME ReviewTypeOK
  PROVE  HistoryTyped
BY DEF ReviewTypeOK, HistoryTyped

LEMMA DisplaceTyped ==
  ASSUME ReviewTypeOK, NEW x \in Reviews \cup Files \cup {Intent, None}, Displace(x)
  PROVE  /\ slot' \in Reviews \cup Files \cup {Intent, None} /\ slot' \notin over
         /\ evicted' \subseteq Reviews
BY ReplacedTyped, RequesterMembers, HistoryMembers DEF Displace, HistoryTyped

LEMMA FaultTyped ==
  ASSUME ReviewTypeOK, Fault \/ NoFault \/ UNCHANGED faults
  PROVE  faults' \in Nat
BY TurnsAssumption DEF ReviewTypeOK, Fault, NoFault

LEMMA StageMembers == {"opt_in", "purpose", "confirm"} \subseteq Stages
BY DEF Stages

\* The steps about a pending attachment and about a file of a group.
LEMMA FileStepTyped ==
  ASSUME ReviewTypeOK, NEW t \in Turns, TurnFits(t),
         \/ Upload(t) \/ AllowUpload(t) \/ OptIn(t) \/ EditFile(t) \/ TakeFile(t) \/ DropFile(t)
         \/ PromoteIntent(t) \/ AttachFile(t) \/ RestoreIntent(t) \/ TakeIntent(t) \/ OpenFile(t)
  PROVE  ReviewTypeOK'
<1>. USE RequesterMembers, HistoryMembers, LocalsTyped
<1>1. CASE Upload(t)
  <2>1. RequesterTypeOK' /\ evicted' \subseteq Reviews
    BY <1>1, DisplaceTyped, RewrittenTyped, StageMembers, RequesterParts, Zenon DEF Upload
  <2>2. QED
    BY <1>1, <2>1, FinishTyped, TypeParts, Zenon
       DEF Upload, HistoryTyped, reviewHistory, fileHistory
<1>2. CASE AllowUpload(t)
  <2>1. RequesterTypeOK' /\ evicted' \subseteq Reviews
    BY <1>2, DisplaceTyped, RequesterParts, Zenon DEF AllowUpload
  <2>2. QED
    <3>1. given' \in Nat
      <4>1. given \in Nat
        BY Zenon DEF HistoryTyped
      <4>2. given' = given + 1
        BY <1>2, Zenon DEF AllowUpload
      <4>. HIDE HistoryMembers, LocalsTyped, RequesterMembers
      <4>3. QED
        BY <4>1, <4>2
    <3>2. HistoryTyped'
      BY <1>2, <2>1, <3>1, Zenon DEF AllowUpload, HistoryTyped, reviewHistory
    <3>3. QED
      BY <1>2, <2>1, <3>2, FinishTyped, TypeParts, Zenon DEF AllowUpload
<1>3. CASE OptIn(t)
  <2>1. RequesterTypeOK' /\ evicted' \subseteq Reviews
    BY <1>3, DisplaceTyped, RewrittenTyped, StageMembers, RequesterParts, Zenon DEF OptIn
  <2>2. QED
    BY <1>3, <2>1, FinishTyped, TypeParts, Zenon
       DEF OptIn, HistoryTyped, reviewHistory, fileHistory
<1>4. CASE EditFile(t)
  <2>1. RequesterTypeOK'
    BY <1>4, RewrittenTyped, StageMembers, RequesterParts, Zenon DEF EditFile, UpdateExpected
  <2>2. QED
    BY <1>4, <2>1, FinishTyped, TypeParts, Zenon
       DEF EditFile, HistoryTyped, historyVars, reviewHistory, fileHistory
<1>5. CASE TakeFile(t)
  <2>1. RequesterTypeOK'
    BY <1>5, RequesterParts, Zenon DEF TakeFile, ConsumeExpected
  <2>2. turn[t].file \in Files
    BY <1>5, Zenon DEF TakeFile, TurnFits, FileSteps
  <2>3. [file |-> turn[t].file, revision |-> file[turn[t].file].revision,
         pressed |-> turn[t].revision] \in SavedRecord
    BY <2>2, Zenon DEF SavedRecord, FileRecord
  <2>4. saved' \subseteq SavedRecord
    BY <1>5, <2>3, Zenon DEF TakeFile, HistoryTyped
  <2>5. TurnsTyped
    BY <1>5, FinishTyped, GoTyped, Zenon DEF TakeFile, TurnSteps
  <2>6. QED
    BY <1>5, <2>1, <2>4, <2>5, TypeParts, Zenon DEF TakeFile, HistoryTyped, reviewHistory
<1>6. CASE DropFile(t)
  <2>1. RequesterTypeOK'
    BY <1>6, RequesterParts, Zenon DEF DropFile, Deleted
  <2>2. QED
    BY <1>6, <2>1, FinishTyped, TypeParts, Zenon
       DEF DropFile, HistoryTyped, historyVars, reviewHistory, fileHistory
<1>7. CASE PromoteIntent(t)
  <2>1. turn[t].file \in Files
    BY <1>7, Zenon DEF PromoteIntent, TurnFits, FileSteps
  <2>2. RequesterTypeOK'
    BY <1>7, <2>1, RewrittenTyped, StageMembers, RequesterParts, Zenon DEF PromoteIntent, Promote
  <2>3. TurnsTyped
    BY <1>7, FinishTyped, GoTyped, GoWithTyped, Zenon DEF PromoteIntent, TurnSteps
  <2>4. QED
    BY <1>7, <2>2, <2>3, TypeParts, Zenon
       DEF PromoteIntent, HistoryTyped, historyVars, reviewHistory, fileHistory
<1>8. CASE AttachFile(t)
  <2>1. turn[t].file \in Files
    BY <1>8, Zenon DEF AttachFile, TurnFits, FileSteps
  <2>2. RequesterTypeOK'
    BY <1>8, SameRequester, Zenon DEF AttachFile
  <2>3. TurnsTyped
    BY <1>8, FinishTyped, GoTyped, Zenon DEF AttachFile, TurnSteps
  <2>4. QED
    BY <1>8, <2>1, <2>2, <2>3, TypeParts, Zenon DEF AttachFile, HistoryTyped, reviewHistory
<1>9. CASE RestoreIntent(t)
  <2>1. RequesterTypeOK'
    BY <1>9, RequesterParts, Zenon DEF RestoreIntent, Restore
  <2>2. QED
    BY <1>9, <2>1, FinishTyped, TypeParts, Zenon
       DEF RestoreIntent, HistoryTyped, historyVars, reviewHistory, fileHistory
<1>10. CASE TakeIntent(t)
  <2>1. RequesterTypeOK'
    BY <1>10, RequesterParts, Zenon DEF TakeIntent
  <2>2. TurnsTyped
    BY <1>10, FinishTyped, GoTyped, Zenon DEF TakeIntent, TurnSteps
  <2>3. QED
    BY <1>10, <2>1, <2>2, TypeParts, Zenon
       DEF TakeIntent, HistoryTyped, historyVars, reviewHistory, fileHistory
<1>11. CASE OpenFile(t)
  <2>1. turn[t].file \in Files
    BY <1>11, Zenon DEF OpenFile, TurnFits, FileSteps
  <2>2. RequesterTypeOK' /\ evicted' \subseteq Reviews
    BY <1>11, DisplaceTyped, RewrittenTyped, StageMembers, RequesterParts, Zenon DEF OpenFile
  <2>3. QED
    BY <1>11, <2>1, <2>2, FinishTyped, TypeParts, Zenon DEF OpenFile, HistoryTyped, reviewHistory
<1>12. QED
  BY <1>1, <1>2, <1>3, <1>4, <1>5, <1>6, <1>7, <1>8, <1>9, <1>10, <1>11, Zenon

\* The steps of a review.
LEMMA ReviewStepTyped ==
  ASSUME ReviewTypeOK, NEW t \in Turns, TurnFits(t),
         \/ TakeReview(t) \/ TakeArguments(t) \/ Execute(t) \/ StartJob(t) \/ Write(t)
         \/ Complete(t) \/ FailJob(t) \/ Revoke(t) \/ CreateJob(t) \/ StoreReview(t)
         \/ StoreArguments(t) \/ UndoReview(t) \/ UndoArguments(t) \/ TakeReset(t)
         \/ DropArguments(t) \/ DropForm(t) \/ TakeCancel(t)
  PROVE  ReviewTypeOK'
<1>. USE RequesterMembers, HistoryMembers, LocalsTyped, FaultTyped
<1>r. pc[t] \in ReviewSteps => turn[t].review \in Reviews
  BY Zenon DEF TurnFits
<1>1. CASE TakeReview(t)
  <2>1. RequesterTypeOK'
    BY <1>1, RequesterParts, Zenon DEF TakeReview, TakeAction
  <2>2. (turn[t].review \in revoked) \in BOOLEAN
    BY MembershipBoolean, Zenon
  <2>3. TurnsTyped
    BY <1>1, <2>2, FinishTyped, GoTyped, GoWithTyped, SettleTyped, Zenon DEF TakeReview, TurnSteps
  <2>4. QED
    BY <1>1, <2>1, <2>3, TypeParts, Zenon
       DEF TakeReview, HistoryTyped, historyVars, reviewHistory, fileHistory
<1>2. CASE TakeArguments(t)
  <2>1. RequesterTypeOK'
    BY <1>2, RequesterParts, Zenon DEF TakeArguments
  <2>2. TurnsTyped
    BY <1>2, GoTyped, SettleTyped, Zenon DEF TakeArguments, TurnSteps
  <2>3. QED
    BY <1>2, <2>1, <2>2, TypeParts, Zenon
       DEF TakeArguments, HistoryTyped, historyVars, reviewHistory, fileHistory
<1>3. CASE Execute(t)
  <2>1. RequesterTypeOK' /\ turn[t].review \in Reviews
    BY <1>3, <1>r, SameRequester, Zenon DEF Execute, ReviewSteps, ExecutingSteps
  <2>2. TurnsTyped
    BY <1>3, FinishTyped, GoTyped, Zenon DEF Execute, TurnSteps
  <2>3. QED
    BY <1>3, <2>1, <2>2, TypeParts, Zenon DEF Execute, HistoryTyped, fileHistory
<1>4. CASE StartJob(t)
  <2>1. RequesterTypeOK'
    BY <1>4, JobTyped, RequesterParts, Zenon DEF StartJob, sessionVars
  <2>2. TurnsTyped
    BY <1>4, FinishTyped, GoTyped, SettleTyped, Zenon DEF StartJob, TurnSteps
  <2>3. QED
    BY <1>4, <2>1, <2>2, TypeParts, Zenon
       DEF StartJob, HistoryTyped, historyVars, reviewHistory, fileHistory
<1>5. CASE Write(t)
  <2>1. RequesterTypeOK'
    BY <1>5, SameRequester, Zenon DEF Write
  <2>2. TurnsTyped
    BY <1>5, GoTyped, SettleTyped, Zenon DEF Write, TurnSteps
  <2>3. written' \in [Reviews -> Nat]
    <3>1. [written EXCEPT ![turn[t].review] = @ + 1] \in [Reviews -> Nat]
      <4>1. written \in [Reviews -> Nat] /\ turn[t].review \in Reviews
        BY <1>5, <1>r, Zenon DEF HistoryTyped, Write, ReviewSteps, ExecutingSteps
      <4>. HIDE HistoryMembers, LocalsTyped, RequesterMembers, FaultTyped
      <4>2. QED
        BY <4>1
    <3>2. QED
      BY <1>5, <3>1, Zenon DEF Write, HistoryTyped
  <2>4. QED
    BY <1>5, <2>1, <2>2, <2>3, TypeParts, Zenon DEF Write, HistoryTyped, fileHistory
<1>6. CASE Complete(t)
  <2>1. RequesterTypeOK'
    BY <1>6, JobTyped, RequesterParts, Zenon DEF Complete, sessionVars
  <2>2. TurnsTyped
    BY <1>6, FinishTyped, SettleTyped, Zenon DEF Complete, TurnSteps
  <2>3. QED
    BY <1>6, <2>1, <2>2, TypeParts, Zenon
       DEF Complete, HistoryTyped, historyVars, reviewHistory, fileHistory
<1>7. CASE FailJob(t)
  <2>1. turn[t].outcome \in {"failed", "uncertain"}
    BY Zenon DEF TurnRecord
  <2>2. RequesterTypeOK'
    BY <1>7, <2>1, JobTyped, RequesterParts, Zenon DEF FailJob, sessionVars
  <2>3. TurnsTyped
    <3>1. Finish(t) \/ Go(t, turn[t].next)
      BY <1>7, Zenon DEF FailJob
    <3>2. turn[t].next \in TurnSteps
      OBVIOUS
    <3>3. QED
      BY <3>1, <3>2, FinishTyped, GoTyped, Zenon
  <2>4. QED
    BY <1>7, <2>2, <2>3, TypeParts, Zenon
       DEF FailJob, HistoryTyped, historyVars, reviewHistory, fileHistory
<1>8. CASE Revoke(t)
  <2>1. turn[t].review \in Reviews
    BY <1>8, <1>r, Zenon DEF Revoke, ReviewSteps
  <2>2. RequesterTypeOK' /\ evicted' \subseteq Reviews
    BY <1>8, <2>1, DisplaceTyped, RequesterParts, Zenon DEF Revoke
  <2>3. TurnsTyped
    BY <1>8, SettleTyped, Zenon DEF Revoke, TurnSteps
  <2>4. QED
    BY <1>8, <2>2, <2>3, TypeParts, Zenon DEF Revoke, HistoryTyped, reviewHistory, fileHistory
<1>9. CASE CreateJob(t)
  <2>1. RequesterTypeOK'
    BY <1>9, JobTyped, RequesterParts, Zenon DEF CreateJob, sessionVars
  <2>2. TurnsTyped
    BY <1>9, GoWithTyped, Zenon DEF CreateJob, TurnSteps
  <2>3. QED
    BY <1>9, <2>1, <2>2, TypeParts, Zenon
       DEF CreateJob, HistoryTyped, historyVars, reviewHistory, fileHistory
<1>10. CASE StoreReview(t)
  <2>1. turn[t].review \in Reviews
    BY <1>10, <1>r, Zenon DEF StoreReview, ReviewSteps
  <2>2. RequesterTypeOK' /\ evicted' \subseteq Reviews
    BY <1>10, <2>1, DisplaceTyped, RequesterParts, Zenon DEF StoreReview, HistoryTyped
  <2>3. TurnsTyped /\ withdrawn' \subseteq Reviews
    BY <1>10, <2>1, FinishTyped, GoTyped, SettleTyped, Zenon
       DEF StoreReview, GiveUp, TurnSteps, HistoryTyped
  <2>4. QED
    BY <1>10, <2>2, <2>3, TypeParts, Zenon DEF StoreReview, HistoryTyped, fileHistory
<1>11. CASE StoreArguments(t)
  <2>1. turn[t].review \in Reviews
    BY <1>11, <1>r, Zenon DEF StoreArguments, ReviewSteps
  <2>2. RequesterTypeOK'
    BY <1>11, <2>1, RequesterParts, Zenon DEF StoreArguments
  <2>3. TurnsTyped /\ withdrawn' \subseteq Reviews
    BY <1>11, <2>1, FinishTyped, GoTyped, SettleTyped, Zenon
       DEF StoreArguments, GiveUp, TurnSteps, HistoryTyped
  <2>4. QED
    BY <1>11, <2>2, <2>3, TypeParts, Zenon DEF StoreArguments, HistoryTyped, fileHistory
<1>12. CASE UndoReview(t)
  <2>1. RequesterTypeOK'
    BY <1>12, RequesterParts, Zenon DEF UndoReview, Deleted
  <2>2. TurnsTyped
    BY <1>12, GoTyped, Zenon DEF UndoReview, TurnSteps
  <2>3. QED
    BY <1>12, <2>1, <2>2, TypeParts, Zenon
       DEF UndoReview, HistoryTyped, historyVars, reviewHistory, fileHistory
<1>13. CASE UndoArguments(t)
  <2>1. RequesterTypeOK'
    BY <1>13, RequesterParts, Zenon DEF UndoArguments
  <2>2. TurnsTyped
    BY <1>13, SettleTyped, Zenon DEF UndoArguments, TurnSteps
  <2>3. QED
    BY <1>13, <2>1, <2>2, TypeParts, Zenon
       DEF UndoArguments, HistoryTyped, historyVars, reviewHistory, fileHistory
<1>14. CASE TakeReset(t)
  <2>1. RequesterTypeOK'
    BY <1>14, RequesterParts, Zenon DEF TakeReset, Deleted
  <2>2. TurnsTyped
    BY <1>14, GoTyped, SettleTyped, Zenon DEF TakeReset, TurnSteps
  <2>3. QED
    BY <1>14, <2>1, <2>2, TypeParts, Zenon
       DEF TakeReset, HistoryTyped, historyVars, reviewHistory, fileHistory
<1>15. CASE DropArguments(t)
  <2>1. RequesterTypeOK'
    BY <1>15, RequesterParts, Zenon DEF DropArguments
  <2>2. TurnsTyped
    BY <1>15, SettleTyped, Zenon DEF DropArguments, TurnSteps
  <2>3. QED
    BY <1>15, <2>1, <2>2, TypeParts, Zenon
       DEF DropArguments, HistoryTyped, historyVars, reviewHistory, fileHistory
<1>16. CASE DropForm(t)
  <2>1. RequesterTypeOK'
    BY <1>16, RequesterParts, Zenon DEF DropForm
  <2>2. TurnsTyped
    BY <1>16, FinishTyped, GoTyped, Zenon DEF DropForm, TurnSteps
  <2>3. QED
    BY <1>16, <2>1, <2>2, TypeParts, Zenon
       DEF DropForm, HistoryTyped, historyVars, reviewHistory, fileHistory
<1>17. CASE TakeCancel(t)
  <2>1. RequesterTypeOK'
    BY <1>17, RequesterParts, Zenon DEF TakeCancel, TakeAction
  <2>2. TurnsTyped
    BY <1>17, FinishTyped, SettleTyped, Zenon DEF TakeCancel, TurnSteps
  <2>3. QED
    BY <1>17, <2>1, <2>2, TypeParts, Zenon
       DEF TakeCancel, HistoryTyped, historyVars, reviewHistory, fileHistory
<1>18. QED
  BY <1>1, <1>2, <1>3, <1>4, <1>5, <1>6, <1>7, <1>8, <1>9, <1>10, <1>11, <1>12, <1>13,
     <1>14, <1>15, <1>16, <1>17, Zenon

LEMMA EnvironmentTyped ==
  ASSUME ReviewTypeOK, Environment
  PROVE  ReviewTypeOK'
<1>. USE RequesterMembers, HistoryMembers
<1>1. CASE Unsend
  BY <1>1 DEF Unsend, ReviewTypeOK, RequesterTypeOK, requesterVars, sessionVars, timeVars,
     historyVars, reviewHistory, fileHistory
<1>2. ASSUME RequesterTypeOK', UNCHANGED <<turnVars, historyVars, faults>>
      PROVE  ReviewTypeOK'
  BY <1>2 DEF ReviewTypeOK, turnVars, historyVars, reviewHistory, fileHistory
<1>3. CASE TimePasses /\ UNCHANGED <<turnVars, historyVars, faults>>
  <2>1. CASE WaitingEnds
    BY <1>2, <1>3, <2>1, RequesterParts DEF WaitingEnds
  <2>2. ASSUME NEW r \in Reviews, ApprovalEnds(r) PROVE RequesterTypeOK'
    BY <2>2 DEF ApprovalEnds, RequesterTypeOK, sessionVars
  <2>3. ASSUME NEW r \in Reviews, ReviewEnds(r) PROVE RequesterTypeOK'
    BY <2>3, RequesterAssumption DEF ReviewEnds, RequesterTypeOK, Deleted
  <2>4. ASSUME NEW r \in Reviews, LeaseEnds(r) PROVE RequesterTypeOK'
    <3>1. job' \in [Reviews -> JobRecord]
      BY <2>4 DEF LeaseEnds, JobRecord
    <3>2. QED
      BY <2>4, <3>1, RequesterParts DEF LeaseEnds, sessionVars
  <2>5. ASSUME NEW r \in Reviews, JobEnds(r) PROVE RequesterTypeOK'
    <3>1. job' \in [Reviews -> JobRecord]
      BY <2>5 DEF JobEnds, JobRecord
    <3>2. QED
      BY <2>5, <3>1, RequesterParts DEF JobEnds, sessionVars
  <2>6. QED
    BY <1>2, <1>3, <2>1, <2>2, <2>3, <2>4, <2>5 DEF TimePasses
<1>4. QED
  BY <1>1, <1>3 DEF Environment

(***************************************************************************)
(* Every step keeps the local variables, the profile and the lock in       *)
(* agreement with the control.                                             *)
(***************************************************************************)

\* What a step of t does to turns and lock, and that it leaves t where TurnFits expects it.
Placed(t) ==
  /\ Others(t) /\ profile' = profile /\ (lock' = lock \/ lock = t \/ lock = None)
  /\ TurnFits(t)'

LEMMA FinishPlaced ==
  ASSUME ReviewTypeOK, NEW t \in Turns, Finish(t)
  PROVE  Placed(t)
BY FinishMoves DEF Placed, TurnFits, MainSteps, ReviewSteps, ExecutingSteps, FileSteps,
   LockedSteps

LEMMA GoWithPlaced ==
  ASSUME ReviewTypeOK, NEW t \in Turns, NEW step, NEW locals, GoWith(t, step, locals),
         step = "wait" => profile = "helper" /\ locals.next \in EntrySteps,
         step = "wait" /\ locals.next = "take" => locals.review \in Reviews,
         step = "fail" => locals.next \in AfterFailSteps,
         step = "fail" /\ locals.next = "find_form" => profile = "main",
         step = "revoke" => profile = "helper",
         step \in MainSteps => profile = "main",
         step \in ReviewSteps => locals.review \in Reviews,
         step \in FileSteps => locals.file \in Files,
         profile = "helper" /\ step \in LockedSteps => lock = t
  PROVE  Placed(t)
BY GoWithMoves DEF Placed, TurnFits

LEMMA SettlePlaced ==
  ASSUME ReviewTypeOK, NEW t \in Turns, NEW outcome, NEW next \in AfterFailSteps,
         next = "find_form" => profile = "main", turn[t].review \in Reviews,
         profile = "helper" => lock = t, Settle(t, outcome, next)
  PROVE  Placed(t)
BY SettleMoves DEF Placed, TurnFits, MainSteps, FileSteps

\* Reading local variables after one of the usual assignments.
LEMMA LocalsRead ==
  ASSUME ReviewTypeOK, NEW t \in Turns
  PROVE  /\ \A r \in Reviews : [turn[t] EXCEPT !.review = r].review = r
         /\ \A b \in BOOLEAN : /\ [turn[t] EXCEPT !.ended = b].review = turn[t].review
                               /\ [turn[t] EXCEPT !.ended = b].ended = b
         /\ \A b \in BOOLEAN, step \in TurnSteps :
              /\ [turn[t] EXCEPT !.next = step, !.ended = b].next = step
              /\ [turn[t] EXCEPT !.next = step, !.ended = b].review = turn[t].review
         /\ \A f \in Files, v \in Nat :
              /\ [turn[t] EXCEPT !.file = f, !.revision = v].file = f
              /\ [turn[t] EXCEPT !.file = f, !.revision = v].review = turn[t].review
         /\ [turn[t] EXCEPT !.replaced = TRUE].file = turn[t].file
         /\ [turn[t] EXCEPT !.replaced = TRUE].review = turn[t].review
<1>1. turn[t] \in TurnRecord
  BY DEF ReviewTypeOK
<1>2. QED
  BY <1>1 DEF TurnRecord

LEMMA ProfileIs ==
  ASSUME ReviewTypeOK
  PROVE  profile \in {"helper", "main"}
BY TurnsAssumption DEF ReviewTypeOK

LEMMA ReceivePlaced ==
  ASSUME ReviewTypeOK, NEW t \in Turns, Receive(t)
  PROVE  Placed(t)
<1>. USE DEF MainSteps, ReviewSteps, ExecutingSteps, FileSteps, LockedSteps
<1>1. NoTurn \in TurnRecord
  BY NoTurnTyped
<1>2. ASSUME NEW task, NEW step \in EntrySteps \ {"take"}, Begin(t, task, step),
             profile = "main" => step \in {"find_old", "find_reset"}
      PROVE  Placed(t)
  <2>1. CASE profile = "helper"
    <3>1. GoWith(t, "wait", [[NoTurn EXCEPT !.task = task] EXCEPT !.next = step])
      BY <1>2, <2>1 DEF Begin
    <3>2. [[NoTurn EXCEPT !.task = task] EXCEPT !.next = step].next = step
      BY DEF NoTurn
    <3>3. QED
      BY <1>2, <2>1, <3>1, <3>2, GoWithPlaced
  <2>2. CASE profile # "helper"
    <3>1. GoWith(t, step, [NoTurn EXCEPT !.task = task])
      BY <1>2, <2>2 DEF Begin
    <3>2. profile = "main"
      BY <2>2, TurnsAssumption DEF ReviewTypeOK
    <3>3. QED
      BY <1>2, <3>1, <3>2, GoWithPlaced
  <2>3. QED
    BY <2>1, <2>2
<1>3. CASE Press(t)
  <2>1. PICK r \in Reviews, decision \in {"approve", "reject"} :
               GoWith(t, "lookup", [NoTurn EXCEPT !.task = decision, !.review = r])
    BY <1>3 DEF Press
  <2>2. [NoTurn EXCEPT !.task = decision, !.review = r].review = r
    BY DEF NoTurn
  <2>3. \E locals : GoWith(t, "lookup", locals) /\ locals.review \in Reviews
    BY <2>1, <2>2
  <2>4. QED
    BY <2>3, GoWithPlaced
<1>4. CASE \/ Begin(t, "propose", "find_old") \/ Begin(t, "reset", "find_reset")
           \/ profile = "helper" /\ Begin(t, "cancel", "find_cancel")
  BY <1>2, <1>4 DEF EntrySteps
<1>5. CASE TalkAboutFile(t)
  <2>1. CASE Begin(t, "edit", "find_file")
    BY <1>2, <1>5, <2>1 DEF EntrySteps, TalkAboutFile
  <2>2. QED
    BY <1>5, <2>1, GoWithPlaced DEF TalkAboutFile
<1>6. CASE UploadInGroup(t)
  <2>1. \A f : [NoTurn EXCEPT !.task = "upload", !.file = f].file = f
    BY DEF NoTurn
  <2>2. QED
    BY <1>6, <2>1, GoWithPlaced DEF UploadInGroup
<1>7. QED
  BY <1>3, <1>4, <1>5, <1>6 DEF Receive

LEMMA StepPlaced ==
  ASSUME ReviewTypeOK, NEW t \in Turns, TurnFits(t), Step(t)
  PROVE  Placed(t)
<1>. USE FinishPlaced, ProfileIs
     DEF Go, TurnFits, MainSteps, ReviewSteps, ExecutingSteps, FileSteps, LockedSteps
<1>1. CASE Upload(t)
  BY <1>1 DEF Upload
<1>2. CASE AllowUpload(t)
  BY <1>2 DEF AllowUpload
<1>3. CASE Lookup(t)
  <2>1. (turn[t].review \in revoked) \in BOOLEAN /\ "take" \in TurnSteps
    BY MembershipBoolean DEF TurnSteps
  <2>2. ASSUME profile = "helper",
               GoWith(t, "wait", [turn[t] EXCEPT !.next = "take",
                                                 !.ended = turn[t].review \in revoked])
        PROVE  Placed(t)
    <3>1. turn[t].review \in Reviews
      BY <1>3 DEF Lookup
    <3>2. ASSUME NEW b \in BOOLEAN,
                 GoWith(t, "wait", [turn[t] EXCEPT !.next = "take", !.ended = b])
          PROVE  Placed(t)
      <4>1. /\ [turn[t] EXCEPT !.next = "take", !.ended = b].next = "take"
            /\ [turn[t] EXCEPT !.next = "take", !.ended = b].review = turn[t].review
        BY <2>1, LocalsRead
      <4>2. PICK locals : /\ GoWith(t, "wait", locals) /\ locals.next = "take"
                           /\ locals.review = turn[t].review
        BY <3>2, <4>1
      <4>3. QED
        BY <2>2, <3>1, <4>2, GoWithPlaced DEF EntrySteps
    <3>3. QED
      BY <2>1, <2>2, <3>2
  <2>3. QED
    BY <1>3, <2>2, GoWithPlaced DEF Lookup
<1>4. CASE CheckJob(t)
  BY <1>4, GoWithPlaced DEF CheckJob
<1>5. CASE TakeReview(t)
  <2>1. (turn[t].review \in revoked) \in BOOLEAN
    BY MembershipBoolean
  <2>2. [turn[t] EXCEPT !.ended = turn[t].review \in revoked].review = turn[t].review
    BY <2>1, LocalsRead
  <2>3. QED
    BY <1>5, <2>2, GoWithPlaced, SettlePlaced DEF TakeReview, AfterFailSteps
<1>6. CASE TakeArguments(t)
  BY <1>6, GoWithPlaced, SettlePlaced DEF TakeArguments, AfterFailSteps
<1>7. CASE Execute(t)
  BY <1>7, GoWithPlaced DEF Execute
<1>8. CASE Authorize(t)
  BY <1>8, GoWithPlaced, SettlePlaced DEF Authorize, AfterFailSteps
<1>9. CASE StartJob(t)
  BY <1>9, GoWithPlaced, SettlePlaced DEF StartJob, AfterFailSteps
<1>10. CASE Write(t)
  BY <1>10, GoWithPlaced, SettlePlaced DEF Write, AfterFailSteps
<1>11. CASE Complete(t)
  BY <1>11, SettlePlaced DEF Complete, AfterFailSteps
<1>12. CASE FindOld(t)
  <2>1. slot \in Reviews => [turn[t] EXCEPT !.review = slot].review = slot
    BY LocalsRead
  <2>2. QED
    BY <1>12, <2>1, GoWithPlaced DEF FindOld
<1>13. CASE Revoke(t)
  BY <1>13, SettlePlaced DEF Revoke, AfterFailSteps
<1>14. CASE Preview(t)
  BY <1>14, GoWithPlaced DEF Preview
<1>15. CASE CreateJob(t)
  <2>1. PICK r \in Reviews : GoWith(t, "store", [turn[t] EXCEPT !.review = r])
    BY <1>15 DEF CreateJob
  <2>2. [turn[t] EXCEPT !.review = r].review = r
    BY LocalsRead
  <2>3. \E locals : GoWith(t, "store", locals) /\ locals.review \in Reviews
    BY <2>1, <2>2
  <2>4. QED
    BY <1>15, <2>3, GoWithPlaced DEF CreateJob
<1>16. CASE StoreReview(t)
  BY <1>16, GoWithPlaced, SettlePlaced DEF StoreReview, AfterFailSteps, GiveUp
<1>17. CASE StoreArguments(t)
  BY <1>17, GoWithPlaced, SettlePlaced DEF StoreArguments, AfterFailSteps, GiveUp
<1>18. CASE UndoReview(t)
  BY <1>18, GoWithPlaced DEF UndoReview
<1>19. CASE UndoArguments(t)
  BY <1>19, SettlePlaced DEF UndoArguments, AfterFailSteps
<1>20. CASE FindReset(t)
  <2>1. slot \in Reviews => [turn[t] EXCEPT !.review = slot].review = slot
    BY LocalsRead
  <2>2. slot \in Reviews => \E locals : /\ GoWith(t, "take_reset", locals)
                                        /\ locals.review \in Reviews
    BY <1>20, <2>1 DEF FindReset
  <2>3. QED
    BY <1>20, <2>2, GoWithPlaced DEF FindReset
<1>21. CASE TakeReset(t)
  BY <1>21, GoWithPlaced, SettlePlaced DEF TakeReset, AfterFailSteps
<1>22. CASE DropArguments(t)
  BY <1>22, SettlePlaced DEF DropArguments, AfterFailSteps
<1>23. CASE FindForm(t)
  <2>1. ASSUME NEW r \in arguments, GoWith(t, "drop_form", [turn[t] EXCEPT !.review = r])
        PROVE  Placed(t)
    <3>1. r \in Reviews
      BY <2>1, RequesterMembers
    <3>2. [turn[t] EXCEPT !.review = r].review = r
      BY <3>1, LocalsRead
    <3>3. \E locals : GoWith(t, "drop_form", locals) /\ locals.review \in Reviews
      BY <2>1, <3>1, <3>2
    <3>4. QED
      BY <1>23, <3>3, GoWithPlaced DEF FindForm
  <2>2. QED
    BY <1>23, <2>1, GoWithPlaced DEF FindForm
<1>24. CASE DropForm(t)
  BY <1>24, GoWithPlaced DEF DropForm
<1>25. CASE FindCancel(t)
  <2>1. slot \in Reviews => [turn[t] EXCEPT !.review = slot].review = slot
    BY LocalsRead
  <2>2. \/ Finish(t)
        \/ \E locals : GoWith(t, "take_cancel", locals) /\ locals.review \in Reviews
    BY <1>25, <2>1 DEF FindCancel
  <2>3. QED
    BY <1>25, <2>2, GoWithPlaced DEF FindCancel
<1>26. CASE TakeCancel(t)
  BY <1>26, SettlePlaced DEF TakeCancel, AfterFailSteps
<1>27. CASE FindFile(t)
  <2>1. ASSUME slot \in Files,
               GoWith(t, StepOf(turn[t].task),
                      [turn[t] EXCEPT !.file = slot, !.revision = file[slot].revision])
        PROVE  Placed(t)
    <3>1. file[slot].revision \in Nat
      BY <2>1, RequesterMembers DEF FileRecord
    <3>2. [turn[t] EXCEPT !.file = slot, !.revision = file[slot].revision].file = slot
      BY <2>1, <3>1, LocalsRead
    <3>3. QED
      BY <2>1, <3>2, GoWithPlaced DEF StepOf
  <2>2. QED
    BY <1>27, <2>1 DEF FindFile
<1>28. CASE OptIn(t)
  BY <1>28 DEF OptIn
<1>29. CASE EditFile(t)
  BY <1>29 DEF EditFile
<1>30. CASE TakeFile(t)
  BY <1>30, GoWithPlaced DEF TakeFile
<1>31. CASE DropFile(t)
  BY <1>31 DEF DropFile
<1>32. CASE PromoteIntent(t)
  <2>1. turn[t].file \in Files
    BY <1>32 DEF PromoteIntent
  <2>2. [turn[t] EXCEPT !.replaced = TRUE].file = turn[t].file
    BY LocalsRead
  <2>3. QED
    BY <1>32, <2>1, <2>2, GoWithPlaced DEF PromoteIntent
<1>33. CASE AttachFile(t)
  BY <1>33, GoWithPlaced DEF AttachFile
<1>34. CASE RestoreIntent(t)
  BY <1>34 DEF RestoreIntent
<1>35. CASE TakeIntent(t)
  BY <1>35, GoWithPlaced DEF TakeIntent
<1>36. CASE OpenFile(t)
  BY <1>36 DEF OpenFile
<1>37. CASE TurnStops(t)
  BY <1>37 DEF TurnStops
<1>38. CASE Receive(t)
  BY <1>38, ReceivePlaced
<1>39. CASE Enter(t)
  <2>1. CASE Finish(t)
    BY <2>1
  <2>2. CASE lock' = t /\ pc' = [pc EXCEPT ![t] = turn[t].next]
             /\ UNCHANGED <<chat, unsent, profile, turn>>
    <3>1. pc'[t] = turn[t].next /\ turn'[t] = turn[t] /\ Others(t)
      BY <2>2 DEF ReviewTypeOK, Others
    <3>2. QED
      BY <1>39, <2>2, <3>1 DEF Enter, Placed, EntrySteps
  <2>3. QED
    BY <1>39, <2>1, <2>2 DEF Enter
<1>40. CASE FailJob(t)
  BY <1>40, GoWithPlaced DEF FailJob, AfterFailSteps
<1>41. QED
  BY <1>1, <1>2, <1>3, <1>4, <1>5, <1>6, <1>7, <1>8, <1>9, <1>10, <1>11, <1>12, <1>13,
     <1>14, <1>15, <1>16, <1>17, <1>18, <1>19, <1>20, <1>21, <1>22, <1>23, <1>24, <1>25,
     <1>26, <1>27, <1>28, <1>29, <1>30, <1>31, <1>32, <1>33, <1>34, <1>35, <1>36, <1>37,
     <1>38, <1>39, <1>40 DEF Step

(***************************************************************************)
(* Every step keeps what ReviewInv says of each review.                    *)
(***************************************************************************)

\* The steps of a turn that ReviewKept restricts.
RoleSteps == ExecutingSteps \cup {"store", "fail", "revoke", "take_reset", "undo", "undo_args"}

\* What is kept of r besides the session, which r may only lose.
SameRecord(r) ==
  /\ written'[r] = written[r] /\ job'[r].started = job[r].started
  /\ job'[r].status \in {job[r].status, "gone"}
  /\ r \in revoked' <=> r \in revoked
  /\ r \in withdrawn => r \in withdrawn'
  /\ r \in arguments' => r \in arguments \/ job[r].status # "none"

\* Turn u ends up in no step that matters to r, or in one that only matters if r was stored.
Neutral(u, r) ==
  turn'[u].review = r =>
    /\ turn[u].review = r \/ job[r].status # "none"
    /\ \/ pc'[u] \notin RoleSteps
       \/ pc'[u] \in {"undo", "undo_args"} /\ r \in withdrawn'
       \/ pc'[u] = "fail" /\ (turn'[u].outcome # "failed" \/ r \in withdrawn')

LEMMA QuietKeeps ==
  ASSUME NEW r \in Reviews, ReviewKept(r), SameRecord(r), slot' = r => slot = r,
         profile' = profile,
         \A u \in Turns : (pc'[u] = pc[u] /\ turn'[u] = turn[u]) \/ Neutral(u, r)
  PROVE  ReviewKept(r)'
<1>. USE DEF ReviewKept, SameRecord, Neutral, RoleSteps
<1>0. \A u \in Turns :
        \/ pc'[u] = pc[u] /\ turn'[u] = turn[u]
        \/ turn'[u].review # r
        \/ pc'[u] \notin ExecutingSteps \cup {"store", "revoke", "take_reset"}
  BY DEF ExecutingSteps
<1>1. /\ \A u \in Turns :
          Executing(u, r)' => Executing(u, r) /\ pc'[u] = pc[u] /\ turn'[u] = turn[u]
      /\ \A u \in Turns : Storing(u, r)' => Storing(u, r)
      /\ Untaken(r) => Untaken(r)'
  BY <1>0 DEF Executing, Storing, Untaken
<1>2. Fresh(r)'
  BY DEF Fresh
<1>3. Offered(r)'
  BY <1>0, <1>1 DEF Offered
<1>4. Executed(r)'
  BY <1>1 DEF Executed
<1>5. Approved(r)'
  BY DEF Approved, ExecutingSteps
<1>6. Refused(r)'
  BY <1>1 DEF Refused, ExecutingSteps
<1>7. Truthful(r)'
  BY DEF Truthful
<1>8. QED
  BY <1>2, <1>3, <1>4, <1>5, <1>6, <1>7

\* Under the helper's lock at most one turn is at a step that needs it.
LEMMA LockedAlone ==
  ASSUME NEW t \in Turns, NEW u \in Turns, TurnFits(u), profile = "helper", lock = t,
         pc[u] \in LockedSteps
  PROVE  u = t
BY DEF TurnFits

\* While a turn executes r, nothing else can happen to r.
LEMMA ExecutorAlone ==
  ASSUME NEW r \in Reviews, ReviewKept(r), NEW t \in Turns, Executing(t, r)
  PROVE  /\ slot # r /\ job[r].status # "none"
         /\ \A u \in Turns : Executing(u, r) => u = t
         /\ \A u \in Turns : ~Storing(u, r)
         /\ \A u \in Turns :
              ~(profile = "helper" /\ pc[u] \in {"revoke", "take_reset"} /\ turn[u].review = r)
         /\ \A u \in Turns :
              pc[u] = "fail" /\ turn[u].outcome = "failed" /\ turn[u].review = r =>
                r \in withdrawn
BY DEF ReviewKept, Offered, Untaken, Executed, Refused, Fresh, Executing

\* A step of the turn that executes r.
LEMMA ExecutorKeeps ==
  ASSUME NEW r \in Reviews, ReviewKept(r), NEW t \in Turns, Executing(t, r), Others(t),
         slot' = r => slot = r, r \in withdrawn => r \in withdrawn',
         r \in revoked' <=> r \in revoked,
         profile' = profile, job'[r].status # "none", Truthful(r)',
         turn'[t].review = r =>
           /\ pc'[t] \in ExecutingSteps \cup {"fail"}
           /\ pc'[t] \in ExecutingSteps \ {"write", "complete"} => ~job'[r].started
           /\ pc'[t] = "write" =>
                /\ job'[r].started /\ written'[r] = 0 /\ job'[r].status # "completed"
                /\ job'[r].status = "failed" => r \in withdrawn'
           /\ pc'[t] = "complete" => written'[r] = 1
           /\ profile = "helper" /\ pc'[t] = "execute" => (turn'[t].ended <=> r \in revoked)
           /\ pc'[t] \in {"authorize", "start", "write"} => r \notin revoked
           /\ pc'[t] = "fail" /\ turn'[t].outcome = "failed" => written'[r] = 0
  PROVE  ReviewKept(r)'
<1>. USE ExecutorAlone DEF ReviewKept, Others
<1>1. /\ \A u \in Turns : Executing(u, r)' => u = t /\ turn'[t].review = r
      /\ \A u \in Turns : ~Storing(u, r)'
  BY DEF Executing, Storing, ExecutingSteps
<1>2. Fresh(r)'
  BY DEF Fresh
<1>3. Offered(r)'
  BY <1>1 DEF Offered, ExecutingSteps
<1>4. Executed(r)'
  BY <1>1 DEF Executed, Executing, ExecutingSteps
<1>5. Approved(r)'
  <2>1. \A u \in Turns \ {t} : turn[u].review = r => pc[u] \notin ExecutingSteps
    BY DEF Executing
  <2>2. QED
    BY <2>1 DEF Approved, ExecutingSteps
<1>6. Refused(r)'
  <2>1. ASSUME NEW u \in Turns, pc'[u] \in {"undo", "undo_args"}, turn'[u].review = r
        PROVE  r \in withdrawn'
    BY <2>1 DEF Refused, ExecutingSteps
  <2>2. ASSUME NEW u \in Turns, pc'[u] = "fail", turn'[u].outcome = "failed",
               turn'[u].review = r, r \notin withdrawn'
        PROVE  /\ written'[r] = 0 /\ \A v \in Turns : ~Executing(v, r)'
               /\ profile' = "main" => slot' # r /\ \A v \in Turns : ~Storing(v, r)'
    <3>1. u = t
      BY <2>2
    <3>2. \A v \in Turns : ~Executing(v, r)'
      BY <1>1, <2>2, <3>1 DEF Executing, ExecutingSteps
    <3>3. QED
      BY <1>1, <2>2, <3>1, <3>2
  <2>3. QED
    BY <2>1, <2>2 DEF Refused
<1>7. QED
  BY <1>2, <1>3, <1>4, <1>5, <1>6

\* A step that takes r out of the session, for execution or to withdraw it.
LEMMA TakenKeeps ==
  ASSUME NEW r \in Reviews, ReviewKept(r), NEW t \in Turns, Others(t),
         \A u \in Turns : TurnFits(u), profile \in {"helper", "main"},
         slot = r, slot' # r, SameRecord(r), job' = job, profile' = profile,
         profile = "helper" => lock = t,
         turn'[t].review = r =>
           /\ pc'[t] \in {"take_args", "execute", "drop_args", "fail"}
           /\ profile = "helper" /\ pc'[t] = "execute" => (turn'[t].ended <=> r \in revoked)
  PROVE  ReviewKept(r)'
<1>. USE DEF ReviewKept, Others, SameRecord
<1>0. /\ Untaken(r) /\ job[r].status # "none" /\ written[r] = 0
      /\ \A u \in Turns : ~Storing(u, r)
  BY DEF Offered, Fresh, Untaken, Truthful
<1>1. /\ \A u \in Turns : Executing(u, r)' => u = t /\ turn'[t].review = r
      /\ \A u \in Turns : ~Storing(u, r)'
  BY <1>0 DEF Executing, Storing, Untaken
<1>2. Fresh(r)'
  BY <1>0 DEF Fresh
<1>3. Offered(r)'
  <2>1. ASSUME NEW u \in Turns, profile' = "helper", pc'[u] \in {"revoke", "take_reset"},
               turn'[u].review = r
        PROVE  FALSE
    <3>1. u # t
      BY <2>1
    <3>2. pc[u] \in LockedSteps
      BY <2>1, <3>1 DEF LockedSteps
    <3>3. QED
      BY <2>1, <3>1, <3>2, LockedAlone
  <2>2. QED
    BY <1>1, <2>1 DEF Offered
<1>4. Executed(r)'
  BY <1>0, <1>1 DEF Executed, Executing, Untaken
<1>5. Approved(r)'
  BY <1>0 DEF Approved, Untaken, Executing, ExecutingSteps
<1>6. Refused(r)'
  <2>1. ASSUME NEW u \in Turns, pc'[u] \in {"undo", "undo_args"}, turn'[u].review = r
        PROVE  r \in withdrawn'
    BY <2>1 DEF Refused
  <2>2. ASSUME NEW u \in Turns, pc'[u] = "fail", turn'[u].outcome = "failed",
               turn'[u].review = r, r \notin withdrawn'
        PROVE  /\ written'[r] = 0 /\ \A v \in Turns : ~Executing(v, r)'
               /\ profile' = "main" => slot' # r /\ \A v \in Turns : ~Storing(v, r)'
    <3>1. u = t
      <4>1. CASE profile = "helper"
        BY <2>2, <4>1, LockedAlone DEF LockedSteps
      <4>2. CASE profile = "main"
        BY <2>2, <4>2 DEF Refused
      <4>3. QED
        BY <4>1, <4>2
    <3>2. \A v \in Turns : ~Executing(v, r)'
      BY <1>1, <2>2, <3>1 DEF Executing, ExecutingSteps
    <3>3. QED
      BY <1>0, <1>1, <3>2
  <2>3. QED
    BY <2>1, <2>2 DEF Refused
<1>7. Truthful(r)'
  BY <1>0 DEF Truthful
<1>8. QED
  BY <1>2, <1>3, <1>4, <1>5, <1>6, <1>7

\* A step of t after which t does not matter to r.
QuietMove(t, r) == Others(t) /\ profile' = profile /\ Neutral(t, r)

LEMMA FinishQuiet ==
  ASSUME ReviewTypeOK, NEW t \in Turns, NEW r \in Reviews, Finish(t)
  PROVE  QuietMove(t, r)
BY FinishMoves, RequesterAssumption DEF QuietMove, Neutral, NoTurn

LEMMA GoWithQuiet ==
  ASSUME ReviewTypeOK, NEW t \in Turns, NEW r \in Reviews, NEW step \in TurnSteps \ RoleSteps,
         NEW locals, GoWith(t, step, locals),
         locals.review = r => turn[t].review = r \/ job[r].status # "none"
  PROVE  QuietMove(t, r)
BY GoWithMoves DEF QuietMove, Neutral

LEMMA GoQuiet ==
  ASSUME ReviewTypeOK, NEW t \in Turns, NEW r \in Reviews, NEW step \in TurnSteps \ RoleSteps,
         Go(t, step)
  PROVE  QuietMove(t, r)
BY GoWithQuiet DEF Go

LEMMA QuietStepKeeps ==
  ASSUME NEW t \in Turns, NEW r \in Reviews, ReviewKept(r), SameRecord(r),
         slot' = r => slot = r, QuietMove(t, r)
  PROVE  ReviewKept(r)'
BY QuietKeeps DEF QuietMove, Others

LEMMA SameStores ==
  ASSUME UNCHANGED <<requesterVars, historyVars>>, NEW r \in Reviews
  PROVE  SameRecord(r) /\ (slot' = r => slot = r) /\ job' = job
BY DEF requesterVars, sessionVars, timeVars, historyVars, reviewHistory, SameRecord

\* The steps about attachments and files leave the reviews alone.
LEMMA FileStepKeeps ==
  ASSUME ReviewInv, NEW t \in Turns, NEW r \in Reviews,
         \/ Upload(t) \/ AllowUpload(t) \/ OptIn(t) \/ EditFile(t) \/ TakeFile(t) \/ DropFile(t)
         \/ PromoteIntent(t) \/ AttachFile(t) \/ RestoreIntent(t) \/ TakeIntent(t) \/ OpenFile(t)
  PROVE  ReviewKept(r)'
<1>1. ReviewTypeOK /\ ReviewKept(r) /\ TurnFits(t)
  BY DEF ReviewInv
<1>2. Intent \notin Reviews /\ None \notin Reviews /\ Files \cap Reviews = {}
  BY RequesterAssumption
<1>3. pc[t] \in FileSteps => turn[t].file \notin Reviews
  BY <1>1, <1>2 DEF TurnFits
<1>4. /\ SameRecord(r) /\ (slot' = r => slot = r)
  BY <1>2, <1>3
     DEF Upload, AllowUpload, OptIn, EditFile, TakeFile, DropFile, PromoteIntent, AttachFile,
         RestoreIntent, TakeIntent, OpenFile, SameRecord, FileSteps, Displace, Replaced,
         UpdateExpected, ConsumeExpected, Deleted, Promote, Restore,
         requesterVars, sessionVars, historyVars, reviewHistory
<1>5. QuietMove(t, r)
  <2>1. CASE PromoteIntent(t)
    <3>1. [turn[t] EXCEPT !.replaced = TRUE].review = turn[t].review
      BY <1>1, LocalsRead
    <3>2. "attach" \in TurnSteps \ RoleSteps
      BY DEF TurnSteps, RoleSteps, ExecutingSteps
    <3>3. ASSUME GoWith(t, "attach", [turn[t] EXCEPT !.replaced = TRUE])
          PROVE  QuietMove(t, r)
      BY <1>1, <3>1, <3>2, <3>3, GoWithQuiet
    <3>4. QED
      BY <1>1, <2>1, <3>2, <3>3, FinishQuiet, GoQuiet DEF PromoteIntent
  <2>2. CASE ~PromoteIntent(t)
    BY <1>1, <2>2, FinishQuiet, GoQuiet
       DEF Upload, AllowUpload, OptIn, EditFile, TakeFile, DropFile, AttachFile, RestoreIntent,
           TakeIntent, OpenFile, TurnSteps, RoleSteps, ExecutingSteps
  <2>3. QED
    BY <2>1, <2>2
<1>6. QED
  BY <1>1, <1>4, <1>5, QuietStepKeeps

LEMMA QuietStepsAre ==
  /\ EntrySteps \cup {"wait", "lookup", "promote", "take_intent"} \subseteq TurnSteps \ RoleSteps
  /\ {"find_old", "find_reset", "find_cancel", "find_file"} \subseteq EntrySteps
BY DEF TurnSteps, EntrySteps, RoleSteps, ExecutingSteps

LEMMA ReceiveQuiet ==
  ASSUME ReviewTypeOK, NEW t \in Turns, NEW r \in Reviews, Receive(t)
  PROVE  QuietMove(t, r)
<1>. USE QuietStepsAre
<1>1. ASSUME NEW step \in TurnSteps \ RoleSteps, NEW locals, GoWith(t, step, locals),
             locals.review = None
      PROVE  QuietMove(t, r)
  BY <1>1, GoWithQuiet, RequesterAssumption
<1>2. ASSUME NEW task, NEW step \in EntrySteps, Begin(t, task, step)
      PROVE  QuietMove(t, r)
  <2>1. /\ [NoTurn EXCEPT !.task = task].review = None
        /\ [[NoTurn EXCEPT !.task = task] EXCEPT !.next = step].review = None
    BY DEF NoTurn
  <2>2. QED
    BY <1>1, <1>2, <2>1 DEF Begin
<1>3. CASE Press(t)
  <2>1. PICK q \in Reviews, decision \in {"approve", "reject"} :
               /\ Known(q)
               /\ GoWith(t, "lookup", [NoTurn EXCEPT !.task = decision, !.review = q])
    BY <1>3 DEF Press
  <2>2. [NoTurn EXCEPT !.task = decision, !.review = q].review = q
    BY DEF NoTurn
  <2>3. \E locals : GoWith(t, "lookup", locals) /\ locals.review = q
    BY <2>1, <2>2
  <2>4. QED
    BY <2>1, <2>3, GoWithQuiet DEF Known
<1>4. CASE \/ Begin(t, "propose", "find_old") \/ Begin(t, "reset", "find_reset")
           \/ Begin(t, "cancel", "find_cancel")
  BY <1>2, <1>4
<1>5. CASE TalkAboutFile(t)
  <2>1. CASE Begin(t, "edit", "find_file")
    BY <1>2, <2>1
  <2>2. ASSUME NEW task, GoWith(t, "find_file", [NoTurn EXCEPT !.task = task])
        PROVE  QuietMove(t, r)
    <3>1. [NoTurn EXCEPT !.task = task].review = None
      BY DEF NoTurn
    <3>2. QED
      BY <1>1, <2>2, <3>1
  <2>3. ASSUME NEW v, GoWith(t, "find_file", [NoTurn EXCEPT !.task = "confirm", !.revision = v])
        PROVE  QuietMove(t, r)
    <3>1. [NoTurn EXCEPT !.task = "confirm", !.revision = v].review = None
      BY DEF NoTurn
    <3>2. QED
      BY <1>1, <2>3, <3>1
  <2>4. QED
    BY <1>5, <2>1, <2>2, <2>3 DEF TalkAboutFile
<1>6. CASE UploadInGroup(t)
  <2>1. PICK f \in Files \ unsent :
               GoWith(t, IF chat = "bound" THEN "promote" ELSE "take_intent",
                      [NoTurn EXCEPT !.task = "upload", !.file = f])
    BY <1>6 DEF UploadInGroup
  <2>2. [NoTurn EXCEPT !.task = "upload", !.file = f].review = None
    BY DEF NoTurn
  <2>3. QED
    BY <1>1, <2>1, <2>2
<1>7. QED
  BY <1>3, <1>4, <1>5, <1>6 DEF Receive

\* The steps that only look.
LEMMA LookingKeeps ==
  ASSUME ReviewInv, NEW t \in Turns, NEW r \in Reviews,
         \/ Receive(t) \/ Enter(t) \/ Lookup(t) \/ CheckJob(t) \/ Preview(t) \/ FindForm(t)
         \/ FindCancel(t) \/ FindFile(t) \/ TurnStops(t)
  PROVE  ReviewKept(r)'
<1>1. ReviewTypeOK /\ ReviewKept(r) /\ TurnFits(t)
  BY DEF ReviewInv
<1>2. SameRecord(r) /\ (slot' = r => slot = r)
  BY SameStores DEF Receive, Enter, Lookup, CheckJob, Preview, FindForm, FindCancel, FindFile,
     TurnStops
<1>3. (slot = r => job[r].status # "none") /\ (r \in arguments => job[r].status # "none")
  BY <1>1 DEF ReviewKept, Fresh
<1>. USE <1>1, FinishQuiet DEF TurnSteps, RoleSteps, ExecutingSteps
<1>4. CASE Receive(t)
  BY <1>2, <1>4, ReceiveQuiet, QuietStepKeeps
<1>5. CASE Enter(t)
  <2>1. ASSUME lock' = t, pc' = [pc EXCEPT ![t] = turn[t].next],
               UNCHANGED <<chat, unsent, profile, turn>>
        PROVE  QuietMove(t, r)
    <3>1. turn[t].next \notin RoleSteps
      BY <1>5 DEF Enter, TurnFits, EntrySteps
    <3>2. pc'[t] = turn[t].next /\ turn' = turn /\ Others(t)
      BY <2>1 DEF ReviewTypeOK, Others
    <3>3. QED
      BY <2>1, <3>1, <3>2 DEF QuietMove, Neutral
  <2>2. QED
    BY <1>2, <1>5, <2>1, QuietStepKeeps DEF Enter
<1>6. CASE Lookup(t)
  <2>1. ASSUME NEW b \in BOOLEAN,
               GoWith(t, "wait", [turn[t] EXCEPT !.next = "take", !.ended = b])
        PROVE  QuietMove(t, r)
    <3>1. [turn[t] EXCEPT !.next = "take", !.ended = b].review = turn[t].review
      BY LocalsRead
    <3>2. QED
      BY <2>1, <3>1, GoWithQuiet
  <2>2. (turn[t].review \in revoked) \in BOOLEAN
    BY MembershipBoolean
  <2>3. QuietMove(t, r)
    BY <1>6, <2>1, <2>2, GoQuiet DEF Lookup
  <2>4. QED
    BY <1>2, <2>3, QuietStepKeeps
<1>7. CASE CheckJob(t) \/ Preview(t) \/ TurnStops(t)
  <2>1. QuietMove(t, r)
    BY <1>7, GoQuiet DEF CheckJob, Preview, TurnStops
  <2>2. QED
    BY <1>2, <2>1, QuietStepKeeps
<1>8. CASE FindForm(t)
  <2>1. ASSUME NEW q \in arguments, GoWith(t, "drop_form", [turn[t] EXCEPT !.review = q])
        PROVE  QuietMove(t, r)
    <3>1. [turn[t] EXCEPT !.review = q].review = q
      BY RequesterMembers, LocalsRead
    <3>2. QED
      BY <1>3, <2>1, <3>1, GoWithQuiet
  <2>2. QuietMove(t, r)
    BY <1>8, <2>1, GoQuiet DEF FindForm
  <2>3. QED
    BY <1>2, <2>2, QuietStepKeeps
<1>9. CASE FindCancel(t)
  <2>1. slot \in Reviews => [turn[t] EXCEPT !.review = slot].review = slot
    BY LocalsRead
  <2>2. QuietMove(t, r)
    BY <1>3, <1>9, <2>1, GoWithQuiet DEF FindCancel
  <2>3. QED
    BY <1>2, <2>2, QuietStepKeeps
<1>10. CASE FindFile(t)
  <2>1. ASSUME slot \in Files,
               GoWith(t, StepOf(turn[t].task),
                      [turn[t] EXCEPT !.file = slot, !.revision = file[slot].revision])
        PROVE  QuietMove(t, r)
    <3>1. file[slot].revision \in Nat
      BY <2>1, RequesterMembers DEF FileRecord
    <3>2. [turn[t] EXCEPT !.file = slot, !.revision = file[slot].revision].review
            = turn[t].review
      BY <2>1, <3>1, LocalsRead
    <3>3. StepOf(turn[t].task) \in TurnSteps \ RoleSteps
      BY DEF StepOf
    <3>4. QED
      BY <2>1, <3>2, <3>3, GoWithQuiet
  <2>2. QuietMove(t, r)
    BY <1>10, <2>1 DEF FindFile
  <2>3. QED
    BY <1>2, <2>2, QuietStepKeeps
<1>11. QED
  BY <1>4, <1>5, <1>6, <1>7, <1>8, <1>9, <1>10

\* The helper withdraws r, which it may have stored anew, and turns to its job.
LEMMA WithdrawnKeeps ==
  ASSUME NEW r \in Reviews, ReviewKept(r), NEW t \in Turns, Others(t),
         \A u \in Turns : TurnFits(u), profile = "helper", lock = t, profile' = profile,
         Untaken(r), pc[t] \in {"revoke", "take_reset"}, turn[t].review = r,
         written' = written, job' = job, withdrawn' = withdrawn, arguments' = arguments,
         turn'[t].review = r, pc'[t] = "fail"
  PROVE  ReviewKept(r)'
<1>. USE DEF ReviewKept, Others
<1>0. written[r] = 0 /\ job[r].status # "none"
  BY DEF Untaken, Truthful, Fresh
<1>1. ASSUME NEW u \in Turns \ {t} PROVE pc'[u] = pc[u] /\ pc[u] \notin LockedSteps
  BY <1>1, LockedAlone
<1>2. \A u \in Turns : ~Executing(u, r)' /\ ~Storing(u, r)'
  <2>1. \A u \in Turns \ {t} : ~Executing(u, r)'
    BY <1>1 DEF Untaken, Executing
  <2>2. \A u \in Turns \ {t} : ~Storing(u, r)'
    BY <1>1 DEF Storing, LockedSteps
  <2>3. QED
    BY <2>1, <2>2 DEF Executing, Storing, ExecutingSteps
<1>3. Fresh(r)'
  BY <1>0 DEF Fresh
<1>4. Offered(r)'
  BY <1>1, <1>2 DEF Offered, Untaken, LockedSteps
<1>5. Executed(r)'
  BY <1>2 DEF Executed
<1>6. Approved(r)'
  BY <1>2 DEF Approved, Executing, ExecutingSteps
<1>7. Refused(r)'
  <2>1. ASSUME NEW u \in Turns, pc'[u] \in {"undo", "undo_args"}, turn'[u].review = r
        PROVE  r \in withdrawn'
    BY <2>1 DEF Refused
  <2>2. QED
    BY <1>0, <1>2, <2>1 DEF Refused
<1>8. Truthful(r)'
  BY <1>0 DEF Truthful
<1>9. QED
  BY <1>3, <1>4, <1>5, <1>6, <1>7, <1>8

\* What most steps below leave alone.
LEMMA SameHistories ==
  ASSUME NEW r \in Reviews, UNCHANGED reviewHistory, UNCHANGED job, UNCHANGED revoked,
         arguments' \subseteq arguments
  PROVE  SameRecord(r)
BY DEF reviewHistory, SameRecord

\* The move of a turn that keeps its review.
LEMMA SettleStays ==
  ASSUME ReviewTypeOK, NEW t \in Turns, NEW outcome, NEW next, Settle(t, outcome, next)
  PROVE  /\ Others(t) /\ profile' = profile /\ pc'[t] = "fail"
         /\ turn'[t].review = turn[t].review /\ turn'[t].outcome = outcome
BY SettleMoves

LEMMA OtherReviewQuiet ==
  ASSUME NEW t \in Turns, NEW r \in Reviews, Others(t), profile' = profile,
         turn'[t].review # r
  PROVE  QuietMove(t, r)
BY DEF QuietMove, Neutral

\* TakeReview, TakeCancel and the reset of main take the review out of the session.
LEMMA TakeReviewKeeps ==
  ASSUME ReviewInv, NEW t \in Turns, NEW r \in Reviews, TakeReview(t)
  PROVE  ReviewKept(r)'
<1>1. /\ ReviewTypeOK /\ ReviewKept(r) /\ \A u \in Turns : TurnFits(u)
      /\ profile \in {"helper", "main"}
  BY ProfileIs DEF ReviewInv
<1>2. profile = "helper" => lock = t
  BY <1>1 DEF TakeReview, TurnFits, LockedSteps
<1>3. SameRecord(r) /\ job' = job
  BY SameHistories DEF TakeReview, historyVars
<1>4. CASE Finish(t) /\ UNCHANGED slot
  BY <1>1, <1>3, <1>4, FinishQuiet, QuietStepKeeps
<1>5. CASE /\ slot = turn[t].review /\ slot' = None
           /\ \/ Go(t, "take_args") /\ profile = "main"
              \/ Settle(t, "failed", "done")
              \/ GoWith(t, "execute", [turn[t] EXCEPT !.ended = turn[t].review \in revoked])
  <2>1. ASSUME NEW b \in BOOLEAN, b <=> turn[t].review \in revoked,
               GoWith(t, "execute", [turn[t] EXCEPT !.ended = b])
        PROVE  /\ Others(t) /\ profile' = profile /\ turn'[t].review = turn[t].review
               /\ pc'[t] = "execute" /\ (turn'[t].ended <=> turn[t].review \in revoked)
    <3>1. /\ [turn[t] EXCEPT !.ended = b].review = turn[t].review
          /\ [turn[t] EXCEPT !.ended = b].ended = b
      BY <1>1, LocalsRead
    <3>2. /\ Others(t) /\ profile' = profile /\ pc'[t] = "execute"
          /\ turn'[t] = [turn[t] EXCEPT !.ended = b]
      BY <1>1, <2>1, GoWithMoves
    <3>3. turn'[t].ended <=> turn[t].review \in revoked
      BY <2>1, <3>1, <3>2, Zenon
    <3>4. turn'[t].review = turn[t].review
      BY <3>1, <3>2
    <3>5. QED
      BY <3>2, <3>3, <3>4
  <2>2. (turn[t].review \in revoked) \in BOOLEAN
    BY MembershipBoolean
  <2>3. /\ Others(t) /\ profile' = profile /\ turn'[t].review = turn[t].review
        /\ pc'[t] \in {"take_args", "execute", "drop_args", "fail"}
        /\ pc'[t] = "execute" => (turn'[t].ended <=> turn[t].review \in revoked)
    <3>1. CASE Go(t, "take_args") \/ Settle(t, "failed", "done")
      BY <1>1, <3>1, GoMoves, SettleStays
    <3>2. CASE GoWith(t, "execute", [turn[t] EXCEPT !.ended = turn[t].review \in revoked])
      BY <2>1, <2>2, <3>2
    <3>3. QED
      BY <1>5, <3>1, <3>2
  <2>4. CASE turn[t].review = r
    BY <1>1, <1>2, <1>3, <1>5, <2>3, <2>4, TakenKeeps, RequesterAssumption
  <2>5. CASE turn[t].review # r
    BY <1>1, <1>3, <1>5, <2>3, <2>5, OtherReviewQuiet, QuietStepKeeps, RequesterAssumption
  <2>6. QED
    BY <2>4, <2>5
<1>6. QED
  BY <1>4, <1>5 DEF TakeReview, TakeAction

LEMMA TakeAwayKeeps ==
  ASSUME ReviewInv, NEW t \in Turns, NEW r \in Reviews, TakeCancel(t) \/ TakeReset(t)
  PROVE  ReviewKept(r)'
<1>1. /\ ReviewTypeOK /\ ReviewKept(r) /\ \A u \in Turns : TurnFits(u)
      /\ profile \in {"helper", "main"} /\ turn[t].review \in Reviews
  BY ProfileIs DEF ReviewInv, TurnFits, ReviewSteps, TakeCancel, TakeReset
<1>2. profile = "helper" => lock = t
  BY <1>1 DEF TakeCancel, TakeReset, TurnFits, LockedSteps
<1>3. SameRecord(r) /\ job' = job
  BY SameHistories DEF TakeCancel, TakeReset, historyVars
<1>4. slot' = slot \/ slot' = None
  BY DEF TakeCancel, TakeReset, TakeAction, Deleted
<1>5. slot' = r => slot = r
  BY <1>4, RequesterAssumption
<1>6. CASE Finish(t) \/ Go(t, "find_form")
  BY <1>1, <1>3, <1>5, <1>6, FinishQuiet, GoQuiet, QuietStepKeeps
     DEF TurnSteps, RoleSteps, ExecutingSteps
<1>7. CASE Go(t, "drop_args") \/ Settle(t, "failed", "done") \/ Settle(t, "failed", "find_file")
  <2>1. /\ Others(t) /\ profile' = profile /\ turn'[t].review = turn[t].review
        /\ pc'[t] \in {"drop_args", "fail"}
    BY <1>1, <1>7, GoMoves, SettleStays
  <2>2. CASE turn[t].review # r
    BY <1>1, <1>3, <1>5, <2>1, <2>2, OtherReviewQuiet, QuietStepKeeps
  <2>3. CASE turn[t].review = r /\ slot = r
    <3>1. slot' # r
      <4>1. slot' = None
        BY <1>6, <1>7, <2>3 DEF TakeCancel, TakeReset, TakeAction, Deleted
      <4>2. QED
        BY <4>1, RequesterAssumption
    <3>2. QED
      BY <1>1, <1>2, <1>3, <2>1, <2>3, <3>1, TakenKeeps
  <2>4. CASE turn[t].review = r /\ slot # r
    <3>1. TakeReset(t) /\ profile = "helper" /\ pc[t] = "take_reset" /\ Untaken(r)
      <4>1. (TakeReset(t) /\ profile = "helper") \/ Finish(t) \/ Go(t, "find_form")
        BY <1>1, <2>4 DEF TakeCancel, TakeReset, TakeAction
      <4>2. pc'[t] \notin {"done", "find_form"}
        BY <2>1
      <4>3. QED
        BY <1>1, <2>4, <4>1, <4>2, FinishMoves, GoMoves DEF TakeReset, ReviewKept, Offered
    <3>2. QED
      <4>1. written' = written /\ withdrawn' = withdrawn /\ arguments' = arguments
        BY <3>1 DEF TakeReset, historyVars, reviewHistory
      <4>2. pc'[t] = "fail"
        BY <2>1, <3>1, SettleStays, <1>1 DEF TakeReset
      <4>3. QED
        BY <1>1, <1>2, <1>3, <2>1, <2>4, <3>1, <4>1, <4>2, WithdrawnKeeps
  <2>5. QED
    BY <2>2, <2>3, <2>4
<1>8. QED
  BY <1>1, <1>6, <1>7 DEF TakeCancel, TakeReset

\* FindOld and FindReset name the review of the session, which nobody has taken.
LEMMA FoundKeeps ==
  ASSUME ReviewInv, NEW t \in Turns, NEW r \in Reviews, FindOld(t) \/ FindReset(t)
  PROVE  ReviewKept(r)'
<1>1. ReviewTypeOK /\ ReviewKept(r)
  BY DEF ReviewInv
<1>2. SameRecord(r) /\ slot' = slot /\ job' = job
  BY SameStores DEF FindOld, FindReset, requesterVars, sessionVars
<1>3. CASE \/ Finish(t)
           \/ \E step \in {"preview", "find_form", "find_file"} : Go(t, step)
  <2>1. {"preview", "find_form", "find_file"} \subseteq TurnSteps \ RoleSteps
    BY DEF TurnSteps, RoleSteps, ExecutingSteps
  <2>2. QuietMove(t, r)
    BY <1>1, <1>3, <2>1, FinishQuiet, GoQuiet
  <2>3. QED
    BY <1>1, <1>2, <2>2, QuietStepKeeps
<1>4. ASSUME slot \in Reviews, NEW step \in {"revoke", "take_reset"},
             GoWith(t, step, [turn[t] EXCEPT !.review = slot])
      PROVE  ReviewKept(r)'
  <2>1. /\ Others(t) /\ profile' = profile /\ turn'[t].review = slot /\ pc'[t] = step
    <3>1. [turn[t] EXCEPT !.review = slot].review = slot
      BY <1>1, <1>4, LocalsRead
    <3>2. QED
      BY <1>1, <1>4, <3>1, GoWithMoves
  <2>2. CASE slot # r
    BY <1>1, <1>2, <2>1, <2>2, OtherReviewQuiet, QuietStepKeeps
  <2>3. CASE slot = r
    <3>. USE <1>2, <2>1, <2>3 DEF ReviewKept, SameRecord, Others
    <3>0. Untaken(r) /\ job[r].status # "none" /\ \A u \in Turns : ~Storing(u, r)
      BY <1>1 DEF Offered, Fresh
    <3>1. /\ \A u \in Turns : ~Executing(u, r)' /\ ~Storing(u, r)'
          /\ Untaken(r)'
      BY <3>0 DEF Executing, Storing, Untaken, ExecutingSteps
    <3>2. Fresh(r)'
      BY <3>0 DEF Fresh
    <3>3. Offered(r)'
      BY <3>1 DEF Offered
    <3>4. Executed(r)'
      BY <3>1 DEF Executed
    <3>5. Approved(r)'
      BY <1>1 DEF Approved
    <3>6. Refused(r)'
      <4>1. ASSUME NEW u \in Turns, pc'[u] \in {"undo", "undo_args", "fail"},
                   turn'[u].review = r
            PROVE  pc'[u] = pc[u] /\ turn'[u] = turn[u]
        BY <4>1
      <4>2. ASSUME NEW u \in Turns, pc'[u] \in {"undo", "undo_args"}, turn'[u].review = r
            PROVE  r \in withdrawn'
        BY <1>1, <4>1, <4>2 DEF Refused
      <4>3. ASSUME NEW u \in Turns, pc'[u] = "fail", turn'[u].outcome = "failed",
                   turn'[u].review = r, r \notin withdrawn'
            PROVE  written'[r] = 0 /\ (profile' = "main" => slot' # r)
        BY <1>1, <4>1, <4>3 DEF Refused
      <4>4. QED
        BY <3>1, <4>2, <4>3 DEF Refused
    <3>7. Truthful(r)'
      BY <1>1 DEF Truthful
    <3>8. QED
      BY <3>2, <3>3, <3>4, <3>5, <3>6, <3>7
  <2>4. QED
    BY <2>2, <2>3
<1>5. QED
  BY <1>3, <1>4 DEF FindOld, FindReset

\* The steps of an execution.
LEMMA ExecutionKeeps ==
  ASSUME ReviewInv, NEW t \in Turns, NEW r \in Reviews,
         \/ TakeArguments(t) \/ DropArguments(t) \/ Execute(t) \/ Authorize(t) \/ StartJob(t)
         \/ Write(t) \/ Complete(t)
  PROVE  ReviewKept(r)'
<1>1. /\ ReviewTypeOK /\ ReviewKept(r) /\ TurnFits(t)
      /\ profile \in {"helper", "main"}
      /\ profile = "main" => revoked = {}
  BY ProfileIs DEF ReviewInv
<1>2. /\ pc[t] \in ExecutingSteps /\ turn[t].review \in Reviews
  BY <1>1 DEF TakeArguments, DropArguments, Execute, Authorize, StartJob, Write, Complete,
     ExecutingSteps, ReviewSteps, TurnFits
<1>3. /\ slot' = slot /\ revoked' = revoked /\ withdrawn' = withdrawn /\ profile' = profile
      /\ arguments' \subseteq arguments
  BY <1>1, FinishMoves, GoMoves, SettleStays
     DEF TakeArguments, DropArguments, Execute, Authorize, StartJob, Write, Complete,
         requesterVars, sessionVars, historyVars, reviewHistory
<1>4. /\ Others(t)
      /\ \/ turn'[t].review = None
         \/ turn'[t] = turn[t]
         \/ pc'[t] = "fail" /\ turn'[t].review = turn[t].review
  BY <1>1, FinishMoves, GoMoves, SettleStays
     DEF TakeArguments, DropArguments, Execute, Authorize, StartJob, Write, Complete, NoTurn
<1>5. job \in [Reviews -> JobRecord] /\ written \in [Reviews -> Nat]
  BY <1>1, RequesterMembers, HistoryMembers DEF HistoryTyped
<1>6. CASE turn[t].review # r
  <2>1. turn'[t].review # r
    BY <1>4, <1>6, RequesterAssumption
  <2>2. written'[r] = written[r] /\ job'[r] = job[r]
    BY <1>2, <1>5, <1>6
       DEF TakeArguments, DropArguments, Execute, Authorize, StartJob, Write, Complete,
           requesterVars, historyVars, reviewHistory, MarkStarted, CompleteJob
  <2>3. SameRecord(r)
    BY <1>3, <2>2 DEF SameRecord
  <2>4. QED
    BY <1>1, <1>3, <1>4, <2>1, <2>3, OtherReviewQuiet, QuietStepKeeps
<1>7. job[turn[t].review] \in JobRecord
  BY <1>2, <1>5
<1>8. Execute(t) => Finish(t) \/ turn[t].review \notin revoked
  <2>1. CASE profile = "main"
    BY <1>1, <2>1
  <2>2. CASE profile = "helper"
    <3>1. Execute(t) => Finish(t) \/ ~turn[t].ended
      BY <2>2 DEF Execute, ApprovalOver
    <3>2. ReviewKept(turn[t].review)
      BY <1>2 DEF ReviewInv
    <3>3. Execute(t) => (turn[t].ended <=> turn[t].review \in revoked)
      BY <2>2, <3>2 DEF Execute, ReviewKept, Approved
    <3>4. QED
      BY <3>1, <3>3
  <2>3. QED
    BY <1>1, <2>1, <2>2
<1>9. CASE turn[t].review = r
  <2>1. Executing(t, r) /\ job[r].status # "none" /\ r \notin {None}
    BY <1>1, <1>2, <1>9, ExecutorAlone, RequesterAssumption DEF Executing
  <2>2. /\ Truthful(r)
        /\ pc[t] \notin {"write", "complete"} => ~job[r].started
        /\ pc[t] = "write" =>
             /\ job[r].started /\ written[r] = 0 /\ job[r].status # "completed"
             /\ job[r].status = "failed" => r \in withdrawn
        /\ pc[t] = "complete" => written[r] = 1
        /\ profile = "helper" /\ pc[t] = "execute" => (turn[t].ended <=> r \in revoked)
        /\ pc[t] \in {"authorize", "start", "write"} => r \notin revoked
    BY <1>1, <1>9, <2>1 DEF ReviewKept, Executed, Approved
  <2>3. written[r] = 0 \/ job[r].started
    BY <2>2 DEF Truthful
  <2>. USE <1>9, <2>1, <2>2, <2>3
  <2>4. ASSUME Truthful(r)', job'[r].status # "none",
               \/ turn'[t].review = None
               \/ pc'[t] = "fail" /\ turn'[t].outcome = "uncertain"
               \/ pc'[t] = "fail" /\ written'[r] = 0
               \/ pc'[t] \in {"execute", "authorize", "start"} /\ ~job'[r].started
                    /\ (pc'[t] = "execute" => profile = "main")
                    /\ (pc'[t] # "execute" => r \notin revoked)
               \/ pc'[t] = "write" /\ job'[r].started /\ written'[r] = 0
                    /\ job'[r].status = "pending" /\ r \notin revoked
               \/ pc'[t] = "complete" /\ written'[r] = 1
        PROVE  ReviewKept(r)'
    BY <1>1, <1>3, <1>4, <2>4, ExecutorKeeps DEF ExecutingSteps
  <2>5. /\ Finish(t) => turn'[t].review = None
        /\ \A step : Go(t, step) => pc'[t] = step
        /\ \A outcome, next :
             Settle(t, outcome, next) => pc'[t] = "fail" /\ turn'[t].outcome = outcome
    BY <1>1, FinishMoves, GoMoves, SettleStays DEF NoTurn
  <2>6. UNCHANGED <<job, written>> => Truthful(r)' /\ job'[r].status # "none"
    BY <1>3 DEF Truthful
  <2>7. CASE TakeArguments(t) \/ DropArguments(t)
    <3>1. profile = "main" /\ UNCHANGED <<job, written>> /\ written[r] = 0 /\ ~job[r].started
      BY <1>1, <2>7 DEF TakeArguments, DropArguments, TurnFits, MainSteps, historyVars,
         reviewHistory
    <3>2. QED
      BY <2>4, <2>5, <2>6, <2>7, <3>1 DEF TakeArguments, DropArguments
  <2>8. CASE Execute(t)
    <3>1. UNCHANGED <<job, written>> /\ ~job[r].started
      BY <2>8 DEF Execute, requesterVars
    <3>2. QED
      BY <1>8, <2>4, <2>5, <2>6, <2>8, <3>1 DEF Execute
  <2>9. CASE Authorize(t)
    <3>1. UNCHANGED <<job, written>> /\ ~job[r].started /\ r \notin revoked
      BY <2>9 DEF Authorize, requesterVars, historyVars, reviewHistory
    <3>2. QED
      BY <2>4, <2>5, <2>6, <2>9, <3>1 DEF Authorize
  <2>10. CASE StartJob(t)
    <3>1. written' = written /\ written[r] = 0 /\ ~job[r].started /\ r \notin revoked
      BY <2>10 DEF StartJob, historyVars, reviewHistory
    <3>2. MarkStarted(r) =>
            /\ job'[r].started /\ job'[r].status = "pending" /\ job[r].status = "pending"
            /\ Truthful(r)'
      <4>1. job[r] \in JobRecord
        BY <1>5
      <4>2. MarkStarted(r) =>
              job'[r].started /\ job'[r].status = "pending" /\ job[r].status = "pending"
        BY <1>5, <4>1 DEF MarkStarted, CanStart, JobRecord
      <4>3. QED
        BY <3>1, <4>2 DEF Truthful
    <3>3. QED
      BY <2>4, <2>5, <2>6, <2>10, <3>1, <3>2 DEF StartJob
  <2>11. CASE Write(t)
    <3>1. /\ job' = job /\ job[r].started /\ written[r] = 0 /\ job[r].status # "completed"
          /\ job[r].status = "failed" => r \in withdrawn
      BY <2>11 DEF Write, requesterVars
    <3>2. written'[r] \in {0, 1}
      BY <1>5, <2>11, <3>1 DEF Write
    <3>3. Truthful(r)' /\ job'[r].status # "none"
      BY <1>3, <3>1, <3>2 DEF Truthful
    <3>4. Go(t, "complete") /\ written' = [written EXCEPT ![r] = @ + 1] => written'[r] = 1
      BY <1>5, <3>1
    <3>5. QED
      BY <2>4, <2>5, <2>11, <3>1, <3>3, <3>4 DEF Write
  <2>12. CASE Complete(t)
    <3>1. written' = written /\ written[r] = 1 /\ job[r].started
      BY <2>12 DEF Complete, historyVars, reviewHistory, Truthful
    <3>2. CompleteJob(r) => Truthful(r)' /\ job'[r].status # "none"
      <4>1. ASSUME job' = [job EXCEPT ![r].status = "completed"]
            PROVE  job'[r].started /\ job'[r].status = "completed"
        BY <1>5, <1>7, <3>1, <4>1 DEF JobRecord
      <4>2. CompleteJob(r) =>
              \/ job'[r].started /\ job'[r].status = "completed"
              \/ job' = job
        BY <4>1 DEF CompleteJob
      <4>3. QED
        BY <1>3, <3>1, <4>2 DEF Truthful
    <3>3. QED
      BY <2>4, <2>5, <2>6, <2>12, <3>1, <3>2 DEF Complete
  <2>13. QED
    BY <2>7, <2>8, <2>9, <2>10, <2>11, <2>12
<1>10. QED
  BY <1>6, <1>9

\* jobs.fail says "failed" only of a review that was not written and is out of reach.
LEMMA FailJobKeeps ==
  ASSUME ReviewInv, NEW t \in Turns, NEW r \in Reviews, FailJob(t)
  PROVE  ReviewKept(r)'
<1>1. /\ ReviewTypeOK /\ ReviewKept(r) /\ TurnFits(t) /\ pc[t] = "fail"
      /\ turn[t].review \in Reviews
  BY DEF ReviewInv, FailJob, TurnFits, ReviewSteps
<1>2. /\ slot' = slot /\ revoked' = revoked /\ withdrawn' = withdrawn /\ written' = written
      /\ arguments' = arguments
  BY DEF FailJob, sessionVars, historyVars, reviewHistory
<1>3. QuietMove(t, r)
  BY <1>1, FinishQuiet, GoQuiet
     DEF FailJob, TurnFits, AfterFailSteps, TurnSteps, RoleSteps, ExecutingSteps
<1>4. job \in [Reviews -> JobRecord] /\ job[r] \in JobRecord
  BY <1>1, RequesterMembers
<1>5. CASE job'[r] = job[r]
  BY <1>1, <1>2, <1>3, <1>5, QuietStepKeeps DEF SameRecord
<1>6. CASE job'[r] # job[r]
  <2>1. turn[t].review = r /\ job' = [job EXCEPT ![r].status = turn[t].outcome]
    BY <1>1, <1>4, <1>6 DEF FailJob, FailPending
  <2>2. /\ job[r].status = "pending"
    BY <1>6, <2>1 DEF FailJob, FailPending
  <2>3. /\ job'[r].status = turn[t].outcome /\ job'[r].started = job[r].started
        /\ turn[t].outcome \in {"failed", "uncertain"}
    <3>1. turn[t].outcome \in {"failed", "uncertain"}
      BY <1>1 DEF ReviewTypeOK, TurnRecord
    <3>2. [job EXCEPT ![r].status = turn[t].outcome][r]
            = [job[r] EXCEPT !.status = turn[t].outcome]
      BY <1>4
    <3>3. QED
      BY <1>4, <2>1, <3>1, <3>2 DEF JobRecord
  <2>4. turn[t].outcome = "failed" /\ r \notin withdrawn =>
          written[r] = 0 /\ \A u \in Turns : ~Executing(u, r)
    BY <1>1, <2>1 DEF ReviewKept, Refused
  <2>5. /\ Others(t) /\ profile' = profile
        /\ turn'[t].review = r => pc'[t] \notin RoleSteps
    <3>1. CASE Finish(t)
      BY <1>1, <3>1, FinishMoves, RequesterAssumption DEF NoTurn
    <3>2. CASE Go(t, turn[t].next)
      <4>1. turn[t].next \notin RoleSteps
        BY <1>1 DEF TurnFits, AfterFailSteps, RoleSteps, ExecutingSteps
      <4>2. QED
        BY <1>1, <3>2, <4>1, GoMoves
    <3>3. QED
      BY <3>1, <3>2 DEF FailJob
  <2>. USE <1>2, <2>1, <2>2, <2>3, <2>4, <2>5 DEF ReviewKept, Others, RoleSteps
  <2>6. /\ \A u \in Turns : Executing(u, r)' => Executing(u, r) /\ u # t
        /\ \A u \in Turns : Storing(u, r)' => Storing(u, r) /\ u # t
        /\ Untaken(r) => Untaken(r)'
    BY DEF Executing, Storing, Untaken, ExecutingSteps
  <2>7. Fresh(r)'
    BY DEF Fresh
  <2>8. Offered(r)'
    BY <1>1, <2>6 DEF Offered
  <2>9. Executed(r)'
    <3>1. ASSUME NEW u \in Turns, Executing(u, r)'
          PROVE  /\ Executing(u, r) /\ pc'[u] = pc[u]
                 /\ turn[t].outcome = "failed" => r \in withdrawn
      BY <2>6, <3>1
    <3>2. QED
      BY <1>1, <3>1 DEF Executed
  <2>10. Approved(r)'
    BY <1>1 DEF Approved, ExecutingSteps
  <2>11. Refused(r)'
    BY <1>1, <2>6 DEF Refused, ExecutingSteps
  <2>12. Truthful(r)'
    BY <1>1 DEF Truthful
  <2>13. QED
    BY <2>7, <2>8, <2>9, <2>10, <2>11, <2>12
<1>7. QED
  BY <1>5, <1>6

LEMMA RevokeKeeps ==
  ASSUME ReviewInv, NEW t \in Turns, NEW r \in Reviews, Revoke(t)
  PROVE  ReviewKept(r)'
<1>1. /\ ReviewTypeOK /\ ReviewKept(r) /\ \A u \in Turns : TurnFits(u)
      /\ pc[t] = "revoke" /\ profile = "helper" /\ lock = t /\ turn[t].review \in Reviews
  BY DEF ReviewInv, Revoke, TurnFits, ReviewSteps, LockedSteps
<1>2. /\ Others(t) /\ profile' = profile /\ turn'[t].review = turn[t].review /\ pc'[t] = "fail"
  BY <1>1, SettleStays DEF Revoke
<1>3. /\ job' = job /\ written' = written /\ withdrawn' = withdrawn /\ arguments' = arguments
      /\ revoked' = revoked \cup {turn[t].review}
      /\ slot' \in {turn[t].review, None}
  BY DEF Revoke, Displace, Replaced, reviewHistory
<1>4. CASE turn[t].review = r
  <2>1. Untaken(r)
    BY <1>1, <1>4 DEF ReviewKept, Offered
  <2>2. QED
    BY <1>1, <1>2, <1>3, <1>4, <2>1, WithdrawnKeeps
<1>5. CASE turn[t].review # r
  BY <1>1, <1>2, <1>3, <1>5, OtherReviewQuiet, QuietStepKeeps, RequesterAssumption DEF SameRecord
<1>6. QED
  BY <1>4, <1>5

LEMMA CreateJobKeeps ==
  ASSUME ReviewInv, NEW t \in Turns, NEW r \in Reviews, CreateJob(t)
  PROVE  ReviewKept(r)'
<1>1. ReviewTypeOK /\ ReviewKept(r)
  BY DEF ReviewInv
<1>2. PICK q \in Reviews :
        CreatePending(q) /\ GoWith(t, "store", [turn[t] EXCEPT !.review = q])
  BY DEF CreateJob
<1>3. /\ Others(t) /\ profile' = profile /\ turn'[t].review = q /\ pc'[t] = "store"
  <2>1. [turn[t] EXCEPT !.review = q].review = q
    BY <1>1, LocalsRead
  <2>2. QED
    BY <1>1, <1>2, <2>1, GoWithMoves
<1>4. /\ slot' = slot /\ revoked' = revoked /\ withdrawn' = withdrawn /\ written' = written
      /\ arguments' = arguments
  BY DEF CreateJob, sessionVars, historyVars, reviewHistory
<1>5. job \in [Reviews -> JobRecord] /\ job[r] \in JobRecord
  BY <1>1, RequesterMembers
<1>6. CASE q # r
  <2>1. job'[r] = job[r]
    BY <1>2, <1>5, <1>6 DEF CreatePending
  <2>2. QED
    BY <1>1, <1>3, <1>4, <1>6, <2>1, OtherReviewQuiet, QuietStepKeeps DEF SameRecord
<1>7. CASE q = r
  <2>1. /\ job[r].status = "none" /\ job'[r].status = "pending" /\ ~job'[r].started
        /\ slot # r /\ \A u \in Turns : turn[u].review # r
    BY <1>1, <1>2, <1>5, <1>7 DEF CreatePending, JobRecord, ReviewKept, Fresh
  <2>2. written[r] = 0
    BY <1>1, <1>2, <1>5, <1>7 DEF CreatePending, ReviewKept, Fresh, Truthful
  <2>3. \A u \in Turns : turn'[u].review = r => u = t
    BY <1>3, <2>1 DEF Others
  <2>4. QED
    BY <1>3, <1>4, <1>7, <2>1, <2>2, <2>3
       DEF ReviewKept, Fresh, Offered, Executed, Approved, Refused, Truthful, Executing, Storing,
           Untaken, ExecutingSteps
<1>8. QED
  BY <1>6, <1>7

LEMMA StoreReviewKeeps ==
  ASSUME ReviewInv, NEW t \in Turns, NEW r \in Reviews, StoreReview(t)
  PROVE  ReviewKept(r)'
<1>1. /\ ReviewTypeOK /\ ReviewKept(r) /\ TurnFits(t) /\ pc[t] = "store"
      /\ profile \in {"helper", "main"}
      /\ turn[t].review \in Reviews
  BY ProfileIs DEF ReviewInv, StoreReview, TurnFits, ReviewSteps
<1>2. /\ job' = job /\ written' = written /\ arguments' = arguments /\ revoked' = revoked
      /\ slot' \in {slot, turn[t].review, None} /\ withdrawn \subseteq withdrawn'
  BY DEF StoreReview, Displace, Replaced, GiveUp
<1>3. /\ Others(t) /\ profile' = profile
      /\ \/ turn'[t].review = None
         \/ /\ turn'[t].review = turn[t].review
            /\ \/ pc'[t] = "store_args"
               \/ pc'[t] = "fail" /\ profile = "helper"
               \/ pc'[t] = "undo" /\ turn[t].review \in withdrawn'
  BY <1>1, FinishMoves, GoMoves, SettleStays DEF StoreReview, GiveUp, NoTurn
<1>4. CASE turn[t].review # r
  <2>1. turn'[t].review # r /\ slot' # slot => slot' # r
    BY <1>2, <1>3, <1>4, RequesterAssumption
  <2>2. QED
    BY <1>1, <1>2, <1>3, <1>4, <2>1, OtherReviewQuiet, QuietStepKeeps, RequesterAssumption
       DEF SameRecord
<1>5. CASE turn[t].review = r
  <2>. USE <1>2, <1>3, <1>5 DEF ReviewKept, Others
  <2>1. /\ Storing(t, r) /\ Untaken(r) /\ slot # r /\ job[r].status # "none" /\ written[r] = 0
        /\ \A u \in Turns : Storing(u, r) => u = t
    BY <1>1 DEF Offered, Fresh, Storing, Untaken, Truthful
  <2>2. /\ \A u \in Turns : ~Executing(u, r)' /\ ~Storing(u, r)'
        /\ Untaken(r)'
    BY <2>1, RequesterAssumption DEF Executing, Storing, Untaken, ExecutingSteps
  <2>3. Fresh(r)'
    BY <2>1 DEF Fresh
  <2>4. Offered(r)'
    BY <2>2 DEF Offered
  <2>5. Executed(r)'
    BY <2>2 DEF Executed
  <2>6. Approved(r)'
    BY <2>2 DEF Approved, Executing, ExecutingSteps
  <2>7. Refused(r)'
    <3>1. ASSUME NEW u \in Turns, pc'[u] \in {"undo", "undo_args"}, turn'[u].review = r
          PROVE  r \in withdrawn'
      BY <1>1, <3>1, RequesterAssumption DEF Refused
    <3>2. ASSUME NEW u \in Turns, pc'[u] = "fail", turn'[u].outcome = "failed",
                 turn'[u].review = r, r \notin withdrawn', profile' = "main"
          PROVE  FALSE
      <4>1. u # t
        BY <3>2, RequesterAssumption
      <4>2. pc[u] = "fail" /\ turn[u].outcome = "failed" /\ turn[u].review = r
            /\ r \notin withdrawn
        BY <3>2, <4>1
      <4>3. QED
        BY <1>1, <2>1, <3>2, <4>2 DEF Refused
    <3>3. QED
      BY <2>1, <2>2, <3>1, <3>2 DEF Refused
  <2>8. Truthful(r)'
    BY <1>1 DEF Truthful
  <2>9. QED
    BY <2>3, <2>4, <2>5, <2>6, <2>7, <2>8
<1>6. QED
  BY <1>4, <1>5

\* The rest of what main does when it stores a review or clears one away.
LEMMA TidyKeeps ==
  ASSUME ReviewInv, NEW t \in Turns, NEW r \in Reviews,
         \/ StoreArguments(t) \/ UndoReview(t) \/ UndoArguments(t) \/ DropForm(t)
  PROVE  ReviewKept(r)'
<1>1. /\ ReviewTypeOK /\ ReviewKept(r) /\ TurnFits(t) /\ turn[t].review \in Reviews
      /\ profile = "main"
  BY DEF ReviewInv, StoreArguments, UndoReview, UndoArguments, DropForm, TurnFits, ReviewSteps,
     MainSteps
<1>2. turn[t].review = r => job[r].status # "none"
  BY <1>1 DEF ReviewKept, Fresh
<1>3. /\ job' = job /\ written' = written /\ revoked' = revoked
      /\ slot' \in {slot, None} /\ withdrawn \subseteq withdrawn'
      /\ arguments' \subseteq arguments \cup {turn[t].review}
  BY DEF StoreArguments, UndoReview, UndoArguments, DropForm, GiveUp, Deleted, historyVars,
     reviewHistory
<1>4. SameRecord(r) /\ (slot' = r => slot = r)
  BY <1>2, <1>3, RequesterAssumption DEF SameRecord
<1>5. pc[t] \in {"undo", "undo_args"} /\ turn[t].review = r => r \in withdrawn
  BY <1>1 DEF ReviewKept, Refused
<1>6. QuietMove(t, r)
  <2>1. CASE Finish(t) \/ Go(t, "preview")
    BY <1>1, <2>1, FinishQuiet, GoQuiet DEF TurnSteps, RoleSteps, ExecutingSteps
  <2>2. CASE StoreArguments(t) /\ Go(t, "undo") /\ withdrawn' = withdrawn \cup {turn[t].review}
    BY <1>1, <2>2, GoMoves DEF QuietMove, Neutral
  <2>3. CASE UndoReview(t)
    BY <1>1, <1>3, <1>5, <2>3, GoMoves DEF QuietMove, Neutral, UndoReview
  <2>4. CASE UndoArguments(t)
    BY <1>1, <1>3, <1>5, <2>4, SettleStays DEF QuietMove, Neutral, UndoArguments
  <2>5. QED
    BY <1>1, <2>1, <2>2, <2>3, <2>4 DEF StoreArguments, GiveUp, DropForm
<1>7. QED
  BY <1>1, <1>4, <1>6, QuietStepKeeps

LEMMA EnvironmentKeeps ==
  ASSUME ReviewInv, NEW r \in Reviews, Environment
  PROVE  ReviewKept(r)'
<1>1. ReviewKept(r) /\ job \in [Reviews -> JobRecord] /\ job[r] \in JobRecord
  BY RequesterMembers DEF ReviewInv
<1>2. profile' = profile /\ pc' = pc /\ turn' = turn /\ written' = written
      /\ withdrawn' = withdrawn
  BY DEF Environment, Unsend, turnVars, historyVars, reviewHistory
<1>3. /\ job'[r].started = job[r].started /\ job'[r].status \in {job[r].status, "gone"}
      /\ revoked' = revoked /\ arguments' \subseteq arguments
      /\ slot' \in {slot, None}
  <2>1. CASE Unsend
    BY <2>1 DEF Unsend, requesterVars, sessionVars
  <2>2. CASE WaitingEnds
    BY <2>2 DEF WaitingEnds
  <2>3. CASE \E q \in Reviews : ApprovalEnds(q) \/ ReviewEnds(q)
    BY <2>3 DEF ApprovalEnds, ReviewEnds, sessionVars, Deleted
  <2>4. CASE \E q \in Reviews : LeaseEnds(q) \/ JobEnds(q)
    BY <1>1, <2>4 DEF LeaseEnds, JobEnds, sessionVars, JobRecord
  <2>5. QED
    BY <2>1, <2>2, <2>3, <2>4 DEF Environment, TimePasses
<1>4. SameRecord(r) /\ (slot' = r => slot = r)
  BY <1>2, <1>3, RequesterAssumption DEF SameRecord
<1>5. QED
  BY <1>1, <1>2, <1>4, QuietKeeps

(***************************************************************************)
(* Theorems.                                                               *)
(***************************************************************************)

LEMMA SavedKeeps ==
  ASSUME ReviewInv, Next
  PROVE  SavedAsPreviewed'
<1>1. SavedAsPreviewed
  BY DEF ReviewInv
<1>2. CASE UNCHANGED saved
  BY <1>1, <1>2 DEF SavedAsPreviewed
<1>3. ASSUME NEW t \in Turns, TakeFile(t) PROVE SavedAsPreviewed'
  <2>1. CASE UNCHANGED saved
    BY <1>2, <2>1
  <2>2. CASE /\ file[turn[t].file].revision = turn[t].revision
             /\ saved' = saved \cup {[file |-> turn[t].file,
                                      revision |-> file[turn[t].file].revision,
                                      pressed |-> turn[t].revision]}
    BY <1>1, <2>2 DEF SavedAsPreviewed
  <2>3. QED
    BY <1>3, <2>1, <2>2 DEF TakeFile, ConsumeExpected, Current
<1>4. ASSUME NEW t \in Turns, Step(t) PROVE UNCHANGED saved \/ TakeFile(t)
  BY <1>4
     DEF Step, Receive, Upload, Enter, Lookup, CheckJob, TakeReview, TakeArguments, Execute,
         Authorize, StartJob, Write, Complete, FailJob, FindOld, Revoke, Preview, CreateJob,
         StoreReview, StoreArguments, UndoReview, UndoArguments, FindReset, TakeReset,
         DropArguments, FindForm, DropForm, FindCancel, TakeCancel, FindFile, OptIn, EditFile,
         DropFile, AllowUpload, PromoteIntent, AttachFile, RestoreIntent, TakeIntent, OpenFile,
         TurnStops, historyVars, fileHistory
<1>5. Environment => UNCHANGED saved
  BY DEF Environment, Unsend, historyVars, fileHistory
<1>6. QED
  BY <1>2, <1>3, <1>4, <1>5 DEF Next

LEMMA StepKeepsEachReview ==
  ASSUME ReviewInv, NEW t \in Turns, NEW r \in Reviews, Step(t)
  PROVE  ReviewKept(r)'
BY FileStepKeeps, LookingKeeps, FoundKeeps, TakeReviewKeeps, TakeAwayKeeps, ExecutionKeeps,
   FailJobKeeps, RevokeKeeps, CreateJobKeeps, StoreReviewKeeps, TidyKeeps DEF Step

LEMMA StepTyped ==
  ASSUME ReviewInv, NEW t \in Turns, Step(t)
  PROVE  ReviewTypeOK'
<1>1. ReviewTypeOK /\ TurnFits(t)
  BY DEF ReviewInv
<1>2. QED
  BY <1>1, LookingTyped, FileStepTyped, ReviewStepTyped DEF Step

\* Main never revokes: only a step that requires the helper does.
LEMMA MainRevokesNothing ==
  ASSUME ReviewInv, Next, profile' = profile, profile = "main"
  PROVE  revoked' = {}
<1>1. revoked = {}
  BY DEF ReviewInv
<1>2. ASSUME NEW t \in Turns, Step(t) PROVE UNCHANGED revoked
  <2>1. ~Revoke(t)
    BY DEF ReviewInv, TurnFits, Revoke
  <2>2. QED
    BY <1>2, <2>1
       DEF Step, Receive, Upload, Enter, Lookup, CheckJob, TakeReview, TakeArguments, Execute,
           Authorize, StartJob, Write, Complete, FailJob, FindOld, Preview, CreateJob,
           StoreReview, StoreArguments, UndoReview, UndoArguments, FindReset, TakeReset,
           DropArguments, FindForm, DropForm, FindCancel, TakeCancel, FindFile, OptIn, EditFile,
           TakeFile, DropFile, AllowUpload, PromoteIntent, AttachFile, RestoreIntent, TakeIntent,
           OpenFile, TurnStops, requesterVars, sessionVars
<1>3. Environment => UNCHANGED revoked
  BY DEF Environment, Unsend, TimePasses, WaitingEnds, ApprovalEnds, ReviewEnds, LeaseEnds,
     JobEnds, requesterVars, sessionVars
<1>4. QED
  BY <1>1, <1>2, <1>3 DEF Next

\* Every other turn stays placed as well: a step takes the lock from nobody but its holder.
LEMMA StepFits ==
  ASSUME ReviewInv, NEW t \in Turns, Step(t)
  PROVE  profile' = profile /\ \A u \in Turns : TurnFits(u)'
<1>1. ReviewTypeOK /\ (\A u \in Turns : TurnFits(u)) /\ None \notin Turns
  BY TurnsAssumption DEF ReviewInv
<1>2. Placed(t)
  BY <1>1, StepPlaced
<1>3. ASSUME NEW u \in Turns \ {t} PROVE TurnFits(u)'
  <2>1. pc'[u] = pc[u] /\ turn'[u] = turn[u] /\ profile' = profile /\ TurnFits(u)
    BY <1>1, <1>2 DEF Placed, Others
  <2>2. profile = "helper" /\ pc[u] \in LockedSteps => lock' = u
    BY <1>1, <1>2, <2>1 DEF Placed, TurnFits
  <2>3. QED
    BY <2>1, <2>2 DEF TurnFits
<1>4. QED
  BY <1>2, <1>3 DEF Placed

LEMMA InitEstablishes ==
  ASSUME Init
  PROVE  ReviewInv
<1>1. Files \subseteq Reviews \cup Files /\ None \notin Reviews \cup Files
  BY RequesterAssumption
<1>2. RequesterTypeOK
  <2>1. file \in [Files -> FileRecord]
    BY DEF Init, RequesterInit, FileRecord, Stages
  <2>2. job \in [Reviews -> JobRecord]
    BY DEF Init, RequesterInit, JobRecord
  <2>3. QED
    BY <2>1, <2>2 DEF Init, RequesterInit, RequesterTypeOK
<1>3. opened \subseteq Files /\ given \in Nat
  <2>1. opened \subseteq Files /\ (opened = {} \/ opened = {slot}) /\ given = Cardinality(opened)
    BY DEF Init
  <2>2. Cardinality(opened) \in Nat
    <3>1. Cardinality({}) = 0 /\ Cardinality({slot}) = 1
      BY FS_EmptySet, FS_Singleton, Zenon
    <3>2. QED
      BY <2>1, <3>1
  <2>3. QED
    BY <2>1, <2>2
<1>4. ReviewTypeOK
  <2>1. pc \in [Turns -> TurnSteps] /\ turn \in [Turns -> TurnRecord]
    BY NoTurnTyped DEF Init, TurnSteps
  <2>2. QED
    BY <1>2, <1>3, <2>1 DEF Init, ReviewTypeOK
<1>5. \A t \in Turns : pc[t] = "idle" /\ turn[t].review = None
  BY DEF Init, NoTurn
<1>6. ASSUME NEW r \in Reviews PROVE ReviewKept(r)
  <2>1. /\ job[r].status = "none" /\ ~job[r].started /\ written[r] = 0
        /\ slot # r /\ r \notin arguments /\ r # None
    BY RequesterAssumption DEF Init, RequesterInit
  <2>2. QED
    BY <1>5, <2>1
       DEF ReviewKept, Fresh, Offered, Executed, Approved, Refused, Truthful, Executing, Storing,
           Untaken
<1>7. \A t \in Turns : TurnFits(t)
  BY <1>5 DEF TurnFits, MainSteps, ReviewSteps, ExecutingSteps, FileSteps, LockedSteps
<1>8. QED
  BY <1>4, <1>6, <1>7 DEF ReviewInv, SavedAsPreviewed, Init, RequesterInit

LEMMA ReviewInductive ==
  ASSUME ReviewInv, [Next]_vars
  PROVE  ReviewInv'
<1>1. CASE UNCHANGED vars
  BY <1>1
     DEF ReviewInv, ReviewTypeOK, RequesterTypeOK, TurnFits, ReviewKept, Fresh, Offered, Executed,
         Approved, Refused, Truthful, Executing, Storing, Untaken, SavedAsPreviewed,
         vars, requesterVars, sessionVars, timeVars, turnVars, historyVars, reviewHistory,
         fileHistory
<1>2. CASE Environment
  <2>1. ReviewTypeOK'
    BY <1>2, EnvironmentTyped DEF ReviewInv
  <2>2. /\ profile' = profile /\ pc' = pc /\ turn' = turn /\ lock' = lock
    BY <1>2 DEF Environment, Unsend, turnVars
  <2>3. \A t \in Turns : TurnFits(t)'
    BY <2>2 DEF ReviewInv, TurnFits
  <2>4. QED
    BY <1>2, <2>1, <2>2, <2>3, EnvironmentKeeps, SavedKeeps, MainRevokesNothing
       DEF ReviewInv, Next
<1>3. ASSUME NEW t \in Turns, Step(t) PROVE ReviewInv'
  BY <1>3, StepTyped, StepFits, StepKeepsEachReview, SavedKeeps, MainRevokesNothing
     DEF ReviewInv, Next
<1>4. QED
  BY <1>1, <1>2, <1>3 DEF Next

\* The inductive invariant that carries the theorems below.
THEOREM ReviewInvariant == Spec => []ReviewInv
<1>1. Init => ReviewInv
  BY InitEstablishes
<1>2. ReviewInv /\ [Next]_vars => ReviewInv'
  BY ReviewInductive
<1>3. QED
  BY <1>1, <1>2, PTL DEF Spec

\* The variables of ActionReview and RequesterState keep their types.
THEOREM ReviewTypeCorrect == Spec => []ReviewTypeOK
<1>1. ReviewInv => ReviewTypeOK
  BY DEF ReviewInv
<1>2. QED
  BY <1>1, ReviewInvariant, PTL

\* A result job never contradicts what was done: whatever turns run and whatever fails, a
\* review told as rejected or withdrawn was not written, and none is written twice.
THEOREM JobTruthful == Spec => []JobTellsWrite
<1>1. ReviewInv => JobTellsWrite
  BY DEF ReviewInv, ReviewKept, Truthful, JobTellsWrite
<1>2. QED
  BY <1>1, ReviewInvariant, PTL

\* The attachment handed to the scan pipeline is the previewed one.
THEOREM SavedIsPreviewed == Spec => []SavedAsPreviewed
<1>1. ReviewInv => SavedAsPreviewed
  BY DEF ReviewInv
<1>2. QED
  BY <1>1, ReviewInvariant, PTL

\* The action of a review is not performed after its approval was revoked.
THEOREM RevokedNotWritten == Spec => RevokedIsNeverWritten
<1>1. ASSUME ReviewInv, [Next]_vars
      PROVE  [\A r \in Reviews : written'[r] # written[r] => r \notin revoked]_written
  <2>1. CASE UNCHANGED written
    BY <2>1
  <2>2. CASE UNCHANGED vars
    BY <2>1, <2>2 DEF vars, historyVars, reviewHistory
  <2>3. CASE Environment
    BY <2>1, <2>3 DEF Environment, Unsend, historyVars, reviewHistory
  <2>4. ASSUME NEW t \in Turns, Step(t), NEW r \in Reviews, written'[r] # written[r]
        PROVE  r \notin revoked
    <3>1. UNCHANGED written \/ Write(t)
      BY <2>4
         DEF Step, Receive, Upload, Enter, Lookup, CheckJob, TakeReview, TakeArguments, Execute,
             Authorize, StartJob, Complete, FailJob, FindOld, Revoke, Preview, CreateJob,
             StoreReview, StoreArguments, UndoReview, UndoArguments, FindReset, TakeReset,
             DropArguments, FindForm, DropForm, FindCancel, TakeCancel, FindFile, OptIn,
             EditFile, TakeFile, DropFile, AllowUpload, PromoteIntent, AttachFile,
             RestoreIntent, TakeIntent, OpenFile, TurnStops, historyVars, reviewHistory
    <3>2. Write(t) /\ pc[t] = "write"
      BY <2>4, <3>1 DEF Write
    <3>3. turn[t].review = r
      <4>1. written \in [Reviews -> Nat]
        BY <1>1 DEF ReviewInv, ReviewTypeOK
      <4>2. QED
        BY <2>4, <3>2, <4>1 DEF Write
    <3>4. QED
      BY <1>1, <3>2, <3>3 DEF ReviewInv, ReviewKept, Approved
  <2>5. QED
    BY <1>1, <2>1, <2>2, <2>3, <2>4 DEF Next
<1>2. QED
  BY <1>1, ReviewInvariant, PTL DEF Spec, RevokedIsNeverWritten

(***************************************************************************)
(* Answers to dropped reviews.                                             *)
(***************************************************************************)

\* A turn that will settle the job of r unless it fails.
Pursuing(t, r) == pc[t] \in ExecutingSteps \cup {"store", "fail"} /\ turn[t].review = r
Failing(t, r) == pc[t] = "fail" /\ turn[t].review = r

Open(r) == job[r].status = "pending" /\ ~job[r].lapsed
Excused(r) == r \in late \cup evicted \cup barred

\* An open review is on offer or in the hands of a turn, and a revoked one is being failed.
Answered(r) ==
  /\ Open(r) /\ ~Excused(r) => slot = r \/ \E t \in Turns : Pursuing(t, r)
  /\ r \in revoked /\ job[r].status = "pending" => \E t \in Turns : Failing(t, r)

AnswerInv ==
  /\ over \subseteq late
  /\ \A r \in Reviews : job[r].status = "none" => r \notin revoked
  /\ faults = 0 =>
       /\ \A t \in Turns : pc[t] \notin {"undo", "undo_args"}
       /\ \A r \in Reviews : Answered(r)

\* The step of t brings no new duty and drops none.
LEMMA AnsweredKeeps ==
  ASSUME NEW r \in Reviews, Answered(r), NEW t \in Turns, Others(t),
         Excused(r) => Excused(r)', Open(r)' => Open(r),
         job'[r].status = "pending" => job[r].status = "pending",
         r \in revoked' => r \in revoked,
         slot = r \/ Pursuing(t, r) => slot' = r \/ Pursuing(t, r)' \/ ~Open(r)' \/ Excused(r)',
         Failing(t, r) => Failing(t, r)' \/ job'[r].status # "pending"
  PROVE  Answered(r)'
<1>1. ASSUME NEW u \in Turns, u # t
      PROVE  (Pursuing(u, r) => Pursuing(u, r)') /\ (Failing(u, r) => Failing(u, r)')
  BY <1>1 DEF Others, Pursuing, Failing
<1>2. ASSUME Open(r)', ~Excused(r)'
      PROVE  slot' = r \/ \E u \in Turns : Pursuing(u, r)'
  <2>1. slot = r \/ \E u \in Turns : Pursuing(u, r)
    BY <1>2 DEF Answered
  <2>2. QED
    BY <1>1, <1>2, <2>1
<1>3. ASSUME r \in revoked', job'[r].status = "pending"
      PROVE  \E u \in Turns : Failing(u, r)'
  <2>1. PICK u \in Turns : Failing(u, r)
    BY <1>3 DEF Answered
  <2>2. QED
    BY <1>1, <1>3, <2>1
<1>4. QED
  BY <1>2, <1>3 DEF Answered

\* What most steps leave alone.
LEMMA SameDuties ==
  ASSUME NEW r \in Reviews, UNCHANGED <<job, revoked, late>>, evicted \subseteq evicted',
         barred \subseteq barred'
  PROVE  /\ Excused(r) => Excused(r)'
         /\ Open(r)' => Open(r)
         /\ job'[r].status = "pending" => job[r].status = "pending"
         /\ r \in revoked' => r \in revoked
BY DEF Excused, Open

\* A session that Displace removes is recorded as evicted.
LEMMA DisplaceExcuses ==
  ASSUME ReviewInv, AnswerInv, NEW r \in Reviews, NEW x, Displace(x), late' = late, slot = r
  PROVE  slot' = r \/ Excused(r)'
<1>1. CASE x = r
  BY <1>1 DEF Displace, Replaced, AnswerInv, Excused
<1>2. CASE x # r
  BY <1>2 DEF Displace, Excused
<1>3. QED
  BY <1>1, <1>2

\* The steps that have nothing to do with the duties of a turn.
LEMMA IdleAnswers ==
  ASSUME ReviewInv, AnswerInv, NEW t \in Turns, NEW r \in Reviews, faults = 0,
         \/ Receive(t) \/ Enter(t) \/ Lookup(t) \/ CheckJob(t) \/ Preview(t) \/ FindForm(t)
         \/ FindCancel(t) \/ FindFile(t) \/ FindOld(t) \/ FindReset(t)
         \/ Upload(t) \/ AllowUpload(t) \/ OptIn(t) \/ EditFile(t) \/ TakeFile(t) \/ DropFile(t)
         \/ PromoteIntent(t) \/ AttachFile(t) \/ RestoreIntent(t) \/ TakeIntent(t) \/ OpenFile(t)
         \/ StoreArguments(t) \/ DropForm(t)
  PROVE  Answered(r)'
<1>1. /\ ReviewTypeOK /\ TurnFits(t) /\ Answered(r)
  BY DEF ReviewInv, AnswerInv
<1>2. Others(t)
  BY <1>1, StepPlaced DEF Step, Placed
<1>3. ~Pursuing(t, r) /\ ~Failing(t, r)
  BY DEF Receive, Enter, Lookup, CheckJob, Preview, FindForm, FindCancel, FindFile, FindOld,
     FindReset, Upload, AllowUpload, OptIn, EditFile, TakeFile, DropFile, PromoteIntent,
     AttachFile, RestoreIntent, TakeIntent, OpenFile, StoreArguments, DropForm, Pursuing, Failing,
     ExecutingSteps
<1>4. UNCHANGED <<job, revoked, late, barred>> /\ evicted \subseteq evicted'
  BY DEF Receive, Enter, Lookup, CheckJob, Preview, FindForm, FindCancel, FindFile, FindOld,
     FindReset, Upload, AllowUpload, OptIn, EditFile, TakeFile, DropFile, PromoteIntent,
     AttachFile, RestoreIntent, TakeIntent, OpenFile, StoreArguments, DropForm, Displace,
     requesterVars, sessionVars, timeVars, historyVars, reviewHistory
<1>5. slot = r => slot' = r \/ Excused(r)'
  <2>1. Intent \notin Reviews /\ Files \cap Reviews = {}
    BY RequesterAssumption
  <2>2. pc[t] \in FileSteps => turn[t].file \notin Reviews
    BY <1>1, <2>1 DEF TurnFits
  <2>3. CASE \/ Upload(t) \/ AllowUpload(t) \/ OptIn(t) \/ OpenFile(t)
    BY <1>4, <2>3, DisplaceExcuses DEF Upload, AllowUpload, OptIn, OpenFile
  <2>4. CASE \/ EditFile(t) \/ TakeFile(t) \/ DropFile(t) \/ PromoteIntent(t)
             \/ RestoreIntent(t) \/ TakeIntent(t)
    BY <2>1, <2>2, <2>4
       DEF EditFile, TakeFile, DropFile, PromoteIntent, RestoreIntent, TakeIntent, FileSteps,
           UpdateExpected, ConsumeExpected, Current, Deleted, Promote, Restore
  <2>5. CASE \/ Receive(t) \/ Enter(t) \/ Lookup(t) \/ CheckJob(t) \/ Preview(t) \/ FindForm(t)
             \/ FindCancel(t) \/ FindFile(t) \/ FindOld(t) \/ FindReset(t) \/ AttachFile(t)
             \/ StoreArguments(t) \/ DropForm(t)
    BY <2>5
       DEF Receive, Enter, Lookup, CheckJob, Preview, FindForm, FindCancel, FindFile, FindOld,
           FindReset, AttachFile, StoreArguments, DropForm, requesterVars, sessionVars
  <2>6. QED
    BY <2>3, <2>4, <2>5
<1>6. QED
  BY <1>1, <1>2, <1>3, <1>4, <1>5, SameDuties, AnsweredKeeps

\* The steps that take a review off the session keep it in the hands of the turn.
LEMMA TakingAnswers ==
  ASSUME ReviewInv, AnswerInv, NEW t \in Turns, NEW r \in Reviews, faults = 0,
         TakeReview(t) \/ TakeCancel(t) \/ TakeReset(t)
  PROVE  Answered(r)'
<1>1. /\ ReviewTypeOK /\ TurnFits(t) /\ Answered(r) /\ profile \in {"helper", "main"}
  BY ProfileIs DEF ReviewInv, AnswerInv
<1>2. Others(t)
  BY <1>1, StepPlaced DEF Step, Placed
<1>3. ~Pursuing(t, r) /\ ~Failing(t, r)
  BY DEF TakeReview, TakeCancel, TakeReset, Pursuing, Failing, ExecutingSteps
<1>4. UNCHANGED <<job, revoked, late, barred, evicted>>
  BY DEF TakeReview, TakeCancel, TakeReset, timeVars, historyVars, reviewHistory
<1>5. ASSUME slot = r, slot' # r PROVE Pursuing(t, r)'
  <2>1. turn[t].review = r
    BY <1>5 DEF TakeReview, TakeCancel, TakeReset, TakeAction, Deleted
  <2>2. \/ \E step \in {"take_args", "drop_args"} : Go(t, step)
        \/ \E next \in {"done", "find_file"} : Settle(t, "failed", next)
        \/ GoWith(t, "execute", [turn[t] EXCEPT !.ended = r \in revoked])
    BY <1>1, <1>5, <2>1 DEF TakeReview, TakeCancel, TakeReset, TakeAction
  <2>3. (r \in revoked) \in BOOLEAN
    BY MembershipBoolean
  <2>4. ASSUME NEW b \in BOOLEAN, GoWith(t, "execute", [turn[t] EXCEPT !.ended = b])
        PROVE  Pursuing(t, r)'
    <3>1. [turn[t] EXCEPT !.ended = b].review = r
      BY <1>1, <2>1, LocalsRead
    <3>2. QED
      <4>1. pc'[t] = "execute" /\ turn'[t] = [turn[t] EXCEPT !.ended = b]
        BY <1>1, <2>4, GoWithMoves
      <4>2. QED
        BY <3>1, <4>1 DEF Pursuing, ExecutingSteps
  <2>5. CASE GoWith(t, "execute", [turn[t] EXCEPT !.ended = r \in revoked])
    BY <2>3, <2>4, <2>5
  <2>6. CASE \/ \E step \in {"take_args", "drop_args"} : Go(t, step)
             \/ \E next \in {"done", "find_file"} : Settle(t, "failed", next)
    BY <1>1, <2>1, <2>6, GoMoves, SettleStays DEF Pursuing, ExecutingSteps
  <2>7. QED
    BY <2>2, <2>5, <2>6
<1>6. QED
  BY <1>1, <1>2, <1>3, <1>4, <1>5, SameDuties, AnsweredKeeps

\* The steps of an execution pursue the review to its result, or find it settled or excused.
LEMMA ExecutingAnswers ==
  ASSUME ReviewInv, AnswerInv, NEW t \in Turns, NEW r \in Reviews, faults = 0, faults' = 0,
         \/ TakeArguments(t) \/ DropArguments(t) \/ Execute(t) \/ Authorize(t) \/ StartJob(t)
         \/ Write(t) \/ Complete(t)
  PROVE  Answered(r)'
<1>1. /\ ReviewTypeOK /\ TurnFits(t) /\ Answered(r) /\ ReviewKept(r)
      /\ profile \in {"helper", "main"}
      /\ profile = "main" => revoked = {}
  BY ProfileIs DEF ReviewInv, AnswerInv
<1>2. Others(t)
  BY <1>1, StepPlaced DEF Step, Placed
<1>3. ~Failing(t, r)
  BY DEF TakeArguments, DropArguments, Execute, Authorize, StartJob, Write, Complete, Failing
<1>4. /\ slot' = slot /\ revoked' = revoked /\ late' = late /\ evicted' = evicted
      /\ barred \subseteq barred'
  BY DEF TakeArguments, DropArguments, Execute, Authorize, StartJob, Write, Complete,
     requesterVars, sessionVars, timeVars, historyVars, reviewHistory
<1>5. ~Fault
  BY DEF Fault
<1>6. job \in [Reviews -> JobRecord] /\ job[r] \in JobRecord
  BY <1>1, RequesterMembers
<1>7. /\ job'[r].status = "pending" => job[r].status = "pending"
      /\ Open(r)' => Open(r)
  <2>1. \/ job' = job
        \/ job' = [job EXCEPT ![turn[t].review].started = TRUE]
        \/ job' = [job EXCEPT ![turn[t].review].status = "completed"]
    BY DEF TakeArguments, DropArguments, Execute, Authorize, StartJob, Write, Complete,
       requesterVars, MarkStarted, CompleteJob
  <2>2. \/ job'[r] = job[r]
        \/ job'[r] = [job[r] EXCEPT !.started = TRUE]
        \/ job'[r] = [job[r] EXCEPT !.status = "completed"]
    BY <1>6, <2>1
  <2>3. QED
    BY <1>6, <2>2 DEF Open, JobRecord
<1>8. ASSUME Pursuing(t, r)
      PROVE  Pursuing(t, r)' \/ ~Open(r)' \/ Excused(r)'
  <2>1. turn[t].review = r
    BY <1>8 DEF Pursuing
  <2>2. ASSUME \/ \E step \in ExecutingSteps : Go(t, step)
               \/ \E outcome, next : Settle(t, outcome, next)
        PROVE  Pursuing(t, r)'
    BY <1>1, <2>1, <2>2, GoMoves, SettleStays DEF Pursuing
  <2>3. CASE TakeArguments(t) \/ DropArguments(t) \/ Authorize(t) \/ Write(t)
    BY <1>5, <2>2, <2>3 DEF TakeArguments, DropArguments, Authorize, Write, ExecutingSteps
  <2>4. CASE Execute(t)
    <3>1. CASE Go(t, "authorize")
      BY <2>2, <3>1 DEF ExecutingSteps
    <3>2. CASE barred' = barred \cup {r}
      BY <3>2 DEF Excused
    <3>3. CASE Told(r) # "pending"
      BY <1>7, <3>3 DEF Told, Open
    <3>4. CASE ApprovalOver(t)
      <4>1. CASE r \in late
        BY <1>4, <4>1 DEF Excused
      <4>2. CASE profile = "helper" /\ turn[t].ended
        <5>1. r \in revoked /\ lock = t
          BY <1>1, <2>1, <2>4, <4>2 DEF Execute, ReviewKept, Approved, TurnFits, LockedSteps
        <5>2. ASSUME NEW u \in Turns, Failing(u, r) PROVE FALSE
          <6>1. TurnFits(u) /\ pc[u] = "fail" /\ pc[t] = "execute"
            BY <2>4, <5>2 DEF ReviewInv, Failing, Execute
          <6>2. QED
            BY <4>2, <5>1, <6>1, LockedAlone DEF LockedSteps
        <5>3. job[r].status # "pending"
          BY <1>1, <5>1, <5>2 DEF Answered
        <5>4. QED
          BY <1>7, <5>3 DEF Open
      <4>3. QED
        BY <2>1, <3>4, <4>1, <4>2 DEF ApprovalOver
    <3>5. QED
      BY <2>1, <2>4, <3>1, <3>2, <3>3, <3>4 DEF Execute
  <2>5. CASE StartJob(t)
    <3>1. CASE ~CanStart(r)
      <4>1. Executing(t, r) /\ pc[t] = "start"
        BY <2>1, <2>5 DEF StartJob, Executing, ExecutingSteps
      <4>2. job[r].status # "pending"
        BY <1>1, <3>1, <4>1 DEF ReviewKept, Executed, CanStart
      <4>3. QED
        BY <1>7, <4>2 DEF Open
    <3>2. QED
      BY <1>5, <2>1, <2>2, <2>5, <3>1 DEF StartJob, ExecutingSteps
  <2>6. CASE Complete(t)
    <3>1. CompleteJob(r)
      BY <1>5, <2>1, <2>6 DEF Complete
    <3>2. job'[r].status # "pending"
      BY <1>6, <3>1 DEF CompleteJob, JobRecord
    <3>3. QED
      BY <3>2 DEF Open
  <2>7. QED
    BY <2>3, <2>4, <2>5, <2>6
<1>9. QED
  BY <1>1, <1>2, <1>3, <1>4, <1>7, <1>8, AnsweredKeeps DEF Excused

\* jobs.fail settles the job.
LEMMA FailJobAnswers ==
  ASSUME ReviewInv, AnswerInv, NEW t \in Turns, NEW r \in Reviews, faults = 0, FailJob(t)
  PROVE  Answered(r)'
<1>1. /\ ReviewTypeOK /\ TurnFits(t) /\ Answered(r)
  BY DEF ReviewInv, AnswerInv
<1>2. Others(t)
  BY <1>1, StepPlaced DEF Step, Placed
<1>3. UNCHANGED <<slot, revoked, late, evicted, barred>>
  BY DEF FailJob, sessionVars, timeVars, historyVars, reviewHistory
<1>4. job \in [Reviews -> JobRecord] /\ job[r] \in JobRecord
  BY <1>1, RequesterMembers
<1>5. turn[t].outcome \in {"failed", "uncertain"}
  BY <1>1 DEF ReviewTypeOK, TurnRecord
<1>6. /\ job'[r] = job[r] \/ job'[r].status = turn[t].outcome
      /\ turn[t].review = r => job'[r].status # "pending"
  BY <1>4, <1>5 DEF FailJob, FailPending, JobRecord
<1>7. QED
  BY <1>1, <1>2, <1>3, <1>5, <1>6, AnsweredKeeps DEF Excused, Open, Pursuing, Failing

\* The helper fails the job of the review whose approval it has ended.
LEMMA RevokeAnswers ==
  ASSUME ReviewInv, AnswerInv, NEW t \in Turns, NEW r \in Reviews, faults = 0, Revoke(t)
  PROVE  Answered(r)'
<1>1. ReviewTypeOK /\ Answered(r)
  BY DEF ReviewInv, AnswerInv
<1>2. /\ Others(t) /\ turn'[t].review = turn[t].review /\ pc'[t] = "fail" /\ pc[t] = "revoke"
  BY <1>1, SettleStays DEF Revoke
<1>3. /\ UNCHANGED <<job, late, barred>> /\ evicted \subseteq evicted'
      /\ revoked' = revoked \cup {turn[t].review}
      /\ Displace(turn[t].review)
  BY DEF Revoke, Displace, timeVars, reviewHistory
<1>4. CASE turn[t].review = r
  BY <1>2, <1>4 DEF Answered, Pursuing, Failing
<1>5. CASE turn[t].review # r
  <2>1. slot = r => slot' = r \/ Excused(r)'
    BY <1>3, DisplaceExcuses
  <2>2. ~Pursuing(t, r) /\ ~Failing(t, r)
    BY <1>5 DEF Pursuing, Failing
  <2>3. QED
    BY <1>1, <1>2, <1>3, <1>5, <2>1, <2>2, AnsweredKeeps DEF Excused, Open
<1>6. QED
  BY <1>4, <1>5

LEMMA CreateJobAnswers ==
  ASSUME ReviewInv, AnswerInv, NEW t \in Turns, NEW r \in Reviews, faults = 0, CreateJob(t)
  PROVE  Answered(r)'
<1>1. ReviewTypeOK /\ Answered(r)
  BY DEF ReviewInv, AnswerInv
<1>2. PICK q \in Reviews :
        CreatePending(q) /\ GoWith(t, "store", [turn[t] EXCEPT !.review = q])
  BY DEF CreateJob
<1>3. /\ Others(t) /\ turn'[t].review = q /\ pc'[t] = "store" /\ pc[t] = "create"
  <2>1. [turn[t] EXCEPT !.review = q].review = q
    BY <1>1, LocalsRead
  <2>2. QED
    <3>1. /\ Others(t) /\ turn'[t] = [turn[t] EXCEPT !.review = q] /\ pc'[t] = "store"
      BY <1>1, <1>2, GoWithMoves
    <3>2. QED
      BY <2>1, <3>1 DEF CreateJob
<1>4. /\ slot' = slot /\ revoked' = revoked /\ late' = late
      /\ evicted' = evicted /\ barred' = barred
  BY DEF CreateJob, sessionVars, timeVars, historyVars, reviewHistory
<1>5. job \in [Reviews -> JobRecord]
  BY <1>1, RequesterMembers
<1>6. CASE q = r
  <2>1. job[r].status = "none"
    BY <1>2, <1>6 DEF CreatePending
  <2>2. r \notin revoked
    BY <2>1 DEF AnswerInv
  <2>3. QED
    BY <1>3, <1>4, <1>6, <2>2 DEF Answered, Pursuing
<1>7. CASE q # r
  <2>1. job'[r] = job[r]
    BY <1>2, <1>5, <1>7 DEF CreatePending
  <2>2. ~Pursuing(t, r) /\ ~Failing(t, r)
    BY <1>3 DEF Pursuing, Failing, ExecutingSteps
  <2>3. QED
    BY <1>1, <1>3, <1>4, <2>1, <2>2, AnsweredKeeps DEF Excused, Open
<1>8. QED
  BY <1>6, <1>7

LEMMA StoreReviewAnswers ==
  ASSUME ReviewInv, AnswerInv, NEW t \in Turns, NEW r \in Reviews, faults = 0, faults' = 0,
         StoreReview(t)
  PROVE  Answered(r)'
<1>1. /\ ReviewTypeOK /\ TurnFits(t) /\ Answered(r)
  BY DEF ReviewInv, AnswerInv
<1>2. Others(t)
  BY <1>1, StepPlaced DEF Step, Placed
<1>3. /\ UNCHANGED <<job, revoked, late, barred>> /\ Displace(turn[t].review)
      /\ evicted \subseteq evicted' /\ pc[t] = "store"
  BY DEF StoreReview, Displace, timeVars, Fault
<1>4. slot = r \/ turn[t].review = r => slot' = r \/ Excused(r)'
  <2>1. CASE turn[t].review = r
    BY <1>3, <2>1 DEF Displace, Replaced, Excused, AnswerInv
  <2>2. QED
    BY <1>3, <2>1, DisplaceExcuses
<1>5. QED
  BY <1>1, <1>2, <1>3, <1>4, SameDuties, AnsweredKeeps DEF Pursuing, Failing

LEMMA StepAnswers ==
  ASSUME ReviewInv, AnswerInv, NEW t \in Turns, NEW r \in Reviews, faults' = 0, Step(t)
  PROVE  Answered(r)'
<1>1. faults = 0 /\ ~Fault
  <2>1. faults \in Nat /\ ~Fault
    BY DEF ReviewInv, ReviewTypeOK, Fault
  <2>2. UNCHANGED faults
    BY <2>1
       DEF Step, NoFault, Receive, Upload, Enter, Lookup, CheckJob, TakeReview, TakeArguments,
           Execute, Authorize, StartJob, Write, Complete, FailJob, FindOld, Revoke, Preview,
           CreateJob, StoreReview, StoreArguments, UndoReview, UndoArguments, FindReset,
           TakeReset, DropArguments, FindForm, DropForm, FindCancel, TakeCancel, FindFile, OptIn,
           EditFile, TakeFile, DropFile, AllowUpload, PromoteIntent, AttachFile, RestoreIntent,
           TakeIntent, OpenFile, TurnStops
  <2>3. QED
    BY <2>1, <2>2
<1>2. ~UndoReview(t) /\ ~UndoArguments(t) /\ ~TurnStops(t)
  BY <1>1 DEF AnswerInv, UndoReview, UndoArguments, TurnStops
<1>3. QED
  BY <1>1, <1>2, IdleAnswers, TakingAnswers, ExecutingAnswers, FailJobAnswers, RevokeAnswers,
     CreateJobAnswers, StoreReviewAnswers DEF Step

LEMMA EnvironmentAnswers ==
  ASSUME ReviewInv, AnswerInv, NEW r \in Reviews, faults = 0, Environment
  PROVE  Answered(r)'
<1>1. Answered(r) /\ job \in [Reviews -> JobRecord] /\ job[r] \in JobRecord
  BY RequesterMembers DEF ReviewInv, AnswerInv
<1>2. /\ pc' = pc /\ turn' = turn /\ evicted' = evicted /\ barred' = barred
      /\ revoked' = revoked /\ late \subseteq late'
  BY DEF Environment, Unsend, TimePasses, WaitingEnds, ApprovalEnds, ReviewEnds, LeaseEnds,
     JobEnds, turnVars, requesterVars, sessionVars, timeVars, historyVars, reviewHistory
<1>3. /\ job'[r].status = "pending" => job[r].status = "pending"
      /\ Open(r)' => Open(r)
  <2>1. job'[r].status = "pending" =>
          job[r].status = "pending" /\ (~job'[r].lapsed => ~job[r].lapsed)
    <3>1. CASE job' = job
      BY <3>1
    <3>2. CASE \E q \in Reviews : LeaseEnds(q) \/ JobEnds(q)
      BY <1>1, <3>2 DEF LeaseEnds, JobEnds, JobRecord
    <3>3. QED
      BY <3>1, <3>2 DEF Environment, Unsend, TimePasses, WaitingEnds, ApprovalEnds, ReviewEnds,
         requesterVars
  <2>2. QED
    BY <2>1 DEF Open
<1>4. slot = r => slot' = r \/ Excused(r)'
  <2>1. CASE \E q \in Reviews : ReviewEnds(q)
    BY <1>2, <2>1 DEF ReviewEnds, Deleted, Excused
  <2>2. CASE WaitingEnds
    BY <2>2, RequesterAssumption DEF WaitingEnds
  <2>3. QED
    BY <2>1, <2>2 DEF Environment, Unsend, TimePasses, ApprovalEnds, LeaseEnds, JobEnds,
       requesterVars, sessionVars
<1>5. Excused(r) => Excused(r)'
  BY <1>2 DEF Excused
<1>6. \A u \in Turns : (Pursuing(u, r)' <=> Pursuing(u, r)) /\ (Failing(u, r)' <=> Failing(u, r))
  BY <1>2 DEF Pursuing, Failing
<1>7. QED
  BY <1>1, <1>2, <1>3, <1>4, <1>5, <1>6 DEF Answered

LEMMA EndedKeeps ==
  ASSUME ReviewInv, AnswerInv, Next
  PROVE  over' \subseteq late'
<1>1. ASSUME NEW t \in Turns, Step(t) PROVE UNCHANGED timeVars
  BY <1>1
     DEF Step, Receive, Upload, Enter, Lookup, CheckJob, TakeReview, TakeArguments, Execute,
         Authorize, StartJob, Write, Complete, FailJob, FindOld, Revoke, Preview, CreateJob,
         StoreReview, StoreArguments, UndoReview, UndoArguments, FindReset, TakeReset,
         DropArguments, FindForm, DropForm, FindCancel, TakeCancel, FindFile, OptIn, EditFile,
         TakeFile, DropFile, AllowUpload, PromoteIntent, AttachFile, RestoreIntent, TakeIntent,
         OpenFile, TurnStops, requesterVars
<1>2. CASE UNCHANGED timeVars
  BY <1>2 DEF AnswerInv, timeVars
<1>3. CASE \E r \in Reviews : ApprovalEnds(r) \/ ReviewEnds(r)
  BY <1>3 DEF AnswerInv, ApprovalEnds, ReviewEnds
<1>4. QED
  BY <1>1, <1>2, <1>3 DEF Next, Environment, Unsend, TimePasses, WaitingEnds, LeaseEnds, JobEnds,
     requesterVars

LEMMA UnknownKeeps ==
  ASSUME ReviewInv, AnswerInv, Next, NEW r \in Reviews, job'[r].status = "none"
  PROVE  r \notin revoked'
<1>1. /\ job \in [Reviews -> JobRecord] /\ ReviewKept(r)
      /\ \A t \in Turns : pc[t] \in ReviewSteps => turn[t].review \in Reviews
      /\ \A t \in Turns : turn[t].outcome \in {"failed", "uncertain"}
  BY RequesterMembers DEF ReviewInv, TurnFits, ReviewTypeOK, TurnRecord
<1>2. ASSUME job[r].status = "none" PROVE r \notin revoked'
  <2>1. r \notin revoked
    BY <1>2 DEF AnswerInv
  <2>2. ASSUME NEW t \in Turns, Revoke(t) PROVE r \notin revoked'
    <3>1. turn[t].review # r
      BY <1>1, <1>2 DEF ReviewKept, Fresh
    <3>2. QED
      BY <2>1, <2>2, <3>1 DEF Revoke
  <2>3. ASSUME NEW t \in Turns, Step(t), ~Revoke(t) PROVE UNCHANGED revoked
    BY <2>3
       DEF Step, Receive, Upload, Enter, Lookup, CheckJob, TakeReview, TakeArguments, Execute,
           Authorize, StartJob, Write, Complete, FailJob, FindOld, Preview, CreateJob,
           StoreReview, StoreArguments, UndoReview, UndoArguments, FindReset, TakeReset,
           DropArguments, FindForm, DropForm, FindCancel, TakeCancel, FindFile, OptIn, EditFile,
           TakeFile, DropFile, AllowUpload, PromoteIntent, AttachFile, RestoreIntent, TakeIntent,
           OpenFile, TurnStops, requesterVars, sessionVars
  <2>4. Environment => UNCHANGED revoked
    BY DEF Environment, Unsend, TimePasses, WaitingEnds, ApprovalEnds, ReviewEnds, LeaseEnds,
       JobEnds, requesterVars, sessionVars
  <2>5. QED
    BY <2>1, <2>2, <2>3, <2>4 DEF Next
<1>3. ASSUME job[r].status # "none" PROVE FALSE
  <2>1. \A q : job[q].status # "none" => ~CreatePending(q)
    BY DEF CreatePending
  <2>2. CASE \/ job' = job
             \/ \E q, s : s # "none" /\ job' = [job EXCEPT ![q].status = s]
             \/ \E q : job' = [job EXCEPT ![q].started = TRUE]
             \/ \E q : job' = [job EXCEPT ![q].lapsed = TRUE]
    BY <1>1, <1>3, <2>2 DEF JobRecord
  <2>3. ASSUME NEW t \in Turns, Step(t)
        PROVE  \/ job' = job
               \/ \E q, s : s # "none" /\ job' = [job EXCEPT ![q].status = s]
               \/ \E q : job' = [job EXCEPT ![q].started = TRUE]
    <3>1. CASE StartJob(t)
      BY <3>1 DEF StartJob, MarkStarted
    <3>2. CASE Complete(t)
      BY <3>2 DEF Complete, CompleteJob
    <3>3. CASE FailJob(t)
      BY <1>1, <3>3 DEF FailJob, FailPending
    <3>4. CASE CreateJob(t)
      BY <3>4 DEF CreateJob, CreatePending
    <3>5. CASE ~(StartJob(t) \/ Complete(t) \/ FailJob(t) \/ CreateJob(t))
      BY <2>3, <3>5
         DEF Step, Receive, Upload, Enter, Lookup, CheckJob, TakeReview, TakeArguments, Execute,
             Authorize, Write, FindOld, Revoke, Preview, StoreReview, StoreArguments, UndoReview,
             UndoArguments, FindReset, TakeReset, DropArguments, FindForm, DropForm, FindCancel,
             TakeCancel, FindFile, OptIn, EditFile, TakeFile, DropFile, AllowUpload,
             PromoteIntent, AttachFile, RestoreIntent, TakeIntent, OpenFile, TurnStops,
             requesterVars
    <3>6. QED
      BY <3>1, <3>2, <3>3, <3>4, <3>5
  <2>4. Environment =>
          \/ job' = job
          \/ \E q : job' = [job EXCEPT ![q].status = "gone"]
          \/ \E q : job' = [job EXCEPT ![q].lapsed = TRUE]
    BY DEF Environment, Unsend, TimePasses, WaitingEnds, ApprovalEnds, ReviewEnds, LeaseEnds,
       JobEnds, requesterVars
  <2>5. QED
    BY <2>2, <2>3, <2>4 DEF Next
<1>4. QED
  BY <1>2, <1>3

\* Only a failure makes main withdraw a review it has stored.
LEMMA NothingUndone ==
  ASSUME ReviewInv, AnswerInv, NEW t \in Turns, Step(t), faults' = 0, NEW u \in Turns
  PROVE  faults = 0 /\ pc'[u] \notin {"undo", "undo_args"}
<1>1. ReviewTypeOK /\ TurnFits(t) /\ ~Fault /\ faults \in Nat
  BY DEF ReviewInv, ReviewTypeOK, Fault
<1>2. UNCHANGED faults
  BY <1>1
     DEF Step, NoFault, Receive, Upload, Enter, Lookup, CheckJob, TakeReview, TakeArguments,
         Execute, Authorize, StartJob, Write, Complete, FailJob, FindOld, Revoke, Preview,
         CreateJob, StoreReview, StoreArguments, UndoReview, UndoArguments, FindReset,
         TakeReset, DropArguments, FindForm, DropForm, FindCancel, TakeCancel, FindFile, OptIn,
         EditFile, TakeFile, DropFile, AllowUpload, PromoteIntent, AttachFile, RestoreIntent,
         TakeIntent, OpenFile, TurnStops
<1>3. Others(t) /\ pc[u] \notin {"undo", "undo_args"} /\ pc[t] \notin {"undo", "undo_args"}
  BY <1>1, <1>2, StepPlaced DEF Placed, AnswerInv
<1>4. pc'[t] \notin {"undo", "undo_args"}
  <2>1. ASSUME NEW step, step \notin {"undo", "undo_args"}
        PROVE  /\ Go(t, step) => pc'[t] \notin {"undo", "undo_args"}
               /\ \A locals : GoWith(t, step, locals) => pc'[t] \notin {"undo", "undo_args"}
    BY <1>1, <2>1, GoMoves, GoWithMoves
  <2>2. /\ Finish(t) => pc'[t] \notin {"undo", "undo_args"}
        /\ \A outcome, next : Settle(t, outcome, next) => pc'[t] \notin {"undo", "undo_args"}
    BY <1>1, FinishMoves, SettleStays
  <2>3. \A task : /\ Begin(t, task, "find_old") => pc'[t] \notin {"undo", "undo_args"}
                  /\ Begin(t, task, "find_reset") => pc'[t] \notin {"undo", "undo_args"}
                  /\ Begin(t, task, "find_cancel") => pc'[t] \notin {"undo", "undo_args"}
                  /\ Begin(t, task, "find_file") => pc'[t] \notin {"undo", "undo_args"}
    BY <2>1 DEF Begin
  <2>4. CASE Receive(t)
    <3>1. CASE Press(t) \/ UploadInGroup(t)
      BY <2>1, <3>1 DEF Press, UploadInGroup
    <3>2. CASE TalkAboutFile(t)
      BY <2>1, <2>3, <3>2 DEF TalkAboutFile
    <3>3. QED
      BY <2>3, <2>4, <3>1, <3>2 DEF Receive
  <2>5. CASE Enter(t)
    <3>1. turn[t].next \notin {"undo", "undo_args"}
      BY <1>1, <2>5 DEF Enter, TurnFits, EntrySteps
    <3>2. pc \in [Turns -> TurnSteps]
      BY <1>1 DEF ReviewTypeOK
    <3>3. QED
      BY <2>2, <2>5, <3>1, <3>2 DEF Enter
  <2>6. CASE FailJob(t)
    BY <1>1, <2>1, <2>2, <2>6 DEF FailJob, TurnFits, AfterFailSteps
  <2>7. CASE FindFile(t)
    <3>1. StepOf(turn[t].task) \notin {"undo", "undo_args"}
      BY DEF StepOf
    <3>2. QED
      BY <2>1, <2>2, <2>7, <3>1 DEF FindFile
  <2>8. CASE \/ Lookup(t) \/ CheckJob(t) \/ TakeReview(t) \/ TakeArguments(t) \/ Execute(t)
             \/ Authorize(t) \/ StartJob(t) \/ Write(t) \/ Complete(t) \/ FindOld(t)
             \/ Revoke(t) \/ Preview(t) \/ CreateJob(t)
    BY <2>1, <2>2, <2>8
       DEF Lookup, CheckJob, TakeReview, TakeArguments, Execute, Authorize, StartJob, Write,
           Complete, FindOld, Revoke, Preview, CreateJob
  <2>9. CASE \/ StoreReview(t) \/ StoreArguments(t) \/ UndoReview(t) \/ UndoArguments(t)
    BY <1>1, <1>3, <2>1, <2>2, <2>9 DEF StoreReview, StoreArguments, UndoReview, UndoArguments
  <2>10. CASE \/ FindReset(t) \/ TakeReset(t) \/ DropArguments(t) \/ FindForm(t) \/ DropForm(t)
              \/ FindCancel(t) \/ TakeCancel(t)
    BY <2>1, <2>2, <2>10
       DEF FindReset, TakeReset, DropArguments, FindForm, DropForm, FindCancel, TakeCancel
  <2>11. CASE \/ Upload(t) \/ AllowUpload(t) \/ OptIn(t) \/ EditFile(t) \/ TakeFile(t)
              \/ DropFile(t) \/ PromoteIntent(t) \/ AttachFile(t) \/ RestoreIntent(t)
              \/ TakeIntent(t) \/ OpenFile(t) \/ TurnStops(t)
    BY <2>1, <2>2, <2>11
       DEF Upload, AllowUpload, OptIn, EditFile, TakeFile, DropFile, PromoteIntent, AttachFile,
           RestoreIntent, TakeIntent, OpenFile, TurnStops
  <2>12. QED
    BY <2>4, <2>5, <2>6, <2>7, <2>8, <2>9, <2>10, <2>11 DEF Step
<1>5. QED
  BY <1>1, <1>2, <1>3, <1>4 DEF Others

LEMMA AnswerInductive ==
  ASSUME ReviewInv, AnswerInv, [Next]_vars
  PROVE  AnswerInv'
<1>1. CASE UNCHANGED vars
  BY <1>1
     DEF AnswerInv, Answered, Open, Excused, Pursuing, Failing, vars, requesterVars, sessionVars,
         timeVars, turnVars, historyVars, reviewHistory
<1>2. CASE Next
  <2>1. over' \subseteq late' /\ \A r \in Reviews : job'[r].status = "none" => r \notin revoked'
    BY <1>2, EndedKeeps, UnknownKeeps
  <2>2. ASSUME Environment, faults' = 0
        PROVE  /\ \A t \in Turns : pc'[t] \notin {"undo", "undo_args"}
               /\ \A r \in Reviews : Answered(r)'
    <3>1. faults = 0 /\ pc' = pc
      BY <2>2 DEF Environment, Unsend, turnVars
    <3>2. QED
      BY <2>2, <3>1, EnvironmentAnswers DEF AnswerInv
  <2>3. ASSUME NEW t \in Turns, Step(t), faults' = 0
        PROVE  /\ \A u \in Turns : pc'[u] \notin {"undo", "undo_args"}
               /\ \A r \in Reviews : Answered(r)'
    BY <2>3, NothingUndone, StepAnswers
  <2>4. QED
    BY <1>2, <2>1, <2>2, <2>3 DEF Next, AnswerInv
<1>3. QED
  BY <1>1, <1>2

\* Unless something fails, a review that was dropped without an excuse has an answer.
THEOREM DroppedAnswered == Spec => []DroppedReviewIsAnswered
<1>1. Init => AnswerInv
  <2>1. SUFFICES ASSUME Init PROVE AnswerInv
    OBVIOUS
  <2>2. over = {} /\ revoked = {} /\ pc = [t \in Turns |-> "idle"]
    BY <2>1 DEF Init, RequesterInit
  <2>3. ASSUME NEW r \in Reviews PROVE job[r].status = "none"
    BY <2>1 DEF Init, RequesterInit
  <2>4. QED
    BY <2>2, <2>3 DEF AnswerInv, Answered, Open
<1>2. ReviewInv /\ ReviewInv' /\ AnswerInv /\ [Next]_vars => AnswerInv'
  BY AnswerInductive
<1>3. AnswerInv => DroppedReviewIsAnswered
  <2>1. SUFFICES ASSUME AnswerInv, faults = 0, NEW r \in Reviews \ (late \cup evicted \cup barred),
                        slot # r, ~InHand(r), Told(r) = "pending"
                 PROVE  FALSE
    BY DEF DroppedReviewIsAnswered
  <2>2. Open(r) /\ ~Excused(r)
    BY <2>1 DEF Told, Open, Excused
  <2>3. QED
    BY <2>1, <2>2 DEF AnswerInv, Answered, Pursuing, InHand
<1>4. QED
  BY <1>1, <1>2, <1>3, ReviewInvariant, PTL DEF Spec

(***************************************************************************)
(* Permissions to upload.  A permission is with the session slot, with the *)
(* turn that took it, or used up by a file.                                *)
(***************************************************************************)

\* f has become the pending attachment at some time.
Asked(f) == file[f].stage # "none"
\* A turn that holds the intent it has promoted, or has taken.
Promoter(t) == pc[t] \in {"attach", "restore"} /\ turn[t].replaced
Holder(t) == Promoter(t) \/ pc[t] = "open_file"
\* A file has used a permission up, unless a turn may still give it back for this file.
Used(f) == f \notin unsent /\ Asked(f) /\ \A t \in Turns : Promoter(t) => turn[t].file # f

Permissions ==
  {<<"intent", Intent>> : x \in {slot} \cap {Intent}}
    \cup {<<"turn", t>> : t \in {u \in Turns : Holder(u)}}
    \cup {<<"file", f>> : f \in {g \in Files : Used(g)}}

\* Where a turn is concerned with a permission.
UploadSteps == {"promote", "attach", "restore", "take_intent", "open_file"}

\* The file a turn or the slot is about has arrived, and a permission that is to be restored is one
\* whose file was unsent.
UploadsFit ==
  /\ slot \in Files => Asked(slot)
  /\ \A f \in opened : Asked(f)
  /\ \A t \in Turns :
       /\ pc[t] \in {"opt_in", "attach"} => Asked(turn[t].file)
       /\ pc[t] = "promote" => ~turn[t].replaced
       /\ pc[t] = "restore" => turn[t].replaced /\ turn[t].file \in unsent

\* No permission is with two at once.
Counted == IsFiniteSet(Permissions) /\ Cardinality(Permissions) <= given

\* The inductive invariant.  OneFilePerPermission alone is not inductive: between the promotion of a
\* file and its end the permission is neither in the slot nor used up.
PermissionInv ==
  /\ UploadsFit
  /\ chat = "direct" => opened = {} /\ \A t \in Turns : pc[t] \notin UploadSteps
  /\ chat # "direct" => Counted

\* A part of a finite set.
LEMMA FewerElements ==
  ASSUME NEW S, NEW T, IsFiniteSet(S), T \subseteq S
  PROVE  IsFiniteSet(T) /\ Cardinality(T) \in Nat /\ Cardinality(S) \in Nat
         /\ Cardinality(T) <= Cardinality(S)
BY FS_Subset, FS_CardinalityType

\* At most one element more.
LEMMA OneMore ==
  ASSUME NEW S, NEW T, NEW y, IsFiniteSet(S), T \subseteq S \cup {y}
  PROVE  IsFiniteSet(T) /\ Cardinality(T) \in Nat /\ Cardinality(S) \in Nat
         /\ Cardinality(T) <= Cardinality(S) + 1
<1>1. /\ IsFiniteSet(S \cup {y}) /\ Cardinality(S) \in Nat
      /\ Cardinality(S \cup {y}) <= Cardinality(S) + 1
  BY FS_AddElement, FS_CardinalityType
<1>2. QED
  BY <1>1, FewerElements

\* One element is replaced by another.
LEMMA OneInstead ==
  ASSUME NEW S, NEW T, NEW x, NEW y, IsFiniteSet(S), x \in S, T \subseteq (S \ {x}) \cup {y}
  PROVE  IsFiniteSet(T) /\ Cardinality(T) \in Nat /\ Cardinality(S) \in Nat
         /\ Cardinality(T) <= Cardinality(S)
<1>1. /\ IsFiniteSet(S \ {x}) /\ Cardinality(S) \in Nat
      /\ Cardinality(S \ {x}) = Cardinality(S) - 1
  BY FS_RemoveElement, FS_CardinalityType
<1>2. /\ IsFiniteSet(T) /\ Cardinality(T) \in Nat
      /\ Cardinality(T) <= Cardinality(S \ {x}) + 1
  BY <1>1, OneMore
<1>3. QED
  BY <1>1, <1>2

\* One permission changes hands, or one more is given.
LEMMA CountedAfter ==
  ASSUME Counted, given \in Nat, given' \in Nat,
         \/ Permissions' \subseteq Permissions /\ given' = given
         \/ /\ given' = given
            /\ \E x \in Permissions : \E y : Permissions' \subseteq (Permissions \ {x}) \cup {y}
         \/ /\ given' = given + 1
            /\ \E y : Permissions' \subseteq Permissions \cup {y}
  PROVE  Counted'
<1>. DEFINE S == Permissions
            T == Permissions'
<1>1. IsFiniteSet(S) /\ Cardinality(S) <= given
  BY DEF Counted
<1>2. \/ T \subseteq S /\ given' = given
      \/ given' = given /\ \E x \in S : \E y : T \subseteq (S \ {x}) \cup {y}
      \/ given' = given + 1 /\ \E y : T \subseteq S \cup {y}
  OBVIOUS
<1>. HIDE DEF S, T
<1>3. IsFiniteSet(T) /\ Cardinality(T) <= given'
  <2>1. CASE T \subseteq S /\ given' = given
    BY <1>1, <2>1, FewerElements
  <2>2. CASE given' = given /\ \E x \in S : \E y : T \subseteq (S \ {x}) \cup {y}
    <3>1. PICK x \in S : \E y : T \subseteq (S \ {x}) \cup {y}
      BY <2>2
    <3>2. PICK y : T \subseteq (S \ {x}) \cup {y}
      BY <3>1
    <3>3. /\ IsFiniteSet(T) /\ Cardinality(T) \in Nat /\ Cardinality(S) \in Nat
          /\ Cardinality(T) <= Cardinality(S)
      BY <1>1, <3>2, OneInstead
    <3>4. QED
      BY <1>1, <2>2, <3>3
  <2>3. CASE given' = given + 1 /\ \E y : T \subseteq S \cup {y}
    <3>1. PICK y : T \subseteq S \cup {y}
      BY <2>3
    <3>2. /\ IsFiniteSet(T) /\ Cardinality(T) \in Nat /\ Cardinality(S) \in Nat
          /\ Cardinality(T) <= Cardinality(S) + 1
      BY <1>1, <3>1, OneMore
    <3>3. QED
      BY <1>1, <2>3, <3>2
  <2>4. QED
    BY <1>2, <2>1, <2>2, <2>3
<1>4. QED
  BY <1>3 DEF S, T, Counted

\* What is in Permissions after a step of t.
LEMMA PermissionsAfter ==
  ASSUME NEW t \in Turns, Others(t), NEW e \in Permissions'
  PROVE  \/ e = <<"intent", Intent>> /\ slot' = Intent
         \/ e = <<"turn", t>> /\ Holder(t)'
         \/ \E u \in Turns : u # t /\ e = <<"turn", u>> /\ e \in Permissions
         \/ \E f \in Files : e = <<"file", f>> /\ Used(f)'
<1>1. ASSUME NEW u \in Turns, u # t, Holder(u)' PROVE Holder(u)
  BY <1>1 DEF Holder, Promoter, Others
<1>2. QED
  BY <1>1 DEF Permissions

\* A file that has used a permission up after a step that promotes nothing had done so before.
LEMMA UsedBefore ==
  ASSUME NEW t \in Turns, Others(t), NEW f \in Files, Used(f)', unsent \subseteq unsent',
         Asked(f)' => Asked(f), Promoter(t) => turn[t].file # f
  PROVE  Used(f)
BY DEF Used, Promoter, Others

\* The steps of a turn that holds no permission and takes none.
LEMMA NoPermissionMoves ==
  ASSUME PermissionInv, ReviewInv, NEW t \in Turns, Others(t), ~Holder(t), ~Holder(t)',
         slot' \in {slot, None} \cup Reviews \cup Files, slot' \in Files => file'[slot'].stage # "none",
         \A f \in Files : Asked(f)' <=> Asked(f),
         UNCHANGED <<chat, unsent, opened, given>>,
         pc'[t] \in {"opt_in", "attach"} => file'[turn'[t].file].stage # "none",
         pc'[t] \in UploadSteps => chat # "direct",
         pc'[t] # "restore", pc'[t] = "promote" => ~turn'[t].replaced
  PROVE  PermissionInv'
<1>1. UploadsFit'
  <2>1. opened \subseteq Files
    BY DEF ReviewInv, ReviewTypeOK
  <2>2. ASSUME NEW u \in Turns, u # t
        PROVE  /\ pc'[u] \in {"opt_in", "attach"} => Asked(turn[u].file)' /\ turn'[u] = turn[u]
               /\ pc'[u] = "restore" => turn'[u].replaced /\ turn'[u].file \in unsent'
               /\ pc'[u] = "promote" => ~turn'[u].replaced
    <3>1. pc'[u] = pc[u] /\ turn'[u] = turn[u]
      BY <2>2 DEF Others
    <3>2. pc[u] \in {"opt_in", "attach"} => Asked(turn[u].file) /\ turn[u].file \in Files
      BY DEF PermissionInv, UploadsFit, ReviewInv, TurnFits, FileSteps
    <3>3. QED
      BY <3>1, <3>2 DEF PermissionInv, UploadsFit
  <2>3. QED
    BY <2>1, <2>2 DEF PermissionInv, UploadsFit, Asked
<1>2. Permissions' \subseteq Permissions
  <2>1. Intent \notin Reviews \cup Files \cup {None}
    BY RequesterAssumption
  <2>2. ASSUME NEW f \in Files, Used(f)' PROVE <<"file", f>> \in Permissions
    BY <2>2, UsedBefore DEF Permissions, Holder
  <2>3. slot' = Intent => <<"intent", Intent>> \in Permissions
    BY <2>1 DEF Permissions
  <2>4. QED
    BY <2>2, <2>3, PermissionsAfter
<1>3. (chat # "direct" => Counted)'
  BY <1>2, FewerElements DEF PermissionInv, Counted, ReviewInv, ReviewTypeOK
<1>4. (chat = "direct" => opened = {} /\ \A u \in Turns : pc[u] \notin UploadSteps)'
  BY DEF PermissionInv, Others
<1>5. QED
  BY <1>1, <1>3, <1>4 DEF PermissionInv

\* A rewritten pending attachment is still one that was asked about.
LEMMA RewrittenAsks ==
  ASSUME ReviewInv, NEW f \in Files, NEW stage, stage # "none", Rewritten(f, stage)
  PROVE  Asked(f)' /\ \A g \in Files : g # f => (Asked(g)' <=> Asked(g))
<1>1. file \in [Files -> FileRecord]
  BY DEF ReviewInv, ReviewTypeOK, RequesterTypeOK
<1>2. QED
  BY <1>1 DEF Rewritten, Asked

\* Where a turn goes on, and with which file.
LEMMA QuietWay ==
  ASSUME ReviewInv, NEW t \in Turns,
         \/ Finish(t)
         \/ \E step : Go(t, step) /\ step \notin UploadSteps \cup {"opt_in"}
         \/ \E step, locals : GoWith(t, step, locals) /\ step \notin UploadSteps \cup {"opt_in"}
         \/ \E outcome, next : Settle(t, outcome, next)
  PROVE  /\ Others(t) /\ pc'[t] \notin UploadSteps \cup {"opt_in"}
         /\ UNCHANGED <<chat, unsent>>
<1>1. ReviewTypeOK
  BY DEF ReviewInv
<1>2. UNCHANGED <<chat, unsent>>
  BY DEF Finish, Go, GoWith, Settle
<1>3. Others(t) /\ pc'[t] \notin UploadSteps \cup {"opt_in"}
  BY <1>1, FinishMoves, GoMoves, GoWithMoves, SettleMoves DEF UploadSteps
<1>4. QED
  BY <1>2, <1>3

\* The steps about reviews, and the answers about a file, move no permission.
LEMMA ReviewStepsKeepPermissions ==
  ASSUME PermissionInv, ReviewInv, NEW t \in Turns,
         \/ Lookup(t) \/ CheckJob(t) \/ TakeReview(t) \/ TakeArguments(t) \/ Execute(t)
         \/ Authorize(t) \/ StartJob(t) \/ Write(t) \/ Complete(t) \/ FailJob(t)
         \/ FindOld(t) \/ Revoke(t) \/ Preview(t) \/ CreateJob(t) \/ StoreReview(t)
         \/ StoreArguments(t) \/ UndoReview(t) \/ UndoArguments(t)
         \/ FindReset(t) \/ TakeReset(t) \/ DropArguments(t) \/ FindForm(t) \/ DropForm(t)
         \/ FindCancel(t) \/ TakeCancel(t) \/ TakeFile(t) \/ DropFile(t) \/ Enter(t)
  PROVE  PermissionInv'
<1>1. TurnFits(t) /\ ReviewTypeOK
  BY DEF ReviewInv
<1>2. pc[t] \notin UploadSteps
  BY DEF Lookup, CheckJob, TakeReview, TakeArguments, Execute, Authorize, StartJob, Write,
     Complete, FailJob, FindOld, Revoke, Preview, CreateJob, StoreReview, StoreArguments,
     UndoReview, UndoArguments, FindReset, TakeReset, DropArguments, FindForm, DropForm,
     FindCancel, TakeCancel, TakeFile, DropFile, Enter, UploadSteps
<1>3. /\ Others(t) /\ pc'[t] \notin UploadSteps \cup {"opt_in"} /\ UNCHANGED <<chat, unsent>>
  <2>. DEFINE Elsewhere == /\ Others(t) /\ pc'[t] \notin UploadSteps \cup {"opt_in"}
                           /\ UNCHANGED <<chat, unsent>>
  <2>. SUFFICES Elsewhere
    OBVIOUS
  <2>1. CASE Enter(t)
    BY <1>1, <2>1, FinishMoves
       DEF Enter, TurnFits, EntrySteps, UploadSteps, Others, Finish, ReviewTypeOK
  <2>2. CASE FailJob(t)
    BY <1>1, <2>2, QuietWay DEF FailJob, TurnFits, AfterFailSteps, UploadSteps
  <2>3. Finish(t) => Elsewhere
    BY QuietWay
  <2>4. \A step : Go(t, step) /\ step \notin UploadSteps \cup {"opt_in"} => Elsewhere
    BY QuietWay
  <2>5. \A step, locals :
           GoWith(t, step, locals) /\ step \notin UploadSteps \cup {"opt_in"} => Elsewhere
    BY QuietWay
  <2>6. \A outcome, next : Settle(t, outcome, next) => Elsewhere
    BY QuietWay
  <2>. HIDE DEF Elsewhere
  <2>7. CASE \/ Lookup(t) \/ CheckJob(t) \/ TakeReview(t) \/ TakeArguments(t) \/ Execute(t)
             \/ Authorize(t) \/ StartJob(t) \/ Write(t) \/ Complete(t)
    BY <2>3, <2>4, <2>5, <2>6, <2>7
       DEF Lookup, CheckJob, TakeReview, TakeArguments, Execute, Authorize, StartJob, Write,
           Complete, UploadSteps
  <2>8. CASE \/ FindOld(t) \/ Revoke(t) \/ Preview(t) \/ CreateJob(t) \/ StoreReview(t)
             \/ StoreArguments(t) \/ UndoReview(t) \/ UndoArguments(t)
    BY <2>3, <2>4, <2>5, <2>6, <2>8
       DEF FindOld, Revoke, Preview, CreateJob, StoreReview, StoreArguments, UndoReview,
           UndoArguments, GiveUp, UploadSteps
  <2>9. CASE \/ FindReset(t) \/ TakeReset(t) \/ DropArguments(t) \/ FindForm(t) \/ DropForm(t)
             \/ FindCancel(t) \/ TakeCancel(t) \/ TakeFile(t) \/ DropFile(t)
    BY <2>3, <2>4, <2>5, <2>6, <2>9
       DEF FindReset, TakeReset, DropArguments, FindForm, DropForm, FindCancel, TakeCancel,
           TakeFile, DropFile, UploadSteps
  <2>10. QED
    BY <2>1, <2>2, <2>7, <2>8, <2>9
<1>4. UNCHANGED <<file, opened, given>>
  BY DEF Lookup, CheckJob, TakeReview, TakeArguments, Execute, Authorize, StartJob, Write,
     Complete, FailJob, FindOld, Revoke, Preview, CreateJob, StoreReview, StoreArguments,
     UndoReview, UndoArguments, FindReset, TakeReset, DropArguments, FindForm, DropForm,
     FindCancel, TakeCancel, TakeFile, DropFile, Enter, requesterVars, sessionVars, historyVars,
     fileHistory
<1>5. slot' \in {slot, None} \cup Reviews
  BY <1>1
     DEF Lookup, CheckJob, TakeReview, TakeArguments, Execute, Authorize, StartJob, Write,
         Complete, FailJob, FindOld, Revoke, Preview, CreateJob, StoreReview, StoreArguments,
         UndoReview, UndoArguments, FindReset, TakeReset, DropArguments, FindForm, DropForm,
         FindCancel, TakeCancel, TakeFile, DropFile, Enter, requesterVars, sessionVars,
         Displace, Replaced, Deleted, TakeAction, ConsumeExpected,
         TurnFits, ReviewSteps, ExecutingSteps
<1>6. slot' \in Files => slot' = slot
  BY <1>5, RequesterAssumption
<1>7. \A f \in Files : Asked(f)' <=> Asked(f)
  BY <1>4 DEF Asked
<1>8. slot' \in Files => file'[slot'].stage # "none"
  BY <1>4, <1>6 DEF PermissionInv, UploadsFit, Asked
<1>9. ~Holder(t) /\ ~Holder(t)'
  BY <1>2, <1>3 DEF Holder, Promoter, UploadSteps
<1>10. pc'[t] \notin {"opt_in", "attach", "restore", "promote"} /\ pc'[t] \notin UploadSteps
  BY <1>3 DEF UploadSteps
<1>11. QED
  BY <1>3, <1>4, <1>5, <1>7, <1>8, <1>9, <1>10, NoPermissionMoves

\* The answers about a file and the arrival of an event.
LEMMA TalkKeepsPermissions ==
  ASSUME PermissionInv, ReviewInv, NEW t \in Turns,
         Receive(t) \/ FindFile(t) \/ OptIn(t) \/ EditFile(t)
  PROVE  PermissionInv'
<1>1. TurnFits(t) /\ ReviewTypeOK /\ RequesterTypeOK /\ PermissionInv
  BY DEF ReviewInv, ReviewTypeOK
<1>2. CASE Receive(t)
  <2>. DEFINE Enters == /\ Others(t) /\ UNCHANGED <<chat, unsent>>
                        /\ pc'[t] \notin {"attach", "restore", "open_file", "opt_in"}
                        /\ (pc'[t] \in UploadSteps => chat # "direct")
                        /\ pc'[t] = "promote" => ~turn'[t].replaced
  <2>1. \A step, locals :
           GoWith(t, step, locals) /\ step \notin {"attach", "restore", "open_file", "opt_in"}
             /\ (step \in UploadSteps => chat # "direct")
             /\ (step = "promote" => ~locals.replaced) => Enters
    BY <1>1, GoWithMoves DEF GoWith
  <2>2. Enters
    <3>. HIDE DEF Enters
    <3>1. \A task, step : Begin(t, task, step) /\ step \notin UploadSteps \cup {"opt_in"} => Enters
      BY <2>1 DEF Begin, UploadSteps
    <3>2. Press(t) => Enters
      BY <2>1 DEF Press, UploadSteps
    <3>3. TalkAboutFile(t) => Enters
      <4>1. \A locals : GoWith(t, "find_file", locals) => Enters
        BY <2>1 DEF UploadSteps
      <4>2. Begin(t, "edit", "find_file") => Enters
        BY <3>1 DEF UploadSteps
      <4>3. QED
        BY <4>1, <4>2, Zenon DEF TalkAboutFile
    <3>4. UploadInGroup(t) => Enters
      <4>1. \A f \in Files : ~[NoTurn EXCEPT !.task = "upload", !.file = f].replaced
        BY DEF NoTurn
      <4>2. ASSUME UploadInGroup(t) PROVE Enters
        <5>1. PICK f \in Files \ unsent :
                 GoWith(t, IF chat = "bound" THEN "promote" ELSE "take_intent",
                        [NoTurn EXCEPT !.task = "upload", !.file = f])
          BY <4>2 DEF UploadInGroup
        <5>2. chat # "direct"
          BY <4>2 DEF UploadInGroup
        <5>3. \E step \in {"promote", "take_intent"} : \E locals :
                 GoWith(t, step, locals) /\ ~locals.replaced
          BY <4>1, <5>1
        <5>4. QED
          BY <2>1, <5>2, <5>3 DEF UploadSteps
      <4>3. QED
        BY <4>2
    <3>5. QED
      BY <1>2, <3>1, <3>2, <3>3, <3>4 DEF Receive, UploadSteps
  <2>3. UNCHANGED <<chat, unsent, slot, file, opened, given>>
    BY <1>2, <2>2 DEF Receive, requesterVars, sessionVars, historyVars, fileHistory
  <2>4. ~Holder(t) /\ ~Holder(t)'
    BY <1>2, <2>2 DEF Receive, Holder, Promoter
  <2>5. \A f \in Files : Asked(f)' <=> Asked(f)
    BY <2>3 DEF Asked
  <2>6. slot' \in Files => file'[slot'].stage # "none"
    BY <1>1, <2>3 DEF PermissionInv, UploadsFit, Asked
  <2>7. QED
    BY <2>2, <2>3, <2>4, <2>5, <2>6, NoPermissionMoves
<1>3. CASE FindFile(t)
  <2>1. UNCHANGED <<slot, file, opened, given>>
    BY <1>3 DEF FindFile, requesterVars, sessionVars, historyVars, fileHistory
  <2>2. /\ Others(t) /\ UNCHANGED <<chat, unsent>>
        /\ \/ pc'[t] = "done"
           \/ /\ pc'[t] \in {"opt_in", "edit", "take_file", "drop_file"}
              /\ turn'[t].file = slot /\ slot \in Files
    <3>1. CASE Finish(t)
      BY <1>1, <3>1, FinishMoves DEF Finish
    <3>2. ASSUME slot \in Files, NEW step, NEW v,
                 GoWith(t, step, [turn[t] EXCEPT !.file = slot, !.revision = v])
          PROVE  /\ Others(t) /\ UNCHANGED <<chat, unsent>> /\ pc'[t] = step
                 /\ turn'[t].file = slot
      <4>1. [turn[t] EXCEPT !.file = slot, !.revision = v].file = slot
        BY <1>1, LocalsTyped DEF TurnRecord
      <4>2. QED
        BY <1>1, <3>2, <4>1, GoWithMoves DEF GoWith
    <3>3. \A task : StepOf(task) \in {"opt_in", "edit", "take_file", "drop_file"}
      BY DEF StepOf
    <3>4. QED
      BY <1>3, <3>1, <3>2, <3>3 DEF FindFile
  <2>3. ~Holder(t) /\ ~Holder(t)' /\ pc'[t] \notin UploadSteps
    BY <1>3, <2>2 DEF FindFile, Holder, Promoter, UploadSteps
  <2>4. slot \in Files => file'[slot].stage # "none"
    BY <1>1, <2>1 DEF PermissionInv, UploadsFit, Asked
  <2>5. \A f \in Files : Asked(f)' <=> Asked(f)
    BY <2>1 DEF Asked
  <2>6. pc'[t] \in {"opt_in", "attach"} => file'[turn'[t].file].stage # "none"
    BY <2>2, <2>4
  <2>7. QED
    BY <2>1, <2>2, <2>3, <2>4, <2>5, <2>6, NoPermissionMoves DEF UploadSteps
<1>4. CASE OptIn(t) \/ EditFile(t)
  <2>. DEFINE f == turn[t].file
  <2>1. f \in Files
    BY <1>1, <1>4 DEF OptIn, EditFile, TurnFits, FileSteps
  <2>2. slot' \in {slot, None, f} /\ (EditFile(t) => slot' = slot) /\ UNCHANGED <<opened, given>>
    BY <1>4 DEF OptIn, EditFile, Displace, Replaced, UpdateExpected, historyVars, fileHistory
  <2>3. Asked(f) \/ (EditFile(t) /\ file' = file)
    BY <1>1, <1>4, <2>1
       DEF OptIn, EditFile, UpdateExpected, Current, PermissionInv, UploadsFit
  <2>4. \A g \in Files : Asked(g)' <=> Asked(g)
    <3>1. file' = file \/ \E stage : stage # "none" /\ Rewritten(f, stage)
      BY <1>4 DEF OptIn, EditFile, UpdateExpected
    <3>2. CASE file' = file
      BY <3>2 DEF Asked
    <3>3. CASE file' # file
      BY <2>1, <2>3, <3>1, <3>3, RewrittenAsks
    <3>4. QED
      BY <3>2, <3>3
  <2>5. /\ Others(t) /\ pc'[t] = "done" /\ UNCHANGED <<chat, unsent>>
    BY <1>1, <1>4, FinishMoves DEF OptIn, EditFile, Finish
  <2>6. ~Holder(t) /\ ~Holder(t)'
    BY <1>4, <2>5 DEF OptIn, EditFile, Holder, Promoter
  <2>7. slot' \in Files => file'[slot'].stage # "none"
    <3>1. slot' \in Files => Asked(slot') \/ slot' = f
      BY <1>1, <2>2, RequesterAssumption DEF PermissionInv, UploadsFit
    <3>2. slot' = f /\ slot' # slot => Asked(f)
      BY <2>2, <2>3, <1>4
    <3>3. slot' \in Files => Asked(slot')
      BY <1>1, <3>1, <3>2 DEF PermissionInv, UploadsFit
    <3>4. \A g \in Files : Asked(g) => file'[g].stage # "none"
      BY <2>4 DEF Asked
    <3>5. QED
      BY <3>3, <3>4
  <2>8. slot' \in {slot, None} \cup Reviews \cup Files
    BY <2>1, <2>2
  <2>9. pc'[t] \notin {"opt_in", "attach", "restore", "promote"} \cup UploadSteps
    BY <2>5 DEF UploadSteps
  <2>10. QED
    BY <2>2, <2>4, <2>5, <2>6, <2>7, <2>8, <2>9, NoPermissionMoves
<1>5. QED
  BY <1>2, <1>3, <1>4

\* A file that was asked about remains so.
LEMMA AskedStays ==
  ASSUME ReviewInv, UploadsFit, NEW t \in Turns, Others(t), unsent \subseteq unsent',
         \A f \in Files : Asked(f) => Asked(f)',
         slot' \in Files => slot' = slot \/ file'[slot'].stage # "none",
         \A f \in opened' : f \in opened \/ file'[f].stage # "none",
         pc'[t] \in {"opt_in", "attach"} => file'[turn'[t].file].stage # "none",
         pc'[t] = "restore" => turn'[t].replaced /\ turn'[t].file \in unsent',
         pc'[t] = "promote" => ~turn'[t].replaced
  PROVE  UploadsFit'
<1>1. opened \subseteq Files
  BY DEF ReviewInv, ReviewTypeOK
<1>2. ASSUME NEW u \in Turns, u # t
      PROVE  /\ pc'[u] \in {"opt_in", "attach"} => Asked(turn[u].file)' /\ turn'[u] = turn[u]
             /\ pc'[u] = "restore" => turn'[u].replaced /\ turn'[u].file \in unsent'
             /\ pc'[u] = "promote" => ~turn'[u].replaced
  <2>1. pc'[u] = pc[u] /\ turn'[u] = turn[u]
    BY <1>2 DEF Others
  <2>2. pc[u] \in {"opt_in", "attach"} => Asked(turn[u].file) /\ turn[u].file \in Files
    BY DEF UploadsFit, ReviewInv, TurnFits, FileSteps
  <2>3. QED
    BY <2>1, <2>2 DEF UploadsFit
<1>3. QED
  BY <1>1, <1>2 DEF UploadsFit, Asked

\* A direct chat knows no permissions.
LEMMA DirectKeepsPermissions ==
  ASSUME PermissionInv, ReviewInv, NEW t \in Turns, chat = "direct", Upload(t) \/ TurnStops(t)
  PROVE  PermissionInv'
<1>1. ReviewTypeOK
  BY DEF ReviewInv
<1>2. Others(t) /\ pc'[t] = "done" /\ UNCHANGED <<chat, unsent, opened>>
  BY <1>1, FinishMoves DEF Upload, TurnStops, Finish, historyVars, fileHistory
<1>3. /\ \A f \in Files : Asked(f) => Asked(f)'
      /\ slot' \in Files => slot' = slot \/ file'[slot'].stage # "none"
  <2>1. CASE Upload(t)
    <3>1. PICK f \in Files : Rewritten(f, "opt_in") /\ Displace(f)
      BY <2>1 DEF Upload
    <3>2. slot' \in {f, None}
      BY <3>1 DEF Displace, Replaced
    <3>3. QED
      BY <3>1, <3>2, RewrittenAsks, RequesterAssumption DEF Asked
  <2>2. CASE TurnStops(t)
    BY <2>2 DEF TurnStops, requesterVars, sessionVars, Asked
  <2>3. QED
    BY <2>1, <2>2
<1>4. UploadsFit'
  BY <1>2, <1>3, AskedStays DEF PermissionInv
<1>5. QED
  BY <1>2, <1>4 DEF PermissionInv, Others, UploadSteps

\* In a group a turn that ends lets its permission go, to the file it promoted or to nobody.
LEMMA StopKeepsPermissions ==
  ASSUME PermissionInv, ReviewInv, NEW t \in Turns, chat # "direct", Finish(t),
         UNCHANGED <<slot, file, given>>,
         \/ opened' = opened
         \/ pc[t] = "attach" /\ opened' = opened \cup {turn[t].file}
  PROVE  PermissionInv'
<1>1. ReviewTypeOK /\ UploadsFit /\ Counted /\ given \in Nat
  BY DEF ReviewInv, PermissionInv, ReviewTypeOK
<1>2. Others(t) /\ pc'[t] = "done" /\ UNCHANGED <<chat, unsent>>
  BY <1>1, FinishMoves DEF Finish
<1>3. \A f \in Files : Asked(f)' <=> Asked(f)
  BY DEF Asked
<1>4. UploadsFit'
  BY <1>1, <1>2, <1>3, AskedStays DEF UploadsFit, Asked
<1>5. ~Holder(t)'
  BY <1>2 DEF Holder, Promoter
<1>6. \A f \in Files : Used(f)' => Used(f) \/ (Promoter(t) /\ f = turn[t].file)
  BY <1>2, <1>3, UsedBefore
<1>7. slot' = Intent => <<"intent", Intent>> \in Permissions
  BY DEF Permissions
<1>8. Permissions' \subseteq Permissions \/ Promoter(t)
  BY <1>5, <1>6, <1>7, <1>2, PermissionsAfter DEF Permissions
<1>9. CASE Promoter(t)
  <2>1. <<"turn", t>> \in Permissions
    BY <1>9 DEF Permissions, Holder
  <2>2. Permissions' \subseteq (Permissions \ {<<"turn", t>>}) \cup {<<"file", turn[t].file>>}
    BY <1>2, <1>5, <1>6, <1>7, PermissionsAfter DEF Permissions
  <2>3. Counted'
    BY <1>1, <2>1, <2>2, CountedAfter
  <2>4. QED
    BY <1>2, <1>4, <2>3 DEF PermissionInv
<1>10. CASE ~Promoter(t)
  BY <1>1, <1>2, <1>4, <1>8, <1>10, CountedAfter DEF PermissionInv
<1>11. QED
  BY <1>9, <1>10

\* The turn takes the permission from the slot, or gives it back.
LEMMA IntentKeepsPermissions ==
  ASSUME PermissionInv, ReviewInv, NEW t \in Turns,
         PromoteIntent(t) \/ TakeIntent(t) \/ RestoreIntent(t)
  PROVE  PermissionInv'
<1>1. ReviewTypeOK /\ UploadsFit /\ TurnFits(t) /\ turn[t].file \in Files
  BY DEF ReviewInv, PermissionInv, TurnFits, PromoteIntent, TakeIntent, RestoreIntent, FileSteps
<1>2. chat # "direct" /\ Counted /\ given \in Nat
  BY <1>1 DEF PermissionInv, PromoteIntent, TakeIntent, RestoreIntent, UploadSteps, ReviewTypeOK
<1>3. UNCHANGED <<opened, given>>
  BY DEF PromoteIntent, TakeIntent, RestoreIntent, historyVars, fileHistory
<1>4. /\ Intent \notin Files \cup Reviews \cup {None} /\ None \notin Files
  BY RequesterAssumption
<1>5. turn[t] \in TurnRecord /\ file \in [Files -> FileRecord]
  BY <1>1 DEF ReviewTypeOK, RequesterTypeOK
<1>6. CASE PromoteIntent(t) /\ slot = Intent
  <2>0. PICK f \in Files : f = turn[t].file
    BY <1>1
  <2>1. /\ Rewritten(f, "opt_in") /\ slot' = f
        /\ GoWith(t, "attach", [turn[t] EXCEPT !.replaced = TRUE])
    BY <1>1, <1>4, <1>6, <2>0 DEF PromoteIntent, Promote
  <2>2. /\ Others(t) /\ pc'[t] = "attach" /\ turn'[t].replaced /\ turn'[t].file = f
        /\ UNCHANGED <<chat, unsent>>
    <3>1. [turn[t] EXCEPT !.replaced = TRUE].replaced /\ [turn[t] EXCEPT !.replaced = TRUE].file = f
      BY <1>5, <2>0 DEF TurnRecord
    <3>2. QED
      BY <1>1, <2>1, <3>1, GoWithMoves DEF GoWith
  <2>3. Asked(f)' /\ \A g \in Files : g # f => (Asked(g)' <=> Asked(g))
    BY <1>1, <2>1, RewrittenAsks
  <2>4. UploadsFit'
    BY <1>1, <1>3, <2>1, <2>2, <2>3, AskedStays DEF Asked
  <2>5. ~Promoter(t)
    BY <1>6 DEF PromoteIntent, Promoter
  <2>6. \A g \in Files : Used(g)' => g # f /\ Used(g)
    <3>1. Promoter(t)' /\ turn'[t].file = f
      BY <2>2 DEF Promoter
    <3>2. \A g \in Files : Used(g)' => g # f
      BY <3>1 DEF Used
    <3>3. QED
      BY <2>2, <2>3, <2>5, <3>2, UsedBefore
  <2>7. Permissions' \subseteq (Permissions \ {<<"intent", Intent>>}) \cup {<<"turn", t>>}
    BY <1>1, <1>4, <2>1, <2>2, <2>6, PermissionsAfter DEF Permissions
  <2>8. <<"intent", Intent>> \in Permissions
    BY <1>6 DEF Permissions
  <2>9. QED
    BY <1>2, <1>3, <2>2, <2>4, <2>7, <2>8, CountedAfter DEF PermissionInv
<1>7. CASE PromoteIntent(t) /\ slot # Intent
  <2>1. /\ Others(t) /\ UNCHANGED <<chat, unsent, slot, file>>
        /\ pc'[t] = "done" \/ (pc'[t] = "attach" /\ turn'[t] = turn[t] /\ slot = turn[t].file)
    BY <1>1, <1>7, FinishMoves, GoMoves DEF PromoteIntent, Promote, Finish, Go, GoWith
  <2>2. ~Holder(t) /\ ~Holder(t)'
    BY <1>1, <1>7, <2>1 DEF PromoteIntent, Holder, Promoter, UploadsFit
  <2>3. \A f \in Files : Asked(f)' <=> Asked(f)
    BY <2>1 DEF Asked
  <2>4. slot' \in Files => file'[slot'].stage # "none"
    BY <1>1, <2>1 DEF UploadsFit, Asked
  <2>5. pc'[t] \in {"opt_in", "attach"} => file'[turn'[t].file].stage # "none"
    BY <1>1, <2>1, <2>4
  <2>6. slot' \in {slot, None} \cup Reviews \cup Files /\ pc'[t] # "restore" /\ pc'[t] # "promote"
    BY <2>1
  <2>7. QED
    BY <1>2, <1>3, <2>1, <2>2, <2>3, <2>4, <2>5, <2>6, NoPermissionMoves
<1>8. CASE TakeIntent(t)
  <2>1. /\ Others(t) /\ UNCHANGED <<chat, unsent, file>>
        /\ \/ slot = Intent /\ slot' = None /\ pc'[t] = "open_file"
           \/ slot' = slot /\ pc'[t] = "done"
    BY <1>1, <1>8, FinishMoves, GoMoves DEF TakeIntent, Finish, Go, GoWith
  <2>2. ~Holder(t) /\ ~Promoter(t) /\ pc'[t] \notin {"opt_in", "attach", "restore", "promote"}
    BY <1>8, <2>1 DEF TakeIntent, Holder, Promoter
  <2>3. \A f \in Files : Asked(f)' <=> Asked(f)
    BY <2>1 DEF Asked
  <2>4. UploadsFit'
    BY <1>1, <1>3, <1>4, <2>1, <2>2, <2>3, AskedStays
  <2>5. \A f \in Files : Used(f)' => Used(f)
    BY <2>1, <2>2, <2>3, UsedBefore
  <2>6. CASE pc'[t] = "open_file"
    <3>1. Permissions' \subseteq (Permissions \ {<<"intent", Intent>>}) \cup {<<"turn", t>>}
      BY <1>4, <2>1, <2>5, <2>6, PermissionsAfter DEF Permissions
    <3>2. <<"intent", Intent>> \in Permissions
      BY <2>1, <2>6 DEF Permissions
    <3>3. QED
      BY <1>2, <1>3, <2>1, <2>4, <3>1, <3>2, CountedAfter DEF PermissionInv
  <2>7. CASE pc'[t] = "done"
    <3>1. ~Holder(t)' /\ slot' = slot
      BY <2>1, <2>7 DEF Holder, Promoter
    <3>2. Permissions' \subseteq Permissions
      BY <2>1, <2>5, <3>1, PermissionsAfter DEF Permissions
    <3>3. QED
      BY <1>2, <1>3, <2>1, <2>4, <3>2, CountedAfter DEF PermissionInv
  <2>8. QED
    BY <2>1, <2>6, <2>7
<1>9. CASE RestoreIntent(t)
  <2>0. PICK f \in Files : f = turn[t].file
    BY <1>1
  <2>1. /\ Others(t) /\ UNCHANGED <<chat, unsent, file>> /\ pc'[t] = "done"
        /\ slot' \in {slot, Intent, None}
    BY <1>1, <1>9, FinishMoves DEF RestoreIntent, Finish, Restore
  <2>2. f \in unsent /\ Promoter(t) /\ ~Holder(t)'
    BY <1>1, <1>9, <2>0, <2>1 DEF RestoreIntent, UploadsFit, Promoter, Holder
  <2>3. \A g \in Files : Asked(g)' <=> Asked(g)
    BY <2>1 DEF Asked
  <2>4. UploadsFit'
    BY <1>1, <1>3, <1>4, <2>1, <2>3, AskedStays
  <2>5. \A g \in Files : Used(g)' => Used(g)
    <3>1. ~Used(f)'
      BY <2>1, <2>2 DEF Used
    <3>2. QED
      BY <2>0, <2>1, <2>3, <3>1, UsedBefore
  <2>6. <<"turn", t>> \in Permissions
    BY <2>2 DEF Permissions, Holder
  <2>7. Permissions' \subseteq (Permissions \ {<<"turn", t>>}) \cup {<<"intent", Intent>>}
    BY <2>1, <2>2, <2>5, PermissionsAfter DEF Permissions
  <2>8. QED
    BY <1>2, <1>3, <2>1, <2>4, <2>6, <2>7, CountedAfter DEF PermissionInv
<1>10. QED
  BY <1>6, <1>7, <1>8, <1>9

\* A file uses a permission up, or a new one is given.
LEMMA OpenKeepsPermissions ==
  ASSUME PermissionInv, ReviewInv, NEW t \in Turns, OpenFile(t) \/ AllowUpload(t)
  PROVE  PermissionInv'
<1>1. ReviewTypeOK /\ UploadsFit
  BY DEF ReviewInv, PermissionInv
<1>2. chat # "direct" /\ Counted /\ given \in Nat /\ given' \in Nat
  BY <1>1 DEF PermissionInv, OpenFile, AllowUpload, UploadSteps, ReviewTypeOK
<1>3. Intent \notin Files \cup Reviews \cup {None} /\ None \notin Files
  BY RequesterAssumption
<1>4. /\ Others(t) /\ pc'[t] = "done" /\ ~Holder(t)' /\ UNCHANGED <<chat, unsent>>
  BY <1>1, FinishMoves DEF OpenFile, AllowUpload, Finish, Holder, Promoter
<1>5. ~Promoter(t)
  BY DEF OpenFile, AllowUpload, Promoter
<1>6. CASE OpenFile(t)
  <2>0. PICK f \in Files : f = turn[t].file
    BY <1>6 DEF OpenFile, ReviewInv, TurnFits, FileSteps
  <2>1. Rewritten(f, "opt_in") /\ slot' \in {f, None} /\ opened' = opened \cup {f} /\ given' = given
    BY <1>6, <2>0 DEF OpenFile, Displace, Replaced
  <2>2. Asked(f)' /\ \A g \in Files : g # f => (Asked(g)' <=> Asked(g))
    BY <2>1, RewrittenAsks
  <2>3. UploadsFit'
    BY <1>1, <1>3, <1>4, <2>1, <2>2, AskedStays DEF Asked
  <2>4. \A g \in Files : Used(g)' => Used(g) \/ g = f
    BY <1>4, <1>5, <2>2, UsedBefore
  <2>5. <<"turn", t>> \in Permissions
    BY <1>6 DEF Permissions, Holder, OpenFile
  <2>6. Permissions' \subseteq (Permissions \ {<<"turn", t>>}) \cup {<<"file", f>>}
    BY <1>3, <1>4, <2>1, <2>4, PermissionsAfter DEF Permissions
  <2>7. QED
    BY <1>2, <1>4, <2>1, <2>3, <2>5, <2>6, CountedAfter DEF PermissionInv
<1>7. CASE AllowUpload(t)
  <2>1. UNCHANGED <<file, opened>> /\ slot' \in {Intent, None} /\ given' = given + 1
    BY <1>7 DEF AllowUpload, Displace, Replaced
  <2>2. \A f \in Files : Asked(f)' <=> Asked(f)
    BY <2>1 DEF Asked
  <2>3. UploadsFit'
    BY <1>1, <1>3, <1>4, <2>1, <2>2, AskedStays
  <2>4. \A g \in Files : Used(g)' => Used(g)
    BY <1>4, <1>5, <2>2, UsedBefore
  <2>5. Permissions' \subseteq Permissions \cup {<<"intent", Intent>>}
    BY <1>4, <2>4, PermissionsAfter DEF Permissions
  <2>6. QED
    BY <1>2, <1>4, <2>1, <2>3, <2>5, CountedAfter DEF PermissionInv
<1>8. QED
  BY <1>6, <1>7

\* The file becomes the pending attachment, under the permission the turn has or under a new one.
LEMMA AttachKeepsPermissions ==
  ASSUME PermissionInv, ReviewInv, NEW t \in Turns, AttachFile(t)
  PROVE  PermissionInv'
<1>1. ReviewTypeOK /\ UploadsFit /\ chat # "direct"
  BY DEF ReviewInv, PermissionInv, AttachFile, UploadSteps
<1>2. UNCHANGED <<slot, file, given>>
  BY DEF AttachFile, requesterVars, sessionVars
<1>3. CASE Finish(t)
  BY <1>1, <1>2, <1>3, StopKeepsPermissions DEF AttachFile
<1>4. CASE ~Finish(t)
  <2>1. /\ Others(t) /\ pc'[t] = "restore" /\ turn'[t] = turn[t]
        /\ turn[t].file \in unsent /\ turn[t].replaced /\ UNCHANGED <<chat, unsent, opened>>
    BY <1>1, <1>4, GoMoves DEF AttachFile, Go, GoWith
  <2>2. \A f \in Files : Asked(f)' <=> Asked(f)
    BY <1>2 DEF Asked
  <2>3. UploadsFit'
    BY <1>1, <1>2, <2>1, <2>2, AskedStays
  <2>4. Promoter(t) /\ Promoter(t)'
    BY <2>1 DEF Promoter, AttachFile
  <2>5. \A g \in Files : Used(g)' => Used(g)
    BY <2>1, <2>2, <2>4, UsedBefore DEF Used
  <2>6. Permissions' \subseteq Permissions
    BY <1>2, <2>4, <2>5, <2>1, PermissionsAfter DEF Permissions, Holder
  <2>7. given \in Nat
    BY <1>1 DEF ReviewTypeOK
  <2>8. QED
    BY <1>1, <1>2, <2>1, <2>3, <2>6, <2>7, CountedAfter DEF PermissionInv
<1>5. QED
  BY <1>3, <1>4

\* Unsends and deadlines only take from the slot.
LEMMA EnvironmentKeepsPermissions ==
  ASSUME PermissionInv, ReviewInv, Environment
  PROVE  PermissionInv'
<1>1. UNCHANGED <<chat, pc, turn, opened, given, file>> /\ unsent \subseteq unsent'
  BY DEF Environment, Unsend, TimePasses, WaitingEnds, ApprovalEnds, ReviewEnds, LeaseEnds, JobEnds,
     turnVars, historyVars, fileHistory, requesterVars, sessionVars
<1>2. slot' \in {slot, None}
  BY DEF Environment, Unsend, TimePasses, WaitingEnds, ApprovalEnds, ReviewEnds, LeaseEnds, JobEnds,
     requesterVars, sessionVars, Deleted
<1>3. UploadsFit'
  BY <1>1, <1>2, RequesterAssumption DEF PermissionInv, UploadsFit, Asked
<1>4. Permissions' \subseteq Permissions
  BY <1>1, <1>2, RequesterAssumption DEF Permissions, Holder, Promoter, Used, Asked
<1>5. given \in Nat
  BY DEF ReviewInv, ReviewTypeOK
<1>6. QED
  BY <1>1, <1>3, <1>4, <1>5, CountedAfter DEF PermissionInv

\* Every step.
LEMMA PermissionStep ==
  ASSUME PermissionInv, ReviewInv, [Next]_vars
  PROVE  PermissionInv'
<1>1. CASE UNCHANGED vars
  BY <1>1
     DEF PermissionInv, UploadsFit, Counted, Permissions, Holder, Promoter, Used, Asked,
         vars, requesterVars, sessionVars, turnVars, historyVars, fileHistory
<1>2. CASE Environment
  BY <1>2, EnvironmentKeepsPermissions
<1>3. ASSUME NEW t \in Turns, Upload(t) \/ TurnStops(t) PROVE PermissionInv'
  <2>1. CASE chat = "direct"
    BY <1>3, <2>1, DirectKeepsPermissions
  <2>2. CASE chat # "direct"
    BY <1>3, <2>2, StopKeepsPermissions
       DEF Upload, TurnStops, requesterVars, sessionVars, historyVars, fileHistory
  <2>3. QED
    BY <2>1, <2>2
<1>4. ASSUME NEW t \in Turns, Step(t) PROVE PermissionInv'
  BY <1>3, <1>4, ReviewStepsKeepPermissions, TalkKeepsPermissions, IntentKeepsPermissions,
     OpenKeepsPermissions, AttachKeepsPermissions DEF Step
<1>5. QED
  BY <1>1, <1>2, <1>4 DEF Next

\* Always: the permissions in the slot, with a turn and used up by a file are no more than were given.
THEOREM PermissionInvariant == Spec => []PermissionInv
<1>1. Init => PermissionInv
  <2>. SUFFICES ASSUME Init PROVE PermissionInv
    OBVIOUS
  <2>2. \A t \in Turns : pc[t] = "idle"
    BY DEF Init
  <2>3. Intent \notin Files \cup {None} /\ None \notin Files
    BY RequesterAssumption
  <2>4. \A f \in Files : Asked(f) <=> f = slot
    BY DEF Init, RequesterInit, Asked
  <2>5. UploadsFit
    BY <2>2, <2>4 DEF Init, UploadsFit
  <2>6. ASSUME chat # "direct" PROVE Counted
    <3>1. Permissions = {<<"file", f>> : f \in opened} /\ (opened = {} \/ opened = {slot})
      BY <2>2, <2>3, <2>4, <2>6
         DEF Init, RequesterInit, Permissions, Holder, Promoter, Used
    <3>2. \/ Permissions = {} /\ given = Cardinality({})
          \/ Permissions = {<<"file", slot>>} /\ given = Cardinality({slot})
      BY <3>1 DEF Init
    <3>3. Cardinality({slot}) = 1 /\ Cardinality({<<"file", slot>>}) = 1 /\ Cardinality({}) = 0
          /\ IsFiniteSet({<<"file", slot>>}) /\ IsFiniteSet({})
      BY FS_Singleton, FS_EmptySet
    <3>4. QED
      BY <3>2, <3>3 DEF Counted
  <2>7. QED
    BY <2>2, <2>5, <2>6 DEF Init, PermissionInv, UploadSteps
<1>2. PermissionInv /\ ReviewInv /\ [Next]_vars => PermissionInv'
  BY PermissionStep
<1>3. QED
  BY <1>1, <1>2, ReviewInvariant, PTL DEF Spec

\* Always: OneFilePerPermission.  Every file opened for saving and not unsent stands for a permission of
\* its own: the one it has used up, or the one a turn still holds for it.
THEOREM OnePermissionEach == Spec => []OneFilePerPermission
<1>1. PermissionInv /\ ReviewInv => OneFilePerPermission
  <2>. SUFFICES ASSUME PermissionInv, ReviewInv PROVE OneFilePerPermission
    OBVIOUS
  <2>1. given \in Nat
    BY DEF ReviewInv, ReviewTypeOK
  <2>2. CASE chat = "direct"
    <3>1. opened \ unsent = {}
      BY <2>2 DEF PermissionInv
    <3>2. QED
      BY <2>1, <3>1, FS_EmptySet DEF OneFilePerPermission
  <2>3. CASE chat # "direct"
    <3>. DEFINE S == opened \ unsent
                Stands(f) == IF Used(f) THEN <<"file", f>>
                             ELSE <<"turn", CHOOSE t \in Turns : Promoter(t) /\ turn[t].file = f>>
                Stand == [f \in S |-> Stands(f)]
    <3>1. ASSUME NEW f \in S
          PROVE  /\ f \in Files
                 /\ Used(f) \/ \E t \in Turns : Promoter(t) /\ turn[t].file = f
      BY DEF PermissionInv, UploadsFit, Used, ReviewInv, ReviewTypeOK
    <3>2. ASSUME NEW f \in S PROVE Stands(f) \in Permissions
      BY <3>1 DEF Permissions, Holder
    <3>3. ASSUME NEW f \in S, NEW g \in S, Stands(f) = Stands(g) PROVE f = g
      BY <3>1, <3>3
    <3>. HIDE DEF Stands, S
    <3>4. Stand \in Injection(S, Permissions)
      <4>1. Stand \in [S -> Permissions]
        BY <3>2
      <4>2. \A f, g \in S : Stand[f] = Stand[g] => f = g
        BY <3>3
      <4>3. QED
        BY <4>1, <4>2 DEF Injection, IsInjective
    <3>5. IsFiniteSet(Permissions) /\ Cardinality(Permissions) <= given
      BY <2>3 DEF PermissionInv, Counted
    <3>. HIDE DEF Stand
    <3>6. IsFiniteSet(S) /\ Cardinality(S) <= Cardinality(Permissions)
      BY <3>4, <3>5, FS_Injection DEF ExistsInjection
    <3>7. Cardinality(S) \in Nat /\ Cardinality(Permissions) \in Nat
      BY <3>5, <3>6, FS_CardinalityType
    <3>8. QED
      BY <2>1, <3>5, <3>6, <3>7 DEF OneFilePerPermission, S
  <2>4. QED
    BY <2>2, <2>3
<1>2. QED
  BY <1>1, PermissionInvariant, ReviewInvariant, PTL
=============================================================================
