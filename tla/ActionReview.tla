---------------------------- MODULE ActionReview ----------------------------
(***************************************************************************)
(* Writes that need the requester's approval: proposals, confirmations,    *)
(* cancellations and resets of src/helper-agent/runtime.ts, which run      *)
(* under the lock of the thread (withPgThreadLock), and of                 *)
(* src/runtime/main-runtime.ts, which run under none, with the executor    *)
(* they share (src/runtime/action-executor.ts); and the conversation about *)
(* a pending attachment (src/transport/line/attachment-intake.ts,          *)
(* src/media-sync/intake.ts), which uses the same session slot.           *)
(* A turn handles one event of the requester.                              *)
(***************************************************************************)
EXTENDS RequesterState

CONSTANTS
  Turns,
  Profiles,         \* the profiles to consider, among "helper" and "main"
  MaxFaults         \* bounds the crashes, lost replies and failed calls

ASSUME TurnsAssumption ==
  /\ None \notin Turns /\ Profiles \subseteq {"helper", "main"} /\ MaxFaults \in Nat

VARIABLES
  chat,             \* "direct", "group", or "bound" for a group with a collection
  unsent,           \* the messages LINE has reported as unsent
  profile,          \* the profile of this conversation
  lock,             \* the turn that holds the thread lock, or None
  pc, turn,         \* pc[t], turn[t]: step and local variables of turn t
  written,          \* history: how often the action of review r was performed
  saved,            \* history: the attachments handed to the scan pipeline
  evicted,          \* history: reviews another session has displaced
  withdrawn,        \* history: reviews main could not store completely
  given, opened,    \* history: upload permissions given, and the files opened with one
  barred,           \* history: reviews whose action was not allowed any more when taken
  faults

turnVars == <<chat, unsent, profile, lock, pc, turn>>
reviewHistory == <<written, withdrawn, barred>>
fileHistory == <<saved, given, opened>>
historyVars == <<reviewHistory, evicted, fileHistory>>
vars == <<requesterVars, turnVars, historyVars, faults>>

TurnSteps ==
  {"idle", "wait", "lookup", "check_job", "take", "take_args", "execute", "authorize",
   "start", "write", "complete", "fail", "find_old", "revoke", "preview", "create", "store",
   "store_args", "undo", "undo_args", "find_reset", "take_reset", "drop_args", "find_form",
   "drop_form", "find_cancel", "take_cancel", "find_file", "opt_in", "edit", "take_file",
   "drop_file", "promote", "attach", "restore", "take_intent", "open_file", "done"}
Tasks == {"none", "approve", "reject", "propose", "cancel", "reset", "opt_in", "edit",
          "confirm", "drop", "upload"}
TurnRecord ==
  [task : Tasks, review : Reviews \cup {None}, file : Files \cup {None}, revision : Nat,
   ended : BOOLEAN,                       \* the approval was revoked when it was read
   replaced : BOOLEAN,                    \* the intent was promoted by this turn
   outcome : {"failed", "uncertain"}, next : TurnSteps]
NoTurn ==
  [task |-> "none", review |-> None, file |-> None, revision |-> 0, ended |-> FALSE,
   replaced |-> FALSE, outcome |-> "failed", next |-> "done"]
SavedRecord == [file : Files, revision : Nat, pressed : Nat]

ReviewTypeOK ==
  /\ RequesterTypeOK
  /\ profile \in Profiles /\ lock \in Turns \cup {None}
  /\ pc \in [Turns -> TurnSteps] /\ turn \in [Turns -> TurnRecord]
  /\ written \in [Reviews -> Nat] /\ saved \subseteq SavedRecord
  /\ evicted \subseteq Reviews /\ withdrawn \subseteq Reviews
  /\ barred \subseteq Reviews /\ faults \in Nat /\ given \in Nat /\ opened \subseteq Files
  /\ chat \in {"direct", "group", "bound"} /\ unsent \subseteq Files

Init ==
  /\ RequesterInit
  /\ profile \in Profiles /\ (profile = "main" => slot = None)
  /\ chat \in {"direct", "group", "bound"} /\ (profile = "main" => chat = "direct")
  /\ unsent = {}
  /\ lock = None /\ pc = [t \in Turns |-> "idle"] /\ turn = [t \in Turns |-> NoTurn]
  /\ written = [r \in Reviews |-> 0] /\ saved = {} /\ evicted = {}
  /\ withdrawn = {} /\ barred = {} /\ faults = 0
  /\ opened = IF chat = "direct" THEN {} ELSE {slot} \cap Files
  /\ given = Cardinality(opened)

Fault == faults < MaxFaults /\ faults' = faults + 1
NoFault == UNCHANGED faults

GoWith(t, step, locals) ==
  /\ pc' = [pc EXCEPT ![t] = step] /\ turn' = [turn EXCEPT ![t] = locals]
  /\ UNCHANGED <<chat, unsent, profile, lock>>
Go(t, step) == GoWith(t, step, turn[t])

\* The end of the turn, which gives the lock back.
Finish(t) ==
  /\ pc' = [pc EXCEPT ![t] = "done"] /\ turn' = [turn EXCEPT ![t] = NoTurn]
  /\ lock' = IF lock = t THEN None ELSE lock
  /\ UNCHANGED <<chat, unsent, profile>>

Settle(t, outcome, next) ==
  GoWith(t, "fail", [turn[t] EXCEPT !.outcome = outcome, !.next = next])

Displace(x) == Replaced(x) /\ evicted' = evicted \cup (({slot} \ {x}) \cap Reviews)

-----------------------------------------------------------------------------
(* Events.                                                                 *)

\* Work of the helper runs in options.state.run or reset.
Begin(t, task, step) ==
  LET locals == [NoTurn EXCEPT !.task = task] IN
  IF profile = "helper" THEN GoWith(t, "wait", [locals EXCEPT !.next = step])
  ELSE GoWith(t, step, locals)

\* A button of a preview, or the text that stands for it while the review is current.
Press(t) ==
  \E r \in Reviews, decision \in {"approve", "reject"} :
    /\ Known(r)
    /\ GoWith(t, "lookup", [NoTurn EXCEPT !.task = decision, !.review = r])

\* Text about the attachment, and the button of its preview.  Only the agent's edit waits.
TalkAboutFile(t) ==
  /\ profile = "helper"
  /\ \/ \E task \in {"opt_in", "drop"} :
          GoWith(t, "find_file", [NoTurn EXCEPT !.task = task])
     \/ \E v \in 1 .. revision :
          GoWith(t, "find_file", [NoTurn EXCEPT !.task = "confirm", !.revision = v])
     \/ Begin(t, "edit", "find_file")

\* A file of a group, possibly delivered again: prepareMediaSyncIntake if the group is bound
\* to a collection, handleAttachmentMessage otherwise.
UploadInGroup(t) ==
  /\ profile = "helper" /\ chat # "direct"
  /\ \E f \in Files \ unsent :
       GoWith(t, IF chat = "bound" THEN "promote" ELSE "take_intent",
              [NoTurn EXCEPT !.task = "upload", !.file = f])

Receive(t) ==
  /\ pc[t] = "idle"
  /\ \/ Press(t)
     \/ Begin(t, "propose", "find_old")
     \/ Begin(t, "reset", "find_reset")
     \/ profile = "helper" /\ Begin(t, "cancel", "find_cancel")
     \/ TalkAboutFile(t)
     \/ UploadInGroup(t)
  /\ UNCHANGED <<requesterVars, historyVars, faults>>

\* handleAttachmentMessage of a direct chat
Upload(t) ==
  /\ pc[t] = "idle" /\ profile = "helper" /\ chat = "direct"
  /\ \E f \in Files :
       file[f].stage = "none" /\ Rewritten(f, "opt_in") /\ Displace(f)
  /\ Finish(t)
  /\ UNCHANGED <<revoked, arguments, timeVars, job, reviewHistory, fileHistory, faults>>

\* The requester of a group says that the next file is to be saved.
AllowUpload(t) ==
  /\ pc[t] = "idle" /\ profile = "helper" /\ chat # "direct"
  /\ Displace(Intent) /\ given' = given + 1 /\ Finish(t)
  /\ UNCHANGED <<revoked, arguments, file, revision, timeVars, job, reviewHistory, saved,
                 opened, faults>>

\* The context of a turn that waited may have been reset (isCurrent).
Enter(t) ==
  /\ pc[t] = "wait" /\ lock = None
  /\ \/ /\ lock' = t /\ pc' = [pc EXCEPT ![t] = turn[t].next]
        /\ UNCHANGED <<chat, unsent, profile, turn>>
     \/ Finish(t)
  /\ UNCHANGED <<requesterVars, historyVars, faults>>

-----------------------------------------------------------------------------
(* handleActionReview.                                                     *)

Lookup(t) ==
  LET r == turn[t].review IN
  /\ pc[t] = "lookup"
  /\ \/ slot # r /\ Finish(t)
     \/ slot = r /\ profile = "main" /\ Go(t, "check_job")
     \/ slot = r /\ profile = "helper"
        /\ GoWith(t, "wait", [turn[t] EXCEPT !.next = "take", !.ended = r \in revoked])
  /\ UNCHANGED <<requesterVars, historyVars, faults>>

CheckJob(t) ==
  /\ pc[t] = "check_job"
  /\ IF Told(turn[t].review) = "pending" THEN Go(t, "take") ELSE Finish(t)
  /\ UNCHANGED <<requesterVars, historyVars, faults>>

ApprovalOver(t) == profile = "helper" /\ (turn[t].ended \/ turn[t].review \in late)

\* The approval is judged by the copy read before the lock was taken.
TakeReview(t) ==
  LET r == turn[t].review IN
  /\ pc[t] = "take"
  /\ IF (turn[t].task = "approve" /\ ApprovalOver(t)) \/ slot # r
     THEN Finish(t) /\ UNCHANGED slot
     ELSE /\ TakeAction(r)
          /\ CASE profile = "main" -> Go(t, "take_args")
               [] profile = "helper" /\ turn[t].task = "reject" -> Settle(t, "failed", "done")
               [] OTHER -> GoWith(t, "execute", [turn[t] EXCEPT !.ended = r \in revoked])
  /\ UNCHANGED <<revoked, arguments, file, revision, timeVars, job, historyVars, faults>>

\* sessions.take(review.threadId), and the caller's own check of the permission
TakeArguments(t) ==
  LET r == turn[t].review IN
  /\ pc[t] = "take_args" /\ arguments' = arguments \ {r}
  /\ \/ r \in arguments /\ turn[t].task = "approve" /\ Go(t, "execute")
     \/ Settle(t, "failed", "done")
  /\ UNCHANGED <<slot, revoked, file, revision, timeVars, job, historyVars, faults>>

ExecuteWhateverWasTaken(t) ==            \* faulty: no look at the copy that was taken
  /\ pc[t] = "execute"
  /\ IF Told(turn[t].review) = "pending" THEN Go(t, "authorize") ELSE Finish(t)
  /\ UNCHANGED <<requesterVars, historyVars, faults>>

\* Up to the reading of the job.  A denial here leaves the job as it is, also when the profile
\* no longer enables the action; main adds the capability and asks before.
Execute(t) ==
  /\ pc[t] = "execute"
  /\ \/ /\ IF ~ApprovalOver(t) /\ Told(turn[t].review) = "pending"
           THEN Go(t, "authorize") ELSE Finish(t)
        /\ UNCHANGED barred
     \/ /\ profile = "helper" /\ Finish(t)
        /\ barred' = barred \cup {turn[t].review}
  /\ UNCHANGED <<requesterVars, written, withdrawn, evicted, fileHistory, faults>>

Authorize(t) ==
  /\ pc[t] = "authorize"
  /\ \/ Go(t, "start") /\ NoFault
     \/ Settle(t, "failed", "done") /\ NoFault
     \/ Settle(t, "uncertain", "done") /\ Fault
  /\ UNCHANGED <<requesterVars, historyVars>>

\* jobs.markStarted
StartJob(t) ==
  LET r == turn[t].review IN
  /\ pc[t] = "start"
  /\ \/ MarkStarted(r) /\ Go(t, "write") /\ NoFault
     \/ ~CanStart(r) /\ UNCHANGED job /\ Finish(t) /\ NoFault
     \/ (MarkStarted(r) \/ UNCHANGED job) /\ Settle(t, "uncertain", "done") /\ Fault
  /\ UNCHANGED <<sessionVars, timeVars, historyVars>>

\* The handler commits, refuses, or raises with its effect unknown.
Write(t) ==
  LET r == turn[t].review
      performed == [written EXCEPT ![r] = @ + 1] IN
  /\ pc[t] = "write"
  /\ \/ written' = performed /\ Go(t, "complete") /\ NoFault
     \/ UNCHANGED written /\ Settle(t, "failed", "done") /\ NoFault
     \/ written' \in {written, performed} /\ Settle(t, "uncertain", "done") /\ Fault
  /\ UNCHANGED <<requesterVars, withdrawn, barred, evicted, fileHistory>>

CompleteForget(t) ==                     \* faulty: a result that was not stored is a refusal
  /\ pc[t] = "complete"
  /\ \/ CompleteJob(turn[t].review) /\ Finish(t) /\ NoFault
     \/ UNCHANGED job /\ Settle(t, "failed", "done") /\ Fault
  /\ UNCHANGED <<sessionVars, timeVars, historyVars>>

Complete(t) ==
  /\ pc[t] = "complete"
  /\ \/ CompleteJob(turn[t].review) /\ Finish(t) /\ NoFault
     \/ (CompleteJob(turn[t].review) \/ UNCHANGED job) /\ Settle(t, "uncertain", "done") /\ Fault
  /\ UNCHANGED <<sessionVars, timeVars, historyVars>>

\* jobs.fail, wherever a turn calls it
FailJob(t) ==
  /\ pc[t] = "fail" /\ FailPending(turn[t].review, turn[t].outcome)
  /\ IF turn[t].next = "done" THEN Finish(t) ELSE Go(t, turn[t].next)
  /\ UNCHANGED <<sessionVars, timeVars, historyVars, faults>>

-----------------------------------------------------------------------------
(* A proposal.                                                             *)

\* The helper ends the approval of the current draft; main leaves a current review alone.
FindOld(t) ==
  /\ pc[t] = "find_old"
  /\ \/ slot \notin Reviews /\ Go(t, IF profile = "helper" THEN "preview" ELSE "find_form")
     \/ slot \in Reviews /\ profile = "main" /\ Finish(t)
     \/ slot \in Reviews /\ profile = "helper"
        /\ GoWith(t, "revoke", [turn[t] EXCEPT !.review = slot])
  /\ UNCHANGED <<requesterVars, historyVars, faults>>

RevokeQuietly(t) ==                      \* faulty: the job of the old approval stays pending
  /\ pc[t] = "revoke" /\ Displace(turn[t].review)
  /\ revoked' = revoked \cup {turn[t].review} /\ Go(t, "preview")
  /\ UNCHANGED <<arguments, file, revision, timeVars, job, reviewHistory, fileHistory, faults>>

Revoke(t) ==
  /\ pc[t] = "revoke" /\ Displace(turn[t].review)
  /\ revoked' = revoked \cup {turn[t].review} /\ Settle(t, "failed", "preview")
  /\ UNCHANGED <<arguments, file, revision, timeVars, job, reviewHistory, fileHistory, faults>>

\* The domain code prepares a preview, asks for more, or denies it.
Preview(t) ==
  /\ pc[t] = "preview"
  /\ \/ Go(t, "create")
     \/ Finish(t)
     \/ profile = "helper" /\ Go(t, "find_old")
  /\ UNCHANGED <<requesterVars, historyVars, faults>>

CreateJob(t) ==
  /\ pc[t] = "create"
  /\ \E r \in Reviews :
       CreatePending(r) /\ GoWith(t, "store", [turn[t] EXCEPT !.review = r])
  /\ UNCHANGED <<sessionVars, timeVars, historyVars, faults>>

GiveUp(t) ==
  IF profile = "helper" THEN Settle(t, "failed", "done") /\ UNCHANGED withdrawn
  ELSE Go(t, "undo") /\ withdrawn' = withdrawn \cup {turn[t].review}

\* A failed call may have been carried out.
StoreReview(t) ==
  /\ pc[t] = "store"
  /\ \/ /\ Displace(turn[t].review) /\ NoFault /\ UNCHANGED withdrawn
        /\ IF profile = "helper" THEN Finish(t) ELSE Go(t, "store_args")
     \/ Displace(turn[t].review) /\ GiveUp(t) /\ Fault
     \/ UNCHANGED <<slot, evicted>> /\ GiveUp(t) /\ Fault
  /\ UNCHANGED <<revoked, arguments, file, revision, timeVars, job, written, barred,
                 fileHistory>>

StoreArguments(t) ==
  LET stored == arguments' = arguments \cup ({turn[t].review} \ over) IN
  /\ pc[t] = "store_args"
  /\ \/ stored /\ Finish(t) /\ NoFault /\ UNCHANGED withdrawn
     \/ (stored \/ UNCHANGED arguments) /\ GiveUp(t) /\ Fault
  /\ UNCHANGED <<slot, revoked, file, revision, timeVars, job, written, barred,
                 evicted, fileHistory>>

UndoReview(t) ==
  /\ pc[t] = "undo" /\ Go(t, "undo_args")
  /\ \/ Deleted(turn[t].review) /\ NoFault
     \/ UNCHANGED slot /\ Fault
  /\ UNCHANGED <<revoked, arguments, file, revision, timeVars, job, historyVars>>

UndoArguments(t) ==
  /\ pc[t] = "undo_args" /\ Settle(t, "failed", "done")
  /\ \/ arguments' = arguments \ {turn[t].review} /\ NoFault
     \/ UNCHANGED arguments /\ Fault
  /\ UNCHANGED <<slot, revoked, file, revision, timeVars, job, historyVars>>

-----------------------------------------------------------------------------
(* Reset and cancellation.                                                 *)

FindReset(t) ==
  /\ pc[t] = "find_reset"
  /\ IF slot \in Reviews THEN GoWith(t, "take_reset", [turn[t] EXCEPT !.review = slot])
     ELSE Go(t, IF profile = "helper" THEN "find_file" ELSE "find_form")
  /\ UNCHANGED <<requesterVars, historyVars, faults>>

\* The helper fails the job whether or not it got the review.
TakeReset(t) ==
  LET r == turn[t].review IN
  /\ pc[t] = "take_reset" /\ Deleted(r)
  /\ CASE profile = "helper" -> Settle(t, "failed", "find_file")
       [] profile = "main" /\ slot = r -> Go(t, "drop_args")
       [] OTHER -> Go(t, "find_form")
  /\ UNCHANGED <<revoked, arguments, file, revision, timeVars, job, historyVars, faults>>

DropArguments(t) ==
  /\ pc[t] = "drop_args" /\ arguments' = arguments \ {turn[t].review}
  /\ Settle(t, "failed", "find_form")
  /\ UNCHANGED <<slot, revoked, file, revision, timeVars, job, historyVars, faults>>

\* findProfileUpdate takes the latest profile_update session, be it a form the requester is
\* filling in or the stored arguments of a review.
FindForm(t) ==
  /\ pc[t] = "find_form"
  /\ \/ \E r \in arguments : GoWith(t, "drop_form", [turn[t] EXCEPT !.review = r])
     \/ IF turn[t].task = "reset" THEN Finish(t) ELSE Go(t, "preview")
  /\ UNCHANGED <<requesterVars, historyVars, faults>>

DropForm(t) ==
  /\ pc[t] = "drop_form" /\ arguments' = arguments \ {turn[t].review}
  /\ IF turn[t].task = "reset" THEN Finish(t) ELSE Go(t, "preview")
  /\ UNCHANGED <<slot, revoked, file, revision, timeVars, job, historyVars, faults>>

\* cancel_current_draft; the policy or the permission may deny it.
FindCancel(t) ==
  /\ pc[t] = "find_cancel"
  /\ \/ Finish(t)
     \/ slot \in Reviews /\ GoWith(t, "take_cancel", [turn[t] EXCEPT !.review = slot])
  /\ UNCHANGED <<requesterVars, historyVars, faults>>

TakeCancel(t) ==
  LET r == turn[t].review IN
  /\ pc[t] = "take_cancel"
  /\ \/ TakeAction(r) /\ Settle(t, "failed", "done")
     \/ slot # r /\ UNCHANGED slot /\ Finish(t)
  /\ UNCHANGED <<revoked, arguments, file, revision, timeVars, job, historyVars, faults>>

-----------------------------------------------------------------------------
(* The pending attachment.                                                 *)

\* The stages an answer applies to, and the step that applies it.
Applies(task, f, v) ==
  CASE task = "opt_in" -> file[f].stage = "opt_in"
    [] task = "edit" -> file[f].stage \in {"purpose", "confirm"}
    [] task = "confirm" -> file[f].stage = "confirm" /\ file[f].revision = v
    [] OTHER -> TRUE
StepOf(task) ==
  CASE task = "opt_in" -> "opt_in" [] task = "edit" -> "edit"
    [] task = "confirm" -> "take_file" [] OTHER -> "drop_file"

FindFile(t) ==
  LET task == turn[t].task IN
  /\ pc[t] = "find_file"
  /\ IF slot \in Files /\ Applies(task, slot, turn[t].revision)
     THEN GoWith(t, StepOf(task),
                 [turn[t] EXCEPT !.file = slot, !.revision = file[slot].revision])
     ELSE Finish(t)
  /\ UNCHANGED <<requesterVars, historyVars, faults>>

\* A plain set of the copy that was read.
OptIn(t) ==
  /\ pc[t] = "opt_in" /\ Rewritten(turn[t].file, "purpose") /\ Displace(turn[t].file)
  /\ Finish(t)
  /\ UNCHANGED <<revoked, arguments, timeVars, job, reviewHistory, fileHistory, faults>>

EditFile(t) ==
  LET f == turn[t].file IN
  /\ pc[t] = "edit" /\ Finish(t)
  /\ \/ \E stage \in {"purpose", "confirm"} : UpdateExpected(f, turn[t].revision, stage)
     \/ ~Current(f, turn[t].revision) /\ UNCHANGED <<slot, file, revision>>
  /\ UNCHANGED <<revoked, arguments, timeVars, job, historyVars, faults>>

\* takePendingAttachment(lookup, pending) and enqueueAttachmentScan, which deletes the session
\* once more at its end.
TakeFile(t) ==
  LET f == turn[t].file IN
  /\ pc[t] = "take_file"
  /\ \/ /\ ConsumeExpected(f, turn[t].revision) /\ Go(t, "drop_file")
        /\ saved' = saved \cup {[file |-> f, revision |-> file[f].revision,
                                 pressed |-> turn[t].revision]}
     \/ ~Current(f, turn[t].revision) /\ UNCHANGED <<slot, saved>> /\ Finish(t)
  /\ UNCHANGED <<revoked, arguments, file, revision, timeVars, job, reviewHistory, evicted,
                 given, opened, faults>>

DropFile(t) ==
  /\ pc[t] = "drop_file" /\ Deleted(turn[t].file) /\ Finish(t)
  /\ UNCHANGED <<revoked, arguments, file, revision, timeVars, job, historyVars, faults>>

-----------------------------------------------------------------------------
(* A file of a group.                                                      *)

PromoteIntent(t) ==
  LET f == turn[t].file IN
  /\ pc[t] = "promote"
  /\ \/ /\ Promote(f) /\ Rewritten(f, "opt_in")
        /\ GoWith(t, "attach", [turn[t] EXCEPT !.replaced = TRUE])
     \/ slot = f /\ Go(t, "attach") /\ UNCHANGED <<slot, file, revision>>
     \/ slot \notin {f, Intent} /\ Finish(t) /\ UNCHANGED <<slot, file, revision>>
  /\ UNCHANGED <<revoked, arguments, timeVars, job, historyVars, faults>>

\* attachManualIntent (MediaSyncStore) refuses a message that was unsent meanwhile.
AttachFile(t) ==
  LET f == turn[t].file IN
  /\ pc[t] = "attach"
  /\ \/ f \notin unsent /\ opened' = opened \cup {f} /\ Finish(t)
     \/ f \in unsent /\ turn[t].replaced /\ Go(t, "restore") /\ UNCHANGED opened
     \/ f \in unsent /\ ~turn[t].replaced /\ Finish(t) /\ UNCHANGED opened
  /\ UNCHANGED <<requesterVars, reviewHistory, evicted, saved, given, faults>>

RestoreIntent(t) ==
  /\ pc[t] = "restore" /\ Restore(turn[t].file) /\ Finish(t)
  /\ UNCHANGED <<revoked, arguments, file, revision, timeVars, job, historyVars, faults>>

\* consumeUploadIntent, unless this message is the pending one
TakeIntent(t) ==
  /\ pc[t] = "take_intent"
  /\ \/ slot = Intent /\ slot' = None /\ Go(t, "open_file")
     \/ slot # Intent /\ UNCHANGED slot /\ Finish(t)
  /\ UNCHANGED <<revoked, arguments, file, revision, timeVars, job, historyVars, faults>>

OpenFile(t) ==
  LET f == turn[t].file IN
  /\ pc[t] = "open_file" /\ Rewritten(f, "opt_in") /\ Displace(f)
  /\ opened' = opened \cup {f} /\ Finish(t)
  /\ UNCHANGED <<revoked, arguments, timeVars, job, reviewHistory, saved, given, faults>>

-----------------------------------------------------------------------------
(* The specification.                                                      *)

\* The process stops, or a call without a handler of its own raises.
TurnStops(t) ==
  /\ pc[t] \notin {"idle", "done"} /\ Finish(t) /\ Fault
  /\ UNCHANGED <<requesterVars, historyVars>>

Step(t) ==
  \/ Receive(t) \/ Upload(t) \/ Enter(t)
  \/ Lookup(t) \/ CheckJob(t) \/ TakeReview(t) \/ TakeArguments(t) \/ Execute(t)
  \/ Authorize(t) \/ StartJob(t) \/ Write(t) \/ Complete(t) \/ FailJob(t)
  \/ FindOld(t) \/ Revoke(t) \/ Preview(t) \/ CreateJob(t) \/ StoreReview(t)
  \/ StoreArguments(t) \/ UndoReview(t) \/ UndoArguments(t)
  \/ FindReset(t) \/ TakeReset(t) \/ DropArguments(t) \/ FindForm(t) \/ DropForm(t)
  \/ FindCancel(t) \/ TakeCancel(t)
  \/ FindFile(t) \/ OptIn(t) \/ EditFile(t) \/ TakeFile(t) \/ DropFile(t)
  \/ AllowUpload(t) \/ PromoteIntent(t) \/ AttachFile(t) \/ RestoreIntent(t)
  \/ TakeIntent(t) \/ OpenFile(t)
  \/ TurnStops(t)

Unsend ==
  /\ chat = "bound" /\ \E f \in Files \ unsent : unsent' = unsent \cup {f}
  /\ UNCHANGED <<requesterVars, chat, profile, lock, pc, turn, historyVars, faults>>

Environment ==
  \/ Unsend
  \/ TimePasses /\ UNCHANGED <<turnVars, historyVars, faults>>

Next == Environment \/ \E t \in Turns : Step(t)

Spec == Init /\ [][Next]_vars

-----------------------------------------------------------------------------
(* Properties.                                                             *)

\* The result job never contradicts what was done (action-executor.ts, jobs.ts): a review
\* told as rejected, cancelled, revised, reset or denied was not performed, one told as
\* completed was performed once, and one that was performed is not told as untouched.
JobTellsWrite ==
  \A r \in Reviews :
    /\ job[r].status = "failed" /\ r \notin withdrawn => written[r] = 0
    /\ job[r].status = "completed" => written[r] = 1
    /\ written[r] # 0 => job[r].started /\ written[r] = 1

\* "A modification invalidates the prior approval" (docs/architecture-context.md): the action
\* of a review is never performed after a later turn has revoked its approval, however the
\* confirmation, the revision and the stop of either interleave.
RevokedIsNeverWritten ==
  [][\A r \in Reviews : written'[r] # written[r] => r \notin revoked]_written

\* The attachment handed to the scan pipeline is the one the pressed button previewed, not a
\* later edit of it (takePendingAttachment with the expected session).
SavedAsPreviewed == \A s \in saved : s.revision = s.pressed

\* In a group one permission to upload opens at most one file for saving, whichever files
\* arrive at once, are delivered again or give the permission back because they were unsent.
OneFilePerPermission == Cardinality(opened \ unsent) <= given

InHand(r) == \E t \in Turns : turn[t].review = r

\* Unless something fails, its time is up, another session displaced it or its action was
\* disabled before it was confirmed (action-executor.ts leaves the job open then), a review
\* nobody can decide any more has an answer: its job is not told as still pending.
DroppedReviewIsAnswered ==
  faults = 0 =>
    \A r \in Reviews \ (late \cup evicted \cup barred) :
      slot # r /\ ~InHand(r) => Told(r) # "pending"
=============================================================================
