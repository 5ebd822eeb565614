---------------------------- MODULE WebhookTurn ----------------------------
(***************************************************************************)
(* The handling of a delivered LINE webhook event: the event loop of       *)
(* src/transport/line/webhook-routes.ts with its WebhookReceipt, the turn  *)
(* that may outlive the HTTP request (handleAgentOperationWithLongJob of   *)
(* postbacks.ts), and the agent job that keeps its result.  LINE may       *)
(* deliver an event again at any time, to the same or another replica.     *)
(***************************************************************************)
EXTENDS WebhookReceipts

CONSTANTS
  JobLease,         \* the execution lease of an agent job
  MaxFaults         \* bounds the crashes, lost replies and failed calls

ASSUME TurnAssumption ==
  JobLease \in Nat \ {0} /\ MaxFaults \in Nat

VARIABLES
  pc,               \* pc[t]: the next step of turn t
  turn,             \* turn[t]: its local variables
  replying,         \* replying[t]: where its call of the line client stands
  button,           \* button[e]: the one-shot session of the group reply button e clicks on
  job,              \* job[e]: the agent job under the operation id of e
  outcome,          \* history: what the handler of e did
  executions,       \* history: how often the handler of e ran
  sent,             \* history: how often turn t sent the reply token of its event to LINE
  faults            \* crashes, lost replies and failed calls so far

vars == <<receiptVars, pc, turn, replying, button, job, outcome, executions, sent, faults>>
localVars == <<pc, turn, replying, sent>>
worldVars == <<button, job, outcome, executions>>

TurnSteps ==
  {"idle", "take", "claim", "admit", "start", "create_job", "mark_job", "execute",
   "settle_job", "fail_job", "answer", "finish", "farewell", "done"}

TurnRecord ==
  [event : Events \cup {Nobody},
   started : BOOLEAN, lost : BOOLEAN,     \* fields of the WebhookReceipt object
   jobbed : BOOLEAN, deferred : BOOLEAN,
   failed : BOOLEAN]                      \* an exception is on its way

NoTurn ==
  [event |-> Nobody, started |-> FALSE, lost |-> FALSE, jobbed |-> FALSE,
   deferred |-> FALSE, failed |-> FALSE]

JobRecord ==
  [status : {"none", "pending", "completed", "failed", "uncertain"}, started : BOOLEAN,
   lease : 0 .. JobLease]

Init ==
  /\ ReceiptInit
  /\ pc = [t \in Turns |-> "idle"]
  /\ turn = [t \in Turns |-> NoTurn]
  /\ replying = [t \in Turns |-> "no"]
  /\ button \in [Events -> {"none", "armed"}]
  /\ job = [e \in Events |-> [status |-> "none", started |-> FALSE, lease |-> 0]]
  /\ outcome = [e \in Events |-> "none"]
  /\ executions = [e \in Events |-> 0]
  /\ sent = [t \in Turns |-> 0]
  /\ faults = 0

Fault == faults < MaxFaults /\ faults' = faults + 1
NoFault == UNCHANGED faults

Event(t) == turn[t].event

Go(t, step) == pc' = [pc EXCEPT ![t] = step] /\ UNCHANGED turn
GoWith(t, step, locals) ==
  pc' = [pc EXCEPT ![t] = step] /\ turn' = [turn EXCEPT ![t] = locals]

\* An exception ends in the finally of the event loop, which finishes the receipt.
Throw(t) == GoWith(t, "finish", [turn[t] EXCEPT !.failed = TRUE])

Reply(t) == replying' = [replying EXCEPT ![t] = "attempt"]

-----------------------------------------------------------------------------
(* Delivery, the button, the claim, and admission.                         *)

Deliver(t, e) ==
  /\ pc[t] = "idle"
  /\ GoWith(t, IF button[e] = "none" THEN "claim" ELSE "take", [NoTurn EXCEPT !.event = e])
  /\ UNCHANGED <<receiptVars, replying, sent, worldVars, faults>>

\* takeGroupReply takes the one-shot session before the receipt is claimed.
TakeButton(t) ==
  LET e == Event(t) IN
  /\ pc[t] = "take"
  /\ \/ /\ button[e] = "armed" /\ button' = [button EXCEPT ![e] = "taken"]
        /\ (Go(t, "claim") /\ NoFault) \/ (Go(t, "done") /\ Fault)
     \/ button[e] = "taken" /\ UNCHANGED button /\ Go(t, "done") /\ NoFault
  /\ UNCHANGED <<receiptVars, replying, sent, job, outcome, executions>>

ClaimEvent(t) ==
  LET e == Event(t) IN
  /\ pc[t] = "claim"
  /\ \/ ClaimReceipt(e, t) /\ Go(t, "admit") /\ NoFault
     \/ ClaimReceipt(e, t) /\ Go(t, "done") /\ Fault
     \/ FindLapsed(e) /\ Go(t, "done") /\ NoFault
     \/ /\ ~Claimable(e) /\ ~(receipt[e].phase = "started" /\ Lapsed(e))
        /\ UNCHANGED receiptVars /\ Go(t, "done") /\ NoFault
  /\ UNCHANGED <<replying, sent, worldVars>>

\* Rate limit and access gates refuse silently or with a reply, let the event pass,
\* or fail in a dependency.
Admit(t) ==
  /\ pc[t] = "admit"
  /\ \/ Go(t, "start") /\ UNCHANGED replying /\ NoFault
     \/ Go(t, "finish") /\ UNCHANGED replying /\ NoFault
     \/ Go(t, "answer") /\ Reply(t) /\ NoFault
     \/ Throw(t) /\ UNCHANGED replying /\ Fault
  /\ UNCHANGED <<receiptVars, sent, worldVars>>

-----------------------------------------------------------------------------
(* Start, the agent job, and the handler.                                  *)

StartUnfenced(t) ==                      \* faulty: not conditional on the owner's lease
  /\ pc[t] = "start" /\ receipt[Event(t)].phase \notin Settled
  /\ receipt' = [receipt EXCEPT ![Event(t)].phase = "started"]
  /\ dispatches' = [dispatches EXCEPT ![Event(t)] = @ + 1]
  /\ GoWith(t, "execute", [turn[t] EXCEPT !.started = TRUE]) /\ NoFault
  /\ UNCHANGED <<replying, sent, worldVars>>

\* start of the WebhookReceipt; a lost reply leaves its started flag down.
StartTurn(t) ==
  LET e == Event(t)  begun == [turn[t] EXCEPT !.started = TRUE] IN
  /\ pc[t] = "start"
  /\ \/ /\ ~turn[t].lost /\ StartReceipt(e, t) /\ NoFault
        /\ \/ GoWith(t, "create_job", [begun EXCEPT !.jobbed = TRUE])
           \/ GoWith(t, "execute", begun)
     \/ ~turn[t].lost /\ StartReceipt(e, t) /\ Throw(t) /\ Fault
     \/ ~turn[t].lost /\ UNCHANGED receiptVars /\ Throw(t) /\ Fault
     \/ /\ turn[t].lost \/ ~CanStart(e, t)
        /\ UNCHANGED receiptVars /\ Throw(t) /\ NoFault
  /\ UNCHANGED <<replying, sent, worldVars>>

jobCallUnchanged == <<receiptVars, replying, sent, button, outcome, executions>>

\* CREATE_JOB returns the record that is there already.
CreateJob(t) ==
  LET e == Event(t) IN
  /\ pc[t] = "create_job"
  /\ \/ /\ job' = IF job[e].status = "none" THEN [job EXCEPT ![e].status = "pending"] ELSE job
        /\ (Go(t, "mark_job") /\ NoFault) \/ (Throw(t) /\ Fault)
     \/ UNCHANGED job /\ Throw(t) /\ Fault
  /\ UNCHANGED jobCallUnchanged

CanMarkStarted(e) == job[e].status = "pending" /\ ~job[e].started

\* An operation that was started before is answered with a button to its result.
MarkJobStarted(t) ==
  LET e == Event(t) IN
  /\ pc[t] = "mark_job"
  /\ \/ /\ job' = IF CanMarkStarted(e)
                    THEN [job EXCEPT ![e].started = TRUE, ![e].lease = JobLease] ELSE job
        /\ \/ Go(t, IF CanMarkStarted(e) THEN "execute" ELSE "answer") /\ NoFault
           \/ Throw(t) /\ Fault
     \/ UNCHANGED job /\ Throw(t) /\ Fault
  /\ UNCHANGED jobCallUnchanged

\* fail of the job store: only a pending job fails, as "uncertain" if it may have run.
FailJobAs(e, status) ==
  job' = IF job[e].status = "pending" THEN [job EXCEPT ![e].status = status] ELSE job

CompleteJob(e) ==
  job' = IF job[e].status \in {"completed", "failed"} THEN job
         ELSE [job EXCEPT ![e].status = "completed"]

Run(t, did) ==
  /\ executions' = [executions EXCEPT ![Event(t)] = @ + 1]
  /\ outcome' = [outcome EXCEPT ![Event(t)] = did]

\* The handler runs without looking at the receipt again.
Execute(t) ==
  /\ pc[t] = "execute"
  /\ \/ Run(t, "done") /\ Go(t, IF turn[t].jobbed THEN "settle_job" ELSE "answer")
     \/ /\ Run(t, "threw")
        /\ IF turn[t].jobbed THEN Go(t, "fail_job") ELSE Throw(t)
  /\ replying' =
       IF pc'[t] = "answer" THEN [replying EXCEPT ![t] = "attempt"] ELSE replying
  /\ UNCHANGED <<receiptVars, sent, button, job, faults>>

\* isCurrent of the quote context: the question was withdrawn before the handler ran.
ContextInvalidated(t) ==
  /\ pc[t] = "execute" /\ turn[t].jobbed
  /\ \/ FailJobAs(Event(t), "failed") /\ Go(t, "finish") /\ NoFault
     \/ UNCHANGED job /\ Go(t, "fail_job") /\ Fault
  /\ UNCHANGED jobCallUnchanged

\* complete and the get that checks it, or fail for a result nobody owns.
SettleJob(t) ==
  LET e == Event(t) IN
  /\ pc[t] = "settle_job"
  /\ \/ /\ CompleteJob(e) \/ FailJobAs(e, "failed")
        /\ (Go(t, "finish") /\ NoFault) \/ (Go(t, "fail_job") /\ Fault)
     \/ UNCHANGED job /\ Go(t, "fail_job") /\ Fault
  /\ UNCHANGED jobCallUnchanged

FailJobPlainly(t) ==                     \* faulty: reports a failure, not uncertainty
  /\ pc[t] = "fail_job"
  /\ FailJobAs(Event(t), "failed") /\ Throw(t) /\ NoFault
  /\ UNCHANGED jobCallUnchanged

\* The catch of the turn: fail(execution_uncertain), whose own error is swallowed.
FailJob(t) ==
  /\ pc[t] = "fail_job"
  /\ \/ FailJobAs(Event(t), "uncertain") /\ NoFault
     \/ UNCHANGED job /\ Fault
  /\ Throw(t)
  /\ UNCHANGED jobCallUnchanged

-----------------------------------------------------------------------------
(* The line client, deferral, and the end of the turn.                     *)

ReplyTo(t, step) == replying' = [replying EXCEPT ![t] = step]

\* An error of the receipt store reaches the caller unless its reply is best effort.
ReplyError(t) ==
  /\ Fault /\ ReplyTo(t, "no")
  /\ \/ UNCHANGED turn
     \/ pc[t] = "answer" /\ turn' = [turn EXCEPT ![t].failed = TRUE]

AttemptReply(t) ==
  LET e == Event(t) IN
  /\ replying[t] = "attempt"
  /\ \/ NoteDelivery(e, t, "attempted") /\ ReplyTo(t, "send") /\ UNCHANGED turn /\ NoFault
     \/ NoteDelivery(e, t, "attempted") /\ ReplyError(t)
     \/ /\ ~CanNoteDelivery(e, t, "attempted")
        /\ UNCHANGED <<receiptVars, turn>> /\ ReplyTo(t, "no") /\ NoFault
  /\ UNCHANGED <<pc, sent, worldVars>>

SendReply(t) ==
  /\ replying[t] = "send"
  /\ sent' = [sent EXCEPT ![t] = @ + 1]
  /\ ReplyTo(t, "note")
  /\ UNCHANGED <<receiptVars, pc, turn, worldVars, faults>>

NoteReply(t) ==
  LET e == Event(t) IN
  /\ replying[t] = "note"
  /\ \E status \in {"accepted", "unknown"} :
       \/ /\ NoteDelivery(e, t, status)
          /\ \/ ReplyTo(t, "no") /\ UNCHANGED turn /\ NoFault
             \/ ReplyError(t)
       \/ /\ ~CanNoteDelivery(e, t, status) /\ UNCHANGED receiptVars
          /\ ReplyTo(t, "no") /\ UNCHANGED turn /\ NoFault
  /\ UNCHANGED <<pc, sent, worldVars>>

AfterReply(t) ==
  /\ pc[t] \in {"answer", "farewell"} /\ replying[t] = "no"
  /\ Go(t, IF pc[t] = "answer" THEN "finish" ELSE "done")
  /\ UNCHANGED <<receiptVars, replying, sent, worldVars, faults>>

\* A handler may call the line client more than once.
ReplyAgain(t) ==
  /\ pc[t] = "answer" /\ replying[t] = "no" /\ ~turn[t].failed
  /\ Reply(t)
  /\ UNCHANGED <<receiptVars, pc, turn, sent, worldVars, faults>>

\* The inline budget runs out: the request is answered with a button to the result
\* while the turn goes on, and then finishes the receipt by itself.
Defer(t) ==
  /\ turn[t].jobbed /\ ~turn[t].deferred
  /\ pc[t] \in {"execute", "settle_job", "fail_job"}
  /\ turn' = [turn EXCEPT ![t].deferred = TRUE]
  /\ Reply(t)
  /\ UNCHANGED <<receiptVars, pc, sent, worldVars, faults>>

FinishesCompleted(t) ==                  \* faulty: swallows the exception
  IF turn[t].started \/ ~turn[t].failed THEN "completed" ELSE "release"

\* The transition finish asks for.
FinishAs(t) ==
  IF ~turn[t].failed THEN "completed"
  ELSE IF turn[t].started THEN "uncertain" ELSE "release"

CanFinish(t) ==
  IF FinishAs(t) = "release" THEN CanRelease(Event(t), t) ELSE Open(Event(t), t)

AppliesFinish(t) ==
  IF FinishAs(t) = "release" THEN ReleaseReceipt(Event(t), t)
  ELSE SettleReceipt(Event(t), t, FinishAs(t))

\* A turn that was not deferred answers with its result once its receipt is settled.
FinishTurn(t) ==
  LET answers == turn[t].jobbed /\ ~turn[t].deferred /\ ~turn[t].failed IN
  /\ pc[t] = "finish"
  /\ \/ /\ AppliesFinish(t) /\ NoFault
        /\ IF answers THEN Go(t, "farewell") /\ Reply(t) ELSE Go(t, "done") /\ UNCHANGED replying
     \/ AppliesFinish(t) /\ Go(t, "done") /\ UNCHANGED replying /\ Fault
     \/ ~CanFinish(t) /\ UNCHANGED receiptVars /\ Go(t, "done") /\ UNCHANGED replying /\ NoFault
  /\ UNCHANGED <<sent, worldVars>>

-----------------------------------------------------------------------------
(* Heartbeats, crashes, other writers of the same key, and time.           *)

\* The heartbeat of the WebhookReceipt; it may be late, or the process may stall.
Heartbeat(t) ==
  LET e == Event(t)  bereft == [turn EXCEPT ![t].lost = TRUE] IN
  /\ pc[t] \notin {"idle", "take", "claim", "farewell", "done"}
  /\ \/ RenewReceipt(e, t) /\ UNCHANGED turn /\ NoFault
     \/ ~Open(e, t) /\ UNCHANGED receiptVars /\ turn' = bereft /\ NoFault
     \/ UNCHANGED receiptVars /\ turn' = bereft /\ Fault
  /\ UNCHANGED <<pc, replying, sent, worldVars>>

JobHeartbeat(t) ==
  LET e == Event(t) IN
  /\ turn[t].jobbed /\ pc[t] \in {"execute", "settle_job", "fail_job", "finish"}
  /\ job[e].status = "pending" /\ job[e].started /\ job[e].lease > 0
  /\ job' = [job EXCEPT ![e].lease = JobLease]
  /\ UNCHANGED <<receiptVars, localVars, button, outcome, executions, faults>>

CrashTurn(t) ==
  /\ pc[t] \notin {"idle", "done"} \/ replying[t] # "no"
  /\ Fault
  /\ Go(t, "done") /\ ReplyTo(t, "no")
  /\ UNCHANGED <<receiptVars, sent, worldVars>>

\* The event is handled as a media event, or by a replica of an earlier release.
HandledElsewhere(e) ==
  /\ TryStart(e)
  /\ executions' = [executions EXCEPT ![e] = @ + 1]
  /\ UNCHANGED <<localVars, button, job, outcome, faults>>

Tick ==
  /\ AgeReceipts
  /\ job' = [e \in Events |-> [job[e] EXCEPT !.lease = IF @ > 0 THEN @ - 1 ELSE 0]]
  /\ UNCHANGED <<localVars, button, outcome, executions, faults>>

\* The steps the process of t takes by itself.
Proceed(t) ==
  \/ TakeButton(t) \/ ClaimEvent(t) \/ Admit(t) \/ StartTurn(t) \/ CreateJob(t)
  \/ MarkJobStarted(t) \/ Execute(t) \/ ContextInvalidated(t) \/ SettleJob(t) \/ FailJob(t)
  \/ AttemptReply(t) \/ SendReply(t) \/ NoteReply(t) \/ AfterReply(t) \/ FinishTurn(t)

Next ==
  \/ \E t \in Turns :
       \/ \E e \in Events : Deliver(t, e)
       \/ Proceed(t) \/ ReplyAgain(t) \/ Defer(t)
       \/ Heartbeat(t) \/ JobHeartbeat(t) \/ CrashTurn(t)
  \/ \E e \in Events : HandledElsewhere(e)
  \/ Tick

Spec == Init /\ [][Next]_vars

\* A process that is not stopped goes on, and time passes.
FairSpec == Spec /\ (\A t \in Turns : WF_vars(Proceed(t))) /\ WF_vars(Tick)

-----------------------------------------------------------------------------
(* Properties.                                                             *)

\* Every variable of a turn stays in its type.
TurnTypeOK ==
  /\ ReceiptTypeOK
  /\ pc \in [Turns -> TurnSteps]
  /\ turn \in [Turns -> TurnRecord]
  /\ replying \in [Turns -> {"no", "attempt", "send", "note"}]
  /\ button \in [Events -> {"none", "armed", "taken"}]
  /\ job \in [Events -> JobRecord]
  /\ outcome \in [Events -> {"none", "done", "threw"}]
  /\ executions \in [Events -> Nat]
  /\ sent \in [Turns -> Nat]
  /\ faults \in Nat

\* The handler of an event runs at most once, however often LINE delivers the event and
\* whichever of its turns stall, lose their lease, fail or crash.
AtMostOneExecution == \A e \in Events : executions[e] <= 1

\* A receipt never denies what happened: an event that can be claimed has not run, an
\* uncertain one was dispatched, and a completed one did not end in an exception.
ReceiptTellsHistory ==
  \A e \in Events :
    /\ receipt[e].phase \in {"none", "admitting"} => executions[e] = 0
    /\ receipt[e].phase = "uncertain" => dispatches[e] = 1
    /\ receipt[e].phase = "completed" => outcome[e] # "threw"

\* One turn sends its reply token at most once, though it may call the line client
\* several times and go on after its request was answered.
OneReplyPerTurn == \A t \in Turns : sent[t] <= 1

\* projectJob: what the requester is shown of a job.
ViewStored(e) == job[e].status           \* faulty: a dead execution stays pending

View(e) ==
  IF job[e].status = "pending" /\ job[e].started /\ job[e].lease = 0 THEN "uncertain"
  ELSE job[e].status

\* A handler that may have written something and then failed is never shown as failed,
\* which would invite the requester to ask for the write again.
FailedRunIsUncertain ==
  \A e \in Events :
    outcome[e] = "threw" /\ job[e].started => View(e) \in {"pending", "uncertain"}

\* README.md:538-539 of the repository: "If a process crashes after dispatch, the result
\* becomes uncertain when its execution lease ends", and it is never pending for good.
ResultEventuallyKnown ==
  \A e \in Events : job[e].started ~> View(e) # "pending"

=============================================================================
