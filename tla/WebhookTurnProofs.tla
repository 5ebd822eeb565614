------------------------- MODULE WebhookTurnProofs -------------------------
(***************************************************************************)
(* Proofs about WebhookTurn, for any number of events, turns and faults    *)
(* and any lengths of the leases.                                          *)
(*                                                                         *)
(* The safety properties of a turn are not inductive.  TurnInv relates the *)
(* place a turn has reached to the receipt of its event: a turn about to   *)
(* run a handler is the last owner of a receipt that nobody can claim any  *)
(* more, so no two turns run the handler of one event, and whoever settles *)
(* the receipt knows how the handler ended.                                *)
(***************************************************************************)
EXTENDS WebhookTurn, TLAPS

-----------------------------------------------------------------------------
(* WebhookReceipts: each operation is first described by what it does to the phase, owner and
   delivery of a receipt; leases do not matter from then on.  That no event is dispatched twice
   follows from one invariant: a receipt that can still be claimed has never been dispatched. *)

USE DEF Settled, Phases, ReplyStates

SameClaim(e) ==
  /\ receipt'[e].phase = receipt[e].phase /\ receipt'[e].owner = receipt[e].owner
  /\ receipt'[e].delivery = receipt[e].delivery
  /\ dispatches'[e] = dispatches[e]

\* The receipt of e is now at phase, and the receipts of other events are untouched.
Moved(e, phase, owner, delivery, n) ==
  /\ receipt'[e].phase = phase /\ receipt'[e].owner = owner
  /\ receipt'[e].delivery = delivery
  /\ dispatches'[e] = dispatches[e] + n
  /\ \A f \in Events \ {e} : SameClaim(f)

AllSameClaim == \A e \in Events : SameClaim(e)

-----------------------------------------------------------------------------
(* Updates of one record, in a context without the invariants.             *)

LEMMA UpdateClaimed ==
  ASSUME NEW t \in Turns
  PROVE  [phase |-> "admitting", owner |-> t, lease |-> ReceiptLease,
          delivery |-> "not_attempted"] \in ReceiptRecord
  BY ReceiptAssumption DEF ReceiptRecord

LEMMA UpdatePhase ==
  ASSUME NEW r \in ReceiptRecord, NEW phase \in Phases
  PROVE  [r EXCEPT !.phase = phase] \in ReceiptRecord
  BY DEF ReceiptRecord

LEMMA UpdateLease ==
  ASSUME NEW r \in ReceiptRecord, NEW l \in 0 .. ReceiptLease
  PROVE  /\ [r EXCEPT !.lease = l] \in ReceiptRecord
         /\ [r EXCEPT !.lease = l].phase = r.phase
         /\ [r EXCEPT !.lease = l].owner = r.owner
         /\ [r EXCEPT !.lease = l].delivery = r.delivery
  BY DEF ReceiptRecord

LEMMA UpdateDelivery ==
  ASSUME NEW r \in ReceiptRecord, NEW status \in ReplyStates
  PROVE  [r EXCEPT !.delivery = status] \in ReceiptRecord
  BY DEF ReceiptRecord

-----------------------------------------------------------------------------
(* What each operation does.                                               *)

LEMMA ClaimShape ==
  ASSUME ReceiptTypeOK, NEW e \in Events, NEW t \in Turns, ClaimReceipt(e, t)
  PROVE  /\ ReceiptTypeOK' /\ receipt[e].phase \in {"none", "admitting"}
         /\ Moved(e, "admitting", t, "not_attempted", 0)
  <1> DEFINE r == [phase |-> "admitting", owner |-> t, lease |-> ReceiptLease,
                   delivery |-> "not_attempted"]
  <1>1. r \in ReceiptRecord BY UpdateClaimed
  <1>2. receipt' = [receipt EXCEPT ![e] = r] /\ dispatches' = dispatches
    BY DEF ClaimReceipt
  <1>3. r.phase = "admitting" /\ r.owner = t /\ r.delivery = "not_attempted" OBVIOUS
  <1> HIDE DEF r
  <1>4. ReceiptTypeOK' BY <1>1, <1>2 DEF ReceiptTypeOK
  <1> QED BY <1>2, <1>3, <1>4 DEF ReceiptTypeOK, Moved, SameClaim, ClaimReceipt, Claimable

\* The operations that change only the phase.
LEMMA PhaseShape ==
  ASSUME ReceiptTypeOK, NEW e \in Events, NEW phase \in Phases, NEW n \in {0, 1},
         receipt' = [receipt EXCEPT ![e].phase = phase],
         dispatches' = [dispatches EXCEPT ![e] = @ + n]
  PROVE  ReceiptTypeOK' /\ Moved(e, phase, receipt[e].owner, receipt[e].delivery, n)
  <1>1. receipt[e] \in ReceiptRecord BY DEF ReceiptTypeOK
  <1>2. [receipt[e] EXCEPT !.phase = phase] \in ReceiptRecord BY <1>1, UpdatePhase
  <1>3. receipt' \in [Events -> ReceiptRecord] BY <1>2 DEF ReceiptTypeOK
  <1>4. dispatches' \in [Events -> Nat] BY DEF ReceiptTypeOK
  <1>5. Moved(e, phase, receipt[e].owner, receipt[e].delivery, n)
    BY <1>1 DEF ReceiptTypeOK, ReceiptRecord, Moved, SameClaim
  <1> QED BY <1>3, <1>4, <1>5 DEF ReceiptTypeOK

LEMMA NoDispatch ==
  ASSUME ReceiptTypeOK, NEW e \in Events, UNCHANGED dispatches
  PROVE  dispatches' = [dispatches EXCEPT ![e] = @ + 0]
  BY DEF ReceiptTypeOK

LEMMA LapsedShape ==
  ASSUME ReceiptTypeOK, NEW e \in Events, FindLapsed(e)
  PROVE  /\ ReceiptTypeOK' /\ receipt[e].phase = "started"
         /\ Moved(e, "uncertain", receipt[e].owner, receipt[e].delivery, 0)
  BY NoDispatch, PhaseShape DEF FindLapsed

LEMMA TryStartShape ==
  ASSUME ReceiptTypeOK, NEW e \in Events, TryStart(e)
  PROVE  /\ ReceiptTypeOK' /\ receipt[e].phase = "none"
         /\ Moved(e, "legacy", receipt[e].owner, receipt[e].delivery, 1)
  BY PhaseShape DEF TryStart

LEMMA StartShape ==
  ASSUME ReceiptTypeOK, NEW e \in Events, NEW t \in Turns, StartReceipt(e, t)
  PROVE  /\ ReceiptTypeOK' /\ receipt[e].phase = "admitting" /\ receipt[e].owner = t
         /\ Moved(e, "started", t, receipt[e].delivery, 1)
  BY PhaseShape DEF StartReceipt, CanStart, Open, Owns

LEMMA SettleShape ==
  ASSUME ReceiptTypeOK, NEW e \in Events, NEW t \in Turns, NEW phase \in Settled,
         SettleReceipt(e, t, phase)
  PROVE  /\ ReceiptTypeOK' /\ receipt[e].phase \notin Settled /\ receipt[e].owner = t
         /\ Moved(e, phase, t, receipt[e].delivery, 0)
  BY NoDispatch, PhaseShape DEF SettleReceipt, Open, Owns

LEMMA NoteShape ==
  ASSUME ReceiptTypeOK, NEW e \in Events, NEW t \in Turns,
         NEW status \in ReplyStates \ {"not_attempted"}, NoteDelivery(e, t, status)
  PROVE  /\ ReceiptTypeOK' /\ receipt[e].owner = t
         /\ Moved(e, receipt[e].phase, t, status, 0)
         /\ status = "attempted" => receipt[e].delivery = "not_attempted"
  <1>1. receipt[e] \in ReceiptRecord BY DEF ReceiptTypeOK
  <1>2. [receipt[e] EXCEPT !.delivery = status] \in ReceiptRecord BY <1>1, UpdateDelivery
  <1>3. ReceiptTypeOK' BY <1>2 DEF ReceiptTypeOK, NoteDelivery
  <1>4. Moved(e, receipt[e].phase, receipt[e].owner, status, 0)
    BY <1>1 DEF ReceiptTypeOK, ReceiptRecord, Moved, SameClaim, NoteDelivery
  <1> QED BY <1>3, <1>4 DEF NoteDelivery, CanNoteDelivery, Owns

\* The operations that change only the lease.
LEMMA LeaseShape ==
  ASSUME ReceiptTypeOK, NEW e \in Events, NEW t \in Turns,
         RenewReceipt(e, t) \/ ReleaseReceipt(e, t)
  PROVE  ReceiptTypeOK' /\ AllSameClaim
  <1> PICK l \in 0 .. ReceiptLease :
        receipt' = [receipt EXCEPT ![e].lease = l] /\ UNCHANGED dispatches
    BY ReceiptAssumption DEF RenewReceipt, ReleaseReceipt
  <1> DEFINE r == [receipt[e] EXCEPT !.lease = l]
  <1>1. receipt[e] \in ReceiptRecord BY DEF ReceiptTypeOK
  <1>2. /\ r \in ReceiptRecord /\ r.phase = receipt[e].phase /\ r.owner = receipt[e].owner
        /\ r.delivery = receipt[e].delivery
    BY <1>1, UpdateLease
  <1>3. receipt' = [receipt EXCEPT ![e] = r] OBVIOUS
  <1> HIDE DEF r
  <1> QED BY <1>2, <1>3 DEF ReceiptTypeOK, AllSameClaim, SameClaim

LEMMA AgeShape ==
  ASSUME ReceiptTypeOK, AgeReceipts
  PROVE  ReceiptTypeOK' /\ AllSameClaim
  <1> DEFINE l(e) == IF receipt[e].lease > 0 THEN receipt[e].lease - 1 ELSE 0
             r(e) == [receipt[e] EXCEPT !.lease = l(e)]
  <1>1. ASSUME NEW e \in Events
        PROVE  /\ r(e) \in ReceiptRecord /\ r(e).phase = receipt[e].phase
               /\ r(e).owner = receipt[e].owner /\ r(e).delivery = receipt[e].delivery
    <2>1. receipt[e] \in ReceiptRecord BY DEF ReceiptTypeOK
    <2>2. receipt[e].lease \in 0 .. ReceiptLease BY <2>1 DEF ReceiptRecord
    <2>3. l(e) \in 0 .. ReceiptLease BY <2>2, ReceiptAssumption
    <2> HIDE DEF l
    <2> QED BY <2>1, <2>3, UpdateLease
  <1>2. receipt' = [e \in Events |-> r(e)] /\ UNCHANGED dispatches BY DEF AgeReceipts
  <1> HIDE DEF r
  <1> QED BY <1>1, <1>2 DEF ReceiptTypeOK, AllSameClaim, SameClaim

-----------------------------------------------------------------------------
(* The invariant of the store.                                             *)

DispatchesFollowPhase(e) ==
  /\ dispatches[e] <= 1
  /\ receipt[e].phase \in {"none", "admitting"} => dispatches[e] = 0

ReceiptInv == ReceiptTypeOK /\ \A e \in Events : DispatchesFollowPhase(e)

LEMMA ReceiptStepInv ==
  ASSUME ReceiptInv, NEW e \in Events, NEW t \in Turns, OwnerCall(e, t)
  PROVE  ReceiptInv'
  <1> USE DEF ReceiptInv, DispatchesFollowPhase, Moved, SameClaim, AllSameClaim
  <1>0. dispatches \in [Events -> Nat] BY DEF ReceiptTypeOK
  <1>1. CASE ClaimReceipt(e, t) BY <1>0, <1>1, ClaimShape
  <1>2. CASE StartReceipt(e, t) BY <1>0, <1>2, StartShape
  <1>3. CASE ReleaseReceipt(e, t) \/ RenewReceipt(e, t) BY <1>3, LeaseShape
  <1>4. ASSUME NEW phase \in Settled, SettleReceipt(e, t, phase) PROVE ReceiptInv'
    BY <1>0, <1>4, SettleShape
  <1>5. ASSUME NEW status \in ReplyStates \ {"not_attempted"}, NoteDelivery(e, t, status)
        PROVE  ReceiptInv'
    BY <1>0, <1>5, NoteShape
  <1> QED BY <1>1, <1>2, <1>3, <1>4, <1>5 DEF OwnerCall

LEMMA ReceiptNextInv ==
  ASSUME ReceiptInv, [ReceiptNext]_receiptVars
  PROVE  ReceiptInv'
  <1> USE DEF ReceiptInv, DispatchesFollowPhase, Moved, SameClaim, AllSameClaim
  <1>0. dispatches \in [Events -> Nat] BY DEF ReceiptTypeOK
  <1>1. CASE AgeReceipts BY <1>1, AgeShape
  <1>2. ASSUME NEW e \in Events, FindLapsed(e) PROVE ReceiptInv'
    BY <1>0, <1>2, LapsedShape
  <1>3. ASSUME NEW e \in Events, TryStart(e) PROVE ReceiptInv'
    BY <1>0, <1>3, TryStartShape
  <1>4. ASSUME NEW e \in Events, NEW t \in Turns, OwnerCall(e, t) PROVE ReceiptInv'
    BY <1>4, ReceiptStepInv
  <1>5. CASE UNCHANGED receiptVars BY <1>5 DEF receiptVars, ReceiptTypeOK
  <1> QED BY <1>1, <1>2, <1>3, <1>4, <1>5 DEF ReceiptNext

THEOREM ReceiptInvariant == ReceiptSpec => []ReceiptInv
  <1>1. ReceiptInit => ReceiptInv
    BY ReceiptAssumption
       DEF ReceiptInit, NoReceipt, ReceiptInv, ReceiptTypeOK, ReceiptRecord,
           DispatchesFollowPhase
  <1>2. ReceiptInv /\ [ReceiptNext]_receiptVars => ReceiptInv' BY ReceiptNextInv
  <1> QED BY <1>1, <1>2, PTL DEF ReceiptSpec

\* The store lets the handler of an event start at most once, whoever claims, stalls,
\* calls late or loses a reply.
THEOREM DispatchedAtMostOnce == ReceiptSpec => []AtMostOneDispatch
  <1>1. ReceiptInv => AtMostOneDispatch
    BY DEF ReceiptInv, DispatchesFollowPhase, AtMostOneDispatch
  <1> QED BY <1>1, ReceiptInvariant, PTL

-----------------------------------------------------------------------------

BeforeClaim == {"idle", "take", "claim"}
Early == BeforeClaim \cup {"admit", "start"}
Ready == {"create_job", "mark_job", "execute"}     \* dispatched; the handler has not run
Running == Ready \cup {"settle_job", "fail_job"}

\* A turn has an event from its delivery on, and does nothing before its claim.
TurnInOrder(t) ==
  /\ pc[t] # "idle" => Event(t) \in Events
  /\ pc[t] \in BeforeClaim => sent[t] = 0 /\ replying[t] = "no" /\ ~turn[t].started
  /\ pc[t] \in Early => ~turn[t].failed /\ ~turn[t].jobbed
  /\ turn[t].started => dispatches[Event(t)] = 1

\* A turn that may still run the handler, or report on its job, owned the receipt last.
RunningOwns(t) ==
  LET e == Event(t) IN
  /\ pc[t] \in Running =>
       /\ receipt[e].owner = t /\ receipt[e].phase \in {"started", "uncertain"}
       /\ turn[t].started /\ ~turn[t].failed
  /\ pc[t] \in Ready => executions[e] = 0 /\ outcome[e] = "none"
  /\ pc[t] \in {"create_job", "mark_job"} => turn[t].jobbed
  /\ pc[t] = "create_job" => job[e].status = "none"
  /\ pc[t] \in {"create_job", "mark_job"} => ~job[e].started
  /\ pc[t] = "mark_job" => job[e].status = "pending"
  /\ pc[t] = "execute" => IF turn[t].jobbed THEN job[e].status = "pending" ELSE ~job[e].started
  /\ pc[t] = "settle_job" => outcome[e] # "threw"

\* What was sent cannot be sent again by the same owner.
ReplySpent(t) ==
  /\ sent[t] <= 1
  /\ replying[t] = "send" => sent[t] = 0
  /\ (sent[t] = 1 \/ replying[t] \in {"send", "note"}) /\ receipt[Event(t)].owner = t =>
       receipt[Event(t)].delivery # "not_attempted"

\* A receipt that can be claimed has no history yet, and a dispatch is never undone.
ReceiptKeepsHistory(e) ==
  /\ receipt[e].phase \in {"none", "admitting"} => dispatches[e] = 0 /\ executions[e] = 0
  /\ receipt[e].phase \in {"none", "admitting", "legacy"} =>
       outcome[e] = "none" /\ job[e].status = "none" /\ ~job[e].started
  /\ receipt[e].phase \in {"started", "uncertain"} => dispatches[e] = 1
  /\ dispatches[e] <= 1 /\ executions[e] <= 1
  /\ \A t \in Turns : receipt[e].owner = t => Event(t) = e /\ pc[t] \notin BeforeClaim

\* An exception stays with the last owner until its receipt is uncertain.
ThrewIsUncertain(e) ==
  outcome[e] = "threw" =>
    /\ receipt[e].phase \in {"started", "uncertain"}
    /\ job[e].started => job[e].status \in {"pending", "uncertain"}
    /\ \A t \in Turns : receipt[e].owner = t =>
         pc[t] \in {"done", "fail_job"} \/ turn[t].failed

TurnParts ==
  /\ \A t \in Turns : TurnInOrder(t) /\ RunningOwns(t) /\ ReplySpent(t)
  /\ \A e \in Events : ReceiptKeepsHistory(e) /\ ThrewIsUncertain(e)

TurnInv == TurnTypeOK /\ TurnParts

-----------------------------------------------------------------------------
(* The local variables of a turn, by the ways a step writes them.          *)

USE DEF Settled, Phases, ReplyStates, TurnSteps, BeforeClaim, Early, Ready, Running

ReplySteps == {"no", "attempt", "send", "note"}

LocalsOK ==
  /\ pc \in [Turns -> TurnSteps] /\ turn \in [Turns -> TurnRecord]
  /\ replying \in [Turns -> ReplySteps] /\ sent \in [Turns -> Nat]

\* Turn t is now at step, and the place and locals of other turns are untouched.
At(t, step) ==
  /\ pc' \in [Turns -> TurnSteps] /\ turn' \in [Turns -> TurnRecord]
  /\ pc'[t] = step
  /\ \A u \in Turns \ {t} : pc'[u] = pc[u] /\ turn'[u] = turn[u]

SameTurn(t) ==
  /\ turn'[t].event = turn[t].event /\ turn'[t].jobbed = turn[t].jobbed
  /\ turn'[t].started = turn[t].started

LEMMA RecordUpdates ==
  ASSUME NEW r \in TurnRecord
  PROVE  /\ [r EXCEPT !.failed = TRUE] \in TurnRecord
         /\ [r EXCEPT !.lost = TRUE] \in TurnRecord
         /\ [r EXCEPT !.deferred = TRUE] \in TurnRecord
         /\ [r EXCEPT !.started = TRUE] \in TurnRecord
         /\ [[r EXCEPT !.started = TRUE] EXCEPT !.jobbed = TRUE] \in TurnRecord
  BY DEF TurnRecord

LEMMA NoTurnRecord ==
  ASSUME NEW e \in Events
  PROVE  [NoTurn EXCEPT !.event = e] \in TurnRecord
  BY DEF TurnRecord, NoTurn

LEMMA GoWithShape ==
  ASSUME LocalsOK, NEW t \in Turns, NEW step \in TurnSteps, NEW r \in TurnRecord,
         GoWith(t, step, r)
  PROVE  At(t, step) /\ turn'[t] = r
  BY DEF LocalsOK, GoWith, At

LEMMA GoShape ==
  ASSUME LocalsOK, NEW t \in Turns, NEW step \in TurnSteps, Go(t, step)
  PROVE  At(t, step) /\ turn' = turn
  BY DEF LocalsOK, Go, At

LEMMA ThrowShape ==
  ASSUME LocalsOK, NEW t \in Turns, Throw(t)
  PROVE  At(t, "finish") /\ SameTurn(t) /\ turn'[t].failed
  <1> DEFINE r == [turn[t] EXCEPT !.failed = TRUE]
  <1>1. turn[t] \in TurnRecord BY DEF LocalsOK
  <1>2. r \in TurnRecord BY <1>1, RecordUpdates
  <1>3. GoWith(t, "finish", r) BY DEF Throw
  <1>4. r.event = turn[t].event /\ r.jobbed = turn[t].jobbed /\ r.started = turn[t].started
        /\ r.failed
    BY <1>1 DEF TurnRecord
  <1> HIDE DEF r
  <1>5. At(t, "finish") /\ turn'[t] = r BY <1>2, <1>3, GoWithShape
  <1> QED BY <1>4, <1>5 DEF SameTurn

LEMMA ReplyShape ==
  ASSUME LocalsOK, NEW t \in Turns, NEW step \in ReplySteps, ReplyTo(t, step)
  PROVE  /\ replying' \in [Turns -> ReplySteps] /\ replying'[t] = step
         /\ \A u \in Turns \ {t} : replying'[u] = replying[u]
  BY DEF LocalsOK, ReplyTo

-----------------------------------------------------------------------------
(* What a step of one turn may do to the rest of the state.                *)

SameWorld(e) ==
  /\ executions'[e] = executions[e] /\ outcome'[e] = outcome[e]
  /\ job'[e].status = job[e].status /\ job'[e].started = job[e].started

\* The receipt of e is claimed by t, given up as uncertain, or changed by its owner t.
ReceiptMoves(t, e) ==
  \/ SameClaim(e)
  \/ receipt[e].phase \in {"none", "admitting"} /\ Moved(e, "admitting", t, "not_attempted", 0)
  \/ /\ receipt[e].phase = "started"
     /\ Moved(e, "uncertain", receipt[e].owner, receipt[e].delivery, 0)
  \/ /\ receipt[e].owner = t /\ receipt'[e].owner = t
     /\ dispatches'[e] = dispatches[e] \/ receipt[e].phase = "admitting"

\* A step of t touches the locals of t and the event of t only, and what its handler
\* and its job say only if t owns the receipt.
Frame(t, e) ==
  /\ \A u \in Turns \ {t} :
       /\ pc'[u] = pc[u] /\ turn'[u] = turn[u]
       /\ replying'[u] = replying[u] /\ sent'[u] = sent[u]
  /\ \A f \in Events \ {e} : SameClaim(f) /\ SameWorld(f)
  /\ ReceiptMoves(t, e)
  /\ SameWorld(e) \/ receipt[e].owner = t

Local(t, e) ==
  /\ TurnInOrder(t) /\ RunningOwns(t) /\ ReplySpent(t)
  /\ ReceiptKeepsHistory(e) /\ ThrewIsUncertain(e)

LEMMA OtherTurns ==
  ASSUME TurnInv, NEW t \in Turns, NEW e \in Events, Frame(t, e), NEW u \in Turns \ {t}
  PROVE  TurnInOrder(u)' /\ RunningOwns(u)' /\ ReplySpent(u)'
  <1> USE DEF TurnInv, TurnParts, Frame, Event
  <1> DEFINE f == Event(u)
  <1>1. TurnInOrder(u) /\ RunningOwns(u) /\ ReplySpent(u) OBVIOUS
  <1>2. CASE pc[u] = "idle" BY <1>1, <1>2 DEF TurnInOrder, RunningOwns, ReplySpent
  <1>3. CASE f \in Events \ {e}
    <2>1. SameClaim(f) /\ SameWorld(f) BY <1>3
    <2> QED BY <1>1, <1>3, <2>1 DEF TurnInOrder, RunningOwns, ReplySpent, SameClaim, SameWorld
  <1>4. CASE f = e /\ pc[u] # "idle"
    <2>1. ReceiptKeepsHistory(e) OBVIOUS
    <2>2. TurnInOrder(u)'
      BY <1>1, <1>4, <2>1 DEF TurnInOrder, ReceiptMoves, SameClaim, Moved, ReceiptKeepsHistory,
                        TurnTypeOK, ReceiptTypeOK
    <2>3. RunningOwns(u)'
      <3>1. CASE pc[u] \in Running
        <4>1. receipt[e].owner = u /\ receipt[e].phase \in {"started", "uncertain"}
          BY <1>1, <1>4, <3>1 DEF RunningOwns
        <4>2. SameWorld(e) BY <4>1
        <4>3. receipt'[e].owner = u /\ receipt'[e].phase \in {"started", "uncertain"}
          BY <4>1 DEF ReceiptMoves, SameClaim, Moved
        <4> QED BY <1>1, <1>4, <3>1, <4>1, <4>2, <4>3 DEF RunningOwns, SameWorld
      <3> QED BY <1>4, <3>1 DEF RunningOwns
    <2>4. ReplySpent(u)'
      BY <1>1, <1>4 DEF ReplySpent, ReceiptMoves, SameClaim, Moved
    <2> QED BY <2>2, <2>3, <2>4
  <1>5. f \in Events \/ pc[u] = "idle" BY <1>1 DEF TurnInOrder
  <1> QED BY <1>2, <1>3, <1>4, <1>5

LEMMA OtherEvents ==
  ASSUME TurnInv, NEW t \in Turns, NEW e \in Events, Frame(t, e),
         pc[t] = "idle" \/ Event(t) = e, NEW f \in Events \ {e}
  PROVE  ReceiptKeepsHistory(f)' /\ ThrewIsUncertain(f)'
  <1>1. SameClaim(f) /\ SameWorld(f) BY DEF Frame
  <1>2. ReceiptKeepsHistory(f) /\ ThrewIsUncertain(f) BY DEF TurnInv, TurnParts
  <1>3. ASSUME NEW u \in Turns, receipt[f].owner = u PROVE u # t
    BY <1>2, <1>3 DEF ReceiptKeepsHistory
  <1>4. \A u \in Turns \ {t} : pc'[u] = pc[u] /\ turn'[u] = turn[u] BY DEF Frame
  <1>5. ReceiptKeepsHistory(f)'
    BY <1>1, <1>2, <1>3, <1>4 DEF ReceiptKeepsHistory, SameClaim, SameWorld, Event
  <1>6. ThrewIsUncertain(f)'
    BY <1>1, <1>2, <1>3, <1>4 DEF ThrewIsUncertain, SameClaim, SameWorld
  <1> QED BY <1>5, <1>6

LEMMA StepParts ==
  ASSUME TurnInv, NEW t \in Turns, NEW e \in Events, Frame(t, e),
         pc[t] = "idle" \/ Event(t) = e, Local(t, e)'
  PROVE  TurnParts'
  <1>1. ASSUME NEW u \in Turns PROVE TurnInOrder(u)' /\ RunningOwns(u)' /\ ReplySpent(u)'
    BY OtherTurns DEF Local
  <1>2. ASSUME NEW f \in Events PROVE ReceiptKeepsHistory(f)' /\ ThrewIsUncertain(f)'
    BY OtherEvents DEF Local
  <1> QED BY <1>1, <1>2 DEF TurnParts

-----------------------------------------------------------------------------
(* The types, and the steps that change neither claims nor what was done.  *)

WorldOK ==
  /\ button \in [Events -> {"none", "armed", "taken"}]
  /\ job \in [Events -> JobRecord]
  /\ outcome \in [Events -> {"none", "done", "threw"}]
  /\ executions \in [Events -> Nat]
  /\ faults \in Nat

LEMMA TypeSplit == TurnTypeOK <=> ReceiptTypeOK /\ LocalsOK /\ WorldOK
  BY DEF TurnTypeOK, LocalsOK, WorldOK, ReplySteps

LEMMA TypeSplitNext == TurnTypeOK' <=> ReceiptTypeOK' /\ LocalsOK' /\ WorldOK'
  BY DEF TurnTypeOK, LocalsOK, WorldOK, ReplySteps

LEMMA FaultType ==
  ASSUME WorldOK, Fault \/ NoFault
  PROVE  faults' \in Nat
  BY DEF WorldOK, Fault, NoFault

LEMMA SameReceipts ==
  ASSUME ReceiptTypeOK, UNCHANGED receiptVars
  PROVE  ReceiptTypeOK' /\ AllSameClaim
  BY DEF ReceiptTypeOK, receiptVars, AllSameClaim, SameClaim

AllSameWorld == \A e \in Events : SameWorld(e)

LEMMA SameWorlds ==
  ASSUME UNCHANGED <<job, outcome, executions>>
  PROVE  AllSameWorld
  BY DEF AllSameWorld, SameWorld

\* A step of t from its current place to step that runs nothing and sends nothing.
Quiet(t, step) ==
  /\ At(t, step) /\ SameTurn(t) /\ (turn[t].failed => turn'[t].failed)
  /\ \A u \in Turns \ {t} : replying'[u] = replying[u]
  /\ sent' = sent
  /\ pc[t] # "idle"
  /\ step \in BeforeClaim => pc[t] \in BeforeClaim /\ replying'[t] = "no"
  /\ step \in Early => pc[t] \in Early /\ (turn'[t].failed => turn[t].failed)
  /\ step \in Running => step = pc[t] /\ (turn'[t].failed => turn[t].failed)
  /\ replying'[t] \in {"no", "attempt", replying[t]}
  /\ pc[t] \in {"done", "fail_job"} => step \in {"done", "fail_job"}

LEMMA QuietParts ==
  ASSUME TurnInv, NEW t \in Turns, NEW e \in Events, Event(t) = e, NEW step \in TurnSteps,
         Quiet(t, step), AllSameClaim, AllSameWorld
  PROVE  TurnParts'
  <1>1. Local(t, e) BY DEF TurnInv, TurnParts, Local
  <1>2. Frame(t, e) BY DEF Frame, Quiet, At, AllSameClaim, AllSameWorld, ReceiptMoves
  <1>3. Event(t)' = e BY DEF Quiet, SameTurn, Event
  <1>4. SameClaim(e) /\ SameWorld(e) BY DEF AllSameClaim, AllSameWorld
  <1>5. Local(t, e)'
    <2> USE <1>1, <1>3, <1>4 DEF Local, Quiet, At, SameTurn, SameClaim, SameWorld
    <2>1. TurnInOrder(t)' BY DEF TurnInOrder
    <2>2. RunningOwns(t)' BY DEF RunningOwns
    <2>3. ReplySpent(t)' BY DEF ReplySpent
    <2>4. ReceiptKeepsHistory(e)' BY DEF ReceiptKeepsHistory, Event
    <2>5. ThrewIsUncertain(e)' BY DEF ThrewIsUncertain
    <2> QED BY <2>1, <2>2, <2>3, <2>4, <2>5
  <1> QED BY <1>2, <1>5, StepParts

LEMMA QuietInv ==
  ASSUME TurnInv, NEW t \in Turns, NEW e \in Events, Event(t) = e, NEW step \in TurnSteps,
         Quiet(t, step), ReceiptTypeOK', AllSameClaim, WorldOK', AllSameWorld,
         replying' \in [Turns -> ReplySteps]
  PROVE  TurnInv'
  <1>1. LocalsOK' BY DEF Quiet, At, LocalsOK, TurnInv, TurnTypeOK
  <1>2. TurnTypeOK' BY <1>1, TypeSplitNext
  <1> QED BY <1>2, QuietParts DEF TurnInv

LEMMA Types == TurnInv => ReceiptTypeOK /\ LocalsOK /\ WorldOK
  BY TypeSplit DEF TurnInv

LEMMA EventOf ==
  ASSUME TurnInv, NEW t \in Turns, pc[t] # "idle"
  PROVE  \E e \in Events : Event(t) = e
  BY DEF TurnInv, TurnParts, TurnInOrder

\* In a step that is not the first of a handling, both variables of the world and of the
\* receipts may be left alone.
LEMMA SameWorldType ==
  ASSUME WorldOK, UNCHANGED worldVars, Fault \/ NoFault
  PROVE  WorldOK' /\ AllSameWorld
  <1>1. faults' \in Nat BY FaultType
  <1> QED BY <1>1, SameWorlds DEF WorldOK, worldVars

LEMMA TakeButtonInv ==
  ASSUME TurnInv, NEW t \in Turns, TakeButton(t)
  PROVE  TurnInv'
  <1> PICK e \in Events : Event(t) = e BY EventOf DEF TakeButton
  <1>1. ReceiptTypeOK /\ LocalsOK /\ WorldOK BY Types
  <1>2. PICK step \in {"claim", "done"} : Go(t, step) BY DEF TakeButton
  <1>3. At(t, step) /\ turn' = turn BY <1>1, <1>2, GoShape
  <1>4. /\ pc[t] = "take" /\ replying' = replying /\ sent' = sent
        /\ UNCHANGED receiptVars /\ UNCHANGED <<job, outcome, executions>>
    BY DEF TakeButton
  <1>5. replying[t] = "no" BY <1>4 DEF TurnInv, TurnParts, TurnInOrder
  <1>6. Quiet(t, step) BY <1>3, <1>4, <1>5 DEF Quiet, SameTurn
  <1>7. WorldOK'
    <2>1. button' \in [Events -> {"none", "armed", "taken"}] BY <1>1 DEF WorldOK, TakeButton
    <2>2. faults' \in Nat BY <1>1, FaultType DEF TakeButton
    <2> QED BY <1>1, <1>4, <2>1, <2>2 DEF WorldOK
  <1> QED BY <1>1, <1>4, <1>6, <1>7, QuietInv, SameReceipts, SameWorlds DEF LocalsOK

LEMMA AdmitInv ==
  ASSUME TurnInv, NEW t \in Turns, Admit(t)
  PROVE  TurnInv'
  <1> PICK e \in Events : Event(t) = e BY EventOf DEF Admit
  <1>1. ReceiptTypeOK /\ LocalsOK /\ WorldOK BY Types
  <1>2. /\ pc[t] = "admit" /\ sent' = sent /\ UNCHANGED receiptVars /\ UNCHANGED worldVars
        /\ Fault \/ NoFault
    BY DEF Admit
  <1>3. PICK step \in {"start", "finish", "answer"} :
          /\ At(t, step) /\ SameTurn(t) /\ (turn[t].failed => turn'[t].failed)
          /\ step = "start" => turn' = turn
    <2>1. CASE Throw(t) BY <1>1, <2>1, ThrowShape
    <2>2. ASSUME NEW step \in {"start", "finish", "answer"}, Go(t, step)
          PROVE  At(t, step) /\ turn' = turn
      BY <1>1, <2>2, GoShape
    <2> QED BY <2>1, <2>2 DEF Admit, SameTurn
  <1>4. /\ replying' \in [Turns -> ReplySteps] /\ replying'[t] \in {"attempt", replying[t]}
        /\ \A u \in Turns \ {t} : replying'[u] = replying[u]
    BY <1>1 DEF Admit, Reply, LocalsOK, ReplySteps
  <1>5. Quiet(t, step) BY <1>2, <1>3, <1>4 DEF Quiet
  <1> QED BY <1>1, <1>2, <1>4, <1>5, QuietInv, SameReceipts, SameWorldType

LEMMA AfterReplyInv ==
  ASSUME TurnInv, NEW t \in Turns, AfterReply(t)
  PROVE  TurnInv'
  <1>1. ReceiptTypeOK /\ LocalsOK /\ WorldOK BY Types
  <1>2. /\ pc[t] \in {"answer", "farewell"} /\ sent' = sent /\ replying' = replying
        /\ UNCHANGED receiptVars /\ UNCHANGED worldVars /\ NoFault
    BY DEF AfterReply, NoFault
  <1> PICK e \in Events : Event(t) = e BY <1>2, EventOf
  <1>3. PICK step \in {"finish", "done"} : Go(t, step) BY DEF AfterReply
  <1>4. At(t, step) /\ turn' = turn BY <1>1, <1>3, GoShape
  <1>5. Quiet(t, step) BY <1>2, <1>4 DEF Quiet, SameTurn
  <1> QED BY <1>1, <1>2, <1>5, QuietInv, SameReceipts, SameWorldType DEF LocalsOK

LEMMA ReplyAgainInv ==
  ASSUME TurnInv, NEW t \in Turns, ReplyAgain(t)
  PROVE  TurnInv'
  <1>1. ReceiptTypeOK /\ LocalsOK /\ WorldOK BY Types
  <1>2. /\ pc[t] = "answer" /\ pc' = pc /\ turn' = turn /\ sent' = sent /\ ReplyTo(t, "attempt")
        /\ UNCHANGED receiptVars /\ UNCHANGED worldVars /\ NoFault
    BY DEF ReplyAgain, Reply, ReplyTo, NoFault
  <1> PICK e \in Events : Event(t) = e BY <1>2, EventOf
  <1>3. /\ replying' \in [Turns -> ReplySteps] /\ replying'[t] = "attempt"
        /\ \A u \in Turns \ {t} : replying'[u] = replying[u]
    BY <1>1, <1>2, ReplyShape DEF ReplySteps
  <1>4. Quiet(t, "answer") BY <1>1, <1>2, <1>3 DEF Quiet, SameTurn, At, LocalsOK
  <1> QED BY <1>1, <1>2, <1>3, <1>4, QuietInv, SameReceipts, SameWorldType

\* A flag of the turn's object is raised where the turn stands.
LEMMA FlagShape ==
  ASSUME LocalsOK, NEW t \in Turns, UNCHANGED pc,
         \/ turn' = [turn EXCEPT ![t].deferred = TRUE]
         \/ turn' = [turn EXCEPT ![t].lost = TRUE]
  PROVE  At(t, pc[t]) /\ SameTurn(t) /\ turn'[t].failed = turn[t].failed
  <1>1. turn[t] \in TurnRecord BY DEF LocalsOK
  <1>2. PICK r \in TurnRecord :
          /\ turn' = [turn EXCEPT ![t] = r]
          /\ r.event = turn[t].event /\ r.jobbed = turn[t].jobbed
          /\ r.started = turn[t].started /\ r.failed = turn[t].failed
    <2>1. CASE turn' = [turn EXCEPT ![t].deferred = TRUE]
      <3> DEFINE r == [turn[t] EXCEPT !.deferred = TRUE]
      <3>1. r \in TurnRecord BY <1>1, RecordUpdates
      <3>2. /\ r.event = turn[t].event /\ r.jobbed = turn[t].jobbed
            /\ r.started = turn[t].started /\ r.failed = turn[t].failed
        BY <1>1 DEF TurnRecord
      <3> QED BY <2>1, <3>1, <3>2
    <2>2. CASE turn' = [turn EXCEPT ![t].lost = TRUE]
      <3> DEFINE r == [turn[t] EXCEPT !.lost = TRUE]
      <3>1. r \in TurnRecord BY <1>1, RecordUpdates
      <3>2. /\ r.event = turn[t].event /\ r.jobbed = turn[t].jobbed
            /\ r.started = turn[t].started /\ r.failed = turn[t].failed
        BY <1>1 DEF TurnRecord
      <3> QED BY <2>2, <3>1, <3>2
    <2> QED BY <2>1, <2>2
  <1> QED BY <1>2 DEF LocalsOK, At, SameTurn

LEMMA DeferInv ==
  ASSUME TurnInv, NEW t \in Turns, Defer(t)
  PROVE  TurnInv'
  <1>1. ReceiptTypeOK /\ LocalsOK /\ WorldOK BY Types
  <1>2. /\ pc[t] \in {"execute", "settle_job", "fail_job"} /\ pc' = pc /\ sent' = sent
        /\ ReplyTo(t, "attempt") /\ UNCHANGED receiptVars /\ UNCHANGED worldVars /\ NoFault
    BY DEF Defer, Reply, ReplyTo, NoFault
  <1> PICK e \in Events : Event(t) = e BY <1>2, EventOf
  <1>3. At(t, pc[t]) /\ SameTurn(t) /\ turn'[t].failed = turn[t].failed
    BY <1>1, <1>2, FlagShape DEF Defer
  <1>4. /\ replying' \in [Turns -> ReplySteps] /\ replying'[t] = "attempt"
        /\ \A u \in Turns \ {t} : replying'[u] = replying[u]
    BY <1>1, <1>2, ReplyShape DEF ReplySteps
  <1>5. Quiet(t, pc[t]) BY <1>2, <1>3, <1>4 DEF Quiet
  <1> QED BY <1>1, <1>2, <1>4, <1>5, QuietInv, SameReceipts, SameWorldType

LEMMA HeartbeatInv ==
  ASSUME TurnInv, NEW t \in Turns, Heartbeat(t)
  PROVE  TurnInv'
  <1>1. ReceiptTypeOK /\ LocalsOK /\ WorldOK BY Types
  <1>2. /\ pc[t] \in TurnSteps \ (BeforeClaim \cup {"farewell", "done"})
        /\ pc' = pc /\ sent' = sent /\ replying' = replying
        /\ UNCHANGED worldVars /\ (Fault \/ NoFault)
    BY <1>1 DEF Heartbeat, LocalsOK
  <1> PICK e \in Events : Event(t) = e BY <1>2, EventOf
  <1>3. At(t, pc[t]) /\ SameTurn(t) /\ turn'[t].failed = turn[t].failed
    <2>1. CASE turn' = turn BY <1>1, <1>2, <2>1 DEF At, SameTurn, LocalsOK
    <2>2. CASE turn' = [turn EXCEPT ![t].lost = TRUE] BY <1>1, <1>2, <2>2, FlagShape
    <2> QED BY <2>1, <2>2 DEF Heartbeat
  <1>4. ReceiptTypeOK' /\ AllSameClaim
    BY <1>1, LeaseShape, SameReceipts DEF Heartbeat
  <1>5. Quiet(t, pc[t]) BY <1>2, <1>3 DEF Quiet
  <1> QED BY <1>1, <1>2, <1>4, <1>5, QuietInv, SameWorldType DEF LocalsOK

LEMMA CrashTurnInv ==
  ASSUME TurnInv, NEW t \in Turns, CrashTurn(t)
  PROVE  TurnInv'
  <1>1. ReceiptTypeOK /\ LocalsOK /\ WorldOK BY Types
  <1>2. pc[t] # "idle" BY DEF CrashTurn, TurnInv, TurnParts, TurnInOrder
  <1>3. /\ Go(t, "done") /\ ReplyTo(t, "no") /\ sent' = sent
        /\ UNCHANGED receiptVars /\ UNCHANGED worldVars /\ Fault
    BY DEF CrashTurn
  <1> PICK e \in Events : Event(t) = e BY <1>2, EventOf
  <1>4. At(t, "done") /\ turn' = turn BY <1>1, <1>3, GoShape
  <1>5. /\ replying' \in [Turns -> ReplySteps] /\ replying'[t] = "no"
        /\ \A u \in Turns \ {t} : replying'[u] = replying[u]
    BY <1>1, <1>3, ReplyShape DEF ReplySteps
  <1>6. Quiet(t, "done") BY <1>2, <1>3, <1>4, <1>5 DEF Quiet, SameTurn
  <1> QED BY <1>1, <1>3, <1>5, <1>6, QuietInv, SameReceipts, SameWorldType

-----------------------------------------------------------------------------
(* Updates of a job.                                                       *)

JobStates == {"none", "pending", "completed", "failed", "uncertain"}

LEMMA JobRecords ==
  ASSUME NEW r \in JobRecord, NEW s \in JobStates, NEW l \in 0 .. JobLease
  PROVE  /\ [r EXCEPT !.status = s] \in JobRecord
         /\ [r EXCEPT !.status = s].status = s
         /\ [r EXCEPT !.status = s].started = r.started
         /\ [r EXCEPT !.lease = l] \in JobRecord
         /\ [r EXCEPT !.lease = l].status = r.status
         /\ [r EXCEPT !.lease = l].started = r.started
         /\ [r EXCEPT !.started = TRUE, !.lease = l] \in JobRecord
         /\ [r EXCEPT !.started = TRUE, !.lease = l].status = r.status
  BY DEF JobRecord, JobStates

JobsOK == job \in [Events -> JobRecord]

\* The job of e now has this status; other jobs are untouched.
JobNow(e, status) ==
  /\ job' \in [Events -> JobRecord] /\ job'[e].status = status
  /\ \A f \in Events \ {e} : job'[f] = job[f]

LEMMA JobStatus ==
  ASSUME JobsOK, NEW e \in Events, NEW s \in JobStates, job' = [job EXCEPT ![e].status = s]
  PROVE  JobNow(e, s) /\ job'[e].started = job[e].started
  <1> DEFINE r == [job[e] EXCEPT !.status = s]
  <1>0. 0 \in 0 .. JobLease BY TurnAssumption
  <1>1. job[e] \in JobRecord BY DEF JobsOK
  <1>2. r \in JobRecord /\ r.status = s /\ r.started = job[e].started
    BY <1>0, <1>1, JobRecords
  <1>3. job' = [job EXCEPT ![e] = r] OBVIOUS
  <1> HIDE DEF r
  <1> QED BY <1>2, <1>3 DEF JobsOK, JobNow

LEMMA JobRenewed ==
  ASSUME JobsOK, NEW e \in Events, job' = [job EXCEPT ![e].lease = JobLease]
  PROVE  JobNow(e, job[e].status) /\ job'[e].started = job[e].started
  <1> DEFINE r == [job[e] EXCEPT !.lease = JobLease]
  <1>1. JobLease \in 0 .. JobLease /\ "none" \in JobStates
    BY TurnAssumption DEF JobStates
  <1>2. job[e] \in JobRecord BY DEF JobsOK
  <1>3. r \in JobRecord /\ r.status = job[e].status /\ r.started = job[e].started
    BY <1>1, <1>2, JobRecords
  <1>4. job' = [job EXCEPT ![e] = r] OBVIOUS
  <1> HIDE DEF r
  <1> QED BY <1>3, <1>4 DEF JobsOK, JobNow

LEMMA JobBegun ==
  ASSUME JobsOK, NEW e \in Events,
         job' = [job EXCEPT ![e].started = TRUE, ![e].lease = JobLease]
  PROVE  JobNow(e, job[e].status)
  <1> DEFINE r == [job[e] EXCEPT !.started = TRUE, !.lease = JobLease]
  <1>1. JobLease \in 0 .. JobLease /\ "none" \in JobStates
    BY TurnAssumption DEF JobStates
  <1>2. job[e] \in JobRecord BY DEF JobsOK
  <1>3. r \in JobRecord /\ r.status = job[e].status BY <1>1, <1>2, JobRecords
  <1>4. job' = [job EXCEPT ![e] = r] OBVIOUS
  <1> HIDE DEF r
  <1> QED BY <1>3, <1>4 DEF JobsOK, JobNow

LEMMA JobHeartbeatInv ==
  ASSUME TurnInv, NEW t \in Turns, JobHeartbeat(t)
  PROVE  TurnInv'
  <1>1. ReceiptTypeOK /\ LocalsOK /\ WorldOK BY Types
  <1>2. /\ pc[t] \in {"execute", "settle_job", "fail_job", "finish"}
        /\ pc' = pc /\ turn' = turn /\ replying' = replying /\ sent' = sent
        /\ UNCHANGED receiptVars /\ UNCHANGED <<button, outcome, executions, faults>>
    BY DEF JobHeartbeat, localVars
  <1> PICK e \in Events : Event(t) = e BY <1>2, EventOf
  <1>3. job' = [job EXCEPT ![e].lease = JobLease] /\ job[e].status = "pending"
    BY DEF JobHeartbeat
  <1>4. JobNow(e, job[e].status) /\ job'[e].started = job[e].started
    BY <1>1, <1>3, JobRenewed DEF WorldOK, JobsOK
  <1>5. AllSameWorld BY <1>2, <1>3, <1>4 DEF AllSameWorld, SameWorld, JobNow
  <1>6. WorldOK' BY <1>1, <1>2, <1>4 DEF WorldOK, JobNow
  <1>7. Quiet(t, pc[t]) BY <1>1, <1>2 DEF Quiet, SameTurn, At, LocalsOK
  <1> QED BY <1>1, <1>2, <1>5, <1>6, <1>7, QuietInv, SameReceipts DEF LocalsOK

-----------------------------------------------------------------------------
(* The steps of a dispatched turn, which alone has the right to its event. *)

LEMMA RunningInv ==
  ASSUME TurnInv, NEW t \in Turns, NEW e \in Events, Event(t) = e, pc[t] \in Running,
         NEW step \in TurnSteps \ Early, At(t, step), SameTurn(t), sent' = sent,
         replying' \in [Turns -> ReplySteps], replying'[t] \in {"attempt", replying[t]},
         \A u \in Turns \ {t} : replying'[u] = replying[u],
         ReceiptTypeOK', AllSameClaim, WorldOK', \A f \in Events \ {e} : SameWorld(f),
         executions'[e] <= 1, RunningOwns(t)', ThrewIsUncertain(e)'
  PROVE  TurnInv'
  <1>1. Local(t, e) BY DEF TurnInv, TurnParts, Local
  <1>2. receipt[e].owner = t /\ receipt[e].phase \in {"started", "uncertain"}
    BY <1>1 DEF Local, RunningOwns
  <1>3. SameClaim(e) BY DEF AllSameClaim
  <1>4. Event(t)' = e BY DEF SameTurn, Event
  <1>5. Frame(t, e) BY <1>2, <1>3 DEF Frame, At, AllSameClaim, ReceiptMoves
  <1>6. Local(t, e)'
    <2> USE <1>1, <1>2, <1>3, <1>4 DEF Local, At, SameTurn, SameClaim
    <2>1. TurnInOrder(t)' BY DEF TurnInOrder
    <2>2. ReplySpent(t)' BY DEF ReplySpent
    <2>3. ReceiptKeepsHistory(e)' BY DEF ReceiptKeepsHistory, Event
    <2> QED BY <2>1, <2>2, <2>3
  <1>7. LocalsOK' BY DEF At, LocalsOK, TurnInv, TurnTypeOK
  <1> QED BY <1>5, <1>6, <1>7, StepParts, TypeSplitNext DEF TurnInv

\* A step of the agent job: receipts, replies and the handler's history stay as they are.
LEMMA JobStepInv ==
  ASSUME TurnInv, NEW t \in Turns, NEW e \in Events, Event(t) = e, pc[t] \in Running,
         NEW step \in TurnSteps \ Early, At(t, step), SameTurn(t),
         UNCHANGED jobCallUnchanged, Fault \/ NoFault, job' \in [Events -> JobRecord],
         \A f \in Events \ {e} : job'[f] = job[f], RunningOwns(t)', ThrewIsUncertain(e)'
  PROVE  TurnInv'
  <1>1. ReceiptTypeOK /\ LocalsOK /\ WorldOK BY Types
  <1>2. /\ UNCHANGED receiptVars /\ replying' = replying /\ sent' = sent
        /\ UNCHANGED <<button, outcome, executions>>
    BY DEF jobCallUnchanged
  <1>3. faults' \in Nat BY <1>1, FaultType
  <1>4. WorldOK' BY <1>1, <1>2, <1>3 DEF WorldOK
  <1>5. \A f \in Events \ {e} : SameWorld(f) BY <1>2 DEF SameWorld
  <1>6. executions'[e] <= 1 BY <1>2 DEF TurnInv, TurnParts, ReceiptKeepsHistory
  <1> QED BY <1>1, <1>2, <1>4, <1>5, <1>6, SameReceipts, RunningInv DEF LocalsOK

LEMMA RunningFacts ==
  ASSUME TurnInv, NEW t \in Turns, NEW e \in Events, Event(t) = e, pc[t] \in Running,
         UNCHANGED jobCallUnchanged
  PROVE  /\ RunningOwns(t) /\ ThrewIsUncertain(e) /\ ReceiptKeepsHistory(e)
         /\ receipt' = receipt /\ outcome' = outcome /\ executions' = executions
         /\ job \in [Events -> JobRecord]
  BY Types DEF TurnInv, TurnParts, jobCallUnchanged, receiptVars, WorldOK

LEMMA CreateJobInv ==
  ASSUME TurnInv, NEW t \in Turns, CreateJob(t)
  PROVE  TurnInv'
  <1>1. pc[t] = "create_job" /\ UNCHANGED jobCallUnchanged /\ (Fault \/ NoFault)
    BY DEF CreateJob
  <1> PICK e \in Events : Event(t) = e BY <1>1, EventOf
  <1>2. ReceiptTypeOK /\ LocalsOK /\ WorldOK BY Types
  <1>3. /\ RunningOwns(t) /\ ThrewIsUncertain(e) /\ receipt' = receipt
        /\ outcome' = outcome /\ executions' = executions
    BY <1>1, RunningFacts
  <1>4. /\ job' \in [Events -> JobRecord] /\ job'[e].started = job[e].started
        /\ \A f \in Events \ {e} : job'[f] = job[f]
        /\ job' = job \/ job'[e].status = "pending"
    <2>1. CASE job' = job BY <1>2, <2>1 DEF WorldOK
    <2>2. CASE job' = [job EXCEPT ![e].status = "pending"]
      BY <1>2, <2>2, JobStatus DEF WorldOK, JobsOK, JobNow, JobStates
    <2> QED BY <2>1, <2>2 DEF CreateJob
  <1>5. outcome[e] = "none" BY <1>1, <1>3 DEF RunningOwns
  <1>6. ThrewIsUncertain(e)' BY <1>3, <1>5 DEF ThrewIsUncertain
  <1>7. CASE /\ job' = IF job[e].status = "none" THEN [job EXCEPT ![e].status = "pending"] ELSE job
             /\ Go(t, "mark_job")
    <2>1. At(t, "mark_job") /\ turn' = turn BY <1>2, <1>7, GoShape
    <2>2. job'[e].status = "pending"
      <3>1. job[e].status = "none" BY <1>1, <1>3 DEF RunningOwns
      <3>2. job' = [job EXCEPT ![e].status = "pending"]
        BY <1>7, <3>1
      <3> QED BY <1>2, <3>2, JobStatus DEF WorldOK, JobsOK, JobNow, JobStates
    <2>3. RunningOwns(t)'
      BY <1>1, <1>3, <1>4, <2>1, <2>2 DEF RunningOwns, At, Event
    <2> QED BY <1>1, <1>4, <1>6, <2>1, <2>3, JobStepInv DEF SameTurn
  <1>8. CASE Throw(t)
    <2>1. At(t, "finish") /\ SameTurn(t) BY <1>2, <1>8, ThrowShape
    <2>2. RunningOwns(t)' BY <2>1 DEF RunningOwns, At
    <2> QED BY <1>1, <1>4, <1>6, <2>1, <2>2, JobStepInv
  <1> QED BY <1>7, <1>8 DEF CreateJob

LEMMA MarkJobStartedInv ==
  ASSUME TurnInv, NEW t \in Turns, MarkJobStarted(t)
  PROVE  TurnInv'
  <1>1. pc[t] = "mark_job" /\ UNCHANGED jobCallUnchanged /\ (Fault \/ NoFault)
    BY DEF MarkJobStarted
  <1> PICK e \in Events : Event(t) = e BY <1>1, EventOf
  <1>2. ReceiptTypeOK /\ LocalsOK /\ WorldOK BY Types
  <1>3. /\ RunningOwns(t) /\ ThrewIsUncertain(e) /\ receipt' = receipt
        /\ outcome' = outcome /\ executions' = executions
    BY <1>1, RunningFacts
  <1>4. /\ outcome[e] = "none" /\ job[e].status = "pending" /\ CanMarkStarted(e)
        /\ turn[t].jobbed
    BY <1>1, <1>3 DEF RunningOwns, CanMarkStarted
  <1>5. /\ job' \in [Events -> JobRecord] /\ job'[e].status = "pending"
        /\ \A f \in Events \ {e} : job'[f] = job[f]
    <2>1. CASE job' = job BY <1>2, <1>4, <2>1 DEF WorldOK
    <2>2. CASE job' = [job EXCEPT ![e].started = TRUE, ![e].lease = JobLease]
      BY <1>2, <1>4, <2>2, JobBegun DEF WorldOK, JobsOK, JobNow
    <2> QED BY <1>4, <2>1, <2>2 DEF MarkJobStarted
  <1>6. ThrewIsUncertain(e)' BY <1>3, <1>4 DEF ThrewIsUncertain
  <1>7. CASE Go(t, "execute")
    <2>1. At(t, "execute") /\ turn' = turn BY <1>2, <1>7, GoShape
    <2>2. RunningOwns(t)'
      BY <1>1, <1>3, <1>4, <1>5, <2>1 DEF RunningOwns, At, Event
    <2> QED BY <1>1, <1>5, <1>6, <2>1, <2>2, JobStepInv DEF SameTurn
  <1>8. CASE Throw(t)
    <2>1. At(t, "finish") /\ SameTurn(t) BY <1>2, <1>8, ThrowShape
    <2>2. RunningOwns(t)' BY <2>1 DEF RunningOwns, At
    <2> QED BY <1>1, <1>5, <1>6, <2>1, <2>2, JobStepInv
  <1> QED BY <1>4, <1>7, <1>8 DEF MarkJobStarted

LEMMA FailJobShape ==
  ASSUME JobsOK, NEW e \in Events, NEW s \in {"failed", "uncertain"}, FailJobAs(e, s)
  PROVE  /\ job' \in [Events -> JobRecord] /\ job'[e].started = job[e].started
         /\ \A f \in Events \ {e} : job'[f] = job[f]
         /\ job'[e].status \in {job[e].status, s}
  <1>1. CASE job' = job BY <1>1 DEF JobsOK
  <1>2. CASE job' = [job EXCEPT ![e].status = s]
    BY <1>2, JobStatus DEF JobNow, JobStates
  <1> QED BY <1>1, <1>2 DEF FailJobAs

LEMMA CompleteJobShape ==
  ASSUME JobsOK, NEW e \in Events, CompleteJob(e)
  PROVE  /\ job' \in [Events -> JobRecord] /\ job'[e].started = job[e].started
         /\ \A f \in Events \ {e} : job'[f] = job[f]
  <1>1. CASE job' = job BY <1>1 DEF JobsOK
  <1>2. CASE job' = [job EXCEPT ![e].status = "completed"]
    BY <1>2, JobStatus DEF JobNow, JobStates
  <1> QED BY <1>1, <1>2 DEF CompleteJob

LEMMA ContextInvalidatedInv ==
  ASSUME TurnInv, NEW t \in Turns, ContextInvalidated(t)
  PROVE  TurnInv'
  <1>1. pc[t] = "execute" /\ UNCHANGED jobCallUnchanged /\ (Fault \/ NoFault)
    BY DEF ContextInvalidated
  <1> PICK e \in Events : Event(t) = e BY <1>1, EventOf
  <1>2. ReceiptTypeOK /\ LocalsOK /\ WorldOK BY Types
  <1>3. /\ RunningOwns(t) /\ ThrewIsUncertain(e) /\ receipt' = receipt
        /\ outcome' = outcome /\ executions' = executions
    BY <1>1, RunningFacts
  <1>4. /\ job' \in [Events -> JobRecord]
        /\ \A f \in Events \ {e} : job'[f] = job[f]
    BY <1>2, FailJobShape DEF ContextInvalidated, WorldOK, JobsOK
  <1>5. outcome[e] = "none" BY <1>1, <1>3 DEF RunningOwns
  <1>6. ThrewIsUncertain(e)' BY <1>3, <1>5 DEF ThrewIsUncertain
  <1>7. PICK step \in {"finish", "fail_job"} : Go(t, step) BY DEF ContextInvalidated
  <1>8. At(t, step) /\ turn' = turn BY <1>2, <1>7, GoShape
  <1>9. RunningOwns(t)' BY <1>1, <1>3, <1>8 DEF RunningOwns, At, Event
  <1> QED BY <1>1, <1>4, <1>6, <1>8, <1>9, JobStepInv DEF SameTurn

LEMMA SettleJobInv ==
  ASSUME TurnInv, NEW t \in Turns, SettleJob(t)
  PROVE  TurnInv'
  <1>1. pc[t] = "settle_job" /\ UNCHANGED jobCallUnchanged /\ (Fault \/ NoFault)
    BY DEF SettleJob
  <1> PICK e \in Events : Event(t) = e BY <1>1, EventOf
  <1>2. ReceiptTypeOK /\ LocalsOK /\ WorldOK BY Types
  <1>3. /\ RunningOwns(t) /\ ThrewIsUncertain(e) /\ receipt' = receipt
        /\ outcome' = outcome /\ executions' = executions
    BY <1>1, RunningFacts
  <1>4. /\ job' \in [Events -> JobRecord]
        /\ \A f \in Events \ {e} : job'[f] = job[f]
    BY <1>2, FailJobShape, CompleteJobShape DEF SettleJob, WorldOK, JobsOK
  <1>5. outcome[e] # "threw" BY <1>1, <1>3 DEF RunningOwns
  <1>6. ThrewIsUncertain(e)' BY <1>3, <1>5 DEF ThrewIsUncertain
  <1>7. PICK step \in {"finish", "fail_job"} : Go(t, step) BY DEF SettleJob
  <1>8. At(t, step) /\ turn' = turn BY <1>2, <1>7, GoShape
  <1>9. RunningOwns(t)' BY <1>1, <1>3, <1>8 DEF RunningOwns, At, Event
  <1> QED BY <1>1, <1>4, <1>6, <1>8, <1>9, JobStepInv DEF SameTurn

LEMMA FailJobInv ==
  ASSUME TurnInv, NEW t \in Turns, FailJob(t)
  PROVE  TurnInv'
  <1>1. /\ pc[t] = "fail_job" /\ UNCHANGED jobCallUnchanged /\ (Fault \/ NoFault)
        /\ Throw(t)
    BY DEF FailJob
  <1> PICK e \in Events : Event(t) = e BY <1>1, EventOf
  <1>2. ReceiptTypeOK /\ LocalsOK /\ WorldOK BY Types
  <1>3. /\ RunningOwns(t) /\ ThrewIsUncertain(e) /\ receipt' = receipt
        /\ outcome' = outcome
    BY <1>1, RunningFacts
  <1>4. /\ job' \in [Events -> JobRecord] /\ job'[e].started = job[e].started
        /\ \A f \in Events \ {e} : job'[f] = job[f]
        /\ job'[e].status \in {job[e].status, "uncertain"}
    BY <1>2, FailJobShape DEF FailJob, WorldOK, JobsOK
  <1>5. At(t, "finish") /\ SameTurn(t) /\ turn'[t].failed BY <1>1, <1>2, ThrowShape
  <1>6. RunningOwns(t)' BY <1>5 DEF RunningOwns, At
  <1>7. ThrewIsUncertain(e)' BY <1>1, <1>3, <1>4, <1>5 DEF ThrewIsUncertain, At
  <1> QED BY <1>1, <1>4, <1>5, <1>6, <1>7, JobStepInv

LEMMA ExecuteInv ==
  ASSUME TurnInv, NEW t \in Turns, Execute(t)
  PROVE  TurnInv'
  <1>1. /\ pc[t] = "execute" /\ UNCHANGED receiptVars /\ sent' = sent
        /\ UNCHANGED <<button, job, faults>>
    BY DEF Execute
  <1> PICK e \in Events : Event(t) = e BY <1>1, EventOf
  <1>2. ReceiptTypeOK /\ LocalsOK /\ WorldOK BY Types
  <1>3. RunningOwns(t) BY DEF TurnInv, TurnParts
  <1>4. PICK did \in {"done", "threw"} : Run(t, did) BY DEF Execute
  <1>5. /\ executions' \in [Events -> Nat] /\ outcome' \in [Events -> {"none", "done", "threw"}]
        /\ executions'[e] = 1 /\ outcome'[e] = did
        /\ \A f \in Events \ {e} : executions'[f] = executions[f] /\ outcome'[f] = outcome[f]
    BY <1>1, <1>2, <1>3, <1>4 DEF Run, WorldOK, RunningOwns
  <1>6. WorldOK' BY <1>1, <1>2, <1>5 DEF WorldOK
  <1>7. \A f \in Events \ {e} : SameWorld(f) BY <1>1, <1>5 DEF SameWorld
  <1>8. /\ replying' \in [Turns -> ReplySteps] /\ replying'[t] \in {"attempt", replying[t]}
        /\ \A u \in Turns \ {t} : replying'[u] = replying[u]
    BY <1>2 DEF Execute, LocalsOK, ReplySteps
  <1>9. AllSameClaim /\ ReceiptTypeOK' BY <1>1, <1>2, SameReceipts
  <1>10. PICK step \in {"settle_job", "answer", "fail_job", "finish"} :
           /\ At(t, step) /\ SameTurn(t)
           /\ step # "finish" => turn' = turn
           /\ step = "settle_job" => did # "threw"
           /\ did = "threw" => step = "fail_job" \/ turn'[t].failed
    <2>1. did = "done" \/ did = "threw" OBVIOUS
    <2>2. CASE Go(t, IF turn[t].jobbed THEN "settle_job" ELSE "answer") /\ Run(t, "done")
      <3>1. did = "done" BY <1>2, <1>4, <2>2 DEF Run, WorldOK
      <3> QED BY <1>2, <2>2, <3>1, GoShape DEF SameTurn
    <2>3. CASE Go(t, "fail_job") BY <1>2, <2>3, GoShape DEF SameTurn
    <2>4. CASE Throw(t)
      BY <1>2, <2>4, ThrowShape
    <2>5. CASE Run(t, "threw") /\ (IF turn[t].jobbed THEN Go(t, "fail_job") ELSE Throw(t))
      BY <2>3, <2>4, <2>5
    <2> QED BY <2>2, <2>5 DEF Execute
  <1>11. RunningOwns(t)'
    <2>1. /\ receipt' = receipt /\ Event(t)' = e BY <1>1, <1>10 DEF receiptVars, SameTurn, Event
    <2> QED BY <1>1, <1>3, <1>5, <1>10, <2>1 DEF RunningOwns, At
  <1>12. ThrewIsUncertain(e)'
    <2>1. receipt' = receipt /\ job' = job BY <1>1 DEF receiptVars
    <2>2. receipt[e].owner = t /\ receipt[e].phase \in {"started", "uncertain"}
          /\ (job[e].started => job[e].status = "pending")
      BY <1>1, <1>3 DEF RunningOwns
    <2> QED BY <1>5, <1>10, <2>1, <2>2 DEF ThrewIsUncertain, At
  <1> QED BY <1>1, <1>5, <1>6, <1>7, <1>8, <1>9, <1>10, <1>11, <1>12, RunningInv

-----------------------------------------------------------------------------
(* Delivery, and the steps that change a receipt.                          *)

LEMMA StepInv ==
  ASSUME TurnInv, NEW t \in Turns, NEW e \in Events, Frame(t, e),
         pc[t] = "idle" \/ Event(t) = e, Local(t, e)', ReceiptTypeOK', LocalsOK', WorldOK'
  PROVE  TurnInv'
  BY StepParts, TypeSplitNext DEF TurnInv

LEMMA LocalFacts ==
  ASSUME TurnInv, NEW t \in Turns, NEW e \in Events
  PROVE  /\ Local(t, e) /\ ReceiptTypeOK /\ LocalsOK /\ WorldOK
         /\ TurnInOrder(t) /\ RunningOwns(t) /\ ReplySpent(t)
         /\ ReceiptKeepsHistory(e) /\ ThrewIsUncertain(e)
  BY Types DEF TurnInv, TurnParts, Local

LEMMA DeliverInv ==
  ASSUME TurnInv, NEW t \in Turns, NEW e \in Events, Deliver(t, e)
  PROVE  TurnInv'
  <1>1. /\ Local(t, e) /\ ReceiptTypeOK /\ LocalsOK /\ WorldOK
        /\ TurnInOrder(t) /\ ReceiptKeepsHistory(e) /\ ThrewIsUncertain(e)
    BY LocalFacts
  <1>2. /\ pc[t] = "idle" /\ UNCHANGED receiptVars /\ UNCHANGED worldVars
        /\ replying' = replying /\ sent' = sent /\ NoFault
    BY DEF Deliver, NoFault
  <1> DEFINE r == [NoTurn EXCEPT !.event = e]
  <1>3. r \in TurnRecord /\ r.event = e /\ ~r.started /\ ~r.failed /\ ~r.jobbed
    BY NoTurnRecord DEF NoTurn
  <1>4. PICK step \in {"claim", "take"} : GoWith(t, step, r) BY DEF Deliver
  <1> HIDE DEF r
  <1>5. At(t, step) /\ turn'[t] = r BY <1>1, <1>3, <1>4, GoWithShape
  <1>6. ReceiptTypeOK' /\ AllSameClaim BY <1>1, <1>2, SameReceipts
  <1>7. WorldOK' /\ AllSameWorld BY <1>1, <1>2, SameWorldType
  <1>8. LocalsOK' BY <1>1, <1>2, <1>5 DEF LocalsOK, At
  <1>9. Frame(t, e)
    BY <1>2, <1>5, <1>6, <1>7 DEF Frame, At, AllSameClaim, AllSameWorld, ReceiptMoves
  <1>10. Local(t, e)'
    <2>1. SameClaim(e) /\ SameWorld(e) BY <1>6, <1>7 DEF AllSameClaim, AllSameWorld
    <2>2. Event(t)' = e /\ sent[t] = 0 /\ replying[t] = "no"
      BY <1>1, <1>2, <1>3, <1>5 DEF Event, TurnInOrder
    <2> USE <1>1, <1>2, <1>3, <1>5, <2>1, <2>2 DEF At, SameClaim, SameWorld
    <2>3. TurnInOrder(t)' BY DEF TurnInOrder
    <2>4. RunningOwns(t)' BY DEF RunningOwns
    <2>5. ReplySpent(t)' BY DEF ReplySpent
    <2>6. ReceiptKeepsHistory(e)' BY DEF ReceiptKeepsHistory, Event
    <2>7. ThrewIsUncertain(e)' BY DEF ThrewIsUncertain, ReceiptKeepsHistory
    <2> QED BY <2>3, <2>4, <2>5, <2>6, <2>7 DEF Local
  <1> QED BY <1>2, <1>6, <1>7, <1>8, <1>9, <1>10, StepInv

LEMMA ClaimEventInv ==
  ASSUME TurnInv, NEW t \in Turns, ClaimEvent(t)
  PROVE  TurnInv'
  <1>1. /\ pc[t] = "claim" /\ UNCHANGED worldVars /\ replying' = replying /\ sent' = sent
        /\ Fault \/ NoFault
    BY DEF ClaimEvent
  <1> PICK e \in Events : Event(t) = e BY <1>1, EventOf
  <1>2. /\ Local(t, e) /\ ReceiptTypeOK /\ LocalsOK /\ WorldOK
        /\ TurnInOrder(t) /\ ReceiptKeepsHistory(e) /\ ThrewIsUncertain(e)
    BY LocalFacts
  <1>3. PICK step \in {"admit", "done"} :
          At(t, step) /\ turn' = turn
    BY <1>2, GoShape DEF ClaimEvent
  <1>4. WorldOK' /\ AllSameWorld BY <1>1, <1>2, SameWorldType
  <1>5. LocalsOK' BY <1>1, <1>2, <1>3 DEF LocalsOK, At
  <1>6. sent[t] = 0 /\ replying[t] = "no" /\ ~turn[t].started /\ ~turn[t].failed
    BY <1>1, <1>2 DEF TurnInOrder
  <1>7. CASE ClaimReceipt(e, t) \/ FindLapsed(e)
    <2>1. /\ ReceiptTypeOK'
          /\ \/ /\ receipt[e].phase \in {"none", "admitting"}
                /\ Moved(e, "admitting", t, "not_attempted", 0)
             \/ /\ receipt[e].phase = "started"
                /\ Moved(e, "uncertain", receipt[e].owner, receipt[e].delivery, 0)
      BY <1>2, <1>7, ClaimShape, LapsedShape
    <2>2. Frame(t, e)
      BY <1>1, <1>3, <1>4, <2>1 DEF Frame, At, AllSameWorld, ReceiptMoves, Moved
    <2>3. Local(t, e)'
      <3>1. SameWorld(e) /\ Event(t)' = e /\ dispatches'[e] = dispatches[e]
        BY <1>2, <1>3, <1>4, <2>1 DEF AllSameWorld, Event, Moved, ReceiptTypeOK
      <3> USE <1>1, <1>2, <1>3, <1>6, <2>1, <3>1 DEF At, SameWorld, Moved
      <3>2. TurnInOrder(t)' BY DEF TurnInOrder
      <3>3. RunningOwns(t)' BY DEF RunningOwns
      <3>4. ReplySpent(t)' BY DEF ReplySpent
      <3>5. ReceiptKeepsHistory(e)' BY DEF ReceiptKeepsHistory, Event
      <3>6. ThrewIsUncertain(e)' BY DEF ThrewIsUncertain, ReceiptKeepsHistory
      <3> QED BY <3>2, <3>3, <3>4, <3>5, <3>6 DEF Local
    <2> QED BY <1>4, <1>5, <2>1, <2>2, <2>3, StepInv
  <1>8. CASE UNCHANGED receiptVars
    <2>1. ReceiptTypeOK' /\ AllSameClaim BY <1>2, <1>8, SameReceipts
    <2>2. CASE Go(t, "done")
      <3>1. At(t, "done") BY <1>2, <2>2, GoShape
      <3>2. Quiet(t, "done") BY <1>1, <1>3, <3>1 DEF Quiet, SameTurn
      <3> QED BY <1>1, <1>2, <1>4, <2>1, <3>2, QuietInv DEF LocalsOK
    <2>3. CASE ClaimReceipt(e, t) \/ FindLapsed(e) BY <1>7, <2>3
    <2> QED BY <2>2, <2>3 DEF ClaimEvent
  <1> QED BY <1>7, <1>8 DEF ClaimEvent

LEMMA StartTurnInv ==
  ASSUME TurnInv, NEW t \in Turns, StartTurn(t)
  PROVE  TurnInv'
  <1>1. /\ pc[t] = "start" /\ UNCHANGED worldVars /\ replying' = replying /\ sent' = sent
        /\ Fault \/ NoFault
    BY DEF StartTurn
  <1> PICK e \in Events : Event(t) = e BY <1>1, EventOf
  <1>2. /\ Local(t, e) /\ ReceiptTypeOK /\ LocalsOK /\ WorldOK
        /\ TurnInOrder(t) /\ ReplySpent(t) /\ ReceiptKeepsHistory(e) /\ ThrewIsUncertain(e)
    BY LocalFacts
  <1>3. WorldOK' /\ AllSameWorld BY <1>1, <1>2, SameWorldType
  <1>4. CASE UNCHANGED receiptVars /\ Throw(t)
    <2>1. At(t, "finish") /\ SameTurn(t) /\ turn'[t].failed BY <1>2, <1>4, ThrowShape
    <2>2. Quiet(t, "finish") BY <1>1, <2>1 DEF Quiet
    <2> QED BY <1>1, <1>2, <1>3, <1>4, <2>2, QuietInv, SameReceipts DEF LocalsOK
  <1>5. CASE StartReceipt(e, t)
    <2>1. /\ ReceiptTypeOK' /\ receipt[e].phase = "admitting" /\ receipt[e].owner = t
          /\ Moved(e, "started", t, receipt[e].delivery, 1)
      BY <1>2, <1>5, StartShape
    <2>2. dispatches[e] = 0 /\ dispatches'[e] = 1
      BY <1>2, <2>1 DEF ReceiptKeepsHistory, Moved
    <2>3. PICK step \in {"create_job", "execute", "finish"} :
            /\ At(t, step) /\ turn'[t].event = e
            /\ step # "finish" => turn'[t].started /\ ~turn'[t].failed
            /\ step = "create_job" => turn'[t].jobbed
            /\ step = "execute" => ~turn'[t].jobbed
            /\ step = "finish" => SameTurn(t)
      <3> DEFINE begun == [turn[t] EXCEPT !.started = TRUE]
                 withJob == [begun EXCEPT !.jobbed = TRUE]
      <3>1. turn[t] \in TurnRecord /\ turn[t].event = e /\ ~turn[t].failed /\ ~turn[t].jobbed
        BY <1>1, <1>2 DEF LocalsOK, Event, TurnInOrder
      <3>2. begun \in TurnRecord /\ withJob \in TurnRecord BY <3>1, RecordUpdates
      <3>3. /\ begun.event = e /\ begun.started /\ ~begun.failed /\ ~begun.jobbed
            /\ withJob.event = e /\ withJob.started /\ withJob.jobbed /\ ~withJob.failed
        BY <3>1 DEF TurnRecord
      <3>4. \/ GoWith(t, "create_job", withJob) \/ GoWith(t, "execute", begun) \/ Throw(t)
        BY DEF StartTurn
      <3> HIDE DEF begun, withJob
      <3>5. CASE GoWith(t, "create_job", withJob)
        BY <1>2, <3>2, <3>3, <3>5, GoWithShape
      <3>6. CASE GoWith(t, "execute", begun) BY <1>2, <3>2, <3>3, <3>6, GoWithShape
      <3>7. CASE Throw(t) BY <1>2, <3>1, <3>7, ThrowShape DEF SameTurn
      <3> QED BY <3>4, <3>5, <3>6, <3>7
    <2>4. Frame(t, e)
      BY <1>1, <1>3, <2>1, <2>3 DEF Frame, At, AllSameWorld, ReceiptMoves, Moved
    <2>5. Local(t, e)'
      <3>1. SameWorld(e) /\ Event(t)' = e BY <1>3, <2>3 DEF AllSameWorld, Event
      <3>2. /\ executions[e] = 0 /\ outcome[e] = "none" /\ job[e].status = "none"
            /\ ~job[e].started
        BY <1>2, <2>1 DEF ReceiptKeepsHistory
      <3> USE <1>1, <1>2, <2>1, <2>2, <2>3, <3>1, <3>2 DEF At, SameWorld, Moved
      <3>3. TurnInOrder(t)' BY DEF TurnInOrder, SameTurn
      <3>4. RunningOwns(t)'
        <4>1. CASE step = "create_job" BY <4>1 DEF RunningOwns
        <4>2. CASE step = "execute"
          <5>1. job'[e].status = "none" /\ ~job'[e].started OBVIOUS
          <5>2. ~turn'[t].jobbed BY <4>2
          <5> QED BY <4>2, <5>1, <5>2 DEF RunningOwns
        <4>3. CASE step = "finish" BY <4>3 DEF RunningOwns
        <4> QED BY <4>1, <4>2, <4>3
      <3>5. ReplySpent(t)' BY DEF ReplySpent
      <3>6. ReceiptKeepsHistory(e)' BY DEF ReceiptKeepsHistory, Event
      <3>7. ThrewIsUncertain(e)' BY DEF ThrewIsUncertain
      <3> QED BY <3>3, <3>4, <3>5, <3>6, <3>7 DEF Local
    <2>6. LocalsOK' BY <1>1, <1>2, <2>3 DEF LocalsOK, At
    <2> QED BY <1>3, <2>1, <2>4, <2>5, <2>6, StepInv
  <1> QED BY <1>4, <1>5 DEF StartTurn

-----------------------------------------------------------------------------
(* The steps of the line client.                                           *)

LEMMA ReplyErrorShape ==
  ASSUME LocalsOK, NEW t \in Turns, UNCHANGED pc,
         \/ turn' = turn
         \/ pc[t] = "answer" /\ turn' = [turn EXCEPT ![t].failed = TRUE]
  PROVE  /\ At(t, pc[t]) /\ SameTurn(t) /\ (turn[t].failed => turn'[t].failed)
         /\ pc[t] # "answer" => turn' = turn
  <1>1. CASE turn' = turn BY <1>1 DEF LocalsOK, At, SameTurn
  <1>2. CASE pc[t] = "answer" /\ turn' = [turn EXCEPT ![t].failed = TRUE]
    <2> DEFINE r == [turn[t] EXCEPT !.failed = TRUE]
    <2>1. turn[t] \in TurnRecord BY DEF LocalsOK
    <2>2. /\ r \in TurnRecord /\ r.event = turn[t].event /\ r.jobbed = turn[t].jobbed
          /\ r.started = turn[t].started /\ r.failed
      BY <2>1, RecordUpdates DEF TurnRecord
    <2>3. turn' = [turn EXCEPT ![t] = r] BY <1>2
    <2> HIDE DEF r
    <2> QED BY <1>2, <2>2, <2>3 DEF LocalsOK, At, SameTurn
  <1> QED BY <1>1, <1>2

\* The owner of a receipt notes what became of its reply.
LEMMA NotedInv ==
  ASSUME TurnInv, NEW t \in Turns, NEW e \in Events, Event(t) = e, pc[t] \notin BeforeClaim,
         At(t, pc[t]), SameTurn(t), turn[t].failed => turn'[t].failed,
         pc[t] # "answer" => turn' = turn, sent' = sent,
         NEW status \in ReplyStates \ {"not_attempted"}, NoteDelivery(e, t, status),
         NEW next \in {"no", "send"}, ReplyTo(t, next), next = "send" => sent[t] = 0,
         UNCHANGED worldVars, Fault \/ NoFault
  PROVE  TurnInv'
  <1>1. /\ Local(t, e) /\ ReceiptTypeOK /\ LocalsOK /\ WorldOK
        /\ TurnInOrder(t) /\ RunningOwns(t) /\ ReplySpent(t)
        /\ ReceiptKeepsHistory(e) /\ ThrewIsUncertain(e)
    BY LocalFacts
  <1>2. /\ ReceiptTypeOK' /\ receipt[e].owner = t
        /\ Moved(e, receipt[e].phase, t, status, 0)
    BY <1>1, NoteShape
  <1>3. WorldOK' /\ AllSameWorld BY <1>1, SameWorldType
  <1>4. /\ replying' \in [Turns -> ReplySteps] /\ replying'[t] = next
        /\ \A u \in Turns \ {t} : replying'[u] = replying[u]
    BY <1>1, ReplyShape DEF ReplySteps
  <1>5. dispatches'[e] = dispatches[e] BY <1>1, <1>2 DEF Moved, ReceiptTypeOK
  <1>6. Frame(t, e)
    BY <1>2, <1>3, <1>4, <1>5 DEF Frame, At, AllSameWorld, ReceiptMoves, Moved
  <1>7. Local(t, e)'
    <2>1. SameWorld(e) /\ Event(t)' = e BY <1>3 DEF AllSameWorld, SameTurn, Event
    <2> USE <1>1, <1>2, <1>4, <1>5, <2>1 DEF At, SameTurn, SameWorld, Moved
    <2>2. TurnInOrder(t)' BY DEF TurnInOrder
    <2>3. RunningOwns(t)' BY DEF RunningOwns
    <2>4. ReplySpent(t)' BY DEF ReplySpent
    <2>5. ReceiptKeepsHistory(e)' BY DEF ReceiptKeepsHistory, Event
    <2>6. ThrewIsUncertain(e)' BY DEF ThrewIsUncertain
    <2> QED BY <2>2, <2>3, <2>4, <2>5, <2>6 DEF Local
  <1>8. LocalsOK' BY <1>1, <1>4 DEF LocalsOK, At
  <1> QED BY <1>2, <1>3, <1>6, <1>7, <1>8, StepInv

\* The receipt does not take the note: only the reply ends.
LEMMA RefusedNoteInv ==
  ASSUME TurnInv, NEW t \in Turns, NEW e \in Events, Event(t) = e, pc[t] \notin BeforeClaim,
         UNCHANGED <<pc, turn, sent>>, UNCHANGED receiptVars, ReplyTo(t, "no"),
         UNCHANGED worldVars, Fault \/ NoFault
  PROVE  TurnInv'
  <1>1. ReceiptTypeOK /\ LocalsOK /\ WorldOK BY Types
  <1>2. /\ replying' \in [Turns -> ReplySteps] /\ replying'[t] = "no"
        /\ \A u \in Turns \ {t} : replying'[u] = replying[u]
    BY <1>1, ReplyShape DEF ReplySteps
  <1>3. Quiet(t, pc[t]) BY <1>1, <1>2 DEF Quiet, SameTurn, At, LocalsOK
  <1>4. pc[t] \in TurnSteps BY <1>1 DEF LocalsOK
  <1> QED BY <1>1, <1>2, <1>3, <1>4, QuietInv, SameReceipts, SameWorldType

\* A turn whose reply is under way has claimed its event.
LEMMA ReplyingClaimed ==
  ASSUME TurnInv, NEW t \in Turns, replying[t] # "no"
  PROVE  pc[t] \notin BeforeClaim /\ \E e \in Events : Event(t) = e
  BY DEF TurnInv, TurnParts, TurnInOrder

LEMMA AttemptReplyInv ==
  ASSUME TurnInv, NEW t \in Turns, AttemptReply(t)
  PROVE  TurnInv'
  <1>1. /\ replying[t] = "attempt" /\ UNCHANGED pc /\ sent' = sent /\ UNCHANGED worldVars
        /\ Fault \/ NoFault
    BY DEF AttemptReply, ReplyError
  <1>2. pc[t] \notin BeforeClaim BY <1>1, ReplyingClaimed
  <1> PICK e \in Events : Event(t) = e BY <1>1, ReplyingClaimed
  <1>3. LocalsOK /\ ReceiptTypeOK /\ ReplySpent(t) BY LocalFacts
  <1>4. CASE NoteDelivery(e, t, "attempted") /\ (ReplyTo(t, "send") /\ UNCHANGED turn)
    <2>1. receipt[e].owner = t /\ receipt[e].delivery = "not_attempted"
      BY <1>3, <1>4, NoteShape
    <2>2. sent[t] = 0 BY <1>3, <2>1 DEF ReplySpent, LocalsOK
    <2>3. At(t, pc[t]) /\ SameTurn(t) BY <1>1, <1>3, <1>4, ReplyErrorShape
    <2> QED BY <1>1, <1>2, <1>4, <2>2, <2>3, NotedInv
  <1>5. CASE NoteDelivery(e, t, "attempted") /\ ReplyError(t)
    <2>1. /\ At(t, pc[t]) /\ SameTurn(t) /\ (turn[t].failed => turn'[t].failed)
          /\ pc[t] # "answer" => turn' = turn
      BY <1>1, <1>3, <1>5, ReplyErrorShape DEF ReplyError
    <2> QED BY <1>1, <1>2, <1>5, <2>1, NotedInv DEF ReplyError
  <1>6. CASE UNCHANGED <<receiptVars, turn>> /\ ReplyTo(t, "no")
    BY <1>1, <1>2, <1>6, RefusedNoteInv
  <1> QED BY <1>4, <1>5, <1>6 DEF AttemptReply

LEMMA NoteReplyInv ==
  ASSUME TurnInv, NEW t \in Turns, NoteReply(t)
  PROVE  TurnInv'
  <1>1. /\ replying[t] = "note" /\ UNCHANGED pc /\ sent' = sent /\ UNCHANGED worldVars
        /\ Fault \/ NoFault
    BY DEF NoteReply, ReplyError
  <1>2. pc[t] \notin BeforeClaim BY <1>1, ReplyingClaimed
  <1> PICK e \in Events : Event(t) = e BY <1>1, ReplyingClaimed
  <1>3. LocalsOK BY Types
  <1> PICK status \in {"accepted", "unknown"} :
        \/ /\ NoteDelivery(e, t, status)
           /\ (ReplyTo(t, "no") /\ UNCHANGED turn) \/ ReplyError(t)
        \/ UNCHANGED receiptVars /\ ReplyTo(t, "no") /\ UNCHANGED turn
    BY DEF NoteReply
  <1>4. CASE NoteDelivery(e, t, status) /\ ((ReplyTo(t, "no") /\ UNCHANGED turn) \/ ReplyError(t))
    <2>1. /\ At(t, pc[t]) /\ SameTurn(t) /\ (turn[t].failed => turn'[t].failed)
          /\ pc[t] # "answer" => turn' = turn
      BY <1>1, <1>3, <1>4, ReplyErrorShape DEF ReplyError
    <2>2. ReplyTo(t, "no") BY <1>4 DEF ReplyError
    <2> QED BY <1>1, <1>2, <1>4, <2>1, <2>2, NotedInv
  <1>5. CASE UNCHANGED receiptVars /\ ReplyTo(t, "no") /\ UNCHANGED turn
    BY <1>1, <1>2, <1>5, RefusedNoteInv
  <1> QED BY <1>4, <1>5

LEMMA SendReplyInv ==
  ASSUME TurnInv, NEW t \in Turns, SendReply(t)
  PROVE  TurnInv'
  <1>1. /\ replying[t] = "send" /\ sent' = [sent EXCEPT ![t] = @ + 1] /\ ReplyTo(t, "note")
        /\ UNCHANGED <<pc, turn>> /\ UNCHANGED receiptVars /\ UNCHANGED worldVars /\ NoFault
    BY DEF SendReply, NoFault
  <1>2. pc[t] \notin BeforeClaim BY <1>1, ReplyingClaimed
  <1> PICK e \in Events : Event(t) = e BY <1>1, ReplyingClaimed
  <1>3. /\ Local(t, e) /\ ReceiptTypeOK /\ LocalsOK /\ WorldOK
        /\ TurnInOrder(t) /\ RunningOwns(t) /\ ReplySpent(t)
        /\ ReceiptKeepsHistory(e) /\ ThrewIsUncertain(e)
    BY LocalFacts
  <1>4. ReceiptTypeOK' /\ AllSameClaim BY <1>1, <1>3, SameReceipts
  <1>5. WorldOK' /\ AllSameWorld BY <1>1, <1>3, SameWorldType
  <1>6. /\ replying' \in [Turns -> ReplySteps] /\ replying'[t] = "note"
        /\ \A u \in Turns \ {t} : replying'[u] = replying[u]
    BY <1>1, <1>3, ReplyShape DEF ReplySteps
  <1>7. /\ sent' \in [Turns -> Nat] /\ sent'[t] = 1
        /\ \A u \in Turns \ {t} : sent'[u] = sent[u]
    BY <1>1, <1>3 DEF ReplySpent, LocalsOK
  <1>8. LocalsOK' BY <1>1, <1>3, <1>6, <1>7 DEF LocalsOK
  <1>9. Frame(t, e)
    BY <1>1, <1>4, <1>5, <1>6, <1>7 DEF Frame, AllSameClaim, AllSameWorld, ReceiptMoves
  <1>10. Local(t, e)'
    <2>1. SameClaim(e) /\ SameWorld(e) /\ Event(t)' = e
      BY <1>1, <1>4, <1>5 DEF AllSameClaim, AllSameWorld, Event
    <2> USE <1>1, <1>2, <1>3, <1>6, <1>7, <2>1 DEF SameClaim, SameWorld
    <2>2. TurnInOrder(t)' BY DEF TurnInOrder
    <2>3. RunningOwns(t)' BY DEF RunningOwns
    <2>4. ReplySpent(t)' BY DEF ReplySpent
    <2>5. ReceiptKeepsHistory(e)' BY DEF ReceiptKeepsHistory, Event
    <2>6. ThrewIsUncertain(e)' BY DEF ThrewIsUncertain
    <2> QED BY <2>2, <2>3, <2>4, <2>5, <2>6 DEF Local
  <1> QED BY <1>4, <1>5, <1>8, <1>9, <1>10, StepInv

LEMMA FinishTurnInv ==
  ASSUME TurnInv, NEW t \in Turns, FinishTurn(t)
  PROVE  TurnInv'
  <1>1. /\ pc[t] = "finish" /\ sent' = sent /\ UNCHANGED worldVars /\ (Fault \/ NoFault)
        /\ (AppliesFinish(t) \/ UNCHANGED receiptVars)
        /\ (Reply(t) \/ UNCHANGED replying)
    BY DEF FinishTurn
  <1> PICK e \in Events : Event(t) = e BY <1>1, EventOf
  <1>2. /\ Local(t, e) /\ ReceiptTypeOK /\ LocalsOK /\ WorldOK
        /\ TurnInOrder(t) /\ RunningOwns(t) /\ ReplySpent(t)
        /\ ReceiptKeepsHistory(e) /\ ThrewIsUncertain(e)
    BY LocalFacts
  <1>3. PICK step \in {"farewell", "done"} : Go(t, step) BY DEF FinishTurn
  <1>4. At(t, step) /\ turn' = turn BY <1>2, <1>3, GoShape
  <1>5. WorldOK' /\ AllSameWorld BY <1>1, <1>2, SameWorldType
  <1>6. /\ replying' \in [Turns -> ReplySteps] /\ replying'[t] \in {"attempt", replying[t]}
        /\ \A u \in Turns \ {t} : replying'[u] = replying[u]
    BY <1>1, <1>2 DEF Reply, LocalsOK, ReplySteps
  <1>7. CASE ReceiptTypeOK' /\ AllSameClaim
    <2>1. Quiet(t, step) BY <1>1, <1>4, <1>6 DEF Quiet, SameTurn
    <2> QED BY <1>5, <1>6, <1>7, <2>1, QuietInv
  <1>8. ASSUME NEW phase \in Settled, SettleReceipt(e, t, phase),
               phase = "completed" => ~turn[t].failed, phase = "uncertain" => turn[t].started
        PROVE  TurnInv'
    <2>1. /\ ReceiptTypeOK' /\ receipt[e].phase \notin Settled /\ receipt[e].owner = t
          /\ Moved(e, phase, t, receipt[e].delivery, 0)
      BY <1>2, <1>8, SettleShape
    <2>2. dispatches'[e] = dispatches[e] BY <1>2, <2>1 DEF Moved, ReceiptTypeOK
    <2>3. Frame(t, e)
      BY <1>1, <1>4, <1>5, <1>6, <2>1, <2>2 DEF Frame, At, AllSameWorld, ReceiptMoves, Moved
    <2>4. Local(t, e)'
      <3>1. SameWorld(e) /\ Event(t)' = e BY <1>4, <1>5 DEF AllSameWorld, Event
      <3> USE <1>1, <1>2, <1>4, <1>6, <1>8, <2>1, <2>2, <3>1 DEF At, SameWorld, Moved
      <3>2. TurnInOrder(t)' BY DEF TurnInOrder
      <3>3. RunningOwns(t)' BY DEF RunningOwns
      <3>4. ReplySpent(t)' BY DEF ReplySpent
      <3>5. ReceiptKeepsHistory(e)' BY DEF ReceiptKeepsHistory, TurnInOrder, Event
      <3>6. ThrewIsUncertain(e)' BY DEF ThrewIsUncertain
      <3> QED BY <3>2, <3>3, <3>4, <3>5, <3>6 DEF Local
    <2>5. LocalsOK' BY <1>1, <1>2, <1>4, <1>6 DEF LocalsOK, At
    <2> QED BY <1>5, <2>1, <2>3, <2>4, <2>5, StepInv
  <1>9. CASE UNCHANGED receiptVars BY <1>2, <1>7, <1>9, SameReceipts
  <1>10. CASE AppliesFinish(t)
    <2>1. CASE FinishAs(t) = "release" BY <1>2, <1>7, <1>10, <2>1, LeaseShape DEF AppliesFinish
    <2>2. CASE FinishAs(t) # "release"
      <3>1. /\ FinishAs(t) \in Settled /\ SettleReceipt(e, t, FinishAs(t))
            /\ FinishAs(t) = "completed" => ~turn[t].failed
            /\ FinishAs(t) = "uncertain" => turn[t].started
        BY <1>10, <2>2 DEF AppliesFinish, FinishAs
      <3> QED BY <3>1, <1>8
    <2> QED BY <2>1, <2>2
  <1> QED BY <1>1, <1>9, <1>10

-----------------------------------------------------------------------------
(* The steps of no turn.                                                   *)

LEMMA IdleInv ==
  ASSUME TurnInv, UNCHANGED localVars, ReceiptTypeOK', AllSameClaim, WorldOK', AllSameWorld
  PROVE  TurnInv'
  <1>1. ReceiptTypeOK /\ LocalsOK /\ WorldOK BY Types
  <1>2. UNCHANGED <<pc, turn, replying, sent>> BY DEF localVars
  <1>3. LocalsOK' BY <1>1, <1>2 DEF LocalsOK
  <1>4. ASSUME NEW t \in Turns PROVE TurnInOrder(t)' /\ RunningOwns(t)' /\ ReplySpent(t)'
    <2>1. TurnInOrder(t) /\ RunningOwns(t) /\ ReplySpent(t) BY DEF TurnInv, TurnParts
    <2>2. CASE Event(t) \in Events
      <3>1. SameClaim(Event(t)) /\ SameWorld(Event(t)) BY <2>2 DEF AllSameClaim, AllSameWorld
      <3> QED BY <1>2, <2>1, <3>1 DEF TurnInOrder, RunningOwns, ReplySpent, SameClaim, SameWorld,
                                Event
    <2>3. CASE Event(t) \notin Events
      BY <1>2, <2>1, <2>3 DEF TurnInOrder, RunningOwns, ReplySpent, Event
    <2> QED BY <2>2, <2>3
  <1>5. ASSUME NEW e \in Events PROVE ReceiptKeepsHistory(e)' /\ ThrewIsUncertain(e)'
    <2>1. SameClaim(e) /\ SameWorld(e) BY DEF AllSameClaim, AllSameWorld
    <2>2. ReceiptKeepsHistory(e) /\ ThrewIsUncertain(e) BY DEF TurnInv, TurnParts
    <2> QED BY <1>2, <2>1, <2>2
          DEF ReceiptKeepsHistory, ThrewIsUncertain, SameClaim, SameWorld, Event
  <1>6. TurnParts' BY <1>4, <1>5 DEF TurnParts
  <1> QED BY <1>3, <1>6, TypeSplitNext DEF TurnInv

LEMMA StutterInv ==
  ASSUME TurnInv, UNCHANGED vars
  PROVE  TurnInv'
  <1>1. ReceiptTypeOK /\ LocalsOK /\ WorldOK BY Types
  <1>2. /\ UNCHANGED receiptVars /\ UNCHANGED localVars /\ UNCHANGED worldVars /\ NoFault
    BY DEF vars, localVars, worldVars, NoFault
  <1> QED BY <1>1, <1>2, IdleInv, SameReceipts, SameWorldType

LEMMA TickInv ==
  ASSUME TurnInv, Tick
  PROVE  TurnInv'
  <1> DEFINE l(e) == IF job[e].lease > 0 THEN job[e].lease - 1 ELSE 0
             r(e) == [job[e] EXCEPT !.lease = l(e)]
  <1>1. ReceiptTypeOK /\ WorldOK BY Types
  <1>2. ASSUME NEW e \in Events
        PROVE  r(e) \in JobRecord /\ r(e).status = job[e].status /\ r(e).started = job[e].started
    <2>1. job[e] \in JobRecord /\ "none" \in JobStates BY <1>1 DEF WorldOK, JobStates
    <2>2. job[e].lease \in 0 .. JobLease BY <2>1 DEF JobRecord
    <2>3. l(e) \in 0 .. JobLease BY <2>2, TurnAssumption
    <2> HIDE DEF l
    <2> QED BY <2>1, <2>3, JobRecords
  <1>3. /\ job' = [e \in Events |-> r(e)] /\ UNCHANGED localVars /\ AgeReceipts
        /\ UNCHANGED <<button, outcome, executions, faults>>
    BY DEF Tick
  <1> HIDE DEF r
  <1>4. WorldOK' /\ AllSameWorld
    BY <1>1, <1>2, <1>3 DEF WorldOK, AllSameWorld, SameWorld
  <1> QED BY <1>1, <1>3, <1>4, AgeShape, IdleInv

LEMMA HandledElsewhereInv ==
  ASSUME TurnInv, NEW e \in Events, HandledElsewhere(e)
  PROVE  TurnInv'
  <1>1. ReceiptTypeOK /\ LocalsOK /\ WorldOK BY Types
  <1>2. /\ TryStart(e) /\ executions' = [executions EXCEPT ![e] = @ + 1]
        /\ UNCHANGED <<pc, turn, replying, sent>>
        /\ UNCHANGED <<button, job, outcome, faults>>
    BY DEF HandledElsewhere, localVars
  <1>3. /\ ReceiptTypeOK' /\ receipt[e].phase = "none"
        /\ Moved(e, "legacy", receipt[e].owner, receipt[e].delivery, 1)
    BY <1>1, <1>2, TryStartShape
  <1>4. ReceiptKeepsHistory(e) /\ ThrewIsUncertain(e) BY DEF TurnInv, TurnParts
  <1>5. dispatches[e] = 0 /\ executions[e] = 0 /\ dispatches'[e] = 1 /\ executions'[e] = 1
    BY <1>1, <1>2, <1>3, <1>4 DEF ReceiptKeepsHistory, Moved, WorldOK
  <1>6. WorldOK' /\ LocalsOK' BY <1>1, <1>2 DEF WorldOK, LocalsOK
  <1>7. \A f \in Events \ {e} : SameClaim(f) /\ SameWorld(f)
    BY <1>1, <1>2, <1>3 DEF Moved, SameWorld, WorldOK
  <1>8. ASSUME NEW t \in Turns PROVE TurnInOrder(t)' /\ RunningOwns(t)' /\ ReplySpent(t)'
    <2>1. TurnInOrder(t) /\ RunningOwns(t) /\ ReplySpent(t) BY DEF TurnInv, TurnParts
    <2>2. CASE Event(t) \in Events \ {e}
      <3>1. SameClaim(Event(t)) /\ SameWorld(Event(t)) BY <1>7, <2>2
      <3> QED BY <1>2, <2>1, <3>1 DEF TurnInOrder, RunningOwns, ReplySpent, SameClaim, SameWorld,
                                Event
    <2>3. CASE Event(t) = e
      BY <1>2, <1>3, <1>5, <2>1, <2>3 DEF TurnInOrder, RunningOwns, ReplySpent, Event, Moved
    <2>4. CASE Event(t) \notin Events
      <3>1. pc[t] = "idle" BY <2>1, <2>4 DEF TurnInOrder
      <3> QED BY <1>2, <2>1, <3>1 DEF TurnInOrder, RunningOwns, ReplySpent, Event
    <2> QED BY <2>2, <2>3, <2>4
  <1>9. ASSUME NEW f \in Events PROVE ReceiptKeepsHistory(f)' /\ ThrewIsUncertain(f)'
    <2>1. ReceiptKeepsHistory(f) /\ ThrewIsUncertain(f) BY DEF TurnInv, TurnParts
    <2>2. CASE f # e
      <3>1. SameClaim(f) /\ SameWorld(f) BY <1>7, <2>2
      <3> QED BY <1>2, <2>1, <3>1
            DEF ReceiptKeepsHistory, ThrewIsUncertain, SameClaim, SameWorld, Event
    <2>3. CASE f = e
      BY <1>2, <1>3, <1>4, <1>5, <2>3 DEF ReceiptKeepsHistory, ThrewIsUncertain, Event, Moved
    <2> QED BY <2>2, <2>3
  <1>10. TurnParts' BY <1>8, <1>9 DEF TurnParts
  <1> QED BY <1>3, <1>6, <1>10, TypeSplitNext DEF TurnInv

-----------------------------------------------------------------------------
(* The invariant, and what follows from it.                                *)

LEMMA InitInv == Init => TurnInv
  <1> SUFFICES ASSUME Init PROVE TurnInv OBVIOUS
  <1>1. ReceiptTypeOK /\ \A e \in Events : dispatches[e] = 0 /\ receipt[e] = NoReceipt
    BY ReceiptAssumption DEF Init, ReceiptInit, NoReceipt, ReceiptTypeOK, ReceiptRecord
  <1>2. LocalsOK BY DEF Init, LocalsOK, NoTurn, TurnRecord, ReplySteps
  <1>3. WorldOK BY TurnAssumption DEF Init, WorldOK, JobRecord
  <1>4. ASSUME NEW t \in Turns PROVE TurnInOrder(t) /\ RunningOwns(t) /\ ReplySpent(t)
    BY DEF Init, NoTurn, TurnInOrder, RunningOwns, ReplySpent
  <1>5. ASSUME NEW e \in Events PROVE ReceiptKeepsHistory(e) /\ ThrewIsUncertain(e)
    BY <1>1, ReceiptAssumption DEF Init, NoReceipt, ReceiptKeepsHistory, ThrewIsUncertain
  <1> QED BY <1>1, <1>2, <1>3, <1>4, <1>5, TypeSplit DEF TurnInv, TurnParts

LEMMA ProceedInv ==
  ASSUME TurnInv, NEW t \in Turns, Proceed(t)
  PROVE  TurnInv'
  BY TakeButtonInv, ClaimEventInv, AdmitInv, StartTurnInv, CreateJobInv, MarkJobStartedInv,
     ExecuteInv, ContextInvalidatedInv, SettleJobInv, FailJobInv, AttemptReplyInv,
     SendReplyInv, NoteReplyInv, AfterReplyInv, FinishTurnInv
  DEF Proceed

LEMMA NextInv ==
  ASSUME TurnInv, [Next]_vars
  PROVE  TurnInv'
  <1>1. ASSUME NEW t \in Turns, NEW e \in Events, Deliver(t, e) PROVE TurnInv'
    BY <1>1, DeliverInv
  <1>2. ASSUME NEW t \in Turns, Proceed(t) PROVE TurnInv' BY <1>2, ProceedInv
  <1>3. ASSUME NEW t \in Turns, ReplyAgain(t) \/ Defer(t) PROVE TurnInv'
    BY <1>3, ReplyAgainInv, DeferInv
  <1>4. ASSUME NEW t \in Turns, Heartbeat(t) \/ JobHeartbeat(t) \/ CrashTurn(t)
        PROVE  TurnInv'
    BY <1>4, HeartbeatInv, JobHeartbeatInv, CrashTurnInv
  <1>5. ASSUME NEW e \in Events, HandledElsewhere(e) PROVE TurnInv'
    BY <1>5, HandledElsewhereInv
  <1>6. CASE Tick BY <1>6, TickInv
  <1>7. CASE UNCHANGED vars BY <1>7, StutterInv
  <1> QED BY <1>1, <1>2, <1>3, <1>4, <1>5, <1>6, <1>7 DEF Next

THEOREM TurnInvariant == Spec => []TurnInv
  <1>1. Init => TurnInv BY InitInv
  <1>2. TurnInv /\ [Next]_vars => TurnInv' BY NextInv
  <1> QED BY <1>1, <1>2, PTL DEF Spec

\* Every variable of a turn stays in its type, whatever the event is and whoever fails.
THEOREM TurnTypeCorrect == Spec => []TurnTypeOK
  <1>1. TurnInv => TurnTypeOK BY DEF TurnInv
  <1> QED BY <1>1, TurnInvariant, PTL

\* The handler of an event runs at most once, for any number of deliveries, replicas,
\* crashes and lost replies and any length of the lease: execute of a dispatched turn and
\* the handlers of media events together.
THEOREM ExecutedAtMostOnce == Spec => []AtMostOneExecution
  <1>1. TurnInv => AtMostOneExecution
    BY DEF TurnInv, TurnParts, ReceiptKeepsHistory, AtMostOneExecution
  <1> QED BY <1>1, TurnInvariant, PTL

\* What claim and finish leave in a receipt never denies what the handler did.
THEOREM ReceiptTruthful == Spec => []ReceiptTellsHistory
  <1>1. TurnInv => ReceiptTellsHistory
    BY DEF TurnInv, TurnParts, ReceiptKeepsHistory, ThrewIsUncertain, ReceiptTellsHistory
  <1> QED BY <1>1, TurnInvariant, PTL

\* A turn hands its reply token to LINE at most once, though its handler, its deferral and
\* its farewell may each call the line client.
THEOREM RepliedAtMostOnce == Spec => []OneReplyPerTurn
  <1>1. TurnInv => OneReplyPerTurn
    BY DEF TurnInv, TurnParts, ReplySpent, OneReplyPerTurn
  <1> QED BY <1>1, TurnInvariant, PTL

\* projectJob shows no requester a failure for a handler that threw after it had started.
THEOREM FailedRunStaysUncertain == Spec => []FailedRunIsUncertain
  <1>1. TurnInv => FailedRunIsUncertain
    BY DEF TurnInv, TurnParts, ThrewIsUncertain, FailedRunIsUncertain, View
  <1> QED BY <1>1, TurnInvariant, PTL

-----------------------------------------------------------------------------
(* The turns use the receipt store as its most general client may.         *)

LEMMA TurnStepIsReceiptStep ==
  ASSUME TurnInv, NEW t \in Turns, Proceed(t) \/ Heartbeat(t)
  PROVE  [ReceiptNext]_receiptVars
  <1> USE DEF ReceiptNext, OwnerCall
  <1>1. ASSUME pc[t] # "idle", NEW P, P = Event(t) PROVE P \in Events
    BY <1>1, EventOf
  <1>2. CASE ClaimEvent(t) BY <1>1, <1>2 DEF ClaimEvent
  <1>3. CASE StartTurn(t) BY <1>1, <1>3 DEF StartTurn
  <1>4. CASE AttemptReply(t)
    <2>1. Event(t) \in Events BY <1>4, ReplyingClaimed DEF AttemptReply
    <2> QED BY <1>4, <2>1 DEF AttemptReply
  <1>5. CASE NoteReply(t)
    <2>1. Event(t) \in Events BY <1>5, ReplyingClaimed DEF NoteReply
    <2> QED BY <1>5, <2>1 DEF NoteReply
  <1>6. CASE FinishTurn(t) BY <1>1, <1>6 DEF FinishTurn, AppliesFinish, FinishAs
  <1>7. CASE Heartbeat(t) BY <1>1, <1>7 DEF Heartbeat
  <1>8. CASE TakeButton(t) \/ Admit(t) \/ Execute(t) \/ SendReply(t) \/ AfterReply(t)
    BY <1>8 DEF TakeButton, Admit, Execute, SendReply, AfterReply
  <1>9. CASE \/ CreateJob(t) \/ MarkJobStarted(t) \/ ContextInvalidated(t) \/ SettleJob(t)
             \/ FailJob(t)
    <2>1. UNCHANGED jobCallUnchanged
      BY <1>9 DEF CreateJob, MarkJobStarted, ContextInvalidated, SettleJob, FailJob
    <2> QED BY <2>1 DEF jobCallUnchanged
  <1> QED BY <1>2, <1>3, <1>4, <1>5, <1>6, <1>7, <1>8, <1>9 DEF Proceed

\* Whatever turns, heartbeats, crashes and media handlers do, the receipts see a behaviour
\* of the store alone, so what is proved of the store holds of the composed system.
THEOREM TurnImplementsReceipts == Spec => ReceiptSpec
  <1>1. Init => ReceiptInit BY DEF Init
  <1>2. ASSUME TurnInv, [Next]_vars PROVE [ReceiptNext]_receiptVars
    <2>1. ASSUME NEW t \in Turns, Proceed(t) \/ Heartbeat(t) PROVE [ReceiptNext]_receiptVars
      BY <1>2, <2>1, TurnStepIsReceiptStep
    <2>2. ASSUME NEW t \in Turns, \/ \E e \in Events : Deliver(t, e)
                                  \/ ReplyAgain(t) \/ Defer(t) \/ JobHeartbeat(t) \/ CrashTurn(t)
          PROVE  [ReceiptNext]_receiptVars
      BY <2>2 DEF Deliver, ReplyAgain, Defer, JobHeartbeat, CrashTurn
    <2>3. ASSUME NEW e \in Events, HandledElsewhere(e) PROVE [ReceiptNext]_receiptVars
      BY <2>3 DEF HandledElsewhere, ReceiptNext
    <2>4. CASE Tick BY <2>4 DEF Tick, ReceiptNext
    <2>5. CASE UNCHANGED vars BY <2>5 DEF vars
    <2> QED BY <1>2, <2>1, <2>2, <2>3, <2>4, <2>5 DEF Next
  <1> QED BY <1>1, <1>2, TurnInvariant, PTL DEF Spec, ReceiptSpec

=============================================================================
