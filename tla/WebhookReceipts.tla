-------------------------- MODULE WebhookReceipts --------------------------
(***************************************************************************)
(* RedisWebhookEventStore (src/idempotency/webhook-event-store.ts): one    *)
(* receipt per LINE webhook event says who may handle the event, and how   *)
(* far its handling has come.  claim and transition are one Lua script     *)
(* each, so each is one atomic action; both read the clock of Redis.       *)
(* leaseUntil is a countdown.  The seven days a receipt is kept are longer *)
(* than any behaviour here.                                                *)
(*                                                                         *)
(* ReceiptSpec is the store under its most general client.                 *)
(***************************************************************************)
EXTENDS Integers

CONSTANTS
  Events,           \* ids of webhook events
  Turns,            \* handlings of a delivered event; each claims with an owner id of its own
  ReceiptLease,     \* leaseMs of a receipt
  Nobody            \* no owner

ASSUME ReceiptAssumption ==
  ReceiptLease \in Nat \ {0} /\ Nobody \notin Turns

VARIABLES
  receipt,          \* receipt[e]: the record under the key of e
  dispatches        \* history: how often a claimer of e was allowed to start its handler

receiptVars == <<receipt, dispatches>>

Settled == {"completed", "uncertain"}

\* "legacy" is the bare value that tryStart writes.
Phases == {"none", "legacy", "admitting", "started"} \cup Settled

ReplyStates == {"not_attempted", "attempted", "accepted", "unknown"}

ReceiptRecord ==
  [phase : Phases, owner : Turns \cup {Nobody}, lease : 0 .. ReceiptLease,
   delivery : ReplyStates]

NoReceipt ==
  [phase |-> "none", owner |-> Nobody, lease |-> 0, delivery |-> "not_attempted"]

ReceiptInit ==
  /\ receipt = [e \in Events |-> NoReceipt]
  /\ dispatches = [e \in Events |-> 0]

-----------------------------------------------------------------------------
(* claim and tryStart.                                                     *)

Lapsed(e) == receipt[e].lease = 0

ClaimableAgain(e) ==                     \* faulty: a started handler is run again
  \/ receipt[e].phase = "none"
  \/ receipt[e].phase \in {"admitting", "started"} /\ Lapsed(e)

Claimable(e) ==
  \/ receipt[e].phase = "none"
  \/ receipt[e].phase = "admitting" /\ Lapsed(e)

\* A new owner starts afresh: it has attempted no reply.
ClaimReceipt(e, t) ==
  /\ Claimable(e)
  /\ receipt' = [receipt EXCEPT ![e] =
       [phase |-> "admitting", owner |-> t, lease |-> ReceiptLease,
        delivery |-> "not_attempted"]]
  /\ UNCHANGED dispatches

\* A claim that finds a started handler without a live lease gives it up.
FindLapsed(e) ==
  /\ receipt[e].phase = "started" /\ Lapsed(e)
  /\ receipt' = [receipt EXCEPT ![e].phase = "uncertain"]
  /\ UNCHANGED dispatches

\* The intake of media events, and replicas of earlier releases, use SET NX.
TryStart(e) ==
  /\ receipt[e].phase = "none"
  /\ receipt' = [receipt EXCEPT ![e].phase = "legacy"]
  /\ dispatches' = [dispatches EXCEPT ![e] = @ + 1]

-----------------------------------------------------------------------------
(* transition and delivery, for the owner of a live lease.                 *)

Owns(e, t) == receipt[e].owner = t /\ ~Lapsed(e)

Open(e, t) == Owns(e, t) /\ receipt[e].phase \notin Settled

CanStart(e, t) == Open(e, t) /\ receipt[e].phase = "admitting"

StartReceipt(e, t) ==
  /\ CanStart(e, t)
  /\ receipt' = [receipt EXCEPT ![e].phase = "started"]
  /\ dispatches' = [dispatches EXCEPT ![e] = @ + 1]

\* complete and uncertain.
SettleReceipt(e, t, phase) ==
  /\ Open(e, t)
  /\ receipt' = [receipt EXCEPT ![e].phase = phase]
  /\ UNCHANGED dispatches

CanRelease(e, t) == Open(e, t) /\ receipt[e].phase = "admitting"

ReleaseReceipt(e, t) ==
  /\ CanRelease(e, t)
  /\ receipt' = [receipt EXCEPT ![e].lease = 0]
  /\ UNCHANGED dispatches

RenewReceipt(e, t) ==
  /\ Open(e, t)
  /\ receipt' = [receipt EXCEPT ![e].lease = ReceiptLease]
  /\ UNCHANGED dispatches

CanNoteAnyDelivery(e, t, status) == Owns(e, t)   \* faulty: a reply may be attempted again

CanNoteDelivery(e, t, status) ==
  /\ Owns(e, t)
  /\ receipt[e].delivery = IF status = "attempted" THEN "not_attempted" ELSE "attempted"

NoteDelivery(e, t, status) ==
  /\ CanNoteDelivery(e, t, status)
  /\ receipt' = [receipt EXCEPT ![e].delivery = status]
  /\ UNCHANGED dispatches

-----------------------------------------------------------------------------
AgeReceipts ==
  /\ receipt' = [e \in Events |->
       [receipt[e] EXCEPT !.lease = IF @ > 0 THEN @ - 1 ELSE 0]]
  /\ UNCHANGED dispatches

OwnerCall(e, t) ==
  \/ ClaimReceipt(e, t) \/ StartReceipt(e, t) \/ ReleaseReceipt(e, t) \/ RenewReceipt(e, t)
  \/ \E phase \in Settled : SettleReceipt(e, t, phase)
  \/ \E status \in ReplyStates \ {"not_attempted"} : NoteDelivery(e, t, status)

ReceiptNext ==
  \/ AgeReceipts
  \/ \E e \in Events : FindLapsed(e) \/ TryStart(e) \/ \E t \in Turns : OwnerCall(e, t)

ReceiptSpec == ReceiptInit /\ [][ReceiptNext]_receiptVars

-----------------------------------------------------------------------------
(* Properties.                                                             *)

\* The receipts keep their fields, and only a claim has an owner.
ReceiptTypeOK ==
  /\ receipt \in [Events -> ReceiptRecord]
  /\ dispatches \in [Events -> Nat]

\* The handler of an event is allowed to start at most once, whatever leases run out
\* and whichever earlier owners still call.
AtMostOneDispatch == \A e \in Events : dispatches[e] <= 1

=============================================================================
