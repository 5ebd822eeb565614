--------------------------- MODULE ScanWorkStore ---------------------------
(***************************************************************************)
(* RedisAttachmentScanWorkStore (src/attachments/scan-work-store.ts): the  *)
(* durable record of one confirmed LINE attachment.  Every operation that  *)
(* changes a record is one Lua script, so it is one atomic action here.    *)
(* Timestamps are countdowns: "expiresAt > now" is a countdown above zero. *)
(* The store reads the clock before it awaits Redis, so the time it passes *)
(* to a script may lag the clock by at most MaxLag units.                  *)
(*                                                                         *)
(* Spec is the store under its most general client: any caller may call    *)
(* any operation on any work with any claim id at any time.                *)
(***************************************************************************)
EXTENDS Integers, FiniteSets

CONSTANTS
  Works,            \* scan work ids (random UUIDs, never reused)
  ClaimIds,         \* claim ids
  Assets,           \* ids given by the Asset API
  Contents,         \* binary contents, which upload descriptors identify
  ClaimLease,       \* claimLeaseMs
  PublishingLease,  \* publishingLeaseMs
  WorkTtl,          \* workTtlMs
  RetentionEnds,    \* FALSE: no behaviour lasts as long as WorkTtl
  MaxLag,           \* largest lag of a clock reading behind the Redis server
  None              \* an absent field

ASSUME TimingAssumption ==
  /\ ClaimLease \in Nat \ {0} /\ PublishingLease \in Nat \ {0} /\ WorkTtl \in Nat \ {0}
  /\ MaxLag \in Nat /\ MaxLag < ClaimLease
  /\ RetentionEnds \in BOOLEAN

VARIABLES
  work,     \* work[w]: the record under the key of w
  outbox,   \* the set under the attachment-scan-outbox key
  grants    \* history: how often beginPublishing moved w to publishing

storeVars == <<work, outbox, grants>>

Terminal == {"completed", "failed"}
Stored   == {"pending_enqueue", "queued", "claimed", "publishing"} \cup Terminal
Statuses == Stored \cup {"unborn", "gone"}   \* no key yet, key expired

\* The AttachmentScanFailureCode values a worker passes to fail; cancelPendingEnqueue
\* and the claim script write the other two that are ever stored.
WorkerFailureCodes ==
  {"download_failed", "validation_failed", "scan_infected", "scan_unavailable",
   "publish_failed"}
FailureCodes == WorkerFailureCodes \cup {"enqueue_failed", "publication_abandoned"}

ASSUME NoneAssumption ==
  None \notin ClaimIds \cup Assets \cup Contents \cup FailureCodes \cup Terminal

Lags  == 0 .. MaxLag
Floor == -MaxLag               \* a countdown no clock reading sees above zero

WorkRecord ==
  [status     : Statuses,
   claim      : ClaimIds \cup {None},
   claimLeft  : Int,           \* claimExpiresAt
   pubLeft    : Int,           \* publishingExpiresAt
   ttl        : Nat,           \* expiresAt, and the expiry of the Redis key
   descriptor : Contents \cup {None},
   asset      : Assets \cup {None},
   failure    : FailureCodes \cup {None},
   jobUpdate  : Terminal \cup {None}]   \* pendingJobUpdate

NoRecord(status) ==
  [status |-> status, claim |-> None, claimLeft |-> Floor, pubLeft |-> Floor, ttl |-> 0,
   descriptor |-> None, asset |-> None, failure |-> None, jobUpdate |-> None]

Smaller(a, b) == IF a < b THEN a ELSE b

Unexpired(left, lag) == left + lag > 0

Exists(w) == work[w].status \in Stored

StoreInit ==
  /\ work = [w \in Works |-> NoRecord("unborn")]
  /\ outbox = {}
  /\ grants = [w \in Works |-> 0]

-----------------------------------------------------------------------------
(* The outbox side: create, markEnqueued, cancelPendingEnqueue and the     *)
(* clean-up of the index in listPendingEnqueue.                            *)

CreateWorkUnindexed(w) ==                \* faulty: no SADD
  /\ work[w].status = "unborn"
  /\ work' = [work EXCEPT ![w].status = "pending_enqueue", ![w].ttl = WorkTtl]
  /\ UNCHANGED <<outbox, grants>>

CreateWork(w) ==
  /\ work[w].status = "unborn"
  /\ work' = [work EXCEPT ![w].status = "pending_enqueue", ![w].ttl = WorkTtl]
  /\ outbox' = outbox \cup {w}
  /\ UNCHANGED grants

CanMarkEnqueued(w) == work[w].status = "pending_enqueue"

MarkEnqueued(w) ==
  /\ CanMarkEnqueued(w)
  /\ work' = [work EXCEPT ![w].status = "queued"]
  /\ outbox' = outbox \ {w}
  /\ UNCHANGED grants

\* A cancelled work carries no job update: its caller fails the job itself.
CancelPendingEnqueue(w, code) ==
  /\ work[w].status = "pending_enqueue"
  /\ work' = [work EXCEPT ![w].status = "failed", ![w].failure = code]
  /\ outbox' = outbox \ {w}
  /\ UNCHANGED grants

\* The SREM of readPendingIndex, for a work that was read as no longer pending.
DropFromOutbox(w) ==
  /\ outbox' = outbox \ {w}
  /\ UNCHANGED <<work, grants>>

-----------------------------------------------------------------------------
(* The worker side.  OwnsClaim is the fence every worker call must pass.   *)

OwnsClaim(w, c, lag) ==
  /\ work[w].status = "claimed" /\ work[w].claim = c
  /\ Unexpired(work[w].claimLeft, lag)

OwnsPublication(w, c, lag) ==
  /\ work[w].status = "publishing" /\ work[w].claim = c
  /\ Unexpired(work[w].pubLeft, lag)

ClaimableWhenPublishing(w, lag) ==       \* faulty: reclaims expired publications
  \/ work[w].status = "queued"
  \/ work[w].status = "claimed" /\ ~Unexpired(work[w].claimLeft, lag)
  \/ work[w].status = "publishing" /\ ~Unexpired(work[w].pubLeft, lag)

ClaimableOnce(w, lag) == work[w].status = "queued"   \* faulty: never reclaims

Claimable(w, lag) ==
  \/ work[w].status = "queued"
  \/ work[w].status = "claimed" /\ ~Unexpired(work[w].claimLeft, lag)

Claim(w, c, lag) ==
  /\ Claimable(w, lag)
  /\ work' = [work EXCEPT ![w].status = "claimed", ![w].claim = c,
                          ![w].claimLeft = ClaimLease - lag, ![w].pubLeft = Floor]
  /\ UNCHANGED <<outbox, grants>>

Abandonable(w, lag) ==
  work[w].status = "publishing" /\ ~Unexpired(work[w].pubLeft, lag)

\* A publishing lease that ran out is never given to another claim.
AbandonPublication(w, lag) ==
  /\ Abandonable(w, lag)
  /\ work' = [work EXCEPT ![w].status = "failed", ![w].failure = "publication_abandoned",
                          ![w].claim = None, ![w].claimLeft = Floor,
                          ![w].jobUpdate = "failed"]
  /\ outbox' = outbox \ {w}
  /\ UNCHANGED grants

\* boundedExpiry: the publishing lease never outlives the work or the deadline.
BoundedLease(w, deadline, lag) ==
  Smaller(PublishingLease - lag, Smaller(work[w].ttl, deadline))

CanBeginPublishing(w, c, deadline, lag) ==
  OwnsClaim(w, c, lag) /\ Unexpired(BoundedLease(w, deadline, lag), lag)

BeginPublishing(w, c, deadline, lag) ==
  /\ CanBeginPublishing(w, c, deadline, lag)
  /\ work' = [work EXCEPT ![w].status = "publishing", ![w].claimLeft = Floor,
                          ![w].pubLeft = BoundedLease(w, deadline, lag)]
  /\ grants' = [grants EXCEPT ![w] = @ + 1]
  /\ UNCHANGED outbox

CanRecordDescriptor(w, c, d, lag) ==
  OwnsClaim(w, c, lag) /\ work[w].descriptor \in {None, d}

RecordUploadDescriptor(w, c, d, lag) ==
  /\ CanRecordDescriptor(w, c, d, lag)
  /\ work' = [work EXCEPT ![w].descriptor = d]
  /\ UNCHANGED <<outbox, grants>>

CanRecordAsset(w, c, a, lag) ==
  OwnsClaim(w, c, lag) /\ work[w].asset \in {None, a}

RecordAsset(w, c, a, lag) ==
  /\ CanRecordAsset(w, c, a, lag)
  /\ work' = [work EXCEPT ![w].asset = a]
  /\ UNCHANGED <<outbox, grants>>

ReleaseAnyLease(w, c, lag) ==            \* faulty: also releases a publication
  /\ OwnsClaim(w, c, lag) \/ OwnsPublication(w, c, lag)
  /\ work' = [work EXCEPT ![w].status = "queued", ![w].claim = None, ![w].claimLeft = Floor]
  /\ UNCHANGED <<outbox, grants>>

ReleaseForRetry(w, c, lag) ==
  /\ OwnsClaim(w, c, lag)
  /\ work' = [work EXCEPT ![w].status = "queued", ![w].claim = None, ![w].claimLeft = Floor]
  /\ UNCHANGED <<outbox, grants>>

CanFailUnowned(w, c, lag) ==             \* faulty: does not compare the claim id
  \/ work[w].status = "claimed" /\ Unexpired(work[w].claimLeft, lag)
  \/ work[w].status = "publishing" /\ Unexpired(work[w].pubLeft, lag)

\* terminalTransitionScript: "complete" needs a live publication, "fail" either lease.
CanComplete(w, c, lag) == OwnsPublication(w, c, lag)
CanFail(w, c, lag)     == OwnsClaim(w, c, lag) \/ OwnsPublication(w, c, lag)

Settle(w, status, code) ==
  /\ work' = [work EXCEPT ![w].status = status, ![w].failure = code, ![w].claim = None,
                          ![w].claimLeft = Floor, ![w].jobUpdate = status]
  /\ outbox' = outbox \ {w}
  /\ UNCHANGED grants

Complete(w, c, lag)   == CanComplete(w, c, lag) /\ Settle(w, "completed", None)
Fail(w, c, code, lag) == CanFail(w, c, lag) /\ Settle(w, "failed", code)

HasPendingJobUpdate(w) == work[w].status \in Terminal /\ work[w].jobUpdate # None

ClearPendingJobUpdate(w) ==
  /\ HasPendingJobUpdate(w)
  /\ work' = [work EXCEPT ![w].jobUpdate = None]
  /\ UNCHANGED <<outbox, grants>>

-----------------------------------------------------------------------------
(* Time.  One unit passes for every lease; Redis drops a key at its expiry.*)

Down(left) == IF left > Floor THEN left - 1 ELSE Floor

Aged(r) ==
  IF r.status \notin Stored THEN r
  ELSE IF RetentionEnds /\ r.ttl <= 1 THEN NoRecord("gone")
  ELSE [r EXCEPT !.ttl = IF RetentionEnds THEN @ - 1 ELSE @,
                 !.claimLeft = Down(@), !.pubLeft = Down(@)]

AgeWorks ==
  /\ work' = [w \in Works |-> Aged(work[w])]
  /\ UNCHANGED <<outbox, grants>>

-----------------------------------------------------------------------------
WorkerCall(w, c, lag) ==
  \/ Claim(w, c, lag)
  \/ \E deadline \in Floor .. PublishingLease : BeginPublishing(w, c, deadline, lag)
  \/ \E d \in Contents : RecordUploadDescriptor(w, c, d, lag)
  \/ \E a \in Assets : RecordAsset(w, c, a, lag)
  \/ ReleaseForRetry(w, c, lag)
  \/ Complete(w, c, lag)
  \/ \E code \in WorkerFailureCodes : Fail(w, c, code, lag)

StoreStep(w) ==
  \/ CreateWork(w) \/ MarkEnqueued(w) \/ CancelPendingEnqueue(w, "enqueue_failed")
  \/ work[w].status \notin {"unborn", "pending_enqueue"} /\ DropFromOutbox(w)
  \/ \E c \in ClaimIds, lag \in Lags : WorkerCall(w, c, lag)
  \/ \E lag \in Lags : AbandonPublication(w, lag)
  \/ ClearPendingJobUpdate(w)

StoreNext == AgeWorks \/ \E w \in Works : StoreStep(w)

StoreSpec == StoreInit /\ [][StoreNext]_storeVars

-----------------------------------------------------------------------------
(* Properties.                                                             *)

\* Every variable stays in its type; the work records keep their fields.
StoreTypeOK ==
  /\ work \in [Works -> WorkRecord]
  /\ outbox \subseteq Works
  /\ grants \in [Works -> Nat]

\* The permission to publish is granted at most once per work, whatever expires,
\* is reclaimed, retried or called with a claim id that is no longer current.
AtMostOneGrant == \A w \in Works : grants[w] <= 1

\* The index the outbox dispatcher reads misses no work that waits for its queue
\* message, and holds no other work than those whose key has expired since.
OutboxIsExact ==
  \A w \in Works :
    /\ work[w].status = "pending_enqueue" => w \in outbox
    /\ w \in outbox => work[w].status \in {"pending_enqueue", "gone"}

\* What a settled record tells its requester agrees with what could have happened:
\* completed, or abandoned, only after a grant; a cancelled hand-off only if no
\* worker ever recorded anything; and a settled record has no owner left.
OutcomeMatchesHistory ==
  \A w \in Works :
    /\ work[w].status = "completed" => grants[w] = 1 /\ work[w].failure = None
    /\ work[w].status = "failed" => work[w].failure # None
    /\ work[w].failure = "publication_abandoned" => grants[w] = 1
    /\ work[w].jobUpdate # None => work[w].jobUpdate = work[w].status
    /\ (work[w].claim # None) <=> work[w].status \in {"claimed", "publishing"}

\* A recorded descriptor or asset id is never replaced, by any number of claims.
WriteOnce ==
  [][\A w \in Works : work'[w].status # "gone" =>
       /\ work[w].descriptor # None => work'[w].descriptor = work[w].descriptor
       /\ work[w].asset # None => work'[w].asset = work[w].asset]_storeVars

\* Refinement mapping to PublicationTicket: the statuses in which publication is
\* still to be decided are one open ticket.
TicketOf(status) ==
  IF status \in {"pending_enqueue", "queued", "claimed"} THEN "open"
  ELSE IF status = "publishing" THEN "granted"
  ELSE status

Ticket == INSTANCE PublicationTicket
            WITH ticket <- [w \in Works |-> TicketOf(work[w].status)]

\* Every step of the store is a step of the ticket, or no step of it: a granted
\* publication is never reopened and nothing completes that was not granted.
ImplementsTicket == Ticket!Spec

=============================================================================
