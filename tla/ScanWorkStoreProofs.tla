------------------------ MODULE ScanWorkStoreProofs ------------------------
(***************************************************************************)
(* Proofs about ScanWorkStore, for all works, claim ids, leases and lags.  *)
(*                                                                         *)
(* The safety properties of the store are not inductive one by one.  The   *)
(* invariant StoreInv below ties the number of grants to the status of a   *)
(* record; each property of ScanWorkStore is one of its parts or follows   *)
(* from it, and so does the refinement of PublicationTicket.               *)
(***************************************************************************)
EXTENDS ScanWorkStore, TLAPS

\* No grant before publishing, one grant from then on, never a second.
GrantsFollowStatus(w) ==
  /\ grants[w] \in {0, 1}
  /\ work[w].status \in {"unborn", "pending_enqueue", "queued", "claimed"} => grants[w] = 0
  /\ work[w].status \in {"publishing", "completed"} => grants[w] = 1

IndexFollowsStatus(w) ==
  /\ work[w].status = "pending_enqueue" => w \in outbox
  /\ w \in outbox => work[w].status \in {"pending_enqueue", "gone"}

OwnerFollowsStatus(w) ==
  (work[w].claim # None) <=> work[w].status \in {"claimed", "publishing"}

\* A record names a failure, or an update for its job, only once it has settled.
OutcomeFollowsStatus(w) ==
  /\ work[w].status = "failed" <=> work[w].failure # None
  /\ work[w].failure = "publication_abandoned" => grants[w] = 1
  /\ work[w].jobUpdate # None => work[w].jobUpdate = work[w].status

WorkInv(w) ==
  /\ GrantsFollowStatus(w) /\ IndexFollowsStatus(w)
  /\ OwnerFollowsStatus(w) /\ OutcomeFollowsStatus(w)

StoreInv == StoreTypeOK /\ \A w \in Works : WorkInv(w)

-----------------------------------------------------------------------------
(* An update of a record that keeps its fields in their sets keeps it a     *)
(* record.  The lemmas are stated away from the invariant: the SMT backend *)
(* handles the integer fields only in a small context.                     *)

LEMMA UpdateTtl ==
  ASSUME NEW r \in WorkRecord, NEW s \in Statuses, NEW t \in Nat
  PROVE  [r EXCEPT !.status = s, !.ttl = t] \in WorkRecord
  BY DEF WorkRecord

LEMMA UpdateClaim ==
  ASSUME NEW r \in WorkRecord, NEW s \in Statuses, NEW c \in ClaimIds,
         NEW i \in Int, NEW j \in Int
  PROVE  [r EXCEPT !.status = s, !.claim = c, !.claimLeft = i, !.pubLeft = j] \in WorkRecord
  BY DEF WorkRecord

LEMMA UpdateLeases ==
  ASSUME NEW r \in WorkRecord, NEW s \in Statuses, NEW i \in Int, NEW j \in Int
  PROVE  [r EXCEPT !.status = s, !.claimLeft = i, !.pubLeft = j] \in WorkRecord
  BY DEF WorkRecord

LEMMA UpdateTimers ==
  ASSUME NEW r \in WorkRecord, NEW t \in Nat, NEW i \in Int, NEW j \in Int
  PROVE  [r EXCEPT !.ttl = t, !.claimLeft = i, !.pubLeft = j] \in WorkRecord
  BY DEF WorkRecord

-----------------------------------------------------------------------------
USE DEF Lags, Floor, Stored, Terminal, Statuses, WorkerFailureCodes, FailureCodes

\* The initial records are typed and satisfy the invariant.
LEMMA InitInv == StoreInit => StoreInv
  <1> SUFFICES ASSUME StoreInit PROVE StoreInv OBVIOUS
  <1> USE TimingAssumption, NoneAssumption DEF StoreInit, NoRecord
  <1>1. StoreTypeOK BY DEF StoreTypeOK, WorkRecord
  <1>2. ASSUME NEW w \in Works PROVE WorkInv(w)
    BY <1>2 DEF WorkInv, GrantsFollowStatus, IndexFollowsStatus, OwnerFollowsStatus,
                OutcomeFollowsStatus
  <1> QED BY <1>1, <1>2 DEF StoreInv

\* Every operation on a work keeps the invariant.
LEMMA StepInv ==
  ASSUME StoreInv, NEW w \in Works, StoreStep(w)
  PROVE  StoreInv'
  <1> USE TimingAssumption, NoneAssumption
          DEF StoreInv, StoreTypeOK, WorkRecord, WorkInv, GrantsFollowStatus,
              IndexFollowsStatus, OwnerFollowsStatus, OutcomeFollowsStatus
  <1>1. CASE CreateWork(w)
    <2>1. WorkTtl \in Nat BY TimingAssumption
    <2>2. work' \in [Works -> WorkRecord]
      <3> DEFINE r == [work[w] EXCEPT !.status = "pending_enqueue", !.ttl = WorkTtl]
      <3>1. r \in WorkRecord BY <2>1, UpdateTtl, ZenonT(60)
      <3>2. work' = [work EXCEPT ![w] = r] BY <1>1 DEF CreateWork
      <3> QED BY <3>1, <3>2
    <2>3. \A v \in Works : WorkInv(v)' BY <1>1 DEF CreateWork
    <2> QED BY <1>1, <2>2, <2>3 DEF CreateWork
  <1>2. CASE MarkEnqueued(w) BY <1>2 DEF MarkEnqueued, CanMarkEnqueued
  <1>3. CASE CancelPendingEnqueue(w, "enqueue_failed") BY <1>3 DEF CancelPendingEnqueue
  <1>4. CASE work[w].status \notin {"unborn", "pending_enqueue"} /\ DropFromOutbox(w)
    BY <1>4 DEF DropFromOutbox
  <1>5. ASSUME NEW c \in ClaimIds, NEW lag \in Lags, Claim(w, c, lag) PROVE StoreInv'
    <2>1. ClaimLease - lag \in Int /\ Floor \in Int BY <1>5, TimingAssumption
    <2>2. work' \in [Works -> WorkRecord]
      <3> DEFINE r == [work[w] EXCEPT !.status = "claimed", !.claim = c,
                                      !.claimLeft = ClaimLease - lag, !.pubLeft = Floor]
      <3>0. work[w] \in WorkRecord /\ "claimed" \in Statuses OBVIOUS
      <3>1. r \in WorkRecord
        <4> HIDE DEF WorkRecord, Statuses, Floor, StoreInv
        <4> QED BY <1>5, <2>1, <3>0, UpdateClaim
      <3>2. work' = [work EXCEPT ![w] = r] BY <1>5 DEF Claim
      <3> QED BY <3>1, <3>2
    <2>3. \A v \in Works : WorkInv(v)' BY <1>5 DEF Claim, Claimable
    <2> QED BY <1>5, <2>2, <2>3 DEF Claim
  <1>6. ASSUME NEW c \in ClaimIds, NEW lag \in Lags, NEW deadline \in Int,
               BeginPublishing(w, c, deadline, lag)
        PROVE  StoreInv'
    <2> DEFINE left == BoundedLease(w, deadline, lag)
    <2>1. left \in Int /\ Floor \in Int
      BY <1>6, TimingAssumption DEF BoundedLease, Smaller
    <2> HIDE DEF left
    <2>2. work' \in [Works -> WorkRecord]
      <3> DEFINE r == [work[w] EXCEPT !.status = "publishing", !.claimLeft = Floor,
                                      !.pubLeft = left]
      <3>0. work[w] \in WorkRecord /\ "publishing" \in Statuses OBVIOUS
      <3>1. r \in WorkRecord
        <4> HIDE DEF WorkRecord, Statuses, Floor, StoreInv
        <4> QED BY <2>1, <3>0, UpdateLeases
      <3>2. work' = [work EXCEPT ![w] = r] BY <1>6 DEF BeginPublishing, left
      <3> QED BY <3>1, <3>2
    <2>3. \A v \in Works : WorkInv(v)'
      BY <1>6 DEF BeginPublishing, CanBeginPublishing, OwnsClaim
    <2> QED BY <1>6, <2>2, <2>3 DEF BeginPublishing
  <1>7. ASSUME NEW c \in ClaimIds, NEW lag \in Lags, NEW d \in Contents,
               RecordUploadDescriptor(w, c, d, lag)
        PROVE  StoreInv'
    BY <1>7 DEF RecordUploadDescriptor
  <1>8. ASSUME NEW c \in ClaimIds, NEW lag \in Lags, NEW a \in Assets,
               RecordAsset(w, c, a, lag)
        PROVE  StoreInv'
    BY <1>8 DEF RecordAsset
  <1>9. ASSUME NEW c \in ClaimIds, NEW lag \in Lags, ReleaseForRetry(w, c, lag)
        PROVE  StoreInv'
    BY <1>9 DEF ReleaseForRetry, OwnsClaim
  <1>10. ASSUME NEW c \in ClaimIds, NEW lag \in Lags, Complete(w, c, lag)
         PROVE  StoreInv'
    BY <1>10 DEF Complete, CanComplete, Settle, OwnsPublication
  <1>11. ASSUME NEW c \in ClaimIds, NEW lag \in Lags, NEW code \in WorkerFailureCodes,
                Fail(w, c, code, lag)
         PROVE  StoreInv'
    BY <1>11 DEF Fail, CanFail, Settle, OwnsClaim, OwnsPublication
  <1>12. ASSUME NEW lag \in Lags, AbandonPublication(w, lag) PROVE StoreInv'
    BY <1>12 DEF AbandonPublication, Abandonable
  <1>13. CASE ClearPendingJobUpdate(w)
    BY <1>13 DEF ClearPendingJobUpdate, HasPendingJobUpdate
  <1> QED
    <2>1. Floor .. PublishingLease \subseteq Int BY TimingAssumption
    <2>2. ASSUME NEW c \in ClaimIds, NEW lag \in Lags, WorkerCall(w, c, lag)
          PROVE  StoreInv'
      BY <1>5, <1>6, <1>7, <1>8, <1>9, <1>10, <1>11, <2>1, <2>2 DEF WorkerCall
    <2> QED BY <1>1, <1>2, <1>3, <1>4, <1>12, <1>13, <2>2 DEF StoreStep

\* One unit of time keeps a record typed: it lowers the countdowns or ends the record.
LEMMA AgedType ==
  ASSUME NEW r \in WorkRecord
  PROVE  Aged(r) \in WorkRecord
  <1>1. CASE r.status \notin Stored BY <1>1 DEF Aged
  <1>2. CASE r.status \in Stored /\ RetentionEnds /\ r.ttl <= 1
    <2>1. NoRecord("gone") \in WorkRecord BY TimingAssumption DEF NoRecord, WorkRecord
    <2> QED BY <1>2, <2>1 DEF Aged
  <1>3. CASE r.status \in Stored /\ ~(RetentionEnds /\ r.ttl <= 1)
    <2> DEFINE ttl == IF RetentionEnds THEN r.ttl - 1 ELSE r.ttl
               claimLeft == Down(r.claimLeft)
               pubLeft == Down(r.pubLeft)
    <2>1. r.ttl \in Nat /\ r.claimLeft \in Int /\ r.pubLeft \in Int BY DEF WorkRecord
    <2>2. ttl \in Nat BY <1>3, <2>1
    <2>3. claimLeft \in Int /\ pubLeft \in Int BY <2>1, TimingAssumption DEF Down
    <2>4. Aged(r) = [r EXCEPT !.ttl = ttl, !.claimLeft = claimLeft, !.pubLeft = pubLeft]
      BY <1>3 DEF Aged, WorkRecord
    <2> HIDE DEF ttl, claimLeft, pubLeft
    <2>5. [r EXCEPT !.ttl = ttl, !.claimLeft = claimLeft, !.pubLeft = pubLeft] \in WorkRecord
      BY <2>2, <2>3, UpdateTimers
    <2> QED BY <2>4, <2>5
  <1> QED BY <1>1, <1>2, <1>3

LEMMA AgedFields ==
  ASSUME NEW r \in WorkRecord
  PROVE  \/ /\ Aged(r).status = r.status /\ Aged(r).claim = r.claim
            /\ Aged(r).failure = r.failure /\ Aged(r).jobUpdate = r.jobUpdate
            /\ Aged(r).descriptor = r.descriptor /\ Aged(r).asset = r.asset
         \/ r.status \in Stored /\ Aged(r) = NoRecord("gone")
  BY DEF Aged, WorkRecord

LEMMA AgeInv ==
  ASSUME StoreInv, AgeWorks
  PROVE  StoreInv'
  <1> USE NoneAssumption
  <1>1. StoreTypeOK'
    <2>1. \A w \in Works : Aged(work[w]) \in WorkRecord
      BY AgedType DEF StoreInv, StoreTypeOK
    <2> QED BY <2>1 DEF AgeWorks, StoreInv, StoreTypeOK
  <1>2. ASSUME NEW w \in Works PROVE WorkInv(w)'
    <2> USE DEF WorkInv, GrantsFollowStatus, IndexFollowsStatus, OwnerFollowsStatus,
                OutcomeFollowsStatus
    <2>1. work[w] \in WorkRecord /\ WorkInv(w) /\ work'[w] = Aged(work[w])
      BY DEF StoreInv, StoreTypeOK, AgeWorks
    <2>2. UNCHANGED <<grants, outbox>> BY DEF AgeWorks
    <2>3. CASE work'[w] = NoRecord("gone") /\ work[w].status \in Stored
      BY <2>1, <2>2, <2>3 DEF NoRecord
    <2>4. CASE /\ work'[w].status = work[w].status /\ work'[w].claim = work[w].claim
               /\ work'[w].failure = work[w].failure
               /\ work'[w].jobUpdate = work[w].jobUpdate
      BY <2>1, <2>2, <2>4
    <2> QED BY <2>1, <2>3, <2>4, AgedFields
  <1> QED BY <1>1, <1>2 DEF StoreInv

LEMMA StoreNextInv ==
  ASSUME StoreInv, [StoreNext]_storeVars
  PROVE  StoreInv'
  <1>1. CASE AgeWorks BY <1>1, AgeInv
  <1>2. ASSUME NEW w \in Works, StoreStep(w) PROVE StoreInv' BY <1>2, StepInv
  <1>3. CASE UNCHANGED storeVars
    BY <1>3 DEF storeVars, StoreInv, StoreTypeOK, WorkInv, GrantsFollowStatus,
                IndexFollowsStatus, OwnerFollowsStatus, OutcomeFollowsStatus
  <1> QED BY <1>1, <1>2, <1>3 DEF StoreNext

\* StoreInv holds in every state of the store under its most general client.
THEOREM StoreInvariant == StoreSpec => []StoreInv
  <1>1. StoreInit => StoreInv BY InitInv
  <1>2. StoreInv /\ [StoreNext]_storeVars => StoreInv' BY StoreNextInv
  <1> QED BY <1>1, <1>2, PTL DEF StoreSpec

-----------------------------------------------------------------------------
(* The properties of ScanWorkStore.                                        *)

\* Every record the scripts write keeps the type parseWork accepts.
THEOREM StoreTypeCorrect == StoreSpec => []StoreTypeOK
  <1>1. StoreInv => StoreTypeOK BY DEF StoreInv
  <1> QED BY <1>1, StoreInvariant, PTL

\* beginPublishing succeeds at most once for a work, whoever calls what and when.
THEOREM GrantedAtMostOnce == StoreSpec => []AtMostOneGrant
  <1>1. StoreInv => AtMostOneGrant
    BY DEF StoreInv, WorkInv, GrantsFollowStatus, AtMostOneGrant
  <1> QED BY <1>1, StoreInvariant, PTL

\* The outbox index holds every work that waits for its message, and no settled one.
THEOREM OutboxExact == StoreSpec => []OutboxIsExact
  <1>1. StoreInv => OutboxIsExact BY DEF StoreInv, WorkInv, IndexFollowsStatus, OutboxIsExact
  <1> QED BY <1>1, StoreInvariant, PTL

\* The outcome a record reports is one its history allows.
THEOREM OutcomeCorrect == StoreSpec => []OutcomeMatchesHistory
  <1>1. StoreInv => OutcomeMatchesHistory
    BY DEF StoreInv, WorkInv, GrantsFollowStatus, OwnerFollowsStatus, OutcomeFollowsStatus,
           OutcomeMatchesHistory
  <1> QED BY <1>1, StoreInvariant, PTL

-----------------------------------------------------------------------------
(* What a step does to one record: the moves of its status, and that what  *)
(* is recorded stays recorded.                                             *)

StatusMoves ==
  {<<"unborn", "pending_enqueue">>, <<"pending_enqueue", "queued">>,
   <<"pending_enqueue", "failed">>, <<"queued", "claimed">>, <<"claimed", "queued">>,
   <<"claimed", "publishing">>, <<"claimed", "failed">>, <<"publishing", "completed">>,
   <<"publishing", "failed">>}

Moved(v) ==
  work'[v].status = work[v].status \/ <<work[v].status, work'[v].status>> \in StatusMoves

Kept(v) ==
  /\ work[v].descriptor # None => work'[v].descriptor = work[v].descriptor
  /\ work[v].asset # None => work'[v].asset = work[v].asset

LEMMA StepShape ==
  ASSUME StoreInv, NEW w \in Works, StoreStep(w), NEW v \in Works
  PROVE  Moved(v) /\ Kept(v)
  <1> USE DEF Moved, Kept, StatusMoves
  <1>0. work \in [Works -> WorkRecord] BY DEF StoreInv, StoreTypeOK
  <1> USE <1>0 DEF WorkRecord
  <1>1. CASE CreateWork(w) BY <1>1 DEF CreateWork
  <1>2. CASE MarkEnqueued(w) BY <1>2 DEF MarkEnqueued, CanMarkEnqueued
  <1>3. CASE CancelPendingEnqueue(w, "enqueue_failed") BY <1>3 DEF CancelPendingEnqueue
  <1>4. CASE DropFromOutbox(w) BY <1>4 DEF DropFromOutbox
  <1>5. ASSUME NEW c \in ClaimIds, NEW lag \in Lags, WorkerCall(w, c, lag)
        PROVE  Moved(v) /\ Kept(v)
    <2>1. CASE Claim(w, c, lag) BY <2>1 DEF Claim, Claimable
    <2>2. ASSUME NEW deadline \in Floor .. PublishingLease,
                 BeginPublishing(w, c, deadline, lag)
          PROVE  Moved(v) /\ Kept(v)
      BY <2>2 DEF BeginPublishing, CanBeginPublishing, OwnsClaim
    <2>3. ASSUME NEW d \in Contents, RecordUploadDescriptor(w, c, d, lag)
          PROVE  Moved(v) /\ Kept(v)
      BY <2>3 DEF RecordUploadDescriptor, CanRecordDescriptor
    <2>4. ASSUME NEW a \in Assets, RecordAsset(w, c, a, lag) PROVE Moved(v) /\ Kept(v)
      BY <2>4 DEF RecordAsset, CanRecordAsset
    <2>5. CASE ReleaseForRetry(w, c, lag) BY <2>5 DEF ReleaseForRetry, OwnsClaim
    <2>6. CASE Complete(w, c, lag) BY <2>6 DEF Complete, CanComplete, Settle, OwnsPublication
    <2>7. ASSUME NEW code \in WorkerFailureCodes, Fail(w, c, code, lag)
          PROVE  Moved(v) /\ Kept(v)
      BY <2>7 DEF Fail, CanFail, Settle, OwnsClaim, OwnsPublication
    <2> QED BY <1>5, <2>1, <2>2, <2>3, <2>4, <2>5, <2>6, <2>7 DEF WorkerCall
  <1>6. ASSUME NEW lag \in Lags, AbandonPublication(w, lag) PROVE Moved(v) /\ Kept(v)
    BY <1>6 DEF AbandonPublication, Abandonable
  <1>7. CASE ClearPendingJobUpdate(w) BY <1>7 DEF ClearPendingJobUpdate
  <1> QED BY <1>1, <1>2, <1>3, <1>4, <1>5, <1>6, <1>7 DEF StoreStep

\* The same for any step: time may also end a stored record.
LEMMA NextShape ==
  ASSUME StoreInv, [StoreNext]_storeVars, NEW v \in Works
  PROVE  \/ Moved(v) /\ Kept(v)
         \/ work[v].status \in Stored /\ work'[v].status = "gone"
  <1>1. ASSUME NEW w \in Works, StoreStep(w) PROVE Moved(v) /\ Kept(v)
    BY <1>1, StepShape
  <1>2. CASE AgeWorks
    <2>1. work[v] \in WorkRecord /\ work'[v] = Aged(work[v])
      BY <1>2 DEF StoreInv, StoreTypeOK, AgeWorks
    <2> QED BY <2>1, AgedFields DEF Moved, Kept, NoRecord
  <1>3. CASE UNCHANGED storeVars BY <1>3 DEF storeVars, Moved, Kept
  <1> QED BY <1>1, <1>2, <1>3 DEF StoreNext

\* No claim, however late, replaces the descriptor or the asset an earlier one recorded.
THEOREM RecordedOnce == StoreSpec => WriteOnce
  <1> DEFINE Body == \A w \in Works : work'[w].status # "gone" => Kept(w)
  <1>1. StoreInv /\ [StoreNext]_storeVars => [Body]_storeVars
    <2> SUFFICES ASSUME StoreInv, [StoreNext]_storeVars PROVE Body OBVIOUS
    <2> QED BY NextShape
  <1>2. StoreSpec => [][Body]_storeVars BY <1>1, StoreInvariant, PTL DEF StoreSpec
  <1> QED BY <1>2 DEF WriteOnce, Kept

-----------------------------------------------------------------------------
(* The refinement of PublicationTicket.                                    *)

LEMMA TicketStep ==
  ASSUME StoreInv, StoreInv', [StoreNext]_storeVars
  PROVE  Ticket!Next
  <1> DEFINE T == [w \in Works |-> TicketOf(work[w].status)]
  <1>1. T' \in [Works -> Ticket!TicketStates]
    BY DEF StoreInv, StoreTypeOK, WorkRecord, TicketOf, Ticket!TicketStates
  <1>2. ASSUME NEW w \in Works PROVE T'[w] = T[w] \/ <<T[w], T'[w]>> \in Ticket!Moves
    <2>1. Moved(w) \/ (work[w].status \in Stored /\ work'[w].status = "gone")
      BY NextShape
    <2>2. T[w] = TicketOf(work[w].status) /\ T'[w] = TicketOf(work'[w].status) OBVIOUS
    <2> HIDE DEF T
    <2>3. CASE Moved(w) BY <2>2, <2>3 DEF Moved, StatusMoves, TicketOf, Ticket!Moves
    <2>4. CASE work[w].status \in Stored /\ work'[w].status = "gone"
      BY <2>2, <2>4 DEF TicketOf, Ticket!Moves
    <2> QED BY <2>1, <2>3, <2>4
  <1> QED BY <1>1, <1>2 DEF Ticket!Next

\* The store implements the ticket: publication is granted once and not taken back, and
\* a work completes only after the grant.
THEOREM StoreImplementsTicket == StoreSpec => ImplementsTicket
  <1>1. StoreInit => Ticket!Init BY DEF StoreInit, NoRecord, TicketOf, Ticket!Init
  <1>2. StoreInv /\ StoreInv' /\ [StoreNext]_storeVars => Ticket!Next BY TicketStep
  <1> QED
    BY <1>1, <1>2, StoreInvariant, PTL DEF StoreSpec, ImplementsTicket, Ticket!Spec

=============================================================================
