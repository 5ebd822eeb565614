--------------------------- MODULE MediaSyncProofs --------------------------
(***************************************************************************)
(* Proofs about MediaSyncWorker, for any number of workers, dispatchers,   *)
(* queue slots and faults.                                                 *)
(*                                                                         *)
(* That a destination is asked at most once is not inductive.  MediaInv    *)
(* relates what every worker remembers to the rows: a worker about to      *)
(* publish holds the open attempt and has not called yet, a worker about   *)
(* to settle knows what its own call left behind, and whatever a worker    *)
(* takes for owned is owned in the journal.                                *)
(*                                                                         *)
(* The three promises that span several runs have invariants of their own  *)
(* beside it: SaveInv (the agent job), CleanInv (the withdrawal) and       *)
(* QueueInv (the message of a dispatched entry).  They rest on RowsInv,    *)
(* the shape of the outbox entries, and on what no step of any actor does  *)
(* to the rows: take a lease that is not its own, open an attempt under    *)
(* somebody else's, or change a withdrawn source without reopening the     *)
(* cleanup.                                                                *)
(***************************************************************************)
EXTENDS MediaSyncWorker, TLAPS

-----------------------------------------------------------------------------
(* What every operation of MediaSyncStore preserves: the types of the rows, the attempts of the
   publications (only reserving and settling change them), and a confirmed manual save staying
   somebody's work. *)

RowFields == {"state", "confirmed", "blocked", "target", "attempt", "open"}

\* No publication changes its attempt, or what it owns.
SameAttempts ==
  \A t \in PublicationTypes :
    /\ publication'[t].attempt = publication[t].attempt
    /\ publication'[t].open = publication[t].open
    /\ publication'[t].target = publication[t].target

Quiet == StoreTypeOK' /\ SameAttempts

LEMMA UnchangedQuiet ==
  ASSUME StoreTypeOK, UNCHANGED storeVars PROVE Quiet
BY DEF StoreTypeOK, storeVars, Quiet, SameAttempts

\* Each change of one row yields a row.
LEMMA RowTypes ==
  ASSUME NEW e \in OutboxRow
  PROVE  /\ Released(e) \in OutboxRow /\ Completed(e) \in OutboxRow
         /\ Reopened(e) \in OutboxRow
BY DEF Released, Completed, Reopened, OutboxRow

LEMMA CreateIngestQuiet ==
  ASSUME StoreTypeOK, CreateIngest PROVE Quiet
BY ZenonT(60) DEF StoreTypeOK, CreateIngest, Quiet, SameAttempts, IngestRow, PublicationRow,
       OutboxRow, OpenEntry, NoEntry, PublicationTypes, Operations, bindingVars

LEMMA AttachQuiet ==
  ASSUME StoreTypeOK, AttachManualIntent PROVE Quiet
BY DEF StoreTypeOK, AttachManualIntent, Quiet, SameAttempts, PublicationRow,
       PublicationTypes, bindingVars

LEMMA ConfirmQuiet ==
  ASSUME StoreTypeOK, ConfirmManualPublication PROVE Quiet
BY ZenonT(60) DEF StoreTypeOK, ConfirmManualPublication, Quiet, SameAttempts, PublicationRow, OutboxRow,
       Reopened, Released, PublicationTypes, Operations, bindingVars

LEMMA OutboxTypes ==
  ASSUME StoreTypeOK
  PROVE  /\ \A op \in Operations : outbox[op] \in OutboxRow
         /\ \A t \in PublicationTypes : publication[t] \in PublicationRow
         /\ "intake" \in Operations /\ "delete" \in Operations
         /\ "collection" \in PublicationTypes /\ "manual" \in PublicationTypes
BY DEF StoreTypeOK, Operations, PublicationTypes

\* The parts a change of the publications is made of.
LEMMA RevokedQuiet ==
  ASSUME StoreTypeOK, publication' = AllRevoked
  PROVE  publication' \in [PublicationTypes -> PublicationRow] /\ SameAttempts
<1>1. \A t \in PublicationTypes :
        /\ publication[t] \in PublicationRow
        /\ [publication[t] EXCEPT !.state = "revoked"] \in PublicationRow
        /\ [publication[t] EXCEPT !.state = "revoked"].attempt = publication[t].attempt
        /\ [publication[t] EXCEPT !.state = "revoked"].open = publication[t].open
        /\ [publication[t] EXCEPT !.state = "revoked"].target = publication[t].target
  BY OutboxTypes DEF PublicationRow
<1>. QED
  BY <1>1 DEF AllRevoked, SameAttempts

LEMMA TombstonedOutbox ==
  ASSUME StoreTypeOK,
         outbox' = [intake |-> Completed(outbox["intake"]), delete |-> Reopened(outbox["delete"])]
  PROVE  outbox' \in [Operations -> OutboxRow]
<1>1. Completed(outbox["intake"]) \in OutboxRow /\ Reopened(outbox["delete"]) \in OutboxRow
  BY OutboxTypes DEF Completed, Reopened, Released, OutboxRow
<1>. QED
  BY <1>1 DEF Operations

LEMMA TombstoneQuiet ==
  ASSUME StoreTypeOK, TombstoneSource PROVE Quiet
<1>1. CASE Received
  <2>1. publication' = AllRevoked
    BY <1>1 DEF TombstoneSource
  <2>2. publication' \in [PublicationTypes -> PublicationRow] /\ SameAttempts
    BY <2>1, RevokedQuiet
  <2>3. outbox' \in [Operations -> OutboxRow]
    BY <1>1, TombstonedOutbox DEF TombstoneSource
  <2>4. ingest' \in IngestRow
    BY <1>1 DEF TombstoneSource, StoreTypeOK, IngestRow
  <2>. QED
    BY <2>2, <2>3, <2>4 DEF TombstoneSource, StoreTypeOK, Quiet, bindingVars
<1>2. CASE ~Received
  BY <1>2 DEF TombstoneSource, StoreTypeOK, Quiet, bindingVars, SameAttempts
<1>. QED
  BY <1>1, <1>2

LEMMA RevokeAdmissionQuiet ==
  ASSUME StoreTypeOK, RevokeAdmission PROVE Quiet
BY OutboxTypes DEF RevokeAdmission,
  StoreTypeOK, Quiet, SameAttempts, bindingVars, OutboxRow, Operations, Released, Claimed, Completed, Reopened, Claimants

LEMMA BeginDeletionQuiet ==
  ASSUME StoreTypeOK, BeginCollectionDeletion PROVE Quiet
BY OutboxTypes DEF BeginCollectionDeletion,
  StoreTypeOK, Quiet, SameAttempts, bindingVars, OutboxRow, Operations, Released, Claimed, Completed, Reopened, Claimants

LEMMA CompleteDeletionQuiet ==
  ASSUME StoreTypeOK, CompleteCollectionDeletion PROVE Quiet
BY OutboxTypes DEF CompleteCollectionDeletion,
  StoreTypeOK, Quiet, SameAttempts, bindingVars, OutboxRow, Operations, Released, Claimed, Completed, Reopened, Claimants

LEMMA RetryWorkQuiet ==
  ASSUME StoreTypeOK, RetryWork PROVE Quiet
BY OutboxTypes DEF RetryWork, OpenEntry, NoEntry,
  StoreTypeOK, Quiet, SameAttempts, bindingVars, OutboxRow, Operations, Released, Claimed, Completed, Reopened, Claimants

LEMMA LeaseLapsesQuiet ==
  ASSUME StoreTypeOK, NEW op \in Operations, LeaseLapses(op) PROVE Quiet
BY OutboxTypes DEF LeaseLapses,
  StoreTypeOK, Quiet, SameAttempts, bindingVars, OutboxRow, Operations, Released, Claimed, Completed, Reopened, Claimants

LEMMA DispatchClaimQuiet ==
  ASSUME StoreTypeOK, NEW d \in Dispatchers, NEW op \in Operations, ClaimOutboxForDispatch(d, op) PROVE Quiet
BY OutboxTypes DEF ClaimOutboxForDispatch,
  StoreTypeOK, Quiet, SameAttempts, bindingVars, OutboxRow, Operations, Released, Claimed, Completed, Reopened, Claimants

LEMMA MarkQuiet ==
  ASSUME StoreTypeOK, NEW d \in Dispatchers, NEW op \in Operations, MarkOutboxDispatched(d, op) PROVE Quiet
BY OutboxTypes DEF MarkOutboxDispatched,
  StoreTypeOK, Quiet, SameAttempts, bindingVars, OutboxRow, Operations, Released, Claimed, Completed, Reopened, Claimants

LEMMA ClaimWorkQuiet ==
  ASSUME StoreTypeOK, NEW p \in Workers, NEW op \in Operations, ClaimWork(op, p) PROVE Quiet
BY OutboxTypes DEF ClaimWork,
  StoreTypeOK, Quiet, SameAttempts, bindingVars, OutboxRow, Operations, Released, Claimed, Completed, Reopened, Claimants

LEMMA RetryOutboxQuiet ==
  ASSUME StoreTypeOK, NEW p \in Workers, NEW op \in Operations,
         NEW error \in {"none", "retryable", "other"}, RetryOutbox(op, p, error) PROVE Quiet
BY OutboxTypes DEF RetryOutbox,
  StoreTypeOK, Quiet, SameAttempts, bindingVars, OutboxRow, Operations, Released, Claimed, Completed, Reopened, Claimants

LEMMA HoldQuiet ==
  ASSUME StoreTypeOK, NEW p \in Workers, HoldPausedWork(p) PROVE Quiet
BY OutboxTypes DEF HoldPausedWork,
  StoreTypeOK, Quiet, SameAttempts, bindingVars, OutboxRow, Operations, Released, Claimed, Completed, Reopened, Claimants

LEMMA PersistQuiet ==
  ASSUME StoreTypeOK, NEW p \in Workers, PersistCompletedAsset(p) PROVE Quiet
BY OutboxTypes DEF PersistCompletedAsset, IngestRow,
  StoreTypeOK, Quiet, SameAttempts, bindingVars, OutboxRow, Operations, Released, Claimed, Completed, Reopened, Claimants

LEMMA CompleteQuiet ==
  ASSUME StoreTypeOK, NEW p \in Workers, CompleteClaimedWork(p) PROVE Quiet
BY OutboxTypes DEF CompleteClaimedWork, CompletedIntake, IngestRow,
  StoreTypeOK, Quiet, SameAttempts, bindingVars, OutboxRow, Operations, Released, Claimed, Completed, Reopened, Claimants

LEMMA CompleteDeleteQuiet ==
  ASSUME StoreTypeOK, NEW p \in Workers, CompleteDeleteWork(p) PROVE Quiet
BY OutboxTypes DEF CompleteDeleteWork,
  StoreTypeOK, Quiet, SameAttempts, bindingVars, OutboxRow, Operations, Released, Claimed, Completed, Reopened, Claimants

LEMMA RememberAssetQuiet ==
  ASSUME StoreTypeOK, RememberOwnedAsset PROVE Quiet
BY OutboxTypes DEF RememberOwnedAsset, ReopenDeleteIfWithdrawn, IngestRow,
  StoreTypeOK, Quiet, SameAttempts, bindingVars, OutboxRow, Operations, Released, Claimed, Completed, Reopened, Claimants

LEMMA FailManualQuiet ==
  ASSUME StoreTypeOK, NEW p \in Workers, FailManualPublication(p) PROVE Quiet
BY OutboxTypes DEF FailManualPublication, PublicationRow, PublicationTypes,
  StoreTypeOK, Quiet, SameAttempts, bindingVars, OutboxRow, Operations, Released, Claimed, Completed, Reopened, Claimants

LEMMA ResumeQuiet ==
  ASSUME StoreTypeOK, ResumeBinding PROVE Quiet
BY OutboxTypes DEF ResumeBinding, Undispatched,
  StoreTypeOK, Quiet, SameAttempts, bindingVars, OutboxRow, Operations, Released, Claimed, Completed, Reopened, Claimants

LEMMA TombstoneClaimedQuiet ==
  ASSUME StoreTypeOK, NEW p \in Workers, TombstoneClaimedWorkForCleanup(p) PROVE Quiet
<1>1. publication' \in [PublicationTypes -> PublicationRow] /\ SameAttempts
  BY RevokedQuiet DEF TombstoneClaimedWorkForCleanup
<1>2. outbox' \in [Operations -> OutboxRow]
  BY TombstonedOutbox DEF TombstoneClaimedWorkForCleanup
<1>3. ingest' \in IngestRow
  BY DEF TombstoneClaimedWorkForCleanup, StoreTypeOK, IngestRow
<1>. QED
  BY <1>1, <1>2, <1>3 DEF TombstoneClaimedWorkForCleanup, StoreTypeOK, Quiet, bindingVars

LEMMA UndispatchedTypes ==
  ASSUME StoreTypeOK PROVE Undispatched \in [Operations -> OutboxRow]
BY OutboxTypes DEF StoreTypeOK, Undispatched, OutboxRow, Operations

\* A row whose state or category alone has changed keeps its attempt.
KeepsAttempt(row, pub) ==
  /\ row \in PublicationRow
  /\ row.attempt = pub.attempt /\ row.open = pub.open /\ row.target = pub.target

LEMMA RowsKeepAttempts ==
  ASSUME StoreTypeOK, publication' = [t \in PublicationTypes |-> publication'[t]],
         \A t \in PublicationTypes : KeepsAttempt(publication'[t], publication[t])
  PROVE  publication' \in [PublicationTypes -> PublicationRow] /\ SameAttempts
BY DEF KeepsAttempt, SameAttempts

LEMMA RowChanges ==
  ASSUME NEW pub \in PublicationRow
  PROVE  /\ KeepsAttempt(pub, pub)
         /\ KeepsAttempt([pub EXCEPT !.blocked = TRUE], pub)
         /\ KeepsAttempt([pub EXCEPT !.blocked = FALSE], pub)
         /\ KeepsAttempt([pub EXCEPT !.state = "revoked"], pub)
         /\ KeepsAttempt([pub EXCEPT !.state = "published", !.blocked = FALSE], pub)
         /\ KeepsAttempt([pub EXCEPT !.state = "failed", !.blocked = FALSE], pub)
BY DEF KeepsAttempt, PublicationRow

LEMMA PauseQuiet ==
  ASSUME StoreTypeOK, PauseBinding PROVE Quiet
<1>1. KeepsAttempt(BlockedManual, publication["manual"])
  BY RowChanges, OutboxTypes DEF BlockedManual
<1>2. publication' \in [PublicationTypes -> PublicationRow] /\ SameAttempts
  BY <1>1 DEF PauseBinding, StoreTypeOK, KeepsAttempt, SameAttempts, PublicationTypes
<1>. QED
  BY <1>2, UndispatchedTypes DEF PauseBinding, StoreTypeOK, Quiet

LEMMA UnbindQuiet ==
  ASSUME StoreTypeOK, UnbindBinding PROVE Quiet
<1>1. KeepsAttempt(BlockedManual, publication["manual"])
  BY RowChanges, OutboxTypes DEF BlockedManual
<1>2. KeepsAttempt(publication'["collection"], publication["collection"])
  BY RowChanges, OutboxTypes DEF UnbindBinding
<1>3. publication' \in [PublicationTypes -> PublicationRow] /\ SameAttempts
  BY <1>1, <1>2 DEF UnbindBinding, KeepsAttempt, SameAttempts, PublicationTypes
<1>. QED
  BY <1>3, UndispatchedTypes DEF UnbindBinding, StoreTypeOK, Quiet

LEMMA CompletedIntakeTypes ==
  ASSUME StoreTypeOK, NEW error \in {"none", "retryable", "uncertain", "other"}
  PROVE  CompletedIntake(error) \in [Operations -> OutboxRow]
BY OutboxTypes DEF StoreTypeOK, CompletedIntake, Completed, Released, OutboxRow, Operations

LEMMA FailQuiet ==
  ASSUME StoreTypeOK, NEW p \in Workers, FailClaimedWork(p) PROVE Quiet
<1>1. \A t \in PublicationTypes : KeepsAttempt(publication'[t], publication[t])
  BY RowChanges, OutboxTypes DEF FailClaimedWork
<1>2. publication' \in [PublicationTypes -> PublicationRow] /\ SameAttempts
  BY <1>1, RowsKeepAttempts DEF FailClaimedWork
<1>3. outbox' \in [Operations -> OutboxRow]
  BY CompletedIntakeTypes DEF FailClaimedWork
<1>. QED
  BY <1>2, <1>3 DEF FailClaimedWork, StoreTypeOK, IngestRow, Quiet, bindingVars

LEMMA BlockUnavailableQuiet ==
  ASSUME StoreTypeOK, BlockUnavailableWork PROVE Quiet
<1>1. \A t \in PublicationTypes : KeepsAttempt(publication'[t], publication[t])
  BY RowChanges, OutboxTypes DEF BlockUnavailableWork, Unavailable
<1>2. publication' \in [PublicationTypes -> PublicationRow] /\ SameAttempts
  BY <1>1, RowsKeepAttempts DEF BlockUnavailableWork
<1>3. outbox' \in [Operations -> OutboxRow]
  BY CompletedIntakeTypes DEF BlockUnavailableWork
<1>. QED
  BY <1>2, <1>3 DEF BlockUnavailableWork, StoreTypeOK, IngestRow, Quiet, bindingVars

LEMMA BlockUncertainQuiet ==
  ASSUME StoreTypeOK, NEW p \in Workers, BlockUncertainPublication(p) PROVE Quiet
<1>1. \A t \in PublicationTypes : KeepsAttempt(publication'[t], publication[t])
  BY RowChanges, OutboxTypes DEF BlockUncertainPublication
<1>2. publication' \in [PublicationTypes -> PublicationRow] /\ SameAttempts
  BY <1>1, RowsKeepAttempts DEF BlockUncertainPublication
<1>3. outbox' \in [Operations -> OutboxRow]
  BY CompletedIntakeTypes DEF BlockUncertainPublication
<1>. QED
  BY <1>2, <1>3 DEF BlockUncertainPublication, StoreTypeOK, IngestRow, Quiet, bindingVars

\* A target that is remembered was owned already.
LEMMA RememberHandleQuiet ==
  ASSUME StoreTypeOK, NEW t \in PublicationTypes, RememberExternalHandle(t),
         publication[t].target
  PROVE  Quiet
<1>. DEFINE row == [publication[t] EXCEPT !.target = TRUE,
                       !.state = IF tombstone THEN "revoked" ELSE publication[t].state]
<1>1. KeepsAttempt(row, publication[t])
  BY OutboxTypes DEF KeepsAttempt, PublicationRow
<1>2. publication' = [publication EXCEPT ![t] = row]
  BY OutboxTypes DEF RememberExternalHandle, StoreTypeOK, PublicationRow
<1>. HIDE DEF row
<1>3. publication' \in [PublicationTypes -> PublicationRow] /\ SameAttempts
  BY <1>1, <1>2 DEF StoreTypeOK, KeepsAttempt, SameAttempts
<1>4. outbox' \in [Operations -> OutboxRow]
  <2>1. outbox' \in {outbox, [outbox EXCEPT !["delete"] = Reopened(outbox["delete"])]}
    BY DEF RememberExternalHandle, ReopenDeleteIfWithdrawn
  <2>2. outbox \in [Operations -> OutboxRow] /\ Reopened(outbox["delete"]) \in OutboxRow
    BY OutboxTypes, RowTypes DEF StoreTypeOK
  <2>. QED
    BY <2>1, <2>2
<1>. QED
  BY <1>3, <1>4 DEF RememberExternalHandle, StoreTypeOK, Quiet, bindingVars

\* Reserving and settling change the attempt of one publication only.
SameAttemptsBut(t) ==
  \A u \in PublicationTypes \ {t} :
    /\ publication'[u].attempt = publication[u].attempt
    /\ publication'[u].open = publication[u].open
    /\ publication'[u].target = publication[u].target

LEMMA ReserveEffect ==
  ASSUME StoreTypeOK, NEW p \in Workers, NEW t \in PublicationTypes, ReservePublication(t, p)
  PROVE  /\ StoreTypeOK' /\ SameAttemptsBut(t)
         /\ publication[t].attempt = None /\ ~publication[t].target
         /\ publication'[t].attempt = p /\ publication'[t].open /\ ~publication'[t].target
<1>1. publication[t] \in PublicationRow /\ publication[t].attempt = None /\ ~publication[t].target
  BY OutboxTypes DEF ReservePublication, CanReserve
<1>. DEFINE row == [publication[t] EXCEPT !.attempt = p, !.open = TRUE]
<1>2. row \in PublicationRow /\ row.attempt = p /\ row.open /\ row.target = publication[t].target
  BY <1>1 DEF PublicationRow
<1>3. publication' = [publication EXCEPT ![t] = row]
  BY <1>1 DEF ReservePublication, StoreTypeOK, PublicationRow
<1>. HIDE DEF row
<1>. QED
  BY <1>1, <1>2, <1>3 DEF ReservePublication, StoreTypeOK, SameAttemptsBut, bindingVars

LEMMA SettleEffect ==
  ASSUME StoreTypeOK, NEW p \in Workers, NEW t \in PublicationTypes, NEW target \in BOOLEAN,
         SettlePublication(t, p, target)
  PROVE  /\ StoreTypeOK' /\ SameAttemptsBut(t)
         /\ publication[t].attempt = p /\ publication[t].open
         /\ publication'[t].attempt = p /\ ~publication'[t].open
         /\ publication'[t].target = target
<1>1. publication[t] \in PublicationRow /\ publication[t].attempt = p /\ publication[t].open
  BY OutboxTypes DEF SettlePublication, CanSettle
<1>. DEFINE row == [publication[t] EXCEPT !.open = FALSE, !.target = target, !.blocked = FALSE,
                      !.state = IF Withdrawn THEN "revoked"
                                ELSE IF target THEN "published" ELSE "failed"]
<1>2. row \in PublicationRow /\ row.attempt = p /\ ~row.open /\ row.target = target
  BY <1>1 DEF PublicationRow
<1>3. publication' = [publication EXCEPT ![t] = row]
  BY DEF SettlePublication
<1>. HIDE DEF row
<1>4. publication' \in [PublicationTypes -> PublicationRow] /\ SameAttemptsBut(t)
      /\ publication'[t] = row
  BY <1>2, <1>3 DEF StoreTypeOK, SameAttemptsBut
<1>5. ingest' \in IngestRow
  BY DEF SettlePublication, ReopenUncertain, StoreTypeOK, IngestRow
<1>6. outbox' \in [Operations -> OutboxRow]
  <2>1. CASE Withdrawn
    BY <2>1, OutboxTypes, RowTypes DEF SettlePublication, StoreTypeOK
  <2>2. CASE ~Withdrawn
    BY <2>2, OutboxTypes DEF SettlePublication, ReopenUncertain, StoreTypeOK, OutboxRow
  <2>. QED
    BY <2>1, <2>2
<1>. QED
  BY <1>1, <1>2, <1>4, <1>5, <1>6 DEF SettlePublication, StoreTypeOK, bindingVars

-----------------------------------------------------------------------------
(* The confirmed manual save.                                              *)

\* A confirmed save that waits while the intake entry is closed has an attempt of its
\* own open, or waits for another attempt whose result reopens the entry.
SaveHeld ==
  LET save == publication["manual"] IN
  /\ save.state = "none" => ~save.confirmed
  /\ Withdrawn => save.state # "pending"
  /\ save.confirmed /\ save.state = "pending" /\ ~save.blocked /\ outbox["intake"].row # "open" =>
       save.open \/ (OpenAttempt /\ outbox["intake"].error = "uncertain")

LEMMA CreateIngestHeld ==
  ASSUME StoreTypeOK, SaveHeld, CreateIngest PROVE SaveHeld'
BY OutboxTypes DEF CreateIngest, OpenEntry, NoEntry,
  SaveHeld, StoreTypeOK, OutboxRow, PublicationRow, Released, Claimed, Completed, Reopened,
  OpenAttempt, Withdrawn, Received, bindingVars, PublicationTypes, Operations

LEMMA AttachHeld ==
  ASSUME StoreTypeOK, SaveHeld, AttachManualIntent PROVE SaveHeld'
BY OutboxTypes DEF AttachManualIntent,
  SaveHeld, StoreTypeOK, OutboxRow, PublicationRow, Released, Claimed, Completed, Reopened,
  OpenAttempt, Withdrawn, Received, bindingVars, PublicationTypes, Operations

LEMMA ConfirmHeld ==
  ASSUME StoreTypeOK, SaveHeld, ConfirmManualPublication PROVE SaveHeld'
BY OutboxTypes DEF ConfirmManualPublication, CanConfirmManual,
  SaveHeld, StoreTypeOK, OutboxRow, PublicationRow, Released, Claimed, Completed, Reopened,
  OpenAttempt, Withdrawn, Received, bindingVars, PublicationTypes, Operations

LEMMA TombstoneHeld ==
  ASSUME StoreTypeOK, SaveHeld, TombstoneSource PROVE SaveHeld'
BY OutboxTypes DEF TombstoneSource, AllRevoked,
  SaveHeld, StoreTypeOK, OutboxRow, PublicationRow, Released, Claimed, Completed, Reopened,
  OpenAttempt, Withdrawn, Received, bindingVars, PublicationTypes, Operations

LEMMA PauseHeld ==
  ASSUME StoreTypeOK, SaveHeld, PauseBinding PROVE SaveHeld'
BY OutboxTypes DEF PauseBinding, BlockedManual, Unstarted, Undispatched,
  SaveHeld, StoreTypeOK, OutboxRow, PublicationRow, Released, Claimed, Completed, Reopened,
  OpenAttempt, Withdrawn, Received, bindingVars, PublicationTypes, Operations

LEMMA ResumeHeld ==
  ASSUME StoreTypeOK, SaveHeld, ResumeBinding PROVE SaveHeld'
BY OutboxTypes DEF ResumeBinding, Undispatched,
  SaveHeld, StoreTypeOK, OutboxRow, PublicationRow, Released, Claimed, Completed, Reopened,
  OpenAttempt, Withdrawn, Received, bindingVars, PublicationTypes, Operations

LEMMA UnbindHeld ==
  ASSUME StoreTypeOK, SaveHeld, UnbindBinding PROVE SaveHeld'
BY OutboxTypes DEF UnbindBinding, BlockedManual, Unstarted, Undispatched,
  SaveHeld, StoreTypeOK, OutboxRow, PublicationRow, Released, Claimed, Completed, Reopened,
  OpenAttempt, Withdrawn, Received, bindingVars, PublicationTypes, Operations

LEMMA RevokeHeld ==
  ASSUME StoreTypeOK, SaveHeld, RevokeAdmission PROVE SaveHeld'
BY OutboxTypes DEF RevokeAdmission,
  SaveHeld, StoreTypeOK, OutboxRow, PublicationRow, Released, Claimed, Completed, Reopened,
  OpenAttempt, Withdrawn, Received, bindingVars, PublicationTypes, Operations

LEMMA BeginDeletionHeld ==
  ASSUME StoreTypeOK, SaveHeld, BeginCollectionDeletion PROVE SaveHeld'
BY OutboxTypes DEF BeginCollectionDeletion,
  SaveHeld, StoreTypeOK, OutboxRow, PublicationRow, Released, Claimed, Completed, Reopened,
  OpenAttempt, Withdrawn, Received, bindingVars, PublicationTypes, Operations

LEMMA CompleteDeletionHeld ==
  ASSUME StoreTypeOK, SaveHeld, CompleteCollectionDeletion PROVE SaveHeld'
BY OutboxTypes DEF CompleteCollectionDeletion,
  SaveHeld, StoreTypeOK, OutboxRow, PublicationRow, Released, Claimed, Completed, Reopened,
  OpenAttempt, Withdrawn, Received, bindingVars, PublicationTypes, Operations

LEMMA RetryWorkHeld ==
  ASSUME StoreTypeOK, SaveHeld, RetryWork PROVE SaveHeld'
BY OutboxTypes DEF RetryWork, OpenEntry, NoEntry,
  SaveHeld, StoreTypeOK, OutboxRow, PublicationRow, Released, Claimed, Completed, Reopened,
  OpenAttempt, Withdrawn, Received, bindingVars, PublicationTypes, Operations

LEMMA LeaseLapsesHeld ==
  ASSUME StoreTypeOK, SaveHeld, NEW op \in Operations, LeaseLapses(op) PROVE SaveHeld'
BY OutboxTypes DEF LeaseLapses,
  SaveHeld, StoreTypeOK, OutboxRow, PublicationRow, Released, Claimed, Completed, Reopened,
  OpenAttempt, Withdrawn, Received, bindingVars, PublicationTypes, Operations

LEMMA DispatchClaimHeld ==
  ASSUME StoreTypeOK, SaveHeld, NEW d \in Dispatchers, NEW op \in Operations, ClaimOutboxForDispatch(d, op) PROVE SaveHeld'
BY OutboxTypes DEF ClaimOutboxForDispatch,
  SaveHeld, StoreTypeOK, OutboxRow, PublicationRow, Released, Claimed, Completed, Reopened,
  OpenAttempt, Withdrawn, Received, bindingVars, PublicationTypes, Operations

LEMMA MarkHeld ==
  ASSUME StoreTypeOK, SaveHeld, NEW d \in Dispatchers, NEW op \in Operations, MarkOutboxDispatched(d, op) PROVE SaveHeld'
BY OutboxTypes DEF MarkOutboxDispatched,
  SaveHeld, StoreTypeOK, OutboxRow, PublicationRow, Released, Claimed, Completed, Reopened,
  OpenAttempt, Withdrawn, Received, bindingVars, PublicationTypes, Operations

LEMMA ClaimWorkHeld ==
  ASSUME StoreTypeOK, SaveHeld, NEW p \in Workers, NEW op \in Operations, ClaimWork(op, p) PROVE SaveHeld'
BY OutboxTypes DEF ClaimWork, CanClaim,
  SaveHeld, StoreTypeOK, OutboxRow, PublicationRow, Released, Claimed, Completed, Reopened,
  OpenAttempt, Withdrawn, Received, bindingVars, PublicationTypes, Operations

LEMMA RetryOutboxHeld ==
  ASSUME StoreTypeOK, SaveHeld, NEW p \in Workers, NEW op \in Operations,
         NEW error \in {"none", "retryable", "other"}, RetryOutbox(op, p, error) PROVE SaveHeld'
BY OutboxTypes DEF RetryOutbox, OwnsIntake, Owns,
  SaveHeld, StoreTypeOK, OutboxRow, PublicationRow, Released, Claimed, Completed, Reopened,
  OpenAttempt, Withdrawn, Received, bindingVars, PublicationTypes, Operations

LEMMA FailHeld ==
  ASSUME StoreTypeOK, SaveHeld, NEW p \in Workers, FailClaimedWork(p) PROVE SaveHeld'
BY OutboxTypes DEF FailClaimedWork, CompletedIntake, OwnsIntake,
  SaveHeld, StoreTypeOK, OutboxRow, PublicationRow, Released, Claimed, Completed, Reopened,
  OpenAttempt, Withdrawn, Received, bindingVars, PublicationTypes, Operations

LEMMA HoldHeld ==
  ASSUME StoreTypeOK, SaveHeld, NEW p \in Workers, HoldPausedWork(p) PROVE SaveHeld'
BY OutboxTypes DEF HoldPausedWork, CanHold, OwnsIntake, Owns,
  SaveHeld, StoreTypeOK, OutboxRow, PublicationRow, Released, Claimed, Completed, Reopened,
  OpenAttempt, Withdrawn, Received, bindingVars, PublicationTypes, Operations

LEMMA BlockUnavailableHeld ==
  ASSUME StoreTypeOK, SaveHeld, ~Withdrawn, BlockUnavailableWork PROVE SaveHeld'
BY OutboxTypes DEF BlockUnavailableWork, CompletedIntake, Unavailable,
  SaveHeld, StoreTypeOK, OutboxRow, PublicationRow, Released, Claimed, Completed, Reopened,
  OpenAttempt, Withdrawn, Received, bindingVars, PublicationTypes, Operations

LEMMA TombstoneClaimedHeld ==
  ASSUME StoreTypeOK, SaveHeld, NEW p \in Workers, TombstoneClaimedWorkForCleanup(p) PROVE SaveHeld'
BY OutboxTypes DEF TombstoneClaimedWorkForCleanup, AllRevoked,
  SaveHeld, StoreTypeOK, OutboxRow, PublicationRow, Released, Claimed, Completed, Reopened,
  OpenAttempt, Withdrawn, Received, bindingVars, PublicationTypes, Operations

LEMMA PersistHeld ==
  ASSUME StoreTypeOK, SaveHeld, NEW p \in Workers, PersistCompletedAsset(p) PROVE SaveHeld'
BY OutboxTypes DEF PersistCompletedAsset,
  SaveHeld, StoreTypeOK, OutboxRow, PublicationRow, Released, Claimed, Completed, Reopened,
  OpenAttempt, Withdrawn, Received, bindingVars, PublicationTypes, Operations

LEMMA ReserveHeld ==
  ASSUME StoreTypeOK, SaveHeld, NEW p \in Workers, NEW t \in PublicationTypes, ReservePublication(t, p) PROVE SaveHeld'
BY OutboxTypes DEF ReservePublication,
  SaveHeld, StoreTypeOK, OutboxRow, PublicationRow, Released, Claimed, Completed, Reopened,
  OpenAttempt, Withdrawn, Received, bindingVars, PublicationTypes, Operations

LEMMA SettleHeld ==
  ASSUME StoreTypeOK, SaveHeld, NEW p \in Workers, NEW t \in PublicationTypes, NEW target \in BOOLEAN,
         SettlePublication(t, p, target) PROVE SaveHeld'
BY OutboxTypes DEF SettlePublication, ReopenUncertain,
  SaveHeld, StoreTypeOK, OutboxRow, PublicationRow, Released, Claimed, Completed, Reopened,
  OpenAttempt, Withdrawn, Received, bindingVars, PublicationTypes, Operations

LEMMA BlockUncertainHeld ==
  ASSUME StoreTypeOK, SaveHeld, NEW p \in Workers, BlockUncertainPublication(p) PROVE SaveHeld'
BY OutboxTypes DEF BlockUncertainPublication, CanBlockUncertain, CompletedIntake, OwnsIntake,
  SaveHeld, StoreTypeOK, OutboxRow, PublicationRow, Released, Claimed, Completed, Reopened,
  OpenAttempt, Withdrawn, Received, bindingVars, PublicationTypes, Operations

LEMMA FailManualHeld ==
  ASSUME StoreTypeOK, SaveHeld, NEW p \in Workers, FailManualPublication(p) PROVE SaveHeld'
BY OutboxTypes DEF FailManualPublication,
  SaveHeld, StoreTypeOK, OutboxRow, PublicationRow, Released, Claimed, Completed, Reopened,
  OpenAttempt, Withdrawn, Received, bindingVars, PublicationTypes, Operations

LEMMA CompleteHeld ==
  ASSUME StoreTypeOK, SaveHeld, NEW p \in Workers, CompleteClaimedWork(p) PROVE SaveHeld'
BY OutboxTypes DEF CompleteClaimedWork, CanComplete, FenceOpen, Outstanding, CompletedIntake,
  SaveHeld, StoreTypeOK, OutboxRow, PublicationRow, Released, Claimed, Completed, Reopened,
  OpenAttempt, Withdrawn, Received, bindingVars, PublicationTypes, Operations

LEMMA CompleteDeleteHeld ==
  ASSUME StoreTypeOK, SaveHeld, NEW p \in Workers, CompleteDeleteWork(p) PROVE SaveHeld'
BY OutboxTypes DEF CompleteDeleteWork,
  SaveHeld, StoreTypeOK, OutboxRow, PublicationRow, Released, Claimed, Completed, Reopened,
  OpenAttempt, Withdrawn, Received, bindingVars, PublicationTypes, Operations

LEMMA RememberHandleHeld ==
  ASSUME StoreTypeOK, SaveHeld, NEW t \in PublicationTypes, RememberExternalHandle(t) PROVE SaveHeld'
BY OutboxTypes DEF RememberExternalHandle, ReopenDeleteIfWithdrawn,
  SaveHeld, StoreTypeOK, OutboxRow, PublicationRow, Released, Claimed, Completed, Reopened,
  OpenAttempt, Withdrawn, Received, bindingVars, PublicationTypes, Operations

LEMMA RememberAssetHeld ==
  ASSUME StoreTypeOK, SaveHeld, RememberOwnedAsset PROVE SaveHeld'
BY OutboxTypes DEF RememberOwnedAsset, ReopenDeleteIfWithdrawn,
  SaveHeld, StoreTypeOK, OutboxRow, PublicationRow, Released, Claimed, Completed, Reopened,
  OpenAttempt, Withdrawn, Received, bindingVars, PublicationTypes, Operations

-----------------------------------------------------------------------------

WorkRecord == [asset : BOOLEAN, pub : [PublicationTypes -> PublicationRow]]

\* What a run takes for owned is owned in the rows pub.
WorkBacked(work, pub) == \A t \in PublicationTypes : work.pub[t].target => pub[t].target
OwnersBacked(owners, pub) ==
  \A i \in 1..Len(owners) : owners[i] # "asset" => pub[owners[i]].target

\* A place of a run that is not between a reservation and its settlement.
Placed(step, locals, pub) ==
  /\ step \in WorkerSteps \ {"publish", "settle"} /\ locals \in RunRecord
  /\ WorkBacked(locals.work, pub) /\ OwnersBacked(locals.owners, pub)

Moves(p, pub) ==
  \E step \in WorkerSteps, locals \in RunRecord :
    Placed(step, locals, pub) /\ GoWith(p, step, locals)

-----------------------------------------------------------------------------
(* Where the steps of a worker take it.                                    *)

LEMMA PlacedMoves ==
  ASSUME NEW p, NEW pub, NEW step, NEW locals, Placed(step, locals, pub),
         GoWith(p, step, locals)
  PROVE  Moves(p, pub)
BY DEF Moves, Placed

LEMMA EmptyBacked ==
  ASSUME NEW pub
  PROVE  /\ NoRun \in RunRecord /\ NoRun.work = NoWork /\ NoRun.owners = <<>>
         /\ WorkBacked(NoWork, pub) /\ OwnersBacked(<<>>, pub)
<1>1. NoPublication \in PublicationRow /\ ~NoPublication.target
  BY DEF NoPublication, PublicationRow
<1>2. NoWork \in WorkRecord /\ \A t \in PublicationTypes : ~NoWork.pub[t].target
  BY <1>1 DEF NoWork, WorkRecord
<1>3. NoRun \in RunRecord /\ NoRun.work = NoWork /\ NoRun.owners = <<>>
  BY <1>2 DEF NoRun, RunRecord, WorkRecord, PublicationTypes
<1>. QED
  BY <1>2, <1>3 DEF WorkBacked, OwnersBacked

LEMMA FinishMoves ==
  ASSUME NEW p \in Workers, NEW pub, Finish(p) PROVE Moves(p, pub)
<1>1. Placed("idle", NoRun, pub)
  BY EmptyBacked DEF Placed, WorkerSteps
<1>. QED
  BY <1>1, PlacedMoves DEF Finish

\* The locals of a run that is ending, and what the ending steps add to them.
LEMMA EndingBacked ==
  ASSUME NEW p \in Workers, run[p] \in RunRecord, NEW pub,
         NEW error \in {"none", "retryable", "other"}, NEW next \in {"idle", "hold", "block"}
  PROVE  /\ Ending(p) \in RunRecord /\ Ending(p).work = NoWork
         /\ [Ending(p) EXCEPT !.error = error] \in RunRecord
         /\ [Ending(p) EXCEPT !.next = next] \in RunRecord
         /\ \A r \in {Ending(p), [Ending(p) EXCEPT !.error = error],
                      [Ending(p) EXCEPT !.next = next]} :
              WorkBacked(r.work, pub) /\ OwnersBacked(r.owners, pub)
<1>1. run[p].message \in Messages \cup {None} /\ run[p].claim \in Operations \cup {None}
  BY DEF RunRecord
<1>2. /\ Ending(p) \in RunRecord /\ [Ending(p) EXCEPT !.error = error] \in RunRecord
      /\ [Ending(p) EXCEPT !.next = next] \in RunRecord
  BY <1>1, EmptyBacked DEF Ending, RunRecord
<1>3. \A r \in {Ending(p), [Ending(p) EXCEPT !.error = error],
                [Ending(p) EXCEPT !.next = next]} : r.work = NoWork /\ r.owners = <<>>
  BY EmptyBacked DEF Ending, RunRecord
<1>. QED
  BY <1>2, <1>3, EmptyBacked

EndingSteps == WorkerSteps \ {"publish", "settle"}

LEMMA EndingMoves ==
  ASSUME NEW p \in Workers, run[p] \in RunRecord, NEW pub, NEW step \in EndingSteps,
         GoWith(p, step, Ending(p))
  PROVE  Moves(p, pub)
<1>1. Placed(step, Ending(p), pub)
  BY EndingBacked DEF Placed, EndingSteps
<1>. QED
  BY <1>1, PlacedMoves

LEMMA EndingMembers ==
  {"hold", "block", "ack", "retry", "uncertain", "fail", "tombstone", "remember", "compensate"}
    \subseteq EndingSteps
BY DEF EndingSteps, WorkerSteps, IntakeSteps, DeleteSteps

LEMMA RetryMoves ==
  ASSUME NEW p \in Workers, run[p] \in RunRecord, NEW pub, NEW error \in {"retryable", "other"},
         Retry(p, error)
  PROVE  Moves(p, pub)
<1>1. Placed("retry", [Ending(p) EXCEPT !.error = error], pub)
  BY EndingBacked, EndingMembers DEF Placed, EndingSteps
<1>. QED
  BY <1>1, PlacedMoves DEF Retry

LEMMA AcknowledgeMoves ==
  ASSUME NEW p \in Workers, run[p] \in RunRecord, NEW pub, Acknowledge(p) PROVE Moves(p, pub)
BY EndingMoves, EndingMembers DEF Acknowledge

LEMMA RejectedMoves ==
  ASSUME NEW p \in Workers, run[p] \in RunRecord, NEW pub, Rejected(p) PROVE Moves(p, pub)
BY FinishMoves, EndingMoves, EndingMembers DEF Rejected

LEMMA CheckedMoves ==
  ASSUME NEW p \in Workers, run[p] \in RunRecord, NEW pub, NEW step, NEW locals,
         Placed(step, locals, pub), Checked(p, step, locals)
  PROVE  Moves(p, pub)
BY RejectedMoves, PlacedMoves DEF Checked

LEMMA AssetCheckedMoves ==
  ASSUME NEW p \in Workers, run[p] \in RunRecord, NEW pub, NEW step, NEW locals,
         Placed(step, locals, pub), AssetChecked(p, step, locals)
  PROVE  Moves(p, pub)
<1>1. CASE Eligibility(p) = "active" /\ GoWith(p, step, locals)
  BY <1>1, PlacedMoves
<1>2. ASSUME NEW next \in {"idle", "hold", "block"},
             GoWith(p, "remember", [Ending(p) EXCEPT !.next = next])
      PROVE  Moves(p, pub)
  <2>1. Placed("remember", [Ending(p) EXCEPT !.next = next], pub)
    BY EndingBacked, EndingMembers DEF Placed, EndingSteps
  <2>. QED
    BY <1>2, <2>1, PlacedMoves
<1>. QED
  BY <1>1, <1>2 DEF AssetChecked

\* The locals of a run that goes on with a work and a publication.
LEMMA WorkingPlaced ==
  ASSUME NEW p \in Workers, run[p] \in RunRecord, NEW pub, OwnersBacked(run[p].owners, pub),
         NEW work \in WorkRecord, WorkBacked(work, pub), NEW type \in PublicationTypes,
         NEW step \in WorkerSteps \ {"publish", "settle"}
  PROVE  Placed(step, [run[p] EXCEPT !.work = work, !.type = type], pub)
<1>. DEFINE locals == [run[p] EXCEPT !.work = work, !.type = type]
<1>1. /\ locals \in RunRecord /\ locals.work = work /\ locals.type = type
      /\ locals.owners = run[p].owners
  BY DEF RunRecord, WorkRecord
<1>. HIDE DEF locals
<1>2. Placed(step, locals, pub)
  BY <1>1 DEF Placed
<1>. QED
  BY <1>2 DEF locals

LEMMA WorkingMembers ==
  {"prepare", "job", "complete", "reserve", "load", "get_asset", "source",
   "create_asset", "upload", "persist", "fail_manual", "claim", "explain", "block_unclaimed",
   "claim_delete", "explain_delete", "load_delete", "remove", "retry_delete", "compensate"}
    \subseteq WorkerSteps \ {"publish", "settle"}
BY DEF WorkerSteps, IntakeSteps, DeleteSteps

LEMMA AfterCollectionMoves ==
  ASSUME NEW p \in Workers, run[p] \in RunRecord, NEW pub, OwnersBacked(run[p].owners, pub),
         NEW work \in WorkRecord, WorkBacked(work, pub), AfterCollection(p, work)
  PROVE  Moves(p, pub)
<1>. DEFINE manual == work.pub["manual"]
            step == CASE Due(manual) -> "prepare"
                      [] manual.state = "published" /\ manual.confirmed -> "job"
                      [] OTHER -> "complete"
            locals == [run[p] EXCEPT !.work = work, !.type = "manual"]
<1>1. step \in {"prepare", "job", "complete"}
  BY DEF Due
<1>2. Checked(p, step, locals)
  BY DEF AfterCollection
<1>. HIDE DEF step
<1>3. Placed(step, locals, pub)
  BY <1>1, WorkingPlaced, WorkingMembers DEF PublicationTypes
<1>. QED
  BY <1>2, <1>3, CheckedMoves

LEMMA AfterCleanMoves ==
  ASSUME NEW p \in Workers, run[p] \in RunRecord, NEW pub, OwnersBacked(run[p].owners, pub),
         NEW work \in WorkRecord, WorkBacked(work, pub), AfterClean(p, work)
  PROVE  Moves(p, pub)
<1>. DEFINE occurrence == work.pub["collection"]
            locals == [run[p] EXCEPT !.work = work, !.type = "collection"]
<1>1. CASE Checked(p, "reserve", locals)
  <2>1. Placed("reserve", locals, pub)
    BY WorkingPlaced, WorkingMembers DEF PublicationTypes
  <2>. QED
    BY <1>1, <2>1, CheckedMoves
<1>2. CASE AfterCollection(p, work)
  BY <1>2, AfterCollectionMoves
<1>. QED
  BY <1>1, <1>2 DEF AfterClean

\* The work a run compensates, as a sequence of its owners.
LEMMA KeptBacked ==
  ASSUME NEW work \in WorkRecord, NEW pub, WorkBacked(work, pub), NEW o \in Owners
  PROVE  /\ Kept(work, o) \in Seq(Owners)
         /\ \A i \in 1..Len(Kept(work, o)) :
              Kept(work, o)[i] \in PublicationTypes => pub[Kept(work, o)[i]].target
<1>1. CASE Holds(work, o)
  <2>1. Kept(work, o) = <<o>>
    BY <1>1 DEF Kept
  <2>2. o \in PublicationTypes => pub[o].target
    BY <1>1 DEF Holds, WorkBacked, PublicationTypes
  <2>. QED
    BY <2>1, <2>2
<1>2. CASE ~Holds(work, o)
  BY <1>2 DEF Kept
<1>. QED
  BY <1>1, <1>2

LEMMA ConcatBacked ==
  ASSUME NEW pub, NEW a \in Seq(Owners), NEW b \in Seq(Owners),
         OwnersBacked(a, pub), OwnersBacked(b, pub)
  PROVE  a \o b \in Seq(Owners) /\ OwnersBacked(a \o b, pub)
BY DEF OwnersBacked

LEMMA OrdersBacked ==
  ASSUME NEW work \in WorkRecord, NEW pub, WorkBacked(work, pub)
  PROVE  /\ CompensationOrder(work) \in Seq(Owners) /\ OwnersBacked(CompensationOrder(work), pub)
         /\ DeletionOrder(work) \in Seq(Owners) /\ OwnersBacked(DeletionOrder(work), pub)
<1>1. \A o \in Owners : Kept(work, o) \in Seq(Owners) /\ OwnersBacked(Kept(work, o), pub)
  <2>. TAKE o \in Owners
  <2>1. \A i \in 1..Len(Kept(work, o)) : Kept(work, o)[i] \in Owners
    BY KeptBacked
  <2>. QED
    BY <2>1, KeptBacked DEF OwnersBacked, Owners, PublicationTypes
<1>2. {"asset", "collection", "manual"} \subseteq Owners
  BY DEF Owners, PublicationTypes
<1>. DEFINE a == Kept(work, "asset")  c == Kept(work, "collection")  m == Kept(work, "manual")
<1>3. /\ a \in Seq(Owners) /\ c \in Seq(Owners) /\ m \in Seq(Owners)
      /\ OwnersBacked(a, pub) /\ OwnersBacked(c, pub) /\ OwnersBacked(m, pub)
  BY <1>1, <1>2
<1>. HIDE DEF a, c, m
<1>4. a \o c \in Seq(Owners) /\ OwnersBacked(a \o c, pub)
  BY <1>3, ConcatBacked
<1>5. c \o m \in Seq(Owners) /\ OwnersBacked(c \o m, pub)
  BY <1>3, ConcatBacked
<1>6. /\ (a \o c) \o m \in Seq(Owners) /\ OwnersBacked((a \o c) \o m, pub)
      /\ (c \o m) \o a \in Seq(Owners) /\ OwnersBacked((c \o m) \o a, pub)
  BY <1>3, <1>4, <1>5, ConcatBacked
<1>. QED
  BY <1>6 DEF CompensationOrder, DeletionOrder, a, c, m

LEMMA LoadedBacked ==
  ASSUME StoreTypeOK
  PROVE  Loaded \in WorkRecord /\ WorkBacked(Loaded, publication)
<1>1. \A t \in PublicationTypes :
        /\ [publication[t] EXCEPT !.attempt = None] \in PublicationRow
        /\ [publication[t] EXCEPT !.attempt = None].target = publication[t].target
  BY OutboxTypes DEF PublicationRow
<1>. QED
  BY <1>1 DEF Loaded, WorkRecord, WorkBacked, StoreTypeOK, IngestRow

LEMMA OwnersPlaced ==
  ASSUME NEW p \in Workers, run[p] \in RunRecord, NEW pub, NEW owners \in Seq(Owners),
         OwnersBacked(owners, pub)
  PROVE  Placed("compensate", [Ending(p) EXCEPT !.owners = owners], pub)
<1>. DEFINE locals == [Ending(p) EXCEPT !.owners = owners]
<1>1. Ending(p) \in RunRecord /\ Ending(p).work = NoWork
  <2>1. "other" \in {"none", "retryable", "other"} /\ "idle" \in {"idle", "hold", "block"}
    OBVIOUS
  <2>2. QED
    BY <2>1, EndingBacked
<1>2. locals \in RunRecord /\ locals.work = NoWork /\ locals.owners = owners
  BY <1>1 DEF RunRecord
<1>. HIDE DEF locals
<1>3. Placed("compensate", locals, pub)
  BY <1>2, EmptyBacked, WorkingMembers DEF Placed
<1>. QED
  BY <1>3 DEF locals

LEMMA CompensateMoves ==
  ASSUME StoreTypeOK, NEW p \in Workers, run[p] \in RunRecord, NEW work \in WorkRecord,
         WorkBacked(work, publication), Compensate(p, work)
  PROVE  Moves(p, publication)
<1>1. Latest(p, work) \in WorkRecord /\ WorkBacked(Latest(p, work), publication)
  BY LoadedBacked DEF Latest
<1>2. /\ CompensationOrder(Latest(p, work)) \in Seq(Owners)
      /\ OwnersBacked(CompensationOrder(Latest(p, work)), publication)
  BY <1>1, OrdersBacked
<1>. QED
  BY <1>2, OwnersPlaced, PlacedMoves DEF Compensate

LEMMA ByVerdictMoves ==
  ASSUME StoreTypeOK, NEW p \in Workers, run[p] \in RunRecord,
         OwnersBacked(run[p].owners, publication), NEW scan, NEW work \in WorkRecord,
         WorkBacked(work, publication), ByVerdict(p, scan, work)
  PROVE  Moves(p, publication)
BY RetryMoves, CompensateMoves, AfterCleanMoves DEF ByVerdict

-----------------------------------------------------------------------------
(* The invariant.                                                          *)

\* The type of what surrounds the rows and the runs.
Surroundings ==
  /\ dispatcher \in [Dispatchers -> [step : {"idle", "send", "mark"}, op : Operations]]
  /\ queue \in [Messages -> [there : BOOLEAN, hidden : BOOLEAN, holder : Workers \cup {None}]]
  /\ asset \in [upload : {"none", "created", "live", "deleted"},
               scan : {"pending", "clean", "infected"}]
  /\ thing \in [PublicationTypes -> {"none", "live", "removed"}]
  /\ calls \in [PublicationTypes -> Nat]
  /\ job \in {"none", "pending", "completed", "failed"}
  /\ scenario \in Scenarios
  /\ faults \in Nat

\* The attempt of a publication, the calls made under it and what they left behind.
JournalKept(t) ==
  /\ publication[t].target => publication[t].attempt # None /\ ~publication[t].open
  /\ publication[t].attempt = None => calls[t] = 0
  /\ calls[t] <= 1
  /\ calls[t] = 0 => thing[t] = "none"
  /\ publication[t].attempt # None /\ ~publication[t].open => calls[t] = 1
  /\ publication[t].target => thing[t] # "none"
  /\ ~publication[t].target => thing[t] # "removed"
  /\ publication[t].attempt # None /\ ~publication[t].open /\ ~publication[t].target =>
       thing[t] = "none"

\* What a worker knows at its place.
RunKnows(p) ==
  LET t == run[p].type IN
  /\ WorkBacked(run[p].work, publication) /\ OwnersBacked(run[p].owners, publication)
  /\ pc[p] \in {"publish", "settle"} => publication[t].attempt = p /\ publication[t].open
  /\ pc[p] = "publish" => calls[t] = 0
  /\ pc[p] = "settle" =>
       calls[t] = 1 /\ thing[t] = IF run[p].owned THEN "live" ELSE "none"

MediaInv ==
  /\ StoreTypeOK /\ Surroundings
  /\ pc \in [Workers -> WorkerSteps] /\ run \in [Workers -> RunRecord]
  /\ \A t \in PublicationTypes : JournalKept(t)
  /\ \A p \in Workers : RunKnows(p)

\* A step that changes no attempt, no destination, and one run at most.
Still(p) ==
  /\ Quiet /\ Surroundings' /\ UNCHANGED <<calls, thing>> /\ Moves(p, publication)

LEMMA InvParts ==
  ASSUME MediaInv, NEW p \in Workers
  PROVE  /\ StoreTypeOK /\ Surroundings
         /\ run[p] \in RunRecord /\ pc[p] \in WorkerSteps
         /\ run[p].work \in WorkRecord /\ run[p].owners \in Seq(Owners)
         /\ run[p].type \in PublicationTypes /\ run[p].owned \in BOOLEAN
         /\ run[p].scan \in {"pending", "clean", "infected"}
         /\ run[p].error \in {"none", "retryable", "other"}
         /\ run[p].next \in {"idle", "hold", "block"}
         /\ WorkBacked(run[p].work, publication) /\ OwnersBacked(run[p].owners, publication)
BY DEF MediaInv, RunKnows, RunRecord, WorkRecord

LEMMA LimitsTyped ==
  ASSUME Surroundings, MaxFaults \in Nat, Fault \/ NoFault \/ UNCHANGED limits
  PROVE  scenario' \in Scenarios /\ faults' \in Nat
BY DEF Surroundings, Fault, NoFault, limits

LEMMA SurroundingsKept ==
  ASSUME Surroundings, Fault \/ NoFault \/ UNCHANGED limits, UNCHANGED storeCallUnchanged
  PROVE  Surroundings' /\ UNCHANGED <<calls, thing>>
BY LimitsTyped, WorkerAssumption DEF Surroundings, storeCallUnchanged, serviceVars

\* A run that goes on with its own locals.
LEMMA GoMoves ==
  ASSUME MediaInv, NEW p \in Workers, NEW step \in WorkerSteps \ {"publish", "settle"},
         Go(p, step)
  PROVE  Moves(p, publication)
<1>1. Placed(step, run[p], publication)
  BY InvParts DEF Placed
<1>2. GoWith(p, step, run[p])
  BY InvParts DEF Go, GoWith, MediaInv
<1>. QED
  BY <1>1, <1>2, PlacedMoves

LEMMA OwnPlaced ==
  ASSUME MediaInv, NEW p \in Workers, NEW step \in WorkerSteps \ {"publish", "settle"}
  PROVE  Placed(step, run[p], publication)
BY InvParts DEF Placed

LEMMA ExplainIntakeStill ==
  ASSUME MediaInv, NEW p \in Workers, ExplainIntake(p) PROVE Still(p)
<1>1. Quiet
  BY InvParts, UnchangedQuiet DEF ExplainIntake
<1>2. Moves(p, publication)
  BY InvParts, EndingMembers, WorkingMembers, AcknowledgeMoves, GoMoves, FinishMoves DEF ExplainIntake
<1>3. Surroundings' /\ UNCHANGED <<calls, thing>>
  BY InvParts, SurroundingsKept DEF ExplainIntake, limits, storeCallUnchanged
<1>. QED
  BY <1>1, <1>2, <1>3 DEF Still

LEMMA BlockUnclaimedStill ==
  ASSUME MediaInv, NEW p \in Workers, BlockUnclaimed(p) PROVE Still(p)
<1>1. Quiet
  BY InvParts, UnchangedQuiet, BlockUnavailableQuiet DEF BlockUnclaimed
<1>2. Moves(p, publication)
  BY InvParts, EndingMembers, WorkingMembers, AcknowledgeMoves, FinishMoves DEF BlockUnclaimed
<1>3. Surroundings' /\ UNCHANGED <<calls, thing>>
  BY InvParts, SurroundingsKept DEF BlockUnclaimed, limits, storeCallUnchanged
<1>. QED
  BY <1>1, <1>2, <1>3 DEF Still

LEMMA DownloadSourceStill ==
  ASSUME MediaInv, NEW p \in Workers, DownloadSource(p) PROVE Still(p)
<1>1. Quiet
  BY InvParts, UnchangedQuiet DEF DownloadSource
<1>2. Moves(p, publication)
  BY InvParts, EndingMembers, WorkingMembers, EndingMoves, CheckedMoves, OwnPlaced DEF DownloadSource
<1>3. Surroundings' /\ UNCHANGED <<calls, thing>>
  BY InvParts, SurroundingsKept DEF DownloadSource, limits, storeCallUnchanged
<1>. QED
  BY <1>1, <1>2, <1>3 DEF Still

LEMMA PrepareManualStill ==
  ASSUME MediaInv, NEW p \in Workers, PrepareManual(p) PROVE Still(p)
<1>1. Quiet
  BY InvParts, UnchangedQuiet DEF PrepareManual
<1>2. Moves(p, publication)
  BY InvParts, EndingMembers, WorkingMembers, GoMoves, FinishMoves, RetryMoves, CheckedMoves, OwnPlaced DEF PrepareManual
<1>3. Surroundings' /\ UNCHANGED <<calls, thing>>
  BY InvParts, SurroundingsKept DEF PrepareManual, limits, storeCallUnchanged
<1>. QED
  BY <1>1, <1>2, <1>3 DEF Still

LEMMA CompleteStill ==
  ASSUME MediaInv, NEW p \in Workers, Complete(p) PROVE Still(p)
<1>1. Quiet
  BY InvParts, UnchangedQuiet, CompleteQuiet DEF Complete
<1>2. Moves(p, publication)
  BY InvParts, EndingMembers, WorkingMembers, AcknowledgeMoves, FinishMoves DEF Complete
<1>3. Surroundings' /\ UNCHANGED <<calls, thing>>
  BY InvParts, SurroundingsKept DEF Complete, limits, storeCallUnchanged
<1>. QED
  BY <1>1, <1>2, <1>3 DEF Still

LEMMA BlockUncertainStill ==
  ASSUME MediaInv, NEW p \in Workers, BlockUncertain(p) PROVE Still(p)
<1>1. Quiet
  BY InvParts, UnchangedQuiet, BlockUncertainQuiet DEF BlockUncertain
<1>2. Moves(p, publication)
  BY InvParts, EndingMembers, WorkingMembers, AcknowledgeMoves, FinishMoves DEF BlockUncertain
<1>3. Surroundings' /\ UNCHANGED <<calls, thing>>
  BY InvParts, SurroundingsKept DEF BlockUncertain, limits, storeCallUnchanged
<1>. QED
  BY <1>1, <1>2, <1>3 DEF Still

LEMMA HoldStill ==
  ASSUME MediaInv, NEW p \in Workers, Hold(p) PROVE Still(p)
<1>1. Quiet
  BY InvParts, UnchangedQuiet, HoldQuiet DEF Hold
<1>2. Moves(p, publication)
  BY InvParts, EndingMembers, WorkingMembers, AcknowledgeMoves, FinishMoves DEF Hold
<1>3. Surroundings' /\ UNCHANGED <<calls, thing>>
  BY InvParts, SurroundingsKept DEF Hold, limits, storeCallUnchanged
<1>. QED
  BY <1>1, <1>2, <1>3 DEF Still

LEMMA BlockOwnedStill ==
  ASSUME MediaInv, NEW p \in Workers, BlockOwned(p) PROVE Still(p)
<1>1. Quiet
  BY InvParts, UnchangedQuiet, BlockUnavailableQuiet DEF BlockOwned
<1>2. Moves(p, publication)
  BY InvParts, EndingMembers, WorkingMembers, AcknowledgeMoves, FinishMoves DEF BlockOwned
<1>3. Surroundings' /\ UNCHANGED <<calls, thing>>
  BY InvParts, SurroundingsKept DEF BlockOwned, limits, storeCallUnchanged
<1>. QED
  BY <1>1, <1>2, <1>3 DEF Still

LEMMA ReleaseStill ==
  ASSUME MediaInv, NEW p \in Workers, Release(p) PROVE Still(p)
<1>1. Quiet
  BY InvParts, UnchangedQuiet, RetryOutboxQuiet, OutboxTypes DEF Release
<1>2. Moves(p, publication)
  BY InvParts, EndingMembers, WorkingMembers, AcknowledgeMoves, FinishMoves DEF Release
<1>3. Surroundings' /\ UNCHANGED <<calls, thing>>
  BY InvParts, SurroundingsKept DEF Release, limits, storeCallUnchanged
<1>. QED
  BY <1>1, <1>2, <1>3 DEF Still

LEMMA FailIntakeStill ==
  ASSUME MediaInv, NEW p \in Workers, FailIntake(p) PROVE Still(p)
<1>1. Quiet
  BY InvParts, UnchangedQuiet, FailQuiet DEF FailIntake
<1>2. Moves(p, publication)
  BY InvParts, EndingMembers, WorkingMembers, AcknowledgeMoves, FinishMoves DEF FailIntake
<1>3. Surroundings' /\ UNCHANGED <<calls, thing>>
  BY InvParts, SurroundingsKept DEF FailIntake, limits, storeCallUnchanged
<1>. QED
  BY <1>1, <1>2, <1>3 DEF Still

LEMMA FinishCompensationStill ==
  ASSUME MediaInv, NEW p \in Workers, FinishCompensation(p) PROVE Still(p)
<1>1. Quiet
  BY InvParts, UnchangedQuiet DEF FinishCompensation
<1>2. Moves(p, publication)
  BY InvParts, EndingMembers, WorkingMembers, EndingMoves DEF FinishCompensation
<1>3. Surroundings' /\ UNCHANGED <<calls, thing>>
  BY InvParts, SurroundingsKept DEF FinishCompensation, limits, storeCallUnchanged
<1>. QED
  BY <1>1, <1>2, <1>3 DEF Still

LEMMA TombstoneWorkStill ==
  ASSUME MediaInv, NEW p \in Workers, TombstoneWork(p) PROVE Still(p)
<1>1. Quiet
  BY InvParts, UnchangedQuiet, TombstoneClaimedQuiet DEF TombstoneWork
<1>2. Moves(p, publication)
  BY InvParts, EndingMembers, WorkingMembers, AcknowledgeMoves, FinishMoves DEF TombstoneWork
<1>3. Surroundings' /\ UNCHANGED <<calls, thing>>
  BY InvParts, SurroundingsKept DEF TombstoneWork, limits, storeCallUnchanged
<1>. QED
  BY <1>1, <1>2, <1>3 DEF Still

LEMMA ExplainDeleteStill ==
  ASSUME MediaInv, NEW p \in Workers, ExplainDelete(p) PROVE Still(p)
<1>1. Quiet
  BY InvParts, UnchangedQuiet DEF ExplainDelete
<1>2. Moves(p, publication)
  BY InvParts, EndingMembers, WorkingMembers, AcknowledgeMoves, FinishMoves DEF ExplainDelete
<1>3. Surroundings' /\ UNCHANGED <<calls, thing>>
  BY InvParts, SurroundingsKept DEF ExplainDelete, limits, storeCallUnchanged
<1>. QED
  BY <1>1, <1>2, <1>3 DEF Still

LEMMA CompleteDeleteStill ==
  ASSUME MediaInv, NEW p \in Workers, CompleteDelete(p) PROVE Still(p)
<1>1. Quiet
  BY InvParts, UnchangedQuiet, CompleteDeleteQuiet DEF CompleteDelete
<1>2. Moves(p, publication)
  BY InvParts, EndingMembers, WorkingMembers, AcknowledgeMoves, FinishMoves DEF CompleteDelete
<1>3. Surroundings' /\ UNCHANGED <<calls, thing>>
  BY InvParts, SurroundingsKept DEF CompleteDelete, limits, storeCallUnchanged
<1>. QED
  BY <1>1, <1>2, <1>3 DEF Still

LEMMA ReleaseDeleteStill ==
  ASSUME MediaInv, NEW p \in Workers, ReleaseDelete(p) PROVE Still(p)
<1>1. Quiet
  BY InvParts, UnchangedQuiet, RetryOutboxQuiet, OutboxTypes DEF ReleaseDelete
<1>2. Moves(p, publication)
  BY InvParts, EndingMembers, WorkingMembers, AcknowledgeMoves, FinishMoves DEF ReleaseDelete
<1>3. Surroundings' /\ UNCHANGED <<calls, thing>>
  BY InvParts, SurroundingsKept DEF ReleaseDelete, limits, storeCallUnchanged
<1>. QED
  BY <1>1, <1>2, <1>3 DEF Still

LEMMA TransientErrorStill ==
  ASSUME MediaInv, NEW p \in Workers, TransientError(p) PROVE Still(p)
<1>1. Quiet
  BY InvParts, UnchangedQuiet DEF TransientError
<1>2. Moves(p, publication)
  BY InvParts, EndingMembers, WorkingMembers, RetryMoves DEF TransientError
<1>3. Surroundings' /\ UNCHANGED <<calls, thing>>
  BY InvParts, SurroundingsKept DEF TransientError, limits, storeCallUnchanged
<1>. QED
  BY <1>1, <1>2, <1>3 DEF Still

LEMMA WorkerStopsStill ==
  ASSUME MediaInv, NEW p \in Workers, WorkerStops(p) PROVE Still(p)
<1>1. Quiet
  BY InvParts, UnchangedQuiet DEF WorkerStops
<1>2. Moves(p, publication)
  BY InvParts, EndingMembers, WorkingMembers, FinishMoves DEF WorkerStops
<1>3. Surroundings' /\ UNCHANGED <<calls, thing>>
  BY InvParts, SurroundingsKept DEF WorkerStops, limits, storeCallUnchanged
<1>. QED
  BY <1>1, <1>2, <1>3 DEF Still

\* Locals that differ from the run's own in fields no place depends on.
LEMMA ClaimPlaced ==
  ASSUME MediaInv, NEW p \in Workers, NEW step \in WorkerSteps \ {"publish", "settle"},
         NEW op \in Operations
  PROVE  Placed(step, [run[p] EXCEPT !.claim = op], publication)
<1>. DEFINE locals == [run[p] EXCEPT !.claim = op]
<1>1. /\ locals \in RunRecord /\ locals.work = run[p].work /\ locals.owners = run[p].owners
  BY InvParts DEF RunRecord
<1>. HIDE DEF locals
<1>2. Placed(step, locals, publication)
  BY <1>1, InvParts DEF Placed
<1>. QED
  BY <1>2 DEF locals

LEMMA ScanPlaced ==
  ASSUME MediaInv, NEW p \in Workers, NEW scan \in {"pending", "clean", "infected"}
  PROVE  Placed("persist", [run[p] EXCEPT !.scan = scan], publication)
<1>. DEFINE locals == [run[p] EXCEPT !.scan = scan]
<1>1. locals \in RunRecord /\ locals.work = run[p].work /\ locals.owners = run[p].owners
  BY InvParts DEF RunRecord
<1>. HIDE DEF locals
<1>2. Placed("persist", locals, publication)
  BY <1>1, InvParts, WorkingMembers DEF Placed
<1>. QED
  BY <1>2 DEF locals

LEMMA WorkPlaced ==
  ASSUME MediaInv, NEW p \in Workers, NEW step \in WorkerSteps \ {"publish", "settle"},
         NEW work \in WorkRecord, WorkBacked(work, publication)
  PROVE  Placed(step, [run[p] EXCEPT !.work = work], publication)
<1>. DEFINE locals == [run[p] EXCEPT !.work = work]
<1>1. locals \in RunRecord /\ locals.work = work /\ locals.owners = run[p].owners
  BY InvParts DEF RunRecord, WorkRecord
<1>. HIDE DEF locals
<1>2. Placed(step, locals, publication)
  BY <1>1, InvParts DEF Placed
<1>. QED
  BY <1>2 DEF locals

LEMMA RunOwnersPlaced ==
  ASSUME MediaInv, NEW p \in Workers, NEW step \in {"compensate", "remove"},
         NEW owners \in Seq(Owners), OwnersBacked(owners, publication), NEW failed \in BOOLEAN
  PROVE  /\ Placed(step, [run[p] EXCEPT !.owners = owners], publication)
         /\ Placed(step, [run[p] EXCEPT !.owners = owners, !.failed = failed], publication)
<1>. DEFINE one == [run[p] EXCEPT !.owners = owners]
            two == [run[p] EXCEPT !.owners = owners, !.failed = failed]
<1>1. /\ one \in RunRecord /\ one.work = run[p].work /\ one.owners = owners
      /\ two \in RunRecord /\ two.work = run[p].work /\ two.owners = owners
  BY InvParts DEF RunRecord
<1>. HIDE DEF one, two
<1>2. Placed(step, one, publication) /\ Placed(step, two, publication)
  BY <1>1, InvParts, WorkingMembers DEF Placed
<1>. QED
  BY <1>2 DEF one, two

LEMMA MessagePlaced ==
  ASSUME NEW p \in Workers, NEW pub, NEW m \in Messages
  PROVE  Placed("claim", [NoRun EXCEPT !.message = m], pub)
<1>. DEFINE locals == [NoRun EXCEPT !.message = m]
<1>1. locals \in RunRecord /\ locals.work = NoWork /\ locals.owners = <<>>
  BY EmptyBacked, ZenonT(60) DEF RunRecord
<1>. HIDE DEF locals
<1>2. Placed("claim", locals, pub)
  BY <1>1, EmptyBacked, WorkingMembers DEF Placed
<1>. QED
  BY <1>2 DEF locals

LEMMA ReceiveMessageStill ==
  ASSUME MediaInv, NEW p \in Workers, NEW m \in Messages, ReceiveMessage(p, m) PROVE Still(p)
<1>1. Quiet
  BY InvParts, UnchangedQuiet DEF ReceiveMessage
<1>2. Moves(p, publication)
  BY MessagePlaced, PlacedMoves DEF ReceiveMessage
<1>3. Surroundings' /\ UNCHANGED <<calls, thing>>
  BY InvParts, ZenonT(60) DEF ReceiveMessage, Surroundings, limits, serviceVars
<1>. QED
  BY <1>1, <1>2, <1>3 DEF Still

LEMMA DeleteMessageStill ==
  ASSUME MediaInv, NEW p \in Workers, DeleteMessage(p) PROVE Still(p)
<1>1. Quiet
  BY InvParts, UnchangedQuiet DEF DeleteMessage
<1>2. Moves(p, publication)
  BY FinishMoves DEF DeleteMessage
<1>3. Surroundings' /\ UNCHANGED <<calls, thing>>
  BY InvParts DEF DeleteMessage, FreeSlot, Surroundings, limits, serviceVars
<1>. QED
  BY <1>1, <1>2, <1>3 DEF Still

LEMMA ClaimIntakeStill ==
  ASSUME MediaInv, NEW p \in Workers, ClaimIntake(p) PROVE Still(p)
<1>1. Quiet
  BY InvParts, UnchangedQuiet, ClaimWorkQuiet, OutboxTypes DEF ClaimIntake
<1>2. Moves(p, publication)
  BY ClaimPlaced, PlacedMoves, GoMoves, WorkingMembers, OutboxTypes, InvParts DEF ClaimIntake
<1>3. Surroundings' /\ UNCHANGED <<calls, thing>>
  BY InvParts, SurroundingsKept DEF ClaimIntake, limits, storeCallUnchanged
<1>. QED
  BY <1>1, <1>2, <1>3 DEF Still

LEMMA ClaimDeleteStill ==
  ASSUME MediaInv, NEW p \in Workers, ClaimDelete(p) PROVE Still(p)
<1>1. Quiet
  BY InvParts, UnchangedQuiet, ClaimWorkQuiet, OutboxTypes DEF ClaimDelete
<1>2. Moves(p, publication)
  BY ClaimPlaced, PlacedMoves, GoMoves, WorkingMembers, OutboxTypes, InvParts DEF ClaimDelete
<1>3. Surroundings' /\ UNCHANGED <<calls, thing>>
  BY InvParts, SurroundingsKept DEF ClaimDelete, limits, storeCallUnchanged
<1>. QED
  BY <1>1, <1>2, <1>3 DEF Still

LEMMA LoadIntakeStill ==
  ASSUME MediaInv, NEW p \in Workers, LoadIntake(p) PROVE Still(p)
<1>1. Quiet
  BY InvParts, UnchangedQuiet DEF LoadIntake
<1>2. \A step \in {"get_asset", "source"} :
        Placed(step, [run[p] EXCEPT !.work = Loaded], publication)
  BY InvParts, LoadedBacked, WorkPlaced, WorkingMembers
<1>3. Moves(p, publication)
  BY <1>2, InvParts, CheckedMoves, EndingMoves, EndingMembers DEF LoadIntake
<1>4. Surroundings' /\ UNCHANGED <<calls, thing>>
  BY InvParts, SurroundingsKept DEF LoadIntake, limits, storeCallUnchanged
<1>. QED
  BY <1>1, <1>3, <1>4 DEF Still

LEMMA LoadDeleteStill ==
  ASSUME MediaInv, NEW p \in Workers, LoadDelete(p) PROVE Still(p)
<1>1. Quiet
  BY InvParts, UnchangedQuiet DEF LoadDelete
<1>2. DeletionOrder(Loaded) \in Seq(Owners) /\ OwnersBacked(DeletionOrder(Loaded), publication)
  BY InvParts, LoadedBacked, OrdersBacked
<1>3. Placed("remove", [run[p] EXCEPT !.owners = DeletionOrder(Loaded)], publication)
  BY <1>2, RunOwnersPlaced
<1>4. Moves(p, publication)
  BY <1>3, InvParts, PlacedMoves, FinishMoves, GoMoves, WorkingMembers DEF LoadDelete
<1>5. Surroundings' /\ UNCHANGED <<calls, thing>>
  BY InvParts, SurroundingsKept DEF LoadDelete, limits, storeCallUnchanged
<1>. QED
  BY <1>1, <1>4, <1>5 DEF Still

\* The steps at the Asset API.
LEMMA AssetTyped ==
  ASSUME Surroundings, Fault \/ NoFault, NEW u \in {"none", "created", "live", "deleted"},
         asset' = [asset EXCEPT !.upload = u] \/ UNCHANGED asset,
         UNCHANGED <<dispatcher, queue, thing, calls, job>>
  PROVE  Surroundings' /\ UNCHANGED <<calls, thing>>
<1>1. asset' \in [upload : {"none", "created", "live", "deleted"},
                  scan : {"pending", "clean", "infected"}]
  BY DEF Surroundings
<1>. QED
  BY <1>1, LimitsTyped, WorkerAssumption DEF Surroundings

LEMMA CreateAssetStill ==
  ASSUME MediaInv, NEW p \in Workers, CreateAsset(p) PROVE Still(p)
<1>1. Quiet
  BY InvParts, UnchangedQuiet DEF CreateAsset
<1>2. Placed("upload", run[p], publication)
  BY OwnPlaced, WorkingMembers
<1>3. Placed("persist", [run[p] EXCEPT !.scan = asset.scan], publication)
  BY ScanPlaced, InvParts DEF Surroundings
<1>4. Moves(p, publication)
  BY <1>2, <1>3, InvParts, AssetCheckedMoves, RetryMoves, CompensateMoves DEF CreateAsset
<1>5. Surroundings' /\ UNCHANGED <<calls, thing>>
  BY InvParts, AssetTyped DEF CreateAsset
<1>. QED
  BY <1>1, <1>4, <1>5 DEF Still

LEMMA UploadAssetStill ==
  ASSUME MediaInv, NEW p \in Workers, UploadAsset(p) PROVE Still(p)
<1>1. Quiet
  BY InvParts, UnchangedQuiet DEF UploadAsset
<1>2. Placed("persist", run[p], publication)
  BY OwnPlaced, WorkingMembers
<1>3. Moves(p, publication)
  BY <1>2, InvParts, AssetCheckedMoves, RetryMoves, CompensateMoves DEF UploadAsset
<1>4. Surroundings' /\ UNCHANGED <<calls, thing>>
  BY InvParts, AssetTyped DEF UploadAsset
<1>. QED
  BY <1>1, <1>3, <1>4 DEF Still

LEMMA RememberAssetStill ==
  ASSUME MediaInv, NEW p \in Workers, RememberAsset(p) PROVE Still(p)
<1>1. Quiet
  BY InvParts, RememberAssetQuiet DEF RememberAsset
<1>2. Moves(p, publication)
  <2>1. CASE run[p].next = "idle"
    BY <2>1, FinishMoves DEF RememberAsset, Finish
  <2>2. CASE run[p].next # "idle"
    BY <2>2, InvParts, EndingMoves, EndingMembers DEF RememberAsset
  <2>. QED
    BY <2>1, <2>2
<1>3. Surroundings' /\ UNCHANGED <<calls, thing>>
  BY InvParts, SurroundingsKept DEF RememberAsset, limits, storeCallUnchanged
<1>. QED
  BY <1>1, <1>2, <1>3 DEF Still

LEMMA PersistAssetStill ==
  ASSUME MediaInv, NEW p \in Workers, PersistAsset(p) PROVE Still(p)
<1>1. Quiet
  BY InvParts, UnchangedQuiet, PersistQuiet DEF PersistAsset
<1>2. /\ [Loaded EXCEPT !.asset = TRUE] \in WorkRecord
      /\ WorkBacked([Loaded EXCEPT !.asset = TRUE], publication)
  BY InvParts, LoadedBacked DEF WorkRecord, WorkBacked
<1>3. Moves(p, publication)
  BY <1>2, InvParts, ByVerdictMoves, RetryMoves, EndingMoves, EndingMembers DEF PersistAsset
<1>4. Surroundings' /\ UNCHANGED <<calls, thing>>
  BY InvParts, SurroundingsKept DEF PersistAsset, limits, storeCallUnchanged
<1>. QED
  BY <1>1, <1>3, <1>4 DEF Still

LEMMA GetAssetStill ==
  ASSUME MediaInv, NEW p \in Workers, GetAsset(p) PROVE Still(p)
<1>1. Quiet
  BY InvParts, UnchangedQuiet DEF GetAsset
<1>2. Moves(p, publication)
  BY InvParts, LoadedBacked, ByVerdictMoves, RejectedMoves, CompensateMoves DEF GetAsset
<1>3. Surroundings' /\ UNCHANGED <<calls, thing>>
  BY InvParts, SurroundingsKept DEF GetAsset, limits, storeCallUnchanged
<1>. QED
  BY <1>1, <1>2, <1>3 DEF Still

\* The steps after a publication.
LEMMA RowWork ==
  ASSUME MediaInv, NEW p \in Workers, NEW t \in PublicationTypes,
         NEW state \in {"published", "failed"}
  PROVE  /\ [run[p].work EXCEPT !.pub[t].state = state] \in WorkRecord
         /\ WorkBacked([run[p].work EXCEPT !.pub[t].state = state], publication)
<1>. DEFINE row == [run[p].work.pub[t] EXCEPT !.state = state]
            rows == [run[p].work.pub EXCEPT ![t] = row]
            work == [run[p].work EXCEPT !.pub = rows]
<1>1. run[p].work.pub[t] \in PublicationRow /\ run[p].work.pub \in [PublicationTypes -> PublicationRow]
  BY InvParts DEF WorkRecord
<1>2. row \in PublicationRow /\ row.target = run[p].work.pub[t].target
  BY <1>1 DEF PublicationRow
<1>3. work = [run[p].work EXCEPT !.pub[t].state = state]
  OBVIOUS
<1>. HIDE DEF row
<1>4. rows \in [PublicationTypes -> PublicationRow]
      /\ \A u \in PublicationTypes : rows[u].target = run[p].work.pub[u].target
  BY <1>1, <1>2
<1>. HIDE DEF rows
<1>5. work \in WorkRecord /\ work.pub = rows
  BY <1>4, InvParts DEF WorkRecord
<1>6. WorkBacked(work, publication)
  BY <1>4, <1>5, InvParts DEF WorkBacked
<1>. QED
  BY <1>3, <1>5, <1>6

LEMMA FailManualStill ==
  ASSUME MediaInv, NEW p \in Workers, FailManual(p) PROVE Still(p)
<1>. DEFINE work == [run[p].work EXCEPT !.pub["manual"].state = "failed"]
<1>1. Quiet
  BY InvParts, UnchangedQuiet, FailManualQuiet DEF FailManual
<1>2. work \in WorkRecord /\ WorkBacked(work, publication)
  BY RowWork DEF PublicationTypes
<1>3. [run[p] EXCEPT !.work.pub["manual"].state = "failed"] = [run[p] EXCEPT !.work = work]
  OBVIOUS
<1>4. GoWith(p, "job", [run[p] EXCEPT !.work = work]) \/ Finish(p)
  BY <1>3 DEF FailManual
<1>. HIDE DEF work
<1>5. Moves(p, publication)
  BY <1>2, <1>4, WorkPlaced, WorkingMembers, PlacedMoves, FinishMoves
<1>6. Surroundings' /\ UNCHANGED <<calls, thing>>
  BY InvParts, SurroundingsKept DEF FailManual, limits, storeCallUnchanged
<1>. QED
  BY <1>1, <1>5, <1>6 DEF Still

LEMMA SettleJobStill ==
  ASSUME MediaInv, NEW p \in Workers, SettleJob(p) PROVE Still(p)
<1>1. Quiet
  BY InvParts, UnchangedQuiet DEF SettleJob
<1>2. Placed("complete", run[p], publication)
  BY OwnPlaced, WorkingMembers
<1>3. Moves(p, publication)
  BY <1>2, InvParts, CheckedMoves, RetryMoves DEF SettleJob
<1>4. Surroundings' /\ UNCHANGED <<calls, thing>>
  BY InvParts, LimitsTyped, WorkerAssumption DEF SettleJob, Surroundings
<1>. QED
  BY <1>1, <1>3, <1>4 DEF Still

-----------------------------------------------------------------------------
(* A step that is still keeps the invariant.                               *)

\* Nothing that was owned in the rows pub is given up in the rows new.
LEMMA BackedLater ==
  ASSUME NEW pub, NEW new, NEW work, NEW owners \in Seq(Owners),
         \A t \in PublicationTypes : pub[t].target => new[t].target
  PROVE  /\ WorkBacked(work, pub) => WorkBacked(work, new)
         /\ OwnersBacked(owners, pub) => OwnersBacked(owners, new)
<1>1. \A i \in 1..Len(owners) : owners[i] # "asset" => owners[i] \in PublicationTypes
  BY DEF Owners
<1>. QED
  BY <1>1 DEF WorkBacked, OwnersBacked

LEMMA MovesEffect ==
  ASSUME MediaInv, NEW p \in Workers, NEW pub, Moves(p, pub)
  PROVE  /\ pc' \in [Workers -> WorkerSteps] /\ run' \in [Workers -> RunRecord]
         /\ Placed(pc'[p], run'[p], pub)
         /\ \A q \in Workers \ {p} : pc'[q] = pc[q] /\ run'[q] = run[q]
BY DEF Moves, GoWith, MediaInv

LEMMA RunKept ==
  ASSUME MediaInv, SameAttempts, UNCHANGED <<calls, thing>>, NEW q \in Workers,
         pc'[q] = pc[q], run'[q] = run[q]
  PROVE  RunKnows(q)'
<1>1. RunKnows(q) /\ run[q].type \in PublicationTypes /\ run[q].owners \in Seq(Owners)
  BY InvParts DEF MediaInv
<1>2. WorkBacked(run[q].work, publication') /\ OwnersBacked(run[q].owners, publication')
  BY <1>1, BackedLater DEF SameAttempts, RunKnows
<1>. QED
  BY <1>1, <1>2 DEF RunKnows, SameAttempts

LEMMA JournalSteady ==
  ASSUME MediaInv, SameAttempts, UNCHANGED <<calls, thing>>, NEW t \in PublicationTypes
  PROVE  JournalKept(t)'
BY DEF MediaInv, JournalKept, SameAttempts

\* A place that is neither in front of nor behind a call.
LEMMA PlacedKnows ==
  ASSUME NEW p \in Workers, Placed(pc'[p], run'[p], publication')
  PROVE  RunKnows(p)'
BY DEF Placed, RunKnows

LEMMA StillKeeps ==
  ASSUME MediaInv, NEW p \in Workers, Still(p) PROVE MediaInv'
<1>1. /\ StoreTypeOK' /\ SameAttempts /\ Surroundings' /\ UNCHANGED <<calls, thing>>
      /\ Moves(p, publication)
  BY DEF Still, Quiet
<1>2. /\ pc' \in [Workers -> WorkerSteps] /\ run' \in [Workers -> RunRecord]
      /\ Placed(pc'[p], run'[p], publication)
      /\ \A q \in Workers \ {p} : pc'[q] = pc[q] /\ run'[q] = run[q]
  BY <1>1, MovesEffect
<1>3. Placed(pc'[p], run'[p], publication')
  BY <1>1, <1>2, BackedLater DEF Placed, SameAttempts, RunRecord
<1>4. \A q \in Workers : RunKnows(q)'
  BY <1>1, <1>2, <1>3, RunKept, PlacedKnows
<1>5. \A t \in PublicationTypes : JournalKept(t)'
  BY <1>1, JournalSteady
<1>. QED
  BY <1>1, <1>2, <1>4, <1>5 DEF MediaInv

\* A step of somebody else that leaves the runs alone.
LEMMA QuietKeeps ==
  ASSUME MediaInv, Quiet, Surroundings', UNCHANGED <<pc, run, calls, thing>> PROVE MediaInv'
<1>1. \A q \in Workers : RunKnows(q)'
  BY RunKept DEF Quiet
<1>2. \A t \in PublicationTypes : JournalKept(t)'
  BY JournalSteady DEF Quiet
<1>. QED
  BY <1>1, <1>2 DEF MediaInv, Quiet

-----------------------------------------------------------------------------
(* The dispatchers, the people, and time.                                  *)

\* The changes of a slot of the queue.
LEMMA SlotTypes ==
  ASSUME Surroundings, NEW m \in Messages
  PROVE  /\ [FreeSlot EXCEPT !.there = TRUE]
              \in [there : BOOLEAN, hidden : BOOLEAN, holder : Workers \cup {None}]
         /\ [queue[m] EXCEPT !.hidden = FALSE]
              \in [there : BOOLEAN, hidden : BOOLEAN, holder : Workers \cup {None}]
         /\ [queue[m] EXCEPT !.hidden = FALSE, !.holder = None]
              \in [there : BOOLEAN, hidden : BOOLEAN, holder : Workers \cup {None}]
BY ZenonT(60) DEF Surroundings, FreeSlot

LEMMA DispatcherKeeps ==
  ASSUME MediaInv, NEW d \in Dispatchers, Dispatcher(d) PROVE MediaInv'
<1>1. StoreTypeOK /\ Surroundings
  BY DEF MediaInv
<1>2. \A step \in {"idle", "send", "mark"}, op \in Operations :
        DispatcherTo(d, step, op) =>
          dispatcher' \in [Dispatchers -> [step : {"idle", "send", "mark"}, op : Operations]]
  BY <1>1 DEF DispatcherTo, Surroundings
<1>3. dispatcher[d].op \in Operations /\ "intake" \in Operations
  BY <1>1 DEF Surroundings, Operations
<1>4. ASSUME NEW op \in Operations, ClaimForDispatch(d, op) PROVE MediaInv'
  <2>1. Quiet
    BY <1>1, <1>4, DispatchClaimQuiet DEF ClaimForDispatch
  <2>2. Surroundings'
    <3>1. dispatcher' \in [Dispatchers -> [step : {"idle", "send", "mark"}, op : Operations]]
      BY <1>2, <1>4 DEF ClaimForDispatch
    <3>2. UNCHANGED <<queue, asset, thing, calls, job, scenario, faults>>
      BY <1>4 DEF ClaimForDispatch, dispatcherUnchanged, serviceVars, limits
    <3>. QED
      BY <1>1, <3>1, <3>2 DEF Surroundings
  <2>. QED
    BY <1>4, <2>1, <2>2, QuietKeeps DEF ClaimForDispatch, dispatcherUnchanged, serviceVars
<1>5. CASE DispatcherSends(d)
  <2>1. Quiet
    BY <1>1, <1>5, UnchangedQuiet DEF DispatcherSends
  <2>2. queue' \in [Messages -> [there : BOOLEAN, hidden : BOOLEAN, holder : Workers \cup {None}]]
    BY <1>1, <1>5, SlotTypes DEF DispatcherSends, Send, Surroundings
  <2>3. dispatcher' \in [Dispatchers -> [step : {"idle", "send", "mark"}, op : Operations]]
    BY <1>2, <1>3, <1>5 DEF DispatcherSends
  <2>4. scenario' \in Scenarios /\ faults' \in Nat
    BY <1>1, <1>5, LimitsTyped, WorkerAssumption DEF DispatcherSends
  <2>5. Surroundings'
    BY <1>1, <1>5, <2>2, <2>3, <2>4
    DEF DispatcherSends, Surroundings, dispatcherUnchanged, serviceVars
  <2>. QED
    BY <1>5, <2>1, <2>5, QuietKeeps DEF DispatcherSends, dispatcherUnchanged, serviceVars
<1>6. CASE DispatcherMarks(d)
  <2>1. Quiet
    BY <1>1, <1>3, <1>6, UnchangedQuiet, MarkQuiet DEF DispatcherMarks
  <2>2. dispatcher' \in [Dispatchers -> [step : {"idle", "send", "mark"}, op : Operations]]
    BY <1>2, <1>3, <1>6 DEF DispatcherMarks
  <2>3. scenario' \in Scenarios /\ faults' \in Nat
    BY <1>1, <1>6, LimitsTyped, WorkerAssumption DEF DispatcherMarks
  <2>4. Surroundings'
    BY <1>1, <1>6, <2>2, <2>3 DEF DispatcherMarks, Surroundings, dispatcherUnchanged, serviceVars
  <2>. QED
    BY <1>6, <2>1, <2>4, QuietKeeps DEF DispatcherMarks, dispatcherUnchanged, serviceVars
<1>. QED
  BY <1>4, <1>5, <1>6 DEF Dispatcher

LEMMA AdministerQuiet ==
  ASSUME StoreTypeOK, Administer PROVE Quiet
BY CreateIngestQuiet, AttachQuiet, PauseQuiet, ResumeQuiet, UnbindQuiet, RevokeAdmissionQuiet,
   BeginDeletionQuiet, CompleteDeletionQuiet, RetryWorkQuiet DEF Administer

LEMMA EnvironmentKeeps ==
  ASSUME MediaInv, Environment PROVE MediaInv'
<1>1. StoreTypeOK /\ Surroundings
  BY DEF MediaInv
<1>2. ASSUME NEW op \in Operations, LeaseEnds(op) PROVE MediaInv'
  <2>1. Quiet
    BY <1>1, <1>2, LeaseLapsesQuiet DEF LeaseEnds
  <2>2. Surroundings'
    BY <1>1, <1>2, LimitsTyped, WorkerAssumption DEF LeaseEnds, Surroundings, serviceVars
  <2>. QED
    BY <1>2, <2>1, <2>2, QuietKeeps DEF LeaseEnds, serviceVars
<1>3. ASSUME NEW m \in Messages, MessageReappears(m) PROVE MediaInv'
  <2>1. Quiet
    BY <1>1, <1>3, UnchangedQuiet DEF MessageReappears
  <2>2. queue' \in [Messages -> [there : BOOLEAN, hidden : BOOLEAN, holder : Workers \cup {None}]]
    <3>1. \/ queue' = [queue EXCEPT ![m] = [queue[m] EXCEPT !.hidden = FALSE]]
          \/ queue' = [queue EXCEPT ![m] = [queue[m] EXCEPT !.hidden = FALSE, !.holder = None]]
      <4>1. [queue EXCEPT ![m].hidden = FALSE, ![m].holder = None]
              = [queue EXCEPT ![m] = [queue[m] EXCEPT !.hidden = FALSE, !.holder = None]]
        BY <1>1 DEF Surroundings
      <4>2. [queue EXCEPT ![m].hidden = FALSE]
              = [queue EXCEPT ![m] = [queue[m] EXCEPT !.hidden = FALSE]]
        BY <1>1 DEF Surroundings
      <4>. QED
        BY <1>3, <4>1, <4>2 DEF MessageReappears
    <3>2. PICK slot \in [there : BOOLEAN, hidden : BOOLEAN, holder : Workers \cup {None}] :
            queue' = [queue EXCEPT ![m] = slot]
      BY <1>1, <3>1, SlotTypes
    <3>. QED
      BY <1>1, <3>2 DEF Surroundings
  <2>3. Surroundings'
    BY <1>1, <1>3, <2>2, LimitsTyped, WorkerAssumption DEF MessageReappears, Surroundings, serviceVars
  <2>. QED
    BY <1>3, <2>1, <2>3, QuietKeeps DEF MessageReappears, serviceVars
<1>4. CASE Scanner
  <2>1. Quiet
    BY <1>1, <1>4, UnchangedQuiet DEF Scanner
  <2>2. Surroundings'
    <3>1. asset' \in [upload : {"none", "created", "live", "deleted"},
                      scan : {"pending", "clean", "infected"}]
      BY <1>1, <1>4 DEF Scanner, Surroundings
    <3>2. UNCHANGED <<scenario, faults>>
      BY <1>4 DEF Scanner, limits
    <3>. QED
      BY <1>1, <1>4, <3>1, <3>2 DEF Scanner, Surroundings
  <2>. QED
    BY <1>4, <2>1, <2>2, QuietKeeps DEF Scanner
<1>5. CASE Administer
  <2>1. Surroundings'
    BY <1>1, <1>5, LimitsTyped, WorkerAssumption DEF Administer, Surroundings, serviceVars
  <2>. QED
    BY <1>1, <1>5, <2>1, AdministerQuiet, QuietKeeps DEF Administer, serviceVars
<1>6. CASE Withdraw
  <2>1. Surroundings'
    BY <1>1, <1>6, LimitsTyped, WorkerAssumption DEF Withdraw, Surroundings, serviceVars
  <2>. QED
    BY <1>1, <1>6, <2>1, TombstoneQuiet, QuietKeeps DEF Withdraw, serviceVars
<1>7. CASE ConfirmManual
  <2>1. Surroundings'
    BY <1>1, <1>7, LimitsTyped, WorkerAssumption DEF ConfirmManual, Surroundings
  <2>. QED
    BY <1>1, <1>7, <2>1, ConfirmQuiet, QuietKeeps DEF ConfirmManual
<1>. QED
  BY <1>2, <1>3, <1>4, <1>5, <1>6, <1>7 DEF Environment

-----------------------------------------------------------------------------
(* Reserving, publishing and settling.                                     *)

\* What the other runs know is about attempts that are not those of publication t.
LEMMA OthersKeep ==
  ASSUME MediaInv, NEW p \in Workers, NEW t \in PublicationTypes, SameAttemptsBut(t),
         publication[t].target => publication'[t].target,
         \A u \in PublicationTypes \ {t} : calls'[u] = calls[u] /\ thing'[u] = thing[u],
         publication[t].attempt \in {None, p}, NEW q \in Workers \ {p},
         pc'[q] = pc[q], run'[q] = run[q]
  PROVE  RunKnows(q)'
<1>1. RunKnows(q) /\ run[q].type \in PublicationTypes /\ run[q].owners \in Seq(Owners)
  BY InvParts DEF MediaInv
<1>2. WorkBacked(run[q].work, publication') /\ OwnersBacked(run[q].owners, publication')
  BY <1>1, BackedLater DEF SameAttemptsBut, RunKnows
<1>3. pc[q] \in {"publish", "settle"} => run[q].type # t
  BY <1>1, ClaimantAssumption DEF RunKnows
<1>. QED
  BY <1>1, <1>2, <1>3 DEF RunKnows, SameAttemptsBut

LEMMA JournalsKeep ==
  ASSUME MediaInv, NEW t \in PublicationTypes, SameAttemptsBut(t),
         \A u \in PublicationTypes \ {t} : calls'[u] = calls[u] /\ thing'[u] = thing[u],
         NEW u \in PublicationTypes \ {t}
  PROVE  JournalKept(u)'
BY DEF MediaInv, JournalKept, SameAttemptsBut

LEMMA GoEffect ==
  ASSUME MediaInv, NEW p \in Workers, NEW step \in WorkerSteps, NEW locals \in RunRecord,
         GoWith(p, step, locals)
  PROVE  /\ pc' \in [Workers -> WorkerSteps] /\ run' \in [Workers -> RunRecord]
         /\ pc'[p] = step /\ run'[p] = locals
         /\ \A q \in Workers \ {p} : pc'[q] = pc[q] /\ run'[q] = run[q]
BY DEF GoWith, MediaInv

LEMMA GoIsGoWith ==
  ASSUME MediaInv, NEW p \in Workers, NEW step, Go(p, step) PROVE GoWith(p, step, run[p])
BY DEF Go, GoWith, MediaInv

\* A run that goes on with other rows in place.
LEMMA MovesKnow ==
  ASSUME MediaInv, NEW p \in Workers, Moves(p, publication')
  PROVE  /\ pc' \in [Workers -> WorkerSteps] /\ run' \in [Workers -> RunRecord] /\ RunKnows(p)'
         /\ \A q \in Workers \ {p} : pc'[q] = pc[q] /\ run'[q] = run[q]
BY MovesEffect, PlacedKnows

LEMMA ReserveKeeps ==
  ASSUME MediaInv, NEW p \in Workers, Reserve(p)
  PROVE  /\ MediaInv'
         /\ \/ Still(p)
            \/ ReservePublication(run[p].type, p) /\ UNCHANGED <<calls, thing>>
<1>0. PICK t \in PublicationTypes : t = run[p].type /\ p # None
  BY InvParts, ClaimantAssumption
<1>1. Surroundings' /\ UNCHANGED <<calls, thing>>
  BY InvParts, SurroundingsKept DEF Reserve, storeCallUnchanged, limits
<1>2. CASE ReservePublication(t, p)
  <2>1. /\ StoreTypeOK' /\ SameAttemptsBut(t)
        /\ publication[t].attempt = None /\ ~publication[t].target
        /\ publication'[t].attempt = p /\ publication'[t].open /\ ~publication'[t].target
    BY <1>0, <1>2, InvParts, ReserveEffect
  <2>2. JournalKept(t) /\ calls[t] = 0
    BY <1>0, <2>1 DEF MediaInv, JournalKept
  <2>3. JournalKept(t)'
    BY <1>0, <1>1, <2>1, <2>2 DEF JournalKept
  <2>4. \A u \in PublicationTypes : JournalKept(u)'
    BY <1>0, <1>1, <2>1, <2>3, JournalsKeep
  <2>5. /\ pc' \in [Workers -> WorkerSteps] /\ run' \in [Workers -> RunRecord] /\ RunKnows(p)'
        /\ \A q \in Workers \ {p} : pc'[q] = pc[q] /\ run'[q] = run[q]
    <3>1. WorkBacked(run[p].work, publication') /\ OwnersBacked(run[p].owners, publication')
      BY <1>0, <2>1, InvParts, BackedLater DEF SameAttemptsBut
    <3>2. CASE Go(p, "publish")
      <4>1. /\ pc' \in [Workers -> WorkerSteps] /\ run' \in [Workers -> RunRecord]
            /\ pc'[p] = "publish" /\ run'[p] = run[p]
            /\ \A q \in Workers \ {p} : pc'[q] = pc[q] /\ run'[q] = run[q]
        BY <3>2, InvParts, GoIsGoWith, GoEffect DEF WorkerSteps, IntakeSteps
      <4>. QED
        BY <1>0, <1>1, <2>1, <2>2, <3>1, <4>1 DEF RunKnows
    <3>3. CASE Retry(p, "retryable")
      BY <3>3, InvParts, RetryMoves, MovesKnow
    <3>. QED
      BY <1>0, <1>2, <3>2, <3>3 DEF Reserve, ReservePublication
  <2>6. \A q \in Workers : RunKnows(q)'
    BY <1>0, <1>1, <2>1, <2>5, OthersKeep
  <2>7. MediaInv'
    BY <1>1, <2>1, <2>4, <2>5, <2>6 DEF MediaInv
  <2>. QED
    BY <1>0, <1>1, <1>2, <2>7
<1>3. CASE ~CanReserve(t, p)
  <2>1. Still(p)
    BY <1>0, <1>1, <1>3, InvParts, UnchangedQuiet, FinishMoves DEF Reserve, ReservePublication, Still
  <2>. QED
    BY <2>1, StillKeeps
<1>. QED
  BY <1>0, <1>2, <1>3 DEF Reserve


LEMMA PublishKeeps ==
  ASSUME MediaInv, NEW p \in Workers, Publish(p)
  PROVE  /\ MediaInv'
         /\ \E t \in PublicationTypes :
              /\ publication[t].attempt # None /\ publication[t].open /\ calls[t] = 0
              /\ calls' = [calls EXCEPT ![t] = 1]
              /\ thing' \in {thing, [thing EXCEPT ![t] = "live"]}
              /\ UNCHANGED storeVars
<1>0. PICK t \in PublicationTypes : t = run[p].type
  BY InvParts
<1>1. /\ publication[t].attempt = p /\ publication[t].open /\ calls[t] = 0 /\ p # None
      /\ JournalKept(t) /\ StoreTypeOK /\ Surroundings
      /\ WorkBacked(run[p].work, publication) /\ OwnersBacked(run[p].owners, publication)
  BY <1>0, ClaimantAssumption DEF MediaInv, RunKnows, Publish
<1>2. thing[t] = "none" /\ ~publication[t].target
  BY <1>1 DEF JournalKept
<1>3. calls' = [calls EXCEPT ![t] = 1]
  BY <1>0, <1>1 DEF Publish
<1>4. \/ /\ thing' = [thing EXCEPT ![t] = "live"]
         /\ GoWith(p, "settle", [run[p] EXCEPT !.owned = TRUE])
      \/ thing' = thing /\ GoWith(p, "settle", [run[p] EXCEPT !.owned = FALSE])
      \/ /\ thing' \in {thing, [thing EXCEPT ![t] = "live"]}
         /\ GoWith(p, "uncertain", Ending(p))
  BY <1>0 DEF Publish
<1>5. UNCHANGED storeVars /\ UNCHANGED <<dispatcher, queue, asset, job>>
  BY DEF Publish
<1>6. thing' \in {thing, [thing EXCEPT ![t] = "live"]}
  BY <1>4
<1>7. Surroundings'
  <2>1. scenario' \in Scenarios /\ faults' \in Nat
    BY <1>1, LimitsTyped, WorkerAssumption DEF Publish
  <2>. QED
    BY <1>1, <1>3, <1>5, <1>6, <2>1 DEF Surroundings
<1>8. StoreTypeOK' /\ publication' = publication
  BY <1>1, <1>5, UnchangedQuiet DEF Quiet, storeVars
<1>9. /\ calls'[t] = 1 /\ thing'[t] \in {"none", "live"}
      /\ \A u \in PublicationTypes \ {t} : calls'[u] = calls[u] /\ thing'[u] = thing[u]
  BY <1>1, <1>2, <1>3, <1>6 DEF Surroundings
<1>10. SameAttemptsBut(t)
  BY <1>8 DEF SameAttemptsBut
<1>11. JournalKept(t)'
  BY <1>1, <1>2, <1>8, <1>9 DEF JournalKept
<1>12. \A u \in PublicationTypes : JournalKept(u)'
  BY <1>9, <1>10, <1>11, JournalsKeep
<1>13. /\ pc' \in [Workers -> WorkerSteps] /\ run' \in [Workers -> RunRecord] /\ RunKnows(p)'
       /\ \A q \in Workers \ {p} : pc'[q] = pc[q] /\ run'[q] = run[q]
  <2>1. ASSUME NEW owned \in BOOLEAN, GoWith(p, "settle", [run[p] EXCEPT !.owned = owned]),
               thing' = IF owned THEN [thing EXCEPT ![t] = "live"] ELSE thing
        PROVE  /\ pc' \in [Workers -> WorkerSteps] /\ run' \in [Workers -> RunRecord]
               /\ RunKnows(p)' /\ \A q \in Workers \ {p} : pc'[q] = pc[q] /\ run'[q] = run[q]
    <3>. DEFINE locals == [run[p] EXCEPT !.owned = owned]
    <3>1. /\ locals \in RunRecord /\ locals.owned = owned /\ locals.type = t
          /\ locals.work = run[p].work /\ locals.owners = run[p].owners
      BY <1>0, InvParts DEF RunRecord
    <3>. HIDE DEF locals
    <3>2. GoWith(p, "settle", locals)
      BY <2>1 DEF locals
    <3>3. /\ pc' \in [Workers -> WorkerSteps] /\ run' \in [Workers -> RunRecord]
          /\ pc'[p] = "settle" /\ run'[p] = locals
          /\ \A q \in Workers \ {p} : pc'[q] = pc[q] /\ run'[q] = run[q]
      BY <3>1, <3>2, GoEffect DEF WorkerSteps, IntakeSteps
    <3>4. thing'[t] = IF owned THEN "live" ELSE "none"
      BY <1>1, <1>2, <2>1 DEF Surroundings
    <3>. QED
      BY <1>1, <1>8, <1>9, <3>1, <3>3, <3>4 DEF RunKnows
  <2>2. CASE GoWith(p, "uncertain", Ending(p))
    BY <1>8, <2>2, InvParts, EndingMoves, EndingMembers, MovesKnow
  <2>. QED
    BY <1>4, <2>1, <2>2
<1>14. \A q \in Workers : RunKnows(q)'
  BY <1>1, <1>8, <1>9, <1>10, <1>13, OthersKeep
<1>15. MediaInv'
  BY <1>7, <1>8, <1>12, <1>13, <1>14 DEF MediaInv
<1>. QED
  BY <1>1, <1>3, <1>5, <1>6, <1>15

LEMMA SettledBacked ==
  ASSUME MediaInv, NEW p \in Workers, NEW t \in PublicationTypes, t = run[p].type,
         SameAttemptsBut(t), publication'[t].target = run[p].owned
  PROVE  Settled(p) \in WorkRecord /\ WorkBacked(Settled(p), publication')
<1>. DEFINE old == run[p].work.pub[t]
            row == [old EXCEPT !.state = IF run[p].owned THEN "published" ELSE "failed",
                               !.target = run[p].owned]
            rows == [run[p].work.pub EXCEPT ![t] = row]
            work == [run[p].work EXCEPT !.pub = rows]
<1>1. old \in PublicationRow /\ run[p].work.pub \in [PublicationTypes -> PublicationRow]
  BY InvParts DEF WorkRecord
<1>2. row \in PublicationRow /\ row.target = run[p].owned
  BY <1>1, InvParts DEF PublicationRow
<1>3. work = Settled(p)
  BY DEF Settled
<1>. HIDE DEF row
<1>4. rows \in [PublicationTypes -> PublicationRow] /\ rows[t] = row
      /\ \A u \in PublicationTypes \ {t} : rows[u] = run[p].work.pub[u]
  BY <1>1, <1>2
<1>. HIDE DEF rows
<1>5. work \in WorkRecord /\ work.pub = rows
  BY <1>4, InvParts DEF WorkRecord
<1>6. WorkBacked(work, publication')
  BY <1>2, <1>4, <1>5, InvParts DEF WorkBacked, SameAttemptsBut
<1>. QED
  BY <1>3, <1>5, <1>6


LEMMA SettleKeeps ==
  ASSUME MediaInv, NEW p \in Workers, Settle(p)
  PROVE  /\ MediaInv'
         /\ \/ Still(p)
            \/ /\ SettlePublication(run[p].type, p, run[p].owned)
               /\ calls[run[p].type] = 1 /\ UNCHANGED <<calls, thing>>
               /\ thing[run[p].type] = IF run[p].owned THEN "live" ELSE "none"
<1>0. PICK t \in PublicationTypes, owned \in BOOLEAN : t = run[p].type /\ owned = run[p].owned
  BY InvParts
<1>1. Surroundings' /\ UNCHANGED <<calls, thing>>
  BY InvParts, SurroundingsKept DEF Settle, storeCallUnchanged, limits
<1>2. /\ publication[t].attempt = p /\ publication[t].open /\ p # None
      /\ calls[t] = 1 /\ thing[t] = IF owned THEN "live" ELSE "none"
      /\ JournalKept(t) /\ StoreTypeOK
  BY <1>0, ClaimantAssumption DEF MediaInv, RunKnows, Settle
<1>3. CASE SettlePublication(t, p, owned)
  <2>1. /\ StoreTypeOK' /\ SameAttemptsBut(t)
        /\ publication'[t].attempt = p /\ ~publication'[t].open
        /\ publication'[t].target = owned
    BY <1>2, <1>3, SettleEffect
  <2>2. ~publication[t].target
    BY <1>2 DEF JournalKept
  <2>3. JournalKept(t)'
    BY <1>1, <1>2, <2>1 DEF JournalKept
  <2>4. \A u \in PublicationTypes : JournalKept(u)'
    BY <1>1, <2>1, <2>3, JournalsKeep
  <2>5. Moves(p, publication')
    <3>1. OwnersBacked(run[p].owners, publication')
      BY <2>1, <2>2, InvParts, BackedLater DEF SameAttemptsBut
    <3>2. Settled(p) \in WorkRecord /\ WorkBacked(Settled(p), publication')
      BY <1>0, <2>1, SettledBacked
    <3>3. \/ AfterCollection(p, Settled(p))
          \/ GoWith(p, "job", [run[p] EXCEPT !.work = Settled(p)])
          \/ GoWith(p, "uncertain", Ending(p))
      BY DEF Settle
    <3>4. Placed("job", [run[p] EXCEPT !.work = Settled(p)], publication')
      <4>. DEFINE locals == [run[p] EXCEPT !.work = Settled(p)]
      <4>1. locals \in RunRecord /\ locals.work = Settled(p) /\ locals.owners = run[p].owners
        BY <3>2, InvParts DEF RunRecord, WorkRecord
      <4>. HIDE DEF locals
      <4>2. Placed("job", locals, publication')
        BY <3>1, <3>2, <4>1, WorkingMembers DEF Placed
      <4>. QED
        BY <4>2 DEF locals
    <3>. QED
      BY <3>1, <3>2, <3>3, <3>4, InvParts, AfterCollectionMoves, PlacedMoves, EndingMoves,
         EndingMembers
  <2>6. \A q \in Workers : RunKnows(q)'
    BY <1>1, <1>2, <2>1, <2>2, <2>5, MovesKnow, OthersKeep
  <2>7. MediaInv'
    BY <1>1, <2>1, <2>4, <2>5, <2>6, MovesKnow DEF MediaInv
  <2>. QED
    BY <1>0, <1>1, <1>2, <1>3, <2>7
<1>4. CASE UNCHANGED storeVars /\ GoWith(p, "uncertain", Ending(p))
  <2>1. Still(p)
    BY <1>1, <1>4, InvParts, UnchangedQuiet, EndingMoves, EndingMembers DEF Still
  <2>. QED
    BY <2>1, StillKeeps
<1>. QED
  BY <1>0, <1>3, <1>4 DEF Settle

-----------------------------------------------------------------------------
(* Removing what is owned.                                                 *)

\* The sequence of owners loses its head.
LEMMA TailBacked ==
  ASSUME NEW pub, NEW owners \in Seq(Owners), owners # <<>>, OwnersBacked(owners, pub)
  PROVE  /\ Head(owners) \in Owners /\ Tail(owners) \in Seq(Owners)
         /\ Head(owners) # "asset" =>
              Head(owners) \in PublicationTypes /\ pub[Head(owners)].target
         /\ OwnersBacked(Tail(owners), pub)
BY DEF OwnersBacked, Owners

\* What a removal of an owner leaves behind, and that it disturbs no run.
LEMMA RemovalKeeps ==
  ASSUME MediaInv, NEW p \in Workers, NEW o \in Owners, Moves(p, publication), DeleteOwner(o),
         UNCHANGED <<storeVars, dispatcher, queue>>, Fault \/ NoFault,
         o # "asset" => o \in PublicationTypes /\ publication[o].target
  PROVE  /\ MediaInv'
         /\ \/ Still(p)
            \/ \E t \in PublicationTypes :
                 /\ publication[t].target /\ thing' = [thing EXCEPT ![t] = "removed"]
                 /\ UNCHANGED <<storeVars, calls>>
<1>1. StoreTypeOK /\ Surroundings
  BY DEF MediaInv
<1>2. CASE o = "asset"
  <2>1. asset' = [asset EXCEPT !.upload = "deleted"] /\ UNCHANGED <<thing, calls, job>>
    BY <1>2 DEF DeleteOwner
  <2>2. Surroundings' /\ UNCHANGED <<calls, thing>>
    BY <1>1, <2>1, AssetTyped
  <2>3. Still(p)
    BY <1>1, <2>2, UnchangedQuiet DEF Still
  <2>. QED
    BY <2>3, StillKeeps
<1>3. CASE o # "asset"
  <2>1. /\ o \in PublicationTypes /\ publication[o].target
        /\ thing' = [thing EXCEPT ![o] = "removed"] /\ UNCHANGED <<asset, calls, job>>
    BY <1>3 DEF DeleteOwner
  <2>2. StoreTypeOK' /\ publication' = publication /\ SameAttemptsBut(o)
    BY <1>1, UnchangedQuiet DEF Quiet, storeVars, SameAttemptsBut
  <2>3. Surroundings'
    BY <1>1, <2>1, LimitsTyped, WorkerAssumption DEF Surroundings
  <2>4. /\ thing'[o] = "removed" /\ calls' = calls
        /\ \A u \in PublicationTypes \ {o} : calls'[u] = calls[u] /\ thing'[u] = thing[u]
    BY <1>1, <2>1 DEF Surroundings
  <2>5. JournalKept(o) /\ ~publication[o].open
    BY <2>1 DEF MediaInv, JournalKept
  <2>6. JournalKept(o)'
    BY <2>1, <2>2, <2>4, <2>5 DEF JournalKept
  <2>7. \A u \in PublicationTypes : JournalKept(u)'
    BY <2>1, <2>2, <2>4, <2>6, JournalsKeep
  <2>8. /\ pc' \in [Workers -> WorkerSteps] /\ run' \in [Workers -> RunRecord] /\ RunKnows(p)'
        /\ \A q \in Workers \ {p} : pc'[q] = pc[q] /\ run'[q] = run[q]
    BY <2>2, MovesKnow
  <2>9. \A q \in Workers \ {p} : RunKnows(q)'
    <3>. TAKE q \in Workers \ {p}
    <3>1. RunKnows(q) /\ run[q].type \in PublicationTypes
      BY InvParts DEF MediaInv
    <3>2. pc[q] = "settle" => run[q].type # o
      BY <2>5, <3>1 DEF RunKnows
    <3>. QED
      BY <2>2, <2>4, <2>8, <3>1, <3>2 DEF RunKnows
  <2>10. MediaInv'
    BY <2>2, <2>3, <2>7, <2>8, <2>9 DEF MediaInv
  <2>. QED
    BY <2>1, <2>10
<1>. QED
  BY <1>2, <1>3

LEMMA CompensateOwnerKeeps ==
  ASSUME MediaInv, NEW p \in Workers, CompensateOwner(p)
  PROVE  /\ MediaInv'
         /\ \/ Still(p)
            \/ \E t \in PublicationTypes :
                 /\ publication[t].target /\ thing' = [thing EXCEPT ![t] = "removed"]
                 /\ UNCHANGED <<storeVars, calls>>
<1>. DEFINE owners == run[p].owners
            rest == [run[p] EXCEPT !.owners = Tail(owners)]
            kept == [rest EXCEPT !.failed = TRUE]
<1>1. PICK o : o = Head(owners)
  OBVIOUS
<1>2. /\ o \in Owners /\ Tail(owners) \in Seq(Owners) /\ OwnersBacked(Tail(owners), publication)
      /\ o # "asset" => o \in PublicationTypes /\ publication[o].target
  BY <1>1, InvParts, TailBacked DEF CompensateOwner
<1>3. Placed("compensate", rest, publication)
  BY <1>2, RunOwnersPlaced
<1>4. Placed("compensate", kept, publication)
  <2>1. /\ kept \in RunRecord /\ kept.work = run[p].work /\ kept.owners = Tail(owners)
    BY <1>2, InvParts, ZenonT(60) DEF RunRecord
  <2>. HIDE DEF kept, rest
  <2>. QED
    BY <1>2, <2>1, InvParts, WorkingMembers DEF Placed
<1>5. CASE DeleteOwner(o) /\ UNCHANGED storeVars /\ GoWith(p, "compensate", rest)
  <2>1. Moves(p, publication)
    BY <1>3, <1>5, PlacedMoves
  <2>2. UNCHANGED <<storeVars, dispatcher, queue>> /\ NoFault
    BY <1>5 DEF CompensateOwner, NoFault
  <2>. QED
    BY <1>2, <1>5, <2>1, <2>2, RemovalKeeps
<1>6. CASE RememberOwner(o) /\ UNCHANGED serviceVars /\ GoWith(p, "compensate", kept)
  <2>1. Moves(p, publication)
    BY <1>4, <1>6, PlacedMoves
  <2>2. Quiet
    BY <1>2, <1>6, InvParts, RememberAssetQuiet, RememberHandleQuiet DEF RememberOwner
  <2>3. Surroundings' /\ UNCHANGED <<calls, thing>>
    BY <1>6, InvParts, SurroundingsKept DEF CompensateOwner, storeCallUnchanged
  <2>4. Still(p)
    BY <2>1, <2>2, <2>3 DEF Still
  <2>. QED
    BY <2>4, StillKeeps
<1>. HIDE DEF owners, rest, kept
<1>. QED
  BY <1>1, <1>5, <1>6 DEF CompensateOwner, owners, rest, kept

LEMMA RemoveOwnerKeeps ==
  ASSUME MediaInv, NEW p \in Workers, RemoveOwner(p)
  PROVE  /\ MediaInv'
         /\ \/ Still(p)
            \/ \E t \in PublicationTypes :
                 /\ publication[t].target /\ thing' = [thing EXCEPT ![t] = "removed"]
                 /\ UNCHANGED <<storeVars, calls>>
<1>. DEFINE owners == run[p].owners
            rest == [run[p] EXCEPT !.owners = Tail(owners)]
<1>1. PICK o : o = Head(owners)
  OBVIOUS
<1>2. /\ o \in Owners /\ Tail(owners) \in Seq(Owners) /\ OwnersBacked(Tail(owners), publication)
      /\ o # "asset" => o \in PublicationTypes /\ publication[o].target
  BY <1>1, InvParts, TailBacked DEF RemoveOwner
<1>3. Placed("remove", rest, publication)
  BY <1>2, RunOwnersPlaced
<1>4. \/ GoWith(p, "remove", rest) \/ Finish(p) \/ Go(p, "retry_delete")
  BY DEF RemoveOwner
<1>5. Moves(p, publication)
  BY <1>3, <1>4, PlacedMoves, FinishMoves, GoMoves, WorkingMembers
<1>6. UNCHANGED <<storeVars, dispatcher, queue>> /\ (Fault \/ NoFault)
  BY DEF RemoveOwner
<1>7. CASE DeleteOwner(o)
  BY <1>2, <1>5, <1>6, <1>7, RemovalKeeps
<1>8. CASE UNCHANGED serviceVars
  <2>1. Still(p)
    BY <1>5, <1>6, <1>8, InvParts, UnchangedQuiet, SurroundingsKept DEF Still, storeCallUnchanged
  <2>. QED
    BY <2>1, StillKeeps
<1>. QED
  BY <1>1, <1>7, <1>8 DEF RemoveOwner

-----------------------------------------------------------------------------
(* The journal.                                                            *)

JournalStep == [Journal!Next]_(Journal!vars)

LEMMA JournalStates ==
  ASSUME NEW pub
  PROVE  /\ pub.attempt = None => JournalState(pub) = "free"
         /\ pub.attempt # None /\ pub.open => JournalState(pub) = "reserved"
         /\ pub.attempt # None /\ ~pub.open /\ pub.target => JournalState(pub) = "owned"
         /\ pub.attempt # None /\ ~pub.open /\ ~pub.target => JournalState(pub) = "declined"
BY DEF JournalState

LEMMA SteadyStep ==
  ASSUME SameAttempts, UNCHANGED <<calls, thing>> PROVE JournalStep
<1>1. \A t \in PublicationTypes : JournalState(publication'[t]) = JournalState(publication[t])
  BY DEF SameAttempts, JournalState
<1>. QED
  BY <1>1 DEF JournalStep, Journal!vars

LEMMA ReserveStep ==
  ASSUME MediaInv, NEW p \in Workers, NEW t \in PublicationTypes, ReservePublication(t, p),
         UNCHANGED <<calls, thing>>
  PROVE  JournalStep
<1>1. /\ SameAttemptsBut(t) /\ publication[t].attempt = None
      /\ publication'[t].attempt = p /\ publication'[t].open /\ p # None
  BY ReserveEffect, ClaimantAssumption DEF MediaInv
<1>2. /\ JournalState(publication[t]) = "free" /\ JournalState(publication'[t]) = "reserved"
      /\ \A u \in PublicationTypes \ {t} :
           JournalState(publication'[u]) = JournalState(publication[u])
  BY <1>1, JournalStates DEF SameAttemptsBut, JournalState
<1>3. Journal!Reserve(t)
  BY <1>2 DEF Journal!Reserve
<1>. QED
  BY <1>3 DEF JournalStep, Journal!Next

LEMMA PublishStep ==
  ASSUME NEW t \in PublicationTypes, publication[t].attempt # None, publication[t].open,
         calls[t] = 0, calls' = [calls EXCEPT ![t] = 1],
         thing' \in {thing, [thing EXCEPT ![t] = "live"]}, UNCHANGED storeVars
  PROVE  JournalStep
<1>1. JournalState(publication[t]) = "reserved" /\ publication' = publication
  BY JournalStates DEF storeVars
<1>2. Journal!Publish(t)
  BY <1>1 DEF Journal!Publish
<1>. QED
  BY <1>2 DEF JournalStep, Journal!Next

LEMMA SettleStep ==
  ASSUME MediaInv, NEW p \in Workers, NEW t \in PublicationTypes, NEW owned \in BOOLEAN,
         SettlePublication(t, p, owned), calls[t] = 1, UNCHANGED <<calls, thing>>,
         thing[t] = IF owned THEN "live" ELSE "none"
  PROVE  JournalStep
<1>1. /\ SameAttemptsBut(t) /\ publication[t].attempt = p /\ publication[t].open
      /\ publication'[t].attempt = p /\ ~publication'[t].open
      /\ publication'[t].target = owned /\ p # None
  BY SettleEffect, ClaimantAssumption DEF MediaInv
<1>2. /\ JournalState(publication[t]) = "reserved"
      /\ JournalState(publication'[t]) = IF thing[t] = "none" THEN "declined" ELSE "owned"
      /\ \A u \in PublicationTypes \ {t} :
           JournalState(publication'[u]) = JournalState(publication[u])
  BY <1>1, JournalStates DEF SameAttemptsBut, JournalState
<1>3. Journal!Record(t)
  BY <1>2 DEF Journal!Record
<1>. QED
  BY <1>3 DEF JournalStep, Journal!Next

LEMMA RemoveStep ==
  ASSUME MediaInv, NEW t \in PublicationTypes, publication[t].target,
         thing' = [thing EXCEPT ![t] = "removed"], UNCHANGED <<storeVars, calls>>
  PROVE  JournalStep
<1>1. /\ JournalKept(t) /\ publication' = publication
      /\ thing \in [PublicationTypes -> {"none", "live", "removed"}]
  BY DEF MediaInv, Surroundings, storeVars
<1>2. JournalState(publication[t]) = "owned" /\ thing[t] \in {"live", "removed"}
  BY <1>1, JournalStates DEF JournalKept
<1>3. CASE thing[t] = "live"
  <2>1. Journal!Remove(t)
    BY <1>1, <1>2, <1>3 DEF Journal!Remove
  <2>. QED
    BY <2>1 DEF JournalStep, Journal!Next
<1>4. CASE thing[t] = "removed"
  <2>1. thing' = thing
    BY <1>1, <1>4
  <2>. QED
    BY <1>1, <2>1 DEF JournalStep, Journal!vars
<1>. QED
  BY <1>2, <1>3, <1>4

-----------------------------------------------------------------------------
(* Every step.                                                             *)

LEMMA WorkerKeeps ==
  ASSUME MediaInv, NEW p \in Workers, Worker(p) PROVE MediaInv' /\ JournalStep
<1>1. CASE Still(p)
  BY <1>1, StillKeeps, SteadyStep DEF Still, Quiet
<1>2. CASE Reserve(p)
  BY <1>1, <1>2, InvParts, ReserveKeeps, ReserveStep
<1>3. CASE Publish(p)
  BY <1>3, PublishKeeps, PublishStep
<1>4. CASE Settle(p)
  BY <1>1, <1>4, InvParts, SettleKeeps, SettleStep
<1>5. CASE CompensateOwner(p)
  BY <1>1, <1>5, CompensateOwnerKeeps, RemoveStep
<1>6. CASE RemoveOwner(p)
  BY <1>1, <1>6, RemoveOwnerKeeps, RemoveStep
<1>7. ASSUME NEW m \in Messages, ReceiveMessage(p, m) PROVE Still(p)
  BY <1>7, ReceiveMessageStill
<1>8. \/ Still(p) \/ Reserve(p) \/ Publish(p) \/ Settle(p) \/ CompensateOwner(p)
      \/ RemoveOwner(p)
  BY <1>7, ClaimIntakeStill, ExplainIntakeStill, BlockUnclaimedStill, LoadIntakeStill,
     DownloadSourceStill, CreateAssetStill, UploadAssetStill, RememberAssetStill,
     PersistAssetStill, GetAssetStill, PrepareManualStill, FailManualStill,
     SettleJobStill, CompleteStill, BlockUncertainStill, HoldStill, BlockOwnedStill,
     ReleaseStill, FailIntakeStill, FinishCompensationStill, TombstoneWorkStill,
     ClaimDeleteStill, ExplainDeleteStill, LoadDeleteStill, CompleteDeleteStill,
     ReleaseDeleteStill, DeleteMessageStill, TransientErrorStill, WorkerStopsStill DEF Worker
<1>. QED
  BY <1>1, <1>2, <1>3, <1>4, <1>5, <1>6, <1>8

LEMMA DispatcherSteady ==
  ASSUME MediaInv, NEW d \in Dispatchers, Dispatcher(d) PROVE JournalStep
<1>1. publication' = publication /\ UNCHANGED <<calls, thing>>
  BY DEF Dispatcher, ClaimForDispatch, ClaimOutboxForDispatch, DispatcherSends, DispatcherMarks,
         MarkOutboxDispatched, dispatcherUnchanged, serviceVars, storeVars
<1>. QED
  BY <1>1, SteadyStep DEF SameAttempts

LEMMA EnvironmentSteady ==
  ASSUME MediaInv, Environment PROVE JournalStep
<1>1. StoreTypeOK
  BY DEF MediaInv
<1>2. UNCHANGED <<calls, thing>>
  BY DEF Environment, LeaseEnds, MessageReappears, Scanner, Administer, Withdraw, ConfirmManual,
         serviceVars
<1>3. CASE Administer
  BY <1>1, <1>2, <1>3, AdministerQuiet, SteadyStep DEF Quiet
<1>4. CASE Withdraw
  BY <1>1, <1>2, <1>4, TombstoneQuiet, SteadyStep DEF Withdraw, Quiet
<1>5. CASE ConfirmManual
  BY <1>1, <1>2, <1>5, ConfirmQuiet, SteadyStep DEF ConfirmManual, Quiet
<1>6. CASE publication' = publication
  BY <1>2, <1>6, SteadyStep DEF SameAttempts
<1>. QED
  BY <1>3, <1>4, <1>5, <1>6
  DEF Environment, LeaseEnds, LeaseLapses, MessageReappears, Scanner, storeVars

LEMMA NextKeeps ==
  ASSUME MediaInv, [Next]_vars PROVE MediaInv' /\ JournalStep
<1>1. CASE UNCHANGED vars
  <2>1. UNCHANGED <<storeVars, dispatcher, queue, pc, run, asset, thing, calls, job, scenario, faults>>
    BY <1>1 DEF vars, serviceVars, limits
  <2>2. Quiet /\ Surroundings'
    BY <2>1, UnchangedQuiet DEF MediaInv, Surroundings
  <2>. QED
    BY <2>1, <2>2, QuietKeeps, SteadyStep DEF Quiet
<1>2. ASSUME NEW d \in Dispatchers, Dispatcher(d) PROVE MediaInv' /\ JournalStep
  BY <1>2, DispatcherKeeps, DispatcherSteady
<1>3. ASSUME NEW p \in Workers, Worker(p) PROVE MediaInv' /\ JournalStep
  BY <1>3, WorkerKeeps
<1>4. CASE Environment
  BY <1>4, EnvironmentKeeps, EnvironmentSteady
<1>. QED
  BY <1>1, <1>2, <1>3, <1>4 DEF Next

LEMMA InitKeeps ==
  ASSUME Init PROVE MediaInv /\ Journal!Init
<1>1. StoreTypeOK
  BY DEF Init, StoreInit, StoreTypeOK, IngestRow, PublicationRow, OutboxRow, NoPublication, NoEntry
<1>2. Surroundings
  BY DEF Init, Surroundings, Operations, FreeSlot
<1>3. \A t \in PublicationTypes :
        /\ publication[t].attempt = None /\ ~publication[t].target /\ ~publication[t].open
        /\ calls[t] = 0 /\ thing[t] = "none"
  BY DEF Init, StoreInit, NoPublication
<1>4. \A t \in PublicationTypes : JournalKept(t)
  BY <1>3 DEF JournalKept
<1>5. pc \in [Workers -> WorkerSteps] /\ run \in [Workers -> RunRecord]
  BY EmptyBacked DEF Init, WorkerSteps
<1>6. \A p \in Workers : RunKnows(p)
  BY EmptyBacked DEF Init, RunKnows
<1>7. Journal!Init
  BY <1>3, JournalStates DEF Init, Journal!Init
<1>. QED
  BY <1>1, <1>2, <1>4, <1>5, <1>6, <1>7 DEF MediaInv

\* In every reachable state the runs of the workers agree with the rows, and no
\* destination was asked twice.
THEOREM MediaInvariant == Spec => []MediaInv
<1>1. Init => MediaInv
  BY InitKeeps
<1>2. MediaInv /\ [Next]_vars => MediaInv'
  BY NextKeeps
<1>. QED
  BY <1>1, <1>2, PTL DEF Spec

\* Every variable of media sync stays in its type.
THEOREM MediaTypeCorrect == Spec => []TypeOK
<1>1. MediaInv => TypeOK
  BY DEF MediaInv, Surroundings, TypeOK
<1>. QED
  BY <1>1, MediaInvariant, PTL

\* Whatever runs out, stops or is redelivered, every step at the rows and at the
\* destinations is a step of the publication journal: one attempt, one call, one result,
\* and removal of what is owned only.
THEOREM JournalImplemented == Spec => JournalSpec
<1>1. Init => Journal!Init
  BY InitKeeps
<1>2. MediaInv /\ [Next]_vars => [Journal!Next]_(Journal!vars)
  BY NextKeeps DEF JournalStep
<1>. QED
  BY <1>1, <1>2, MediaInvariant, PTL DEF Spec, JournalSpec, Journal!Spec

-----------------------------------------------------------------------------
(* The confirmed manual save.                                              *)

LEMMA UnchangedHeld ==
  ASSUME SaveHeld, UNCHANGED storeVars PROVE SaveHeld'
BY DEF SaveHeld, storeVars, OpenAttempt, Withdrawn

LEMMA EnvironmentHolds ==
  ASSUME StoreTypeOK, SaveHeld, Environment PROVE SaveHeld'
<1>1. CASE Administer
  BY <1>1, CreateIngestHeld, AttachHeld, PauseHeld, ResumeHeld, UnbindHeld, RevokeHeld,
     BeginDeletionHeld, CompleteDeletionHeld, RetryWorkHeld DEF Administer
<1>. QED
  BY <1>1, LeaseLapsesHeld, UnchangedHeld, TombstoneHeld, ConfirmHeld
  DEF Environment, LeaseEnds, MessageReappears, Scanner, Withdraw, ConfirmManual

LEMMA DispatcherHolds ==
  ASSUME StoreTypeOK, SaveHeld, Surroundings, NEW d \in Dispatchers, Dispatcher(d)
  PROVE  SaveHeld'
<1>1. dispatcher[d].op \in Operations
  BY DEF Surroundings
<1>. QED
  BY <1>1, DispatchClaimHeld, MarkHeld, UnchangedHeld
  DEF Dispatcher, ClaimForDispatch, DispatcherSends, DispatcherMarks

LEMMA WorkerHolds ==
  ASSUME MediaInv, SaveHeld, NEW p \in Workers, Worker(p) PROVE SaveHeld'
<1>1. /\ StoreTypeOK /\ run[p].type \in PublicationTypes /\ run[p].owned \in BOOLEAN
      /\ run[p].error \in {"none", "retryable", "other"}
      /\ "intake" \in Operations /\ "delete" \in Operations
  BY InvParts, OutboxTypes
<1>2. CASE UNCHANGED storeVars
  BY <1>2, UnchangedHeld
<1>3. CASE ClaimIntake(p) \/ ClaimDelete(p) \/ Release(p) \/ ReleaseDelete(p)
  BY <1>1, <1>3, UnchangedHeld, ClaimWorkHeld, RetryOutboxHeld
  DEF ClaimIntake, ClaimDelete, Release, ReleaseDelete
<1>4. CASE BlockUnclaimed(p) \/ BlockOwned(p)
  BY <1>1, <1>4, UnchangedHeld, BlockUnavailableHeld
  DEF BlockUnclaimed, BlockOwned, CanBlockUnclaimed, CanBlock, OwnsIntake
<1>5. CASE RememberAsset(p) \/ PersistAsset(p) \/ Complete(p) \/ CompleteDelete(p)
  BY <1>1, <1>5, UnchangedHeld, RememberAssetHeld, PersistHeld, CompleteHeld, CompleteDeleteHeld
  DEF RememberAsset, PersistAsset, Complete, CompleteDelete
<1>6. CASE Reserve(p) \/ Settle(p) \/ FailManual(p)
  BY <1>1, <1>6, UnchangedHeld, ReserveHeld, SettleHeld, FailManualHeld
  DEF Reserve, Settle, FailManual
<1>7. CASE BlockUncertain(p) \/ Hold(p) \/ FailIntake(p) \/ TombstoneWork(p)
  BY <1>1, <1>7, UnchangedHeld, BlockUncertainHeld, HoldHeld, FailHeld, TombstoneClaimedHeld
  DEF BlockUncertain, Hold, FailIntake, TombstoneWork
<1>8. CASE CompensateOwner(p)
  <2>1. Head(run[p].owners) = "asset" \/ Head(run[p].owners) \in PublicationTypes
    BY <1>8, InvParts, TailBacked DEF CompensateOwner
  <2>. QED
    BY <1>1, <1>8, <2>1, UnchangedHeld, RememberAssetHeld, RememberHandleHeld
    DEF CompensateOwner, RememberOwner
<1>9. CASE \E m \in Messages : ReceiveMessage(p, m)
  BY <1>2, <1>9 DEF ReceiveMessage
<1>10. CASE \/ ExplainIntake(p) \/ LoadIntake(p) \/ DownloadSource(p) \/ CreateAsset(p)
            \/ UploadAsset(p) \/ GetAsset(p) \/ Publish(p) \/ PrepareManual(p) \/ SettleJob(p)
  BY <1>2, <1>10
  DEF ExplainIntake, LoadIntake, DownloadSource, CreateAsset, UploadAsset, GetAsset, Publish,
      PrepareManual, SettleJob
<1>11. CASE \/ FinishCompensation(p) \/ ExplainDelete(p) \/ LoadDelete(p) \/ RemoveOwner(p)
            \/ DeleteMessage(p) \/ TransientError(p) \/ WorkerStops(p)
  BY <1>2, <1>11
  DEF FinishCompensation, ExplainDelete, LoadDelete, RemoveOwner, DeleteMessage, TransientError,
      WorkerStops
<1>. QED
  BY <1>3, <1>4, <1>5, <1>6, <1>7, <1>8, <1>9, <1>10, <1>11 DEF Worker

\* A manual save the requester has confirmed stays somebody's work until it is decided.
THEOREM ConfirmedSaveKept == Spec => []ConfirmedSaveIsPending
<1>1. Init => SaveHeld
  BY DEF Init, StoreInit, SaveHeld, NoPublication, Withdrawn, PublicationTypes
<1>2. MediaInv /\ SaveHeld /\ [Next]_vars => SaveHeld'
  <2>. SUFFICES ASSUME MediaInv, SaveHeld, [Next]_vars PROVE SaveHeld'
    OBVIOUS
  <2>1. StoreTypeOK /\ Surroundings
    BY DEF MediaInv
  <2>2. CASE UNCHANGED vars
    BY <2>2, UnchangedHeld DEF vars
  <2>. QED
    BY <2>1, <2>2, DispatcherHolds, WorkerHolds, EnvironmentHolds DEF Next
<1>3. MediaInv /\ SaveHeld => ConfirmedSaveIsPending
  BY OutboxTypes DEF MediaInv, SaveHeld, ConfirmedSaveIsPending, OpenAttempt
<1>. QED
  BY <1>1, <1>2, <1>3, MediaInvariant, PTL DEF Spec

-----------------------------------------------------------------------------
(* The rows a step leaves behind: their shape, and what never goes back.   *)

\* The manual save, decided, or decided for good without a result to come.
Save == publication["manual"]
Decided == Save.state \in {"published", "failed", "revoked"}
LostForGood == Save.state \in {"failed", "revoked"} /\ ~Save.open
Unsettled == {"pending", "processing", "awaiting_scan"}

\* The outbox entries of a message agree with its ingest, its tombstone and its save.
EntriesShaped ==
  /\ outbox["intake"].row # "open" => outbox["intake"].claimedBy = None
  /\ outbox["delete"].row # "absent" => Withdrawn /\ tombstone
  /\ Received => (tombstone <=> Withdrawn)
  /\ outbox["intake"].row = "absent" <=> ~Received
  /\ Withdrawn => outbox["intake"].row = "done"
  /\ outbox["intake"].error = "uncertain" =>
       outbox["intake"].row = "done" /\ ingest.state \in {"failed", "tombstoned"}
  /\ outbox["intake"].row = "open" /\ ~Save.confirmed => ingest.state \in Unsettled

\* What has happened stays so.
Onward ==
  /\ Received => Received'
  /\ Withdrawn => Withdrawn'
  /\ tombstone => tombstone'
  /\ Decided => Decided'
  /\ LostForGood => LostForGood'
  /\ Save.confirmed => Save.confirmed'

\* Nobody reserves an attempt, takes a lease, or marks an entry dispatched.
NoneOpened == \A t \in PublicationTypes : publication'[t].open => publication[t].open
NoneClaimed == \A op \in Operations, p \in Claimants : Owns(op, p)' => Owns(op, p)
NoneDispatched ==
  \A op \in Operations :
    outbox'[op].row = "open" /\ outbox'[op].dispatched =>
      outbox[op].row = "open" /\ outbox[op].dispatched
\* What changes under a withdrawal reopens the delete entry, and nobody works on it then.
Reopening ==
  outbox'["delete"].row = "done" \/ (\E p \in Workers : Owns("delete", p)') =>
    /\ ingest'.asset => ingest.asset
    /\ \A t \in PublicationTypes : publication[t].open => publication'[t].open

\* No cleanup is finished.
NotCleaned == outbox'["delete"].row = "done" => outbox["delete"].row = "done"

\* What most steps do to the rows.
Steady ==
  /\ EntriesShaped' /\ Onward /\ NoneOpened /\ NoneClaimed /\ NoneDispatched /\ Reopening /\ NotCleaned

LEMMA CreateIngestSteady ==
  ASSUME StoreTypeOK, EntriesShaped, CreateIngest
  PROVE  Steady
BY OutboxTypes, ClaimantAssumption DEF CreateIngest, OpenEntry, NoEntry,
  Steady, EntriesShaped, Onward, NoneOpened, NoneClaimed, NoneDispatched, Reopening, NotCleaned,
  Decided, LostForGood, Save, Unsettled, Owns, Received, Withdrawn, bindingVars, StoreTypeOK,
  IngestRow, OutboxRow, PublicationRow, Released, Claimed, Completed, Reopened, Claimants,
  PublicationTypes, Operations

LEMMA AttachSteady ==
  ASSUME StoreTypeOK, EntriesShaped, AttachManualIntent
  PROVE  Steady
BY OutboxTypes, ClaimantAssumption DEF AttachManualIntent,
  Steady, EntriesShaped, Onward, NoneOpened, NoneClaimed, NoneDispatched, Reopening, NotCleaned,
  Decided, LostForGood, Save, Unsettled, Owns, Received, Withdrawn, bindingVars, StoreTypeOK,
  IngestRow, OutboxRow, PublicationRow, Released, Claimed, Completed, Reopened, Claimants,
  PublicationTypes, Operations

LEMMA ConfirmSteady ==
  ASSUME StoreTypeOK, EntriesShaped, ConfirmManualPublication
  PROVE  Steady
BY OutboxTypes, ClaimantAssumption DEF ConfirmManualPublication, CanConfirmManual,
  Steady, EntriesShaped, Onward, NoneOpened, NoneClaimed, NoneDispatched, Reopening, NotCleaned,
  Decided, LostForGood, Save, Unsettled, Owns, Received, Withdrawn, bindingVars, StoreTypeOK,
  IngestRow, OutboxRow, PublicationRow, Released, Claimed, Completed, Reopened, Claimants,
  PublicationTypes, Operations

\* A withdrawal closes the intake entry and hands the delete entry to the dispatcher.
LEMMA TombstonedRows ==
  ASSUME StoreTypeOK, publication' = AllRevoked,
         outbox' = [intake |-> Completed(outbox["intake"]), delete |-> Reopened(outbox["delete"])]
  PROVE  /\ outbox'["intake"].row = "done" /\ outbox'["intake"].claimedBy = None
         /\ outbox'["intake"].error = outbox["intake"].error
         /\ outbox'["delete"].row = "open" /\ outbox'["delete"].claimedBy = None
         /\ ~outbox'["delete"].dispatched
         /\ \A t \in PublicationTypes : publication'[t].open = publication[t].open
         /\ publication'["manual"].confirmed = publication["manual"].confirmed
         /\ publication["manual"].state # "none" => publication'["manual"].state = "revoked"
BY OutboxTypes DEF AllRevoked, Completed, Reopened, Released, OutboxRow, PublicationRow

LEMMA WithdrawnSteady ==
  ASSUME StoreTypeOK, EntriesShaped, Received, Withdrawn', tombstone', publication' = AllRevoked,
         outbox' = [intake |-> Completed(outbox["intake"]), delete |-> Reopened(outbox["delete"])],
         ingest'.asset = ingest.asset
  PROVE  Steady
<1>1. EntriesShaped'
  BY TombstonedRows DEF EntriesShaped, Withdrawn, Received
<1>2. Onward
  BY TombstonedRows DEF Onward, Withdrawn, Received, Decided, LostForGood, Save, PublicationTypes
<1>3. NoneOpened /\ NoneDispatched /\ NotCleaned
  BY TombstonedRows DEF NoneOpened, NoneDispatched, NotCleaned, Operations
<1>4. NoneClaimed
  BY TombstonedRows, ClaimantAssumption DEF NoneClaimed, Operations, Owns, Claimants
<1>5. Reopening
  BY TombstonedRows, ClaimantAssumption DEF Reopening, Owns
<1>. QED
  BY <1>1, <1>2, <1>3, <1>4, <1>5 DEF Steady

LEMMA UnchangedSteady ==
  ASSUME EntriesShaped, UNCHANGED storeVars PROVE Steady
BY DEF storeVars, Steady, EntriesShaped, Onward, NoneOpened, NoneClaimed, NoneDispatched,
  Reopening, NotCleaned, Received, Withdrawn, Decided, LostForGood, Save, Owns

LEMMA TombstoneSteady ==
  ASSUME StoreTypeOK, EntriesShaped, TombstoneSource
  PROVE  Steady
<1>1. CASE Received
  <2>1. ingest' = [ingest EXCEPT !.state = "tombstoned"] /\ tombstone'
    BY <1>1 DEF TombstoneSource
  <2>2. Withdrawn' /\ ingest'.asset = ingest.asset
    BY <2>1 DEF Withdrawn, StoreTypeOK, IngestRow
  <2>. QED
    BY <1>1, <2>1, <2>2, WithdrawnSteady DEF TombstoneSource
<1>2. CASE ~Received
  <2>1. UNCHANGED <<ingest, publication, outbox>> /\ tombstone'
    BY <1>2 DEF TombstoneSource
  <2>. QED
    BY <1>2, <2>1
    DEF Steady, EntriesShaped, Onward, NoneOpened, NoneClaimed, NoneDispatched, Reopening,
        NotCleaned, Received, Withdrawn, Decided, LostForGood, Save, Owns
<1>. QED
  BY <1>1, <1>2

LEMMA PauseSteady ==
  ASSUME StoreTypeOK, EntriesShaped, PauseBinding
  PROVE  Steady
BY OutboxTypes, ClaimantAssumption DEF PauseBinding, BlockedManual, Unstarted, Undispatched,
  Steady, EntriesShaped, Onward, NoneOpened, NoneClaimed, NoneDispatched, Reopening, NotCleaned,
  Decided, LostForGood, Save, Unsettled, Owns, Received, Withdrawn, bindingVars, StoreTypeOK,
  IngestRow, OutboxRow, PublicationRow, Released, Claimed, Completed, Reopened, Claimants,
  PublicationTypes, Operations

LEMMA ResumeSteady ==
  ASSUME StoreTypeOK, EntriesShaped, ResumeBinding
  PROVE  Steady
BY OutboxTypes, ClaimantAssumption DEF ResumeBinding, Undispatched,
  Steady, EntriesShaped, Onward, NoneOpened, NoneClaimed, NoneDispatched, Reopening, NotCleaned,
  Decided, LostForGood, Save, Unsettled, Owns, Received, Withdrawn, bindingVars, StoreTypeOK,
  IngestRow, OutboxRow, PublicationRow, Released, Claimed, Completed, Reopened, Claimants,
  PublicationTypes, Operations

LEMMA UnbindSteady ==
  ASSUME StoreTypeOK, EntriesShaped, UnbindBinding
  PROVE  Steady
BY OutboxTypes, ClaimantAssumption DEF UnbindBinding, BlockedManual, Unstarted, Undispatched,
  Steady, EntriesShaped, Onward, NoneOpened, NoneClaimed, NoneDispatched, Reopening, NotCleaned,
  Decided, LostForGood, Save, Unsettled, Owns, Received, Withdrawn, bindingVars, StoreTypeOK,
  IngestRow, OutboxRow, PublicationRow, Released, Claimed, Completed, Reopened, Claimants,
  PublicationTypes, Operations

LEMMA RevokeSteady ==
  ASSUME StoreTypeOK, EntriesShaped, RevokeAdmission
  PROVE  Steady
BY OutboxTypes, ClaimantAssumption DEF RevokeAdmission,
  Steady, EntriesShaped, Onward, NoneOpened, NoneClaimed, NoneDispatched, Reopening, NotCleaned,
  Decided, LostForGood, Save, Unsettled, Owns, Received, Withdrawn, bindingVars, StoreTypeOK,
  IngestRow, OutboxRow, PublicationRow, Released, Claimed, Completed, Reopened, Claimants,
  PublicationTypes, Operations

LEMMA BeginDeletionSteady ==
  ASSUME StoreTypeOK, EntriesShaped, BeginCollectionDeletion
  PROVE  Steady
BY OutboxTypes, ClaimantAssumption DEF BeginCollectionDeletion,
  Steady, EntriesShaped, Onward, NoneOpened, NoneClaimed, NoneDispatched, Reopening, NotCleaned,
  Decided, LostForGood, Save, Unsettled, Owns, Received, Withdrawn, bindingVars, StoreTypeOK,
  IngestRow, OutboxRow, PublicationRow, Released, Claimed, Completed, Reopened, Claimants,
  PublicationTypes, Operations

LEMMA CompleteDeletionSteady ==
  ASSUME StoreTypeOK, EntriesShaped, CompleteCollectionDeletion
  PROVE  Steady
BY OutboxTypes, ClaimantAssumption DEF CompleteCollectionDeletion,
  Steady, EntriesShaped, Onward, NoneOpened, NoneClaimed, NoneDispatched, Reopening, NotCleaned,
  Decided, LostForGood, Save, Unsettled, Owns, Received, Withdrawn, bindingVars, StoreTypeOK,
  IngestRow, OutboxRow, PublicationRow, Released, Claimed, Completed, Reopened, Claimants,
  PublicationTypes, Operations

LEMMA RetryWorkSteady ==
  ASSUME StoreTypeOK, EntriesShaped, RetryWork
  PROVE  Steady
BY OutboxTypes, ClaimantAssumption DEF RetryWork, OpenEntry, NoEntry,
  Steady, EntriesShaped, Onward, NoneOpened, NoneClaimed, NoneDispatched, Reopening, NotCleaned,
  Decided, LostForGood, Save, Unsettled, Owns, Received, Withdrawn, bindingVars, StoreTypeOK,
  IngestRow, OutboxRow, PublicationRow, Released, Claimed, Completed, Reopened, Claimants,
  PublicationTypes, Operations

LEMMA LeaseLapsesSteady ==
  ASSUME StoreTypeOK, EntriesShaped, NEW op \in Operations, LeaseLapses(op)
  PROVE  Steady
BY OutboxTypes, ClaimantAssumption DEF LeaseLapses,
  Steady, EntriesShaped, Onward, NoneOpened, NoneClaimed, NoneDispatched, Reopening, NotCleaned,
  Decided, LostForGood, Save, Unsettled, Owns, Received, Withdrawn, bindingVars, StoreTypeOK,
  IngestRow, OutboxRow, PublicationRow, Released, Claimed, Completed, Reopened, Claimants,
  PublicationTypes, Operations

LEMMA RetryOutboxSteady ==
  ASSUME StoreTypeOK, EntriesShaped, NEW p \in Workers, NEW op \in Operations,
         NEW error \in {"none", "retryable", "other"}, RetryOutbox(op, p, error)
  PROVE  Steady
BY OutboxTypes, ClaimantAssumption DEF RetryOutbox, OwnsIntake, OwnsDelete,
  Steady, EntriesShaped, Onward, NoneOpened, NoneClaimed, NoneDispatched, Reopening, NotCleaned,
  Decided, LostForGood, Save, Unsettled, Owns, Received, Withdrawn, bindingVars, StoreTypeOK,
  IngestRow, OutboxRow, PublicationRow, Released, Claimed, Completed, Reopened, Claimants,
  PublicationTypes, Operations

LEMMA FailSteady ==
  ASSUME StoreTypeOK, EntriesShaped, NEW p \in Workers, FailClaimedWork(p)
  PROVE  Steady
BY OutboxTypes, ClaimantAssumption DEF FailClaimedWork, CompletedIntake, OwnsIntake,
  Steady, EntriesShaped, Onward, NoneOpened, NoneClaimed, NoneDispatched, Reopening, NotCleaned,
  Decided, LostForGood, Save, Unsettled, Owns, Received, Withdrawn, bindingVars, StoreTypeOK,
  IngestRow, OutboxRow, PublicationRow, Released, Claimed, Completed, Reopened, Claimants,
  PublicationTypes, Operations

LEMMA HoldSteady ==
  ASSUME StoreTypeOK, EntriesShaped, NEW p \in Workers, HoldPausedWork(p)
  PROVE  Steady
BY OutboxTypes, ClaimantAssumption DEF HoldPausedWork, CanHold, OwnsIntake,
  Steady, EntriesShaped, Onward, NoneOpened, NoneClaimed, NoneDispatched, Reopening, NotCleaned,
  Decided, LostForGood, Save, Unsettled, Owns, Received, Withdrawn, bindingVars, StoreTypeOK,
  IngestRow, OutboxRow, PublicationRow, Released, Claimed, Completed, Reopened, Claimants,
  PublicationTypes, Operations

LEMMA BlockUnavailableSteady ==
  ASSUME StoreTypeOK, EntriesShaped, ~Withdrawn, outbox["intake"].row = "open",
         BlockUnavailableWork
  PROVE  Steady
<1>1. publication["manual"] \in PublicationRow /\ publication'["manual"] = Unavailable("manual")
  BY OutboxTypes DEF BlockUnavailableWork
<1>2. \A t \in PublicationTypes : publication'[t].open = publication[t].open
  BY BlockUnavailableQuiet DEF Quiet, SameAttempts
<1>3. publication'["manual"].confirmed = publication["manual"].confirmed
  BY <1>1 DEF Unavailable, PublicationRow
<1>4. publication["manual"].state # "pending" => publication'["manual"] = publication["manual"]
  BY <1>1 DEF Unavailable
<1>5. /\ ingest'.state = "failed" /\ ingest'.asset = ingest.asset /\ tombstone' = tombstone
      /\ outbox'["intake"].row = "done" /\ outbox'["intake"].claimedBy = None
      /\ outbox'["delete"] = outbox["delete"] /\ outbox'["intake"].error = "other"
  BY OutboxTypes
  DEF BlockUnavailableWork, CompletedIntake, Completed, Released, StoreTypeOK, OutboxRow, IngestRow
<1>6. EntriesShaped'
  BY <1>3, <1>5 DEF EntriesShaped, Withdrawn, Received
<1>7. Onward
  BY <1>3, <1>4, <1>5 DEF Onward, Withdrawn, Received, Decided, LostForGood, Save
<1>8. NoneOpened /\ NoneDispatched /\ NotCleaned /\ Reopening
  BY <1>2, <1>5 DEF NoneOpened, NoneDispatched, NotCleaned, Reopening, Operations
<1>9. NoneClaimed
  BY <1>5, ClaimantAssumption DEF NoneClaimed, Operations, Owns, Claimants
<1>. QED
  BY <1>6, <1>7, <1>8, <1>9 DEF Steady

LEMMA TombstoneClaimedSteady ==
  ASSUME StoreTypeOK, EntriesShaped, NEW p \in Workers, TombstoneClaimedWorkForCleanup(p)
  PROVE  Steady
<1>1. Received
  BY DEF TombstoneClaimedWorkForCleanup, OwnsIntake, Owns, EntriesShaped
<1>2. ingest' = [ingest EXCEPT !.state = "tombstoned"] /\ tombstone'
  BY DEF TombstoneClaimedWorkForCleanup
<1>3. Withdrawn' /\ ingest'.asset = ingest.asset
  BY <1>2 DEF Withdrawn, StoreTypeOK, IngestRow
<1>. QED
  BY <1>1, <1>2, <1>3, WithdrawnSteady DEF TombstoneClaimedWorkForCleanup

LEMMA PersistSteady ==
  ASSUME StoreTypeOK, EntriesShaped, NEW p \in Workers, PersistCompletedAsset(p)
  PROVE  Steady
BY OutboxTypes, ClaimantAssumption DEF PersistCompletedAsset, CanPersistAsset, FenceOpen, OwnsIntake,
  Steady, EntriesShaped, Onward, NoneOpened, NoneClaimed, NoneDispatched, Reopening, NotCleaned,
  Decided, LostForGood, Save, Unsettled, Owns, Received, Withdrawn, bindingVars, StoreTypeOK,
  IngestRow, OutboxRow, PublicationRow, Released, Claimed, Completed, Reopened, Claimants,
  PublicationTypes, Operations

LEMMA ReopenedRow ==
  ASSUME NEW e \in OutboxRow
  PROVE  Reopened(e).row = "open" /\ Reopened(e).claimedBy = None /\ ~Reopened(e).dispatched
BY DEF Reopened, Released, OutboxRow

LEMMA SettleSteady ==
  ASSUME StoreTypeOK, EntriesShaped, NEW p \in Workers, NEW t \in PublicationTypes,
         NEW target \in BOOLEAN, SettlePublication(t, p, target)
  PROVE  Steady
<1>. DEFINE state == IF Withdrawn THEN "revoked" ELSE IF target THEN "published" ELSE "failed"
            row == [publication[t] EXCEPT !.open = FALSE, !.target = target, !.blocked = FALSE,
                                          !.state = state]
<1>1. publication[t] \in PublicationRow /\ publication[t].open /\ Received
  BY OutboxTypes DEF SettlePublication, CanSettle
<1>2. ~row.open /\ row.confirmed = publication[t].confirmed /\ row.state = state
  BY <1>1 DEF PublicationRow
<1>3. publication' = [publication EXCEPT ![t] = row] /\ tombstone' = tombstone
  BY DEF SettlePublication
<1>. HIDE DEF row
<1>4. /\ publication'[t] = row
      /\ \A u \in PublicationTypes \ {t} : publication'[u] = publication[u]
  BY <1>3 DEF StoreTypeOK
<1>. HIDE DEF state
<1>5. state \in {"revoked", "published", "failed"}
  BY DEF state
<1>6. CASE Withdrawn
  <2>1. /\ ingest' = ingest /\ outbox'["intake"] = outbox["intake"]
        /\ outbox'["delete"].row = "open" /\ outbox'["delete"].claimedBy = None
        /\ ~outbox'["delete"].dispatched
    <3>1. ingest' = ingest /\ outbox' = [outbox EXCEPT !["delete"] = Reopened(outbox["delete"])]
      BY <1>6 DEF SettlePublication
    <3>2. outbox'["intake"] = outbox["intake"] /\ outbox'["delete"] = Reopened(outbox["delete"])
      BY <3>1 DEF StoreTypeOK, Operations
    <3>. QED
      BY <3>1, <3>2, OutboxTypes, ReopenedRow
  <2>2. publication'["manual"].confirmed = publication["manual"].confirmed
    BY <1>2, <1>4 DEF PublicationTypes
  <2>3. EntriesShaped'
    BY <1>3, <1>6, <2>1, <2>2 DEF EntriesShaped, Withdrawn, Received, Save
  <2>4. Onward
    BY <1>1, <1>2, <1>3, <1>4, <1>5, <2>1
    DEF Onward, Withdrawn, Received, Decided, LostForGood, Save, PublicationTypes
  <2>5. NoneOpened
    BY <1>1, <1>2, <1>4 DEF NoneOpened
  <2>6. NoneDispatched /\ NotCleaned
    BY <2>1 DEF NoneDispatched, NotCleaned, Operations
  <2>7. NoneClaimed /\ Reopening
    BY <2>1, ClaimantAssumption DEF NoneClaimed, Reopening, Operations, Owns, Claimants
  <2>. QED
    BY <2>3, <2>4, <2>5, <2>6, <2>7 DEF Steady
<1>7. CASE ~Withdrawn
  <2>1. /\ outbox'["delete"] = outbox["delete"] /\ outbox["delete"].row = "absent"
        /\ ingest'.asset = ingest.asset
    BY <1>7, OutboxTypes
    DEF SettlePublication, ReopenUncertain, EntriesShaped, StoreTypeOK, OutboxRow, IngestRow
  <2>2. publication'["manual"].confirmed = publication["manual"].confirmed
    BY <1>2, <1>4 DEF PublicationTypes
  <2>3. CASE outbox["intake"].error = "uncertain"
    <3>1. outbox["intake"].row = "done" /\ ingest.state = "failed" /\ outbox["intake"].claimedBy = None
      BY <1>7, <2>3 DEF EntriesShaped, Withdrawn
    <3>2. /\ outbox'["intake"].row = "open" /\ ~outbox'["intake"].dispatched
          /\ outbox'["intake"].error = "none" /\ outbox'["intake"].claimedBy = None
          /\ ingest'.state = "processing"
      BY <1>7, <2>3, <3>1, OutboxTypes
      DEF SettlePublication, ReopenUncertain, StoreTypeOK, OutboxRow, IngestRow
    <3>3. EntriesShaped'
      BY <1>3, <2>1, <2>2, <3>1, <3>2 DEF EntriesShaped, Withdrawn, Received, Unsettled
    <3>4. Onward
      BY <1>1, <1>2, <1>3, <1>4, <1>5, <1>7, <3>2
      DEF Onward, Withdrawn, Received, Decided, LostForGood, Save, PublicationTypes
    <3>5. NoneOpened
      BY <1>1, <1>2, <1>4 DEF NoneOpened
    <3>6. NoneDispatched /\ NotCleaned
      BY <2>1, <3>2 DEF NoneDispatched, NotCleaned, Operations
    <3>7. NoneClaimed /\ Reopening
      BY <2>1, <3>2, ClaimantAssumption
      DEF NoneClaimed, Reopening, Operations, Owns, Claimants
    <3>. QED
      BY <3>3, <3>4, <3>5, <3>6, <3>7 DEF Steady
  <2>4. CASE outbox["intake"].error # "uncertain"
    <3>1. ingest' = ingest /\ outbox' = outbox
      BY <1>7, <2>4 DEF SettlePublication, ReopenUncertain
    <3>2. EntriesShaped'
      BY <1>3, <2>2, <3>1 DEF EntriesShaped, Withdrawn, Received, Save
    <3>3. Onward
      BY <1>1, <1>2, <1>3, <1>4, <1>5, <3>1
      DEF Onward, Withdrawn, Received, Decided, LostForGood, Save, PublicationTypes
    <3>4. NoneOpened
      BY <1>1, <1>2, <1>4 DEF NoneOpened
    <3>5. NoneDispatched /\ NotCleaned /\ NoneClaimed
      BY <3>1 DEF NoneDispatched, NotCleaned, NoneClaimed, Owns
    <3>6. Reopening
      BY <2>1, <3>1 DEF Reopening, Owns
    <3>. QED
      BY <3>2, <3>3, <3>4, <3>5, <3>6 DEF Steady
  <2>. QED
    BY <2>3, <2>4
<1>. QED
  BY <1>6, <1>7

LEMMA BlockUncertainSteady ==
  ASSUME StoreTypeOK, EntriesShaped, NEW p \in Workers, BlockUncertainPublication(p)
  PROVE  Steady
BY OutboxTypes, ClaimantAssumption DEF BlockUncertainPublication, CanBlockUncertain, CompletedIntake, OwnsIntake,
  Steady, EntriesShaped, Onward, NoneOpened, NoneClaimed, NoneDispatched, Reopening, NotCleaned,
  Decided, LostForGood, Save, Unsettled, Owns, Received, Withdrawn, bindingVars, StoreTypeOK,
  IngestRow, OutboxRow, PublicationRow, Released, Claimed, Completed, Reopened, Claimants,
  PublicationTypes, Operations

LEMMA FailManualSteady ==
  ASSUME StoreTypeOK, EntriesShaped, NEW p \in Workers, FailManualPublication(p)
  PROVE  Steady
BY OutboxTypes, ClaimantAssumption DEF FailManualPublication, CanFailManual, OwnsIntake,
  Steady, EntriesShaped, Onward, NoneOpened, NoneClaimed, NoneDispatched, Reopening, NotCleaned,
  Decided, LostForGood, Save, Unsettled, Owns, Received, Withdrawn, bindingVars, StoreTypeOK,
  IngestRow, OutboxRow, PublicationRow, Released, Claimed, Completed, Reopened, Claimants,
  PublicationTypes, Operations

LEMMA CompleteSteady ==
  ASSUME StoreTypeOK, EntriesShaped, NEW p \in Workers, CompleteClaimedWork(p)
  PROVE  Steady
BY OutboxTypes, ClaimantAssumption DEF CompleteClaimedWork, CanComplete, OwnsIntake, CompletedIntake,
  Steady, EntriesShaped, Onward, NoneOpened, NoneClaimed, NoneDispatched, Reopening, NotCleaned,
  Decided, LostForGood, Save, Unsettled, Owns, Received, Withdrawn, bindingVars, StoreTypeOK,
  IngestRow, OutboxRow, PublicationRow, Released, Claimed, Completed, Reopened, Claimants,
  PublicationTypes, Operations

LEMMA RememberHandleSteady ==
  ASSUME StoreTypeOK, EntriesShaped, NEW t \in PublicationTypes, Received, RememberExternalHandle(t)
  PROVE  Steady
BY OutboxTypes, ClaimantAssumption DEF RememberExternalHandle, ReopenDeleteIfWithdrawn,
  Steady, EntriesShaped, Onward, NoneOpened, NoneClaimed, NoneDispatched, Reopening, NotCleaned,
  Decided, LostForGood, Save, Unsettled, Owns, Received, Withdrawn, bindingVars, StoreTypeOK,
  IngestRow, OutboxRow, PublicationRow, Released, Claimed, Completed, Reopened, Claimants,
  PublicationTypes, Operations

LEMMA RememberAssetSteady ==
  ASSUME StoreTypeOK, EntriesShaped, Received, RememberOwnedAsset
  PROVE  Steady
BY OutboxTypes, ClaimantAssumption DEF RememberOwnedAsset, ReopenDeleteIfWithdrawn,
  Steady, EntriesShaped, Onward, NoneOpened, NoneClaimed, NoneDispatched, Reopening, NotCleaned,
  Decided, LostForGood, Save, Unsettled, Owns, Received, Withdrawn, bindingVars, StoreTypeOK,
  IngestRow, OutboxRow, PublicationRow, Released, Claimed, Completed, Reopened, Claimants,
  PublicationTypes, Operations

\* Nobody but c takes a lease, and c that of op only.
ClaimedOnly(op, c) ==
  \A o \in Operations, q \in Claimants : Owns(o, q)' => Owns(o, q) \/ (o = op /\ q = c)

\* What holds of every change of the rows.
RowsSteady == EntriesShaped' /\ Onward /\ Reopening

LEMMA ClaimWorkSteady ==
  ASSUME StoreTypeOK, EntriesShaped, NEW op \in Operations, NEW p \in Workers, ClaimWork(op, p)
  PROVE  /\ RowsSteady /\ NoneOpened /\ NoneDispatched /\ NotCleaned /\ ClaimedOnly(op, p)
         /\ op = "intake" => Received
BY OutboxTypes, ClaimantAssumption DEF ClaimWork, CanClaim, ClaimedOnly, RowsSteady,
  EntriesShaped, Onward, NoneOpened, NoneDispatched, Reopening, NotCleaned,
  Decided, LostForGood, Save, Unsettled, Owns, Received, Withdrawn, bindingVars, StoreTypeOK,
  IngestRow, OutboxRow, PublicationRow, Released, Claimed, Completed, Reopened, Claimants,
  PublicationTypes, Operations

LEMMA DispatchClaimSteady ==
  ASSUME StoreTypeOK, EntriesShaped, NEW op \in Operations, NEW d \in Dispatchers,
         ClaimOutboxForDispatch(d, op)
  PROVE  RowsSteady /\ NoneOpened /\ NoneDispatched /\ NotCleaned /\ ClaimedOnly(op, d)
BY OutboxTypes, ClaimantAssumption DEF ClaimOutboxForDispatch, Dispatchable, ClaimedOnly, RowsSteady,
  EntriesShaped, Onward, NoneOpened, NoneDispatched, Reopening, NotCleaned,
  Decided, LostForGood, Save, Unsettled, Owns, Received, Withdrawn, bindingVars, StoreTypeOK,
  IngestRow, OutboxRow, PublicationRow, Released, Claimed, Completed, Reopened, Claimants,
  PublicationTypes, Operations

LEMMA MarkSteady ==
  ASSUME StoreTypeOK, EntriesShaped, NEW op \in Operations, NEW d \in Dispatchers,
         MarkOutboxDispatched(d, op)
  PROVE  /\ RowsSteady /\ NoneOpened /\ NotCleaned /\ NoneClaimed
         /\ \A o \in Operations \ {op} : outbox'[o] = outbox[o]
BY OutboxTypes, ClaimantAssumption DEF MarkOutboxDispatched, RowsSteady,
  EntriesShaped, Onward, NoneOpened, NoneClaimed, Reopening, NotCleaned,
  Decided, LostForGood, Save, Unsettled, Owns, Received, Withdrawn, bindingVars, StoreTypeOK,
  IngestRow, OutboxRow, PublicationRow, Released, Claimed, Completed, Reopened, Claimants,
  PublicationTypes, Operations

LEMMA ReserveSteady ==
  ASSUME StoreTypeOK, EntriesShaped, NEW t \in PublicationTypes, NEW p \in Workers,
         ReservePublication(t, p)
  PROVE  /\ RowsSteady /\ NoneClaimed /\ NoneDispatched /\ NotCleaned
         /\ \A u \in PublicationTypes \ {t} : publication'[u] = publication[u]
BY OutboxTypes, ClaimantAssumption DEF ReservePublication, CanReserve, RowsSteady,
  EntriesShaped, Onward, NoneClaimed, NoneDispatched, Reopening, NotCleaned,
  Decided, LostForGood, Save, Unsettled, Owns, Received, Withdrawn, bindingVars, StoreTypeOK,
  IngestRow, OutboxRow, PublicationRow, Released, Claimed, Completed, Reopened, Claimants,
  PublicationTypes, Operations

LEMMA CompleteDeleteSteady ==
  ASSUME StoreTypeOK, EntriesShaped, NEW p \in Workers, CompleteDeleteWork(p)
  PROVE  RowsSteady /\ NoneOpened /\ NoneClaimed /\ NoneDispatched
BY OutboxTypes, ClaimantAssumption DEF CompleteDeleteWork, CanCompleteDelete, OwnsDelete, RowsSteady,
  EntriesShaped, Onward, NoneOpened, NoneClaimed, NoneDispatched, Reopening,
  Decided, LostForGood, Save, Unsettled, Owns, Received, Withdrawn, bindingVars, StoreTypeOK,
  IngestRow, OutboxRow, PublicationRow, Released, Claimed, Completed, Reopened, Claimants,
  PublicationTypes, Operations

LEMMA SteadyRows ==
  ASSUME Steady
  PROVE  RowsSteady /\ NoneOpened /\ NoneClaimed /\ NoneDispatched /\ NotCleaned
BY DEF Steady, RowsSteady

\* A run that is past its message has a received source.
Started == \A p \in Workers : pc[p] \notin {"idle", "claim", "explain", "ack"} => Received

RowsInv == EntriesShaped /\ Started

\* What a step of worker p does to the rows, when it is no plain Steady one.
Takes(p) ==
  \E op \in Operations :
    /\ pc[p] = (IF op = "intake" THEN "claim" ELSE "claim_delete")
    /\ pc'[p] = (IF op = "intake" THEN "load" ELSE "load_delete")
    /\ ClaimWork(op, p)
    /\ RowsSteady /\ NoneOpened /\ NoneDispatched /\ NotCleaned /\ ClaimedOnly(op, p)
Reserves(p) ==
  /\ ReservePublication(run[p].type, p) /\ Reserve(p)
  /\ RowsSteady /\ NoneClaimed /\ NoneDispatched /\ NotCleaned
Cleans(p) ==
  /\ CompleteDelete(p) /\ CompleteDeleteWork(p)
  /\ RowsSteady /\ NoneOpened /\ NoneClaimed /\ NoneDispatched

LEMMA GoesTo ==
  ASSUME MediaInv, NEW p \in Workers
  PROVE  /\ \A step, locals : GoWith(p, step, locals) => pc'[p] = step /\ run'[p] = locals
         /\ \A step : Go(p, step) => pc'[p] = step /\ run'[p] = run[p]
         /\ Finish(p) => pc'[p] = "idle" /\ run'[p] = NoRun
         /\ Acknowledge(p) => pc'[p] = "ack" /\ run'[p] = Ending(p)
         /\ \A error : Retry(p, error) =>
              pc'[p] = "retry" /\ run'[p] = [Ending(p) EXCEPT !.error = error]
BY DEF GoWith, Go, Finish, Acknowledge, Retry, MediaInv

LEMMA WorkerSteady ==
  ASSUME MediaInv, RowsInv, NEW p \in Workers, Worker(p)
  PROVE  Steady \/ Takes(p) \/ Reserves(p) \/ Cleans(p)
<1>1. /\ StoreTypeOK /\ run[p].type \in PublicationTypes /\ run[p].owned \in BOOLEAN
      /\ run[p].error \in {"none", "retryable", "other"}
      /\ "intake" \in Operations /\ "delete" \in Operations /\ EntriesShaped
      /\ pc[p] \notin {"idle", "claim", "explain", "ack"} => Received
  BY InvParts, OutboxTypes DEF RowsInv, Started
<1>2. CASE UNCHANGED storeVars
  BY <1>1, <1>2, UnchangedSteady
<1>3. CASE ClaimIntake(p) \/ ClaimDelete(p)
  <2>1. CASE ClaimIntake(p) /\ ClaimWork("intake", p)
    BY <1>1, <2>1, GoesTo, ClaimWorkSteady DEF ClaimIntake, Takes, ClaimWork
  <2>2. CASE ClaimDelete(p) /\ ClaimWork("delete", p)
    BY <1>1, <2>2, GoesTo, ClaimWorkSteady DEF ClaimDelete, Takes, ClaimWork
  <2>. QED
    BY <1>2, <1>3, <2>1, <2>2 DEF ClaimIntake, ClaimDelete
<1>4. CASE BlockUnclaimed(p) \/ BlockOwned(p)
  BY <1>1, <1>4, UnchangedSteady, BlockUnavailableSteady
  DEF BlockUnclaimed, BlockOwned, CanBlockUnclaimed, CanBlock, OwnsIntake, Owns
<1>5. CASE RememberAsset(p) \/ PersistAsset(p) \/ Complete(p) \/ Release(p) \/ ReleaseDelete(p)
  BY <1>1, <1>5, UnchangedSteady, RememberAssetSteady, PersistSteady, CompleteSteady, RetryOutboxSteady
  DEF RememberAsset, PersistAsset, Complete, Release, ReleaseDelete
<1>6. CASE Settle(p) \/ FailManual(p)
  BY <1>1, <1>6, UnchangedSteady, SettleSteady, FailManualSteady DEF Settle, FailManual
<1>7. CASE BlockUncertain(p) \/ Hold(p) \/ FailIntake(p) \/ TombstoneWork(p)
  BY <1>1, <1>7, UnchangedSteady, BlockUncertainSteady, HoldSteady, FailSteady, TombstoneClaimedSteady
  DEF BlockUncertain, Hold, FailIntake, TombstoneWork
<1>8. CASE CompensateOwner(p)
  <2>1. Head(run[p].owners) = "asset" \/ Head(run[p].owners) \in PublicationTypes
    BY <1>8, InvParts, TailBacked DEF CompensateOwner
  <2>. QED
    BY <1>1, <1>8, <2>1, UnchangedSteady, RememberAssetSteady, RememberHandleSteady
    DEF CompensateOwner, RememberOwner
<1>9. CASE \E m \in Messages : ReceiveMessage(p, m)
  BY <1>2, <1>9 DEF ReceiveMessage
<1>10. CASE \/ ExplainIntake(p) \/ LoadIntake(p) \/ DownloadSource(p) \/ CreateAsset(p)
            \/ UploadAsset(p) \/ GetAsset(p) \/ Publish(p) \/ PrepareManual(p) \/ SettleJob(p)
  BY <1>2, <1>10
  DEF ExplainIntake, LoadIntake, DownloadSource, CreateAsset, UploadAsset, GetAsset, Publish,
      PrepareManual, SettleJob
<1>11. CASE \/ FinishCompensation(p) \/ ExplainDelete(p) \/ LoadDelete(p) \/ RemoveOwner(p)
            \/ DeleteMessage(p) \/ TransientError(p) \/ WorkerStops(p)
  BY <1>2, <1>11
  DEF FinishCompensation, ExplainDelete, LoadDelete, RemoveOwner, DeleteMessage, TransientError,
      WorkerStops
<1>12. CASE Reserve(p)
  BY <1>1, <1>2, <1>12, ReserveSteady DEF Reserve, Reserves
<1>13. CASE CompleteDelete(p)
  BY <1>1, <1>2, <1>13, CompleteDeleteSteady DEF CompleteDelete, Cleans
<1>. QED
  BY <1>3, <1>4, <1>5, <1>6, <1>7, <1>8, <1>9, <1>10, <1>11, <1>12, <1>13 DEF Worker

LEMMA EnvironmentSteadyRows ==
  ASSUME StoreTypeOK, EntriesShaped, Environment PROVE Steady
<1>1. CASE Administer
  BY <1>1, CreateIngestSteady, AttachSteady, PauseSteady, ResumeSteady, UnbindSteady, RevokeSteady,
     BeginDeletionSteady, CompleteDeletionSteady, RetryWorkSteady DEF Administer
<1>. QED
  BY <1>1, LeaseLapsesSteady, UnchangedSteady, TombstoneSteady, ConfirmSteady
  DEF Environment, LeaseEnds, MessageReappears, Scanner, Withdraw, ConfirmManual

\* What a step of dispatcher d does to the rows.
Dispatches(d) ==
  /\ RowsSteady /\ NoneOpened /\ NotCleaned
  /\ \A op \in Operations, p \in Workers : Owns(op, p)' => Owns(op, p)

LEMMA DispatcherSteadyRows ==
  ASSUME StoreTypeOK, EntriesShaped, Surroundings, NEW d \in Dispatchers, Dispatcher(d)
  PROVE  Dispatches(d)
<1>1. dispatcher[d].op \in Operations /\ \A p \in Workers : p # d /\ p \in Claimants
  BY ClaimantAssumption DEF Surroundings, Claimants
<1>2. ASSUME NEW op \in Operations, ClaimForDispatch(d, op) PROVE Dispatches(d)
  BY <1>1, <1>2, DispatchClaimSteady DEF ClaimForDispatch, Dispatches, ClaimedOnly
<1>3. CASE UNCHANGED storeVars
  BY <1>1, <1>3, UnchangedSteady, SteadyRows DEF Dispatches, NoneClaimed
<1>4. CASE DispatcherMarks(d) /\ MarkOutboxDispatched(d, dispatcher[d].op)
  BY <1>1, <1>4, MarkSteady DEF Dispatches, NoneClaimed
<1>. QED
  BY <1>2, <1>3, <1>4 DEF Dispatcher, DispatcherSends, DispatcherMarks

-----------------------------------------------------------------------------
(* What a step of a worker does to its run.                                *)

\* The other runs stay where they are.
Stays(p) == \A q \in Workers \ {p} : pc'[q] = pc[q] /\ run'[q] = run[q]

EndSteps ==
  {"idle", "hold", "block", "retry", "remember", "compensate", "uncertain", "fail", "tombstone"}

\* A run that keeps nothing but its message, and has not acknowledged it yet.
Ends(p) == Stays(p) /\ pc'[p] \in EndSteps /\ run'[p].work = NoWork

LEMMA EndingFields ==
  ASSUME NEW p \in Workers, run[p] \in RunRecord
  PROVE  /\ Ending(p).work = NoWork /\ NoRun.work = NoWork
         /\ Ending(p).message = run[p].message
         /\ \A error : [Ending(p) EXCEPT !.error = error].work = NoWork
         /\ \A next : [Ending(p) EXCEPT !.next = next].work = NoWork
         /\ \A owners : [Ending(p) EXCEPT !.owners = owners].work = NoWork
BY DEF Ending, NoRun

LEMMA GoesOn ==
  ASSUME MediaInv, NEW p \in Workers
  PROVE  /\ \A step, locals : GoWith(p, step, locals) =>
              Stays(p) /\ pc'[p] = step /\ run'[p] = locals
         /\ \A step : Go(p, step) => Stays(p) /\ pc'[p] = step /\ run'[p] = run[p]
BY DEF GoWith, Go, MediaInv, Stays

LEMMA EndsGo ==
  ASSUME MediaInv, NEW p \in Workers
  PROVE  /\ Finish(p) => Ends(p)
         /\ \A error : Retry(p, error) => Ends(p)
         /\ \A work : Compensate(p, work) => Ends(p)
         /\ \A step \in EndSteps : GoWith(p, step, Ending(p)) => Ends(p)
         /\ Rejected(p) => Ends(p)
<1>1. run[p] \in RunRecord
  BY InvParts
<1>2. Finish(p) => Ends(p)
  BY <1>1, GoesOn, EndingFields DEF Finish, Ends, EndSteps
<1>3. \A error : Retry(p, error) => Ends(p)
  <2>. TAKE error
  <2>. DEFINE locals == [Ending(p) EXCEPT !.error = error]
  <2>1. locals.work = NoWork
    BY <1>1, EndingFields
  <2>2. Retry(p, error) => GoWith(p, "retry", locals)
    BY DEF Retry
  <2>. HIDE DEF locals
  <2>. QED
    BY <2>1, <2>2, GoesOn DEF Ends, EndSteps
<1>4. \A work : Compensate(p, work) => Ends(p)
  <2>. TAKE work
  <2>. DEFINE locals == [Ending(p) EXCEPT !.owners = CompensationOrder(Latest(p, work))]
  <2>1. locals.work = NoWork
    BY <1>1, EndingFields
  <2>2. Compensate(p, work) => GoWith(p, "compensate", locals)
    BY DEF Compensate
  <2>. HIDE DEF locals
  <2>. QED
    BY <2>1, <2>2, GoesOn DEF Ends, EndSteps
<1>5. \A step \in EndSteps : GoWith(p, step, Ending(p)) => Ends(p)
  BY <1>1, GoesOn, EndingFields DEF Ends, EndSteps
<1>6. Rejected(p) => Ends(p)
  BY <1>2, <1>5 DEF Rejected, EndSteps
<1>. QED
  BY <1>2, <1>3, <1>4, <1>5, <1>6

\* A run that goes on with its lease, or ends.
Continues(p, step, locals) ==
  Stays(p) /\ OwnsIntake(p) /\ pc'[p] = step /\ run'[p] = locals

LEMMA CheckedGoes ==
  ASSUME MediaInv, NEW p \in Workers, NEW step, NEW locals, Checked(p, step, locals)
  PROVE  Ends(p) \/ Continues(p, step, locals)
BY EndsGo, GoesOn DEF Checked, Eligibility, Continues

LEMMA AssetCheckedGoes ==
  ASSUME MediaInv, NEW p \in Workers, NEW step, NEW locals, AssetChecked(p, step, locals)
  PROVE  Ends(p) \/ Continues(p, step, locals)
<1>1. run[p] \in RunRecord
  BY InvParts
<1>2. ASSUME NEW next, GoWith(p, "remember", [Ending(p) EXCEPT !.next = next]) PROVE Ends(p)
  <2>. DEFINE ended == [Ending(p) EXCEPT !.next = next]
  <2>1. ended.work = NoWork
    BY <1>1, EndingFields
  <2>2. GoWith(p, "remember", ended)
    BY <1>2
  <2>. HIDE DEF ended
  <2>. QED
    BY <2>1, <2>2, GoesOn DEF Ends, EndSteps
<1>. QED
  BY <1>2, GoesOn DEF AssetChecked, Eligibility, Continues

\* A run that goes on with a work behind the publication of the collection occurrence.
AfterStep(p, work) ==
  /\ Stays(p) /\ OwnsIntake(p) /\ run'[p].work = work
  /\ \/ pc'[p] \in {"reserve", "prepare", "complete"}
     \/ pc'[p] = "job" /\ work.pub["manual"].state = "published"

LEMMA AfterCollectionGoes ==
  ASSUME MediaInv, NEW p \in Workers, NEW work, AfterCollection(p, work)
  PROVE  Ends(p) \/ AfterStep(p, work)
<1>. DEFINE manual == work.pub["manual"]
            step == CASE Due(manual) -> "prepare"
                      [] manual.state = "published" /\ manual.confirmed -> "job"
                      [] OTHER -> "complete"
            locals == [run[p] EXCEPT !.work = work, !.type = "manual"]
<1>1. step \in {"prepare", "complete"} \/ (step = "job" /\ manual.state = "published")
  BY DEF Due
<1>2. Checked(p, step, locals)
  BY DEF AfterCollection
<1>3. locals.work = work
  BY InvParts DEF RunRecord
<1>. HIDE DEF step, locals
<1>4. Ends(p) \/ Continues(p, step, locals)
  BY <1>2, CheckedGoes
<1>. QED
  BY <1>1, <1>3, <1>4 DEF Continues, AfterStep

LEMMA AfterCleanGoes ==
  ASSUME MediaInv, NEW p \in Workers, NEW work, AfterClean(p, work)
  PROVE  Ends(p) \/ AfterStep(p, work)
<1>. DEFINE locals == [run[p] EXCEPT !.work = work, !.type = "collection"]
<1>1. locals.work = work
  BY InvParts DEF RunRecord
<1>2. CASE Checked(p, "reserve", locals)
  <2>. HIDE DEF locals
  <2>1. Ends(p) \/ Continues(p, "reserve", locals)
    BY <1>2, CheckedGoes
  <2>. QED
    BY <1>1, <2>1 DEF Continues, AfterStep
<1>3. CASE AfterCollection(p, work)
  BY <1>3, AfterCollectionGoes
<1>. QED
  BY <1>2, <1>3 DEF AfterClean

LEMMA ByVerdictGoes ==
  ASSUME MediaInv, NEW p \in Workers, NEW scan, NEW work, ByVerdict(p, scan, work)
  PROVE  Ends(p) \/ AfterStep(p, work)
BY EndsGo, AfterCleanGoes DEF ByVerdict

-----------------------------------------------------------------------------
(* Where each step leads.                                                  *)

AtWork == {"get_asset", "source", "create_asset", "upload", "persist", "reserve", "prepare",
           "fail_manual"}
Calling == {"publish", "settle"}

Elsewhere == WorkerSteps \ (AtWork \cup Calling \cup {"job"})

\* The run leaves the work at its service: it ends, acknowledges, claims or explains.
Leaves(p) ==
  /\ Stays(p) /\ pc'[p] \notin AtWork \cup Calling \cup {"job"}
  /\ run'[p].work \in {NoWork, run[p].work}

LEMMA EndsLeaves ==
  ASSUME MediaInv, NEW p \in Workers PROVE (Ends(p) => Leaves(p)) /\ (Acknowledge(p) => Leaves(p))
<1>1. run[p] \in RunRecord
  BY InvParts
<1>2. Ends(p) => Leaves(p)
  BY DEF Ends, Leaves, EndSteps, AtWork, Calling
<1>3. Acknowledge(p) => Leaves(p)
  BY <1>1, GoesOn, EndingFields DEF Acknowledge, Leaves, AtWork, Calling
<1>. QED
  BY <1>2, <1>3

LEMMA GoLeaves ==
  ASSUME MediaInv, NEW p \in Workers, NEW step \in Elsewhere
  PROVE  /\ Go(p, step) => Leaves(p)
         /\ \A locals : GoWith(p, step, locals) /\ locals.work \in {NoWork, run[p].work} => Leaves(p)
BY GoesOn DEF Leaves, Elsewhere

LEMMA OtherSteps ==
  {"ack", "claim", "explain", "claim_delete", "block_unclaimed", "load", "explain_delete",
   "load_delete", "remove", "retry_delete", "compensate"} \cup EndSteps \subseteq Elsewhere
BY DEF Elsewhere, AtWork, Calling, EndSteps, WorkerSteps, IntakeSteps, DeleteSteps

LEMMA EndingLeaves ==
  ASSUME MediaInv, NEW p \in Workers,
         \/ ExplainIntake(p) \/ BlockUnclaimed(p) \/ Complete(p)
         \/ BlockUncertain(p) \/ Hold(p) \/ BlockOwned(p) \/ Release(p) \/ FailIntake(p)
         \/ TombstoneWork(p) \/ ExplainDelete(p) \/ CompleteDelete(p) \/ ReleaseDelete(p)
  PROVE  Leaves(p)
<1>1. CASE Acknowledge(p) \/ Finish(p)
  BY <1>1, EndsGo, EndsLeaves
<1>2. CASE ExplainIntake(p)
  BY <1>1, <1>2, GoLeaves, OtherSteps DEF ExplainIntake
<1>. QED
  BY <1>1, <1>2
  DEF BlockUnclaimed, Complete, BlockUncertain, Hold, BlockOwned, Release, FailIntake,
      TombstoneWork, ExplainDelete, CompleteDelete, ReleaseDelete

LEMMA PassingLeaves ==
  ASSUME MediaInv, NEW p \in Workers,
         \/ RememberAsset(p) \/ CompensateOwner(p) \/ FinishCompensation(p) \/ ClaimIntake(p)
         \/ ClaimDelete(p) \/ LoadDelete(p) \/ RemoveOwner(p)
         \/ DeleteMessage(p) \/ TransientError(p) \/ WorkerStops(p)
         \/ \E m \in Messages : ReceiveMessage(p, m)
  PROVE  Leaves(p)
<1>1. run[p] \in RunRecord /\ run[p].next \in {"idle", "hold", "block"}
  BY InvParts
<1>3. CASE RememberAsset(p)
  <2>1. PICK locals : GoWith(p, run[p].next, locals) /\ locals \in {NoRun, Ending(p)}
    BY <1>3 DEF RememberAsset
  <2>. QED
    BY <1>1, <2>1, GoLeaves, OtherSteps, EndingFields DEF EndSteps
<1>4. CASE CompensateOwner(p)
  <2>. DEFINE rest == [run[p] EXCEPT !.owners = Tail(run[p].owners)]
              kept == [rest EXCEPT !.failed = TRUE]
  <2>1. rest.work = run[p].work /\ kept.work = run[p].work
    BY <1>1 DEF RunRecord
  <2>2. GoWith(p, "compensate", rest) \/ GoWith(p, "compensate", kept)
    BY <1>4 DEF CompensateOwner
  <2>. HIDE DEF rest, kept
  <2>. QED
    BY <2>1, <2>2, GoLeaves, OtherSteps
<1>5. CASE FinishCompensation(p)
  <2>1. PICK step \in EndSteps : GoWith(p, step, Ending(p))
    BY <1>5 DEF FinishCompensation, EndSteps
  <2>. QED
    BY <1>1, <2>1, GoLeaves, OtherSteps, EndingFields
<1>6. ASSUME NEW op, NEW step \in {"load", "load_delete"},
             GoWith(p, step, [run[p] EXCEPT !.claim = op])
      PROVE  Leaves(p)
  <2>. DEFINE locals == [run[p] EXCEPT !.claim = op]
  <2>1. locals.work = run[p].work /\ GoWith(p, step, locals)
    BY <1>1, <1>6 DEF RunRecord
  <2>. HIDE DEF locals
  <2>. QED
    BY <2>1, GoLeaves, OtherSteps
<1>7. ASSUME NEW owners, GoWith(p, "remove", [run[p] EXCEPT !.owners = owners]) PROVE Leaves(p)
  <2>. DEFINE locals == [run[p] EXCEPT !.owners = owners]
  <2>1. locals.work = run[p].work /\ GoWith(p, "remove", locals)
    BY <1>1, <1>7 DEF RunRecord
  <2>. HIDE DEF locals
  <2>. QED
    BY <2>1, GoLeaves, OtherSteps
<1>8. CASE Finish(p) \/ (\E error : Retry(p, error))
  BY <1>8, EndsGo, EndsLeaves
<1>9. CASE ClaimIntake(p) \/ ClaimDelete(p)
  BY <1>6, <1>9, GoLeaves, OtherSteps DEF ClaimIntake, ClaimDelete
<1>10. CASE LoadDelete(p) \/ RemoveOwner(p)
  BY <1>7, <1>8, <1>10, GoLeaves, OtherSteps DEF LoadDelete, RemoveOwner
<1>11. CASE DeleteMessage(p) \/ TransientError(p) \/ WorkerStops(p)
  BY <1>8, <1>11 DEF DeleteMessage, TransientError, WorkerStops
<1>12. ASSUME NEW m \in Messages, ReceiveMessage(p, m) PROVE Leaves(p)
  <2>. DEFINE locals == [NoRun EXCEPT !.message = m]
  <2>1. locals.work = NoWork /\ GoWith(p, "claim", locals)
    BY <1>12 DEF ReceiveMessage, NoRun
  <2>. HIDE DEF locals
  <2>. QED
    BY <2>1, GoLeaves, OtherSteps
<1>. QED
  BY <1>3, <1>4, <1>5, <1>9, <1>10, <1>11, <1>12

\* The run goes on with the work it has, or with the rows as they are, in front of no other
\* attempt.
Works(p) ==
  /\ Stays(p)
  /\ \/ pc'[p] \in AtWork \cup {"complete"}
     \/ pc'[p] = "job" /\ run'[p].work.pub["manual"].state = "published"
  /\ \/ run'[p].work.pub["manual"] = run[p].work.pub["manual"]
     \/ run'[p].work.pub["manual"].state = publication["manual"].state
  /\ \/ OwnsIntake(p) => ~OpenAttempt
     \/ pc[p] \in AtWork
     \/ pc[p] = "settle" /\ run[p].type = "collection"

LEMMA LoadedSave ==
  ASSUME StoreTypeOK
  PROVE  /\ Loaded.pub["manual"].state = publication["manual"].state
         /\ [Loaded EXCEPT !.asset = TRUE].pub["manual"].state = publication["manual"].state
BY OutboxTypes DEF Loaded, PublicationRow

LEMMA ContinuesWorks ==
  ASSUME MediaInv, NEW p \in Workers, NEW step \in AtWork, NEW locals, Continues(p, step, locals),
         \/ locals.work = run[p].work
         \/ locals.work.pub["manual"].state = publication["manual"].state,
         (OwnsIntake(p) => ~OpenAttempt) \/ pc[p] \in AtWork
  PROVE  Works(p)
BY DEF Continues, Works

LEMMA AfterStepWorks ==
  ASSUME MediaInv, NEW p \in Workers, NEW work, AfterStep(p, work), pc[p] \in AtWork,
         work.pub["manual"].state = publication["manual"].state
  PROVE  Works(p)
BY DEF AfterStep, Works, AtWork

LEMMA LoadIntakeWorks ==
  ASSUME MediaInv, NEW p \in Workers, LoadIntake(p) PROVE Ends(p) \/ Works(p)
<1>. DEFINE locals == [run[p] EXCEPT !.work = Loaded]
            step == IF ingest.asset THEN "get_asset" ELSE "source"
<1>1. locals.work = Loaded
  BY InvParts DEF RunRecord
<1>2. step \in AtWork
  BY DEF AtWork
<1>3. CASE GoWith(p, "uncertain", Ending(p))
  BY <1>3, EndsGo DEF EndSteps
<1>4. CASE (OwnsIntake(p) => ~OpenAttempt) /\ Checked(p, step, locals)
  <2>. HIDE DEF locals, step
  <2>1. Ends(p) \/ Continues(p, step, locals)
    BY <1>4, CheckedGoes
  <2>2. locals.work.pub["manual"].state = publication["manual"].state
    BY <1>1, InvParts, LoadedSave
  <2>. QED
    BY <1>2, <1>4, <2>1, <2>2, ContinuesWorks
<1>. QED
  BY <1>3, <1>4 DEF LoadIntake

LEMMA DownloadSourceWorks ==
  ASSUME MediaInv, NEW p \in Workers, DownloadSource(p) PROVE Ends(p) \/ Works(p)
<1>1. pc[p] \in AtWork /\ "create_asset" \in AtWork /\ "fail" \in EndSteps
  BY DEF DownloadSource, AtWork, EndSteps
<1>2. Ends(p) \/ Continues(p, "create_asset", run[p])
  BY <1>1, CheckedGoes, EndsGo DEF DownloadSource
<1>. QED
  BY <1>1, <1>2, ContinuesWorks

LEMMA CreateAssetWorks ==
  ASSUME MediaInv, NEW p \in Workers, CreateAsset(p) PROVE Ends(p) \/ Works(p)
<1>. DEFINE locals == [run[p] EXCEPT !.scan = asset.scan]
<1>1. locals.work = run[p].work
  BY InvParts DEF RunRecord
<1>2. pc[p] \in AtWork /\ "upload" \in AtWork /\ "persist" \in AtWork
  BY DEF CreateAsset, AtWork
<1>3. \/ AssetChecked(p, "upload", run[p]) \/ AssetChecked(p, "persist", locals)
      \/ Retry(p, "retryable") \/ Compensate(p, run[p].work)
  BY DEF CreateAsset
<1>. HIDE DEF locals
<1>4. Ends(p) \/ Continues(p, "upload", run[p]) \/ Continues(p, "persist", locals)
  BY <1>3, AssetCheckedGoes, EndsGo
<1>. QED
  BY <1>1, <1>2, <1>4, ContinuesWorks

LEMMA UploadAssetWorks ==
  ASSUME MediaInv, NEW p \in Workers, UploadAsset(p) PROVE Ends(p) \/ Works(p)
<1>1. pc[p] \in AtWork /\ "persist" \in AtWork
  BY DEF UploadAsset, AtWork
<1>2. AssetChecked(p, "persist", run[p]) \/ Retry(p, "retryable") \/ Compensate(p, run[p].work)
  BY DEF UploadAsset
<1>3. Ends(p) \/ Continues(p, "persist", run[p])
  BY <1>2, AssetCheckedGoes, EndsGo
<1>. QED
  BY <1>1, <1>3, ContinuesWorks

LEMMA PersistAssetWorks ==
  ASSUME MediaInv, NEW p \in Workers, PersistAsset(p) PROVE Ends(p) \/ Works(p)
<1>. DEFINE work == [Loaded EXCEPT !.asset = TRUE]
<1>1. pc[p] \in AtWork /\ work.pub["manual"].state = publication["manual"].state
  BY InvParts, LoadedSave DEF PersistAsset, AtWork
<1>2. \/ ByVerdict(p, run[p].scan, work) \/ Retry(p, "retryable")
      \/ GoWith(p, "remember", Ending(p))
  BY DEF PersistAsset
<1>. HIDE DEF work
<1>3. Ends(p) \/ AfterStep(p, work)
  BY <1>2, ByVerdictGoes, EndsGo DEF EndSteps
<1>. QED
  BY <1>1, <1>3, AfterStepWorks

LEMMA GetAssetWorks ==
  ASSUME MediaInv, NEW p \in Workers, GetAsset(p) PROVE Ends(p) \/ Works(p)
<1>1. pc[p] \in AtWork /\ Loaded.pub["manual"].state = publication["manual"].state
  BY InvParts, LoadedSave DEF GetAsset, AtWork
<1>2. ByVerdict(p, asset.scan, Loaded) \/ Rejected(p) \/ Compensate(p, run[p].work)
  BY DEF GetAsset
<1>3. Ends(p) \/ AfterStep(p, Loaded)
  BY <1>2, ByVerdictGoes, EndsGo
<1>. QED
  BY <1>1, <1>3, AfterStepWorks

LEMMA PrepareManualWorks ==
  ASSUME MediaInv, NEW p \in Workers, PrepareManual(p) PROVE Ends(p) \/ Works(p)
<1>1. pc[p] \in AtWork /\ "reserve" \in AtWork /\ "fail_manual" \in AtWork
  BY DEF PrepareManual, AtWork
<1>2. \/ Checked(p, "reserve", run[p]) \/ Finish(p) \/ Go(p, "fail_manual") \/ Retry(p, "other")
  BY DEF PrepareManual
<1>3. Ends(p) \/ Continues(p, "reserve", run[p]) \/ Go(p, "fail_manual")
  BY <1>2, CheckedGoes, EndsGo
<1>4. Go(p, "fail_manual") => Works(p)
  BY <1>1, GoesOn DEF Works
<1>. QED
  BY <1>1, <1>3, <1>4, ContinuesWorks

LEMMA SettleJobGoes ==
  ASSUME MediaInv, NEW p \in Workers, SettleJob(p)
  PROVE  Ends(p) \/ Continues(p, "complete", run[p])
<1>1. Checked(p, "complete", run[p]) \/ Retry(p, "other")
  BY DEF SettleJob
<1>. QED
  BY <1>1, CheckedGoes, EndsGo

\* Where a call goes that can only end the run or reach its own next step.
LEMMA ReserveGoes ==
  ASSUME MediaInv, NEW p \in Workers, Reserve(p)
  PROVE  \/ Ends(p)
         \/ /\ ReservePublication(run[p].type, p) /\ Stays(p)
            /\ pc'[p] = "publish" /\ run'[p] = run[p]
<1>1. \/ ReservePublication(run[p].type, p) /\ Go(p, "publish")
      \/ Retry(p, "retryable") \/ Finish(p)
  BY DEF Reserve
<1>. QED
  BY <1>1, GoesOn, EndsGo

LEMMA PublishGoes ==
  ASSUME MediaInv, NEW p \in Workers, Publish(p)
  PROVE  \/ Ends(p)
         \/ /\ Stays(p) /\ pc'[p] = "settle"
            /\ run'[p].work = run[p].work /\ run'[p].type = run[p].type
<1>1. ASSUME NEW owned \in BOOLEAN, GoWith(p, "settle", [run[p] EXCEPT !.owned = owned])
      PROVE  /\ Stays(p) /\ pc'[p] = "settle"
             /\ run'[p].work = run[p].work /\ run'[p].type = run[p].type
  <2>. DEFINE locals == [run[p] EXCEPT !.owned = owned]
  <2>1. locals.work = run[p].work /\ locals.type = run[p].type /\ GoWith(p, "settle", locals)
    BY <1>1, InvParts DEF RunRecord
  <2>. HIDE DEF locals
  <2>. QED
    BY <2>1, GoesOn
<1>2. GoWith(p, "uncertain", Ending(p)) => Ends(p)
  BY EndsGo DEF EndSteps
<1>. QED
  BY <1>1, <1>2 DEF Publish

LEMMA SettleGoes ==
  ASSUME MediaInv, NEW p \in Workers, Settle(p)
  PROVE  \/ Ends(p)
         \/ /\ SettlePublication(run[p].type, p, run[p].owned) /\ run[p].type = "collection"
            /\ AfterStep(p, Settled(p))
         \/ /\ SettlePublication(run[p].type, p, run[p].owned) /\ run[p].type = "manual"
            /\ Stays(p) /\ pc'[p] = "job" /\ run'[p].work = Settled(p)
<1>. DEFINE locals == [run[p] EXCEPT !.work = Settled(p)]
<1>1. locals.work = Settled(p) /\ run[p].type \in {"collection", "manual"}
  BY InvParts DEF RunRecord, PublicationTypes
<1>2. CASE GoWith(p, "uncertain", Ending(p))
  BY <1>2, EndsGo DEF EndSteps
<1>3. CASE SettlePublication(run[p].type, p, run[p].owned) /\ GoWith(p, "job", locals)
           /\ run[p].type # "collection"
  <2>. HIDE DEF locals
  <2>. QED
    BY <1>1, <1>3, GoesOn
<1>4. CASE SettlePublication(run[p].type, p, run[p].owned) /\ run[p].type = "collection"
           /\ AfterCollection(p, Settled(p))
  BY <1>4, AfterCollectionGoes
<1>. QED
  BY <1>2, <1>3, <1>4 DEF Settle

LEMMA FailManualGoes ==
  ASSUME MediaInv, NEW p \in Workers, FailManual(p)
  PROVE  \/ Ends(p)
         \/ FailManualPublication(p) /\ pc[p] = "fail_manual" /\ Stays(p) /\ pc'[p] = "job"
            /\ run'[p].work.pub["manual"].state = "failed"
<1>. DEFINE locals == [run[p] EXCEPT !.work.pub["manual"].state = "failed"]
<1>1. locals.work.pub["manual"].state = "failed"
  BY InvParts, OutboxTypes DEF RunRecord, PublicationRow
<1>2. CASE FailManualPublication(p) /\ GoWith(p, "job", locals)
  <2>. HIDE DEF locals
  <2>. QED
    BY <1>1, <1>2, GoesOn DEF FailManual
<1>3. CASE Finish(p)
  BY <1>3, EndsGo
<1>. QED
  BY <1>2, <1>3 DEF FailManual

LEMMA OthersStay ==
  ASSUME MediaInv, NEW p \in Workers, Worker(p) PROVE Stays(p)
<1>1. /\ Leaves(p) => Stays(p)
      /\ Ends(p) => Stays(p)
      /\ Works(p) => Stays(p)
      /\ AfterStep(p, Settled(p)) => Stays(p)
      /\ Continues(p, "complete", run[p]) => Stays(p)
  BY DEF Leaves, Ends, Works, AfterStep, Continues
<1>2. CASE Reserve(p) \/ Publish(p) \/ Settle(p) \/ FailManual(p)
  BY <1>1, <1>2, ReserveGoes, PublishGoes, SettleGoes, FailManualGoes
<1>3. CASE \/ LoadIntake(p) \/ DownloadSource(p) \/ CreateAsset(p) \/ UploadAsset(p)
           \/ PersistAsset(p) \/ GetAsset(p) \/ PrepareManual(p) \/ SettleJob(p)
  BY <1>1, <1>3, LoadIntakeWorks, DownloadSourceWorks, CreateAssetWorks, UploadAssetWorks,
     PersistAssetWorks, GetAssetWorks, PrepareManualWorks, SettleJobGoes
<1>. QED
  BY <1>1, <1>2, <1>3, EndingLeaves, PassingLeaves DEF Worker

-----------------------------------------------------------------------------
(* A run is started by its claim, or by the reason a claim was refused.    *)

Early == {"idle", "claim", "explain", "ack"}

\* Only a claim, or the reason given for a refused one, starts a run.
LEMMA StartedKept ==
  ASSUME MediaInv, RowsInv, RowsSteady, NEW p \in Workers, Worker(p) PROVE Started'
<1>1. Stays(p) /\ (Received => Received') /\ EntriesShaped
  BY OthersStay DEF RowsSteady, Onward, RowsInv
<1>2. pc'[p] \notin Early => Received'
  <2>1. CASE pc[p] \notin Early
    BY <1>1, <2>1 DEF RowsInv, Started, Early
  <2>2. CASE ClaimIntake(p)
    <3>1. StoreTypeOK /\ "intake" \in Operations
      BY InvParts, OutboxTypes
    <3>2. CASE ClaimWork("intake", p)
      BY <1>1, <3>1, <3>2, ClaimWorkSteady
    <3>3. CASE Go(p, "explain")
      BY <3>3, GoesTo DEF Early
    <3>. QED
      BY <2>2, <3>2, <3>3 DEF ClaimIntake
  <2>3. CASE ExplainIntake(p)
    <3>1. CASE Acknowledge(p) \/ Finish(p)
      BY <3>1, GoesTo DEF Early
    <3>2. CASE Disposition("intake") \in {"terminal", "unavailable"}
      BY <1>1, <3>2 DEF Disposition, EntriesShaped
    <3>. QED
      BY <2>3, <3>1, <3>2 DEF ExplainIntake
  <2>4. CASE DeleteMessage(p) \/ WorkerStops(p)
    BY <2>4, GoesTo DEF DeleteMessage, WorkerStops, Early
  <2>5. ASSUME NEW m \in Messages, ReceiveMessage(p, m) PROVE pc'[p] \in Early
    BY <2>5, GoesTo DEF ReceiveMessage, Early
  <2>6. CASE pc[p] \in {"idle", "claim", "explain", "ack"}
            /\ ~ClaimIntake(p) /\ ~ExplainIntake(p) /\ ~DeleteMessage(p) /\ ~WorkerStops(p)
            /\ ~\E m \in Messages : ReceiveMessage(p, m)
    BY <2>6
    DEF Worker, BlockUnclaimed, LoadIntake, DownloadSource, CreateAsset, UploadAsset, RememberAsset,
        PersistAsset, GetAsset, Reserve, Publish, Settle, PrepareManual, FailManual, SettleJob,
        Complete, BlockUncertain, Hold, BlockOwned, Release, FailIntake, CompensateOwner,
        FinishCompensation, TombstoneWork, ClaimDelete, ExplainDelete, LoadDelete, RemoveOwner,
        CompleteDelete, ReleaseDelete, TransientError
  <2>. QED
    BY <2>1, <2>2, <2>3, <2>4, <2>5, <2>6 DEF Early
<1>. QED
  BY <1>1, <1>2 DEF RowsInv, Started, Stays, Early

LEMMA RowsKept ==
  ASSUME MediaInv, RowsInv, [Next]_vars PROVE RowsInv' /\ RowsSteady
<1>1. StoreTypeOK /\ EntriesShaped /\ Surroundings
  BY DEF MediaInv, RowsInv
<1>2. ASSUME RowsSteady, UNCHANGED pc PROVE RowsInv'
  BY <1>2 DEF RowsInv, RowsSteady, Onward, Started
<1>3. CASE UNCHANGED vars
  BY <1>1, <1>2, <1>3, UnchangedSteady, SteadyRows DEF vars
<1>4. ASSUME NEW d \in Dispatchers, Dispatcher(d) PROVE RowsInv' /\ RowsSteady
  BY <1>1, <1>2, <1>4, DispatcherSteadyRows
  DEF Dispatches, Dispatcher, ClaimForDispatch, DispatcherSends, DispatcherMarks,
      dispatcherUnchanged
<1>5. ASSUME NEW p \in Workers, Worker(p) PROVE RowsInv' /\ RowsSteady
  <2>1. RowsSteady
    BY <1>5, WorkerSteady, SteadyRows DEF Takes, Reserves, Cleans
  <2>. QED
    BY <1>5, <2>1, StartedKept DEF RowsInv, RowsSteady
<1>6. CASE Environment
  BY <1>1, <1>2, <1>6, EnvironmentSteadyRows, SteadyRows
  DEF Environment, LeaseEnds, MessageReappears, Scanner, Administer, Withdraw, ConfirmManual
<1>. QED
  BY <1>3, <1>4, <1>5, <1>6 DEF Next

LEMMA RowsAtStart ==
  ASSUME Init PROVE RowsInv
BY DEF Init, StoreInit, RowsInv, EntriesShaped, Started, NoEntry, Received, Withdrawn, Operations

-----------------------------------------------------------------------------
(* What the agent job tells of the manual save.                            *)

\* What a run knows of the save: nobody else works on it under its lease, and what it has
\* read of the row still holds.
SavePlace(p) ==
  /\ OwnsIntake(p)
     /\ (pc[p] \in AtWork \/ (pc[p] \in Calling /\ run[p].type = "collection")) => ~Save.open
  /\ run[p].work.pub["manual"].state = "published" => Decided
  /\ pc[p] = "job" /\ run[p].work.pub["manual"].state # "published" => LostForGood

JobKnows ==
  /\ job = "completed" => Decided
  /\ job = "failed" => LostForGood

SaveInv == JobKnows /\ \A p \in Workers : SavePlace(p)

\* A run that stays at its place, and gets no lease.
LEMMA SavePlaceStays ==
  ASSUME NEW q \in Workers, SavePlace(q), Onward, pc'[q] = pc[q], run'[q] = run[q],
         Owns("intake", q)' => Owns("intake", q),
         OwnsIntake(q) /\ Save'.open => Save.open
  PROVE  SavePlace(q)'
BY DEF SavePlace, Onward, OwnsIntake, Calling, AtWork

LEMMA SaveLeaves ==
  ASSUME MediaInv, NEW p \in Workers, SavePlace(p), Onward, Leaves(p)
  PROVE  SavePlace(p)'
<1>1. NoWork.pub["manual"].state = "none"
  BY DEF NoWork, NoPublication, PublicationTypes
<1>. QED
  BY <1>1 DEF SavePlace, Leaves, Onward, AtWork, Calling

LEMMA SaveWorks ==
  ASSUME MediaInv, NEW p \in Workers, SavePlace(p), Onward, NoneOpened, NoneClaimed, Works(p)
  PROVE  SavePlace(p)'
<1>1. /\ OwnsIntake(p)' => OwnsIntake(p)
      /\ "manual" \in PublicationTypes
  BY DEF NoneClaimed, OwnsIntake, Onward, Operations, Claimants, PublicationTypes
<1>2. OwnsIntake(p) => ~Save.open
  BY <1>1 DEF Works, SavePlace, OpenAttempt, Save, Calling
<1>3. OwnsIntake(p)' => ~Save'.open
  BY <1>1, <1>2 DEF NoneOpened, Save
<1>4. run'[p].work.pub["manual"].state = "published" => Decided'
  BY DEF Works, SavePlace, Onward, Decided, Save
<1>5. pc'[p] = "job" => run'[p].work.pub["manual"].state = "published"
  BY DEF Works, AtWork
<1>. QED
  BY <1>3, <1>4, <1>5 DEF SavePlace

LEMMA SettledWork ==
  ASSUME MediaInv, NEW p \in Workers
  PROVE  /\ run[p].type = "collection" =>
              Settled(p).pub["manual"] = run[p].work.pub["manual"]
         /\ run[p].type = "manual" =>
              Settled(p).pub["manual"].state = IF run[p].owned THEN "published" ELSE "failed"
BY InvParts DEF Settled, WorkRecord, PublicationTypes, PublicationRow

LEMMA SettledSave ==
  ASSUME StoreTypeOK, NEW p \in Workers, NEW target \in BOOLEAN,
         SettlePublication("manual", p, target)
  PROVE  Decided' /\ (~target => LostForGood')
<1>. DEFINE row == [publication["manual"] EXCEPT !.open = FALSE, !.target = target,
                      !.blocked = FALSE,
                      !.state = IF Withdrawn THEN "revoked"
                                ELSE IF target THEN "published" ELSE "failed"]
<1>1. /\ row.open = FALSE
      /\ row.state = IF Withdrawn THEN "revoked" ELSE IF target THEN "published" ELSE "failed"
  BY OutboxTypes DEF PublicationRow
<1>2. publication'["manual"] = row
  BY OutboxTypes DEF SettlePublication, StoreTypeOK
<1>. HIDE DEF row
<1>. QED
  BY <1>1, <1>2 DEF Decided, LostForGood, Save

LEMMA FailedSave ==
  ASSUME StoreTypeOK, NEW p \in Workers, FailManualPublication(p), ~Save.open
  PROVE  Decided' /\ LostForGood'
BY OutboxTypes DEF FailManualPublication, StoreTypeOK, PublicationRow, Decided, LostForGood, Save

\* Where a lease lets a run be, when the rows change under it.
LEMMA LeaseNotGained ==
  ASSUME NEW p \in Workers, Onward, NoneClaimed
  PROVE  OwnsIntake(p)' => OwnsIntake(p)
BY DEF NoneClaimed, OwnsIntake, Onward, Operations, Claimants

LEMMA ReserveKnowsSave ==
  ASSUME MediaInv, RowsInv, NEW p \in Workers, SavePlace(p), Reserve(p), Onward,
         Steady \/ Reserves(p)
  PROVE  SavePlace(p)'
<1>1. CASE Leaves(p)
  BY <1>1, SaveLeaves
<1>2. CASE ReservePublication(run[p].type, p) /\ pc'[p] = "publish" /\ run'[p] = run[p]
  <2>1. StoreTypeOK /\ EntriesShaped /\ run[p].type \in PublicationTypes
    BY InvParts DEF RowsInv
  <2>2. /\ NoneClaimed
        /\ \A u \in PublicationTypes \ {run[p].type} : publication'[u] = publication[u]
    BY <1>2, <2>1, ReserveSteady
  <2>3. pc[p] \in AtWork
    BY DEF Reserve, AtWork
  <2>4. OwnsIntake(p)' => ~Save.open
    BY <2>2, <2>3, LeaseNotGained DEF SavePlace
  <2>5. run[p].type = "collection" => Save' = Save
    BY <2>2 DEF Save, PublicationTypes
  <2>. QED
    BY <1>2, <2>4, <2>5 DEF SavePlace, Onward, AtWork, Calling
<1>. QED
  BY <1>1, <1>2, EndsLeaves, ReserveGoes

LEMMA PublishKnowsSave ==
  ASSUME MediaInv, NEW p \in Workers, SavePlace(p), Publish(p), Onward
  PROVE  SavePlace(p)'
<1>1. CASE Leaves(p)
  BY <1>1, SaveLeaves
<1>2. CASE pc'[p] = "settle" /\ run'[p].work = run[p].work /\ run'[p].type = run[p].type
  <2>1. UNCHANGED <<publication, outbox, ingest>> /\ pc[p] = "publish"
    BY DEF Publish, storeVars
  <2>. QED
    BY <1>2, <2>1 DEF SavePlace, Calling, AtWork, OwnsIntake, Owns, Withdrawn, Save, Decided
<1>. QED
  BY <1>1, <1>2, EndsLeaves, PublishGoes

LEMMA SettleKnowsSave ==
  ASSUME MediaInv, NEW p \in Workers, SavePlace(p), Settle(p), Onward, NoneOpened, NoneClaimed
  PROVE  SavePlace(p)'
<1>0. StoreTypeOK /\ run[p].owned \in BOOLEAN /\ pc[p] = "settle"
  BY InvParts DEF Settle
<1>1. CASE Leaves(p)
  BY <1>1, SaveLeaves
<1>2. CASE run[p].type = "collection" /\ AfterStep(p, Settled(p))
  <2>1. Settled(p).pub["manual"] = run[p].work.pub["manual"]
    BY <1>2, SettledWork
  <2>2. Works(p)
    BY <1>0, <1>2, <2>1 DEF AfterStep, Works, AtWork
  <2>. QED
    BY <2>2, SaveWorks
<1>3. CASE /\ SettlePublication(run[p].type, p, run[p].owned) /\ run[p].type = "manual"
           /\ pc'[p] = "job" /\ run'[p].work = Settled(p)
  <2>1. Decided' /\ (~run[p].owned => LostForGood')
    BY <1>0, <1>3, SettledSave
  <2>2. run[p].owned => run'[p].work.pub["manual"].state = "published"
    BY <1>3, SettledWork
  <2>. QED
    BY <1>0, <1>3, <2>1, <2>2 DEF SavePlace, AtWork, Calling
<1>. QED
  BY <1>1, <1>2, <1>3, EndsLeaves, SettleGoes

LEMMA FailManualKnowsSave ==
  ASSUME MediaInv, NEW p \in Workers, SavePlace(p), FailManual(p), Onward
  PROVE  SavePlace(p)'
<1>1. CASE Leaves(p)
  BY <1>1, SaveLeaves
<1>2. CASE FailManualPublication(p) /\ pc[p] = "fail_manual" /\ pc'[p] = "job"
           /\ run'[p].work.pub["manual"].state = "failed"
  <2>1. ~Save.open
    BY <1>2 DEF SavePlace, FailManualPublication, CanFailManual, AtWork
  <2>2. Decided' /\ LostForGood'
    BY <1>2, <2>1, InvParts, FailedSave
  <2>. QED
    BY <1>2, <2>2 DEF SavePlace, AtWork, Calling
<1>. QED
  BY <1>1, <1>2, EndsLeaves, FailManualGoes

LEMMA TakingLeaves ==
  ASSUME MediaInv, NEW p \in Workers, Worker(p), Takes(p) PROVE Leaves(p)
<1>1. CASE ClaimIntake(p) \/ ClaimDelete(p)
  BY <1>1, PassingLeaves
<1>2. pc[p] \in {"claim", "claim_delete"} /\ pc'[p] \in {"load", "load_delete"}
  BY DEF Takes
<1>3. CASE WorkerStops(p)
  BY <1>3, PassingLeaves
<1>. QED
  BY <1>1, <1>2, <1>3
  DEF Worker, ReceiveMessage, ExplainIntake, BlockUnclaimed, LoadIntake, DownloadSource, CreateAsset, UploadAsset, RememberAsset,
      PersistAsset, GetAsset, Reserve, Publish, Settle, PrepareManual, FailManual, SettleJob,
      Complete, BlockUncertain, Hold, BlockOwned, Release, FailIntake, CompensateOwner,
      FinishCompensation, TombstoneWork, ExplainDelete, LoadDelete, RemoveOwner,
      CompleteDelete, ReleaseDelete, TransientError, DeleteMessage

LEMMA CleansLeaves ==
  ASSUME MediaInv, NEW p \in Workers, Cleans(p) PROVE Leaves(p)
BY EndingLeaves DEF Cleans

LEMMA SettleJobLeaves ==
  ASSUME MediaInv, NEW p \in Workers, SettleJob(p) PROVE Leaves(p)
BY SettleJobGoes, EndsLeaves DEF Continues, Leaves, AtWork, Calling

LEMMA OwnSaveKept ==
  ASSUME MediaInv, RowsInv, NEW p \in Workers, SavePlace(p), Worker(p) PROVE SavePlace(p)'
<1>1. Onward
  BY WorkerSteady, SteadyRows DEF Takes, Reserves, Cleans, RowsSteady
<1>2. CASE Takes(p) \/ Cleans(p)
  BY <1>1, <1>2, TakingLeaves, CleansLeaves, SaveLeaves
<1>3. CASE Reserve(p) /\ (Steady \/ Reserves(p))
  BY <1>1, <1>3, ReserveKnowsSave
<1>4. CASE Steady
  <2>1. NoneOpened /\ NoneClaimed
    BY <1>4, SteadyRows
  <2>2. CASE Publish(p) \/ Settle(p) \/ FailManual(p)
    BY <1>1, <2>1, <2>2, PublishKnowsSave, SettleKnowsSave, FailManualKnowsSave
  <2>3. CASE \/ LoadIntake(p) \/ DownloadSource(p) \/ CreateAsset(p) \/ UploadAsset(p)
             \/ PersistAsset(p) \/ GetAsset(p) \/ PrepareManual(p) \/ SettleJob(p)
    <3>1. Leaves(p) \/ Works(p)
      BY <2>3, LoadIntakeWorks, DownloadSourceWorks, CreateAssetWorks, UploadAssetWorks,
         PersistAssetWorks, GetAssetWorks, PrepareManualWorks, SettleJobLeaves, EndsLeaves
    <3>. QED
      BY <1>1, <2>1, <3>1, SaveLeaves, SaveWorks
  <2>. QED
    BY <1>1, <1>3, <1>4, <2>2, <2>3, EndingLeaves, PassingLeaves, SaveLeaves DEF Worker
<1>. QED
  BY <1>2, <1>3, <1>4, WorkerSteady DEF Reserves

LEMMA OtherSaveKept ==
  ASSUME MediaInv, RowsInv, NEW p \in Workers, NEW q \in Workers \ {p}, SavePlace(q), Worker(p)
  PROVE  SavePlace(q)'
<1>1. Onward /\ pc'[q] = pc[q] /\ run'[q] = run[q]
  BY OthersStay, WorkerSteady, SteadyRows DEF Takes, Reserves, Cleans, RowsSteady, Stays
<1>2. Owns("intake", q)' => Owns("intake", q)
  BY WorkerSteady, SteadyRows
  DEF Takes, Reserves, Cleans, NoneClaimed, ClaimedOnly, Operations, Claimants
<1>3. OwnsIntake(q) /\ Save'.open => Save.open
  <2>1. CASE NoneOpened
    BY <2>1, OutboxTypes DEF NoneOpened, Save, PublicationTypes
  <2>2. CASE Reserves(p)
    BY <2>2 DEF Reserves, ReservePublication, CanReserve, OwnsIntake, Owns
  <2>. QED
    BY <2>1, <2>2, WorkerSteady, SteadyRows DEF Takes, Cleans
<1>. QED
  BY <1>1, <1>2, <1>3, SavePlaceStays

LEMMA JobKept ==
  ASSUME JobKnows, Onward, \A p \in Workers : SavePlace(p), [Next]_vars PROVE JobKnows'
<1>1. CASE job' = job \/ job' = "pending"
  BY <1>1 DEF JobKnows, Onward
<1>2. ASSUME NEW p \in Workers, SettleJob(p) PROVE JobKnows'
  <2>1. CASE run[p].work.pub["manual"].state = "published"
    <3>1. Decided /\ job' \in {"completed", job}
      BY <1>2, <2>1 DEF SettleJob, SavePlace
    <3>. QED
      BY <3>1 DEF JobKnows, Onward
  <2>2. CASE run[p].work.pub["manual"].state # "published"
    <3>1. LostForGood /\ job' \in {"completed", "failed", job}
      BY <1>2, <2>2 DEF SettleJob, SavePlace
    <3>2. Decided
      BY <3>1 DEF LostForGood, Decided
    <3>. QED
      BY <3>1, <3>2 DEF JobKnows, Onward
  <2>. QED
    BY <2>1, <2>2
<1>3. ASSUME NEW p \in Workers, Worker(p), ~SettleJob(p) PROVE job' = job
  BY <1>3
  DEF Worker, ReceiveMessage, ClaimIntake, ExplainIntake, BlockUnclaimed, LoadIntake, DownloadSource,
      CreateAsset, UploadAsset, RememberAsset, PersistAsset, GetAsset, Reserve, Publish, Settle,
      PrepareManual, FailManual, Complete, BlockUncertain, Hold, BlockOwned, Release, FailIntake,
      CompensateOwner, FinishCompensation, TombstoneWork, ClaimDelete, ExplainDelete, LoadDelete,
      RemoveOwner, CompleteDelete, ReleaseDelete, TransientError, DeleteMessage, WorkerStops,
      DeleteOwner, serviceVars, storeCallUnchanged
<1>4. ASSUME NEW d \in Dispatchers, Dispatcher(d) PROVE job' = job
  BY <1>4 DEF Dispatcher, ClaimForDispatch, DispatcherSends, DispatcherMarks, dispatcherUnchanged,
              serviceVars
<1>5. Environment => job' \in {job, "pending"}
  BY DEF Environment, LeaseEnds, MessageReappears, Scanner, Administer, Withdraw, ConfirmManual,
         serviceVars
<1>6. CASE UNCHANGED vars
  BY <1>1, <1>6 DEF vars, serviceVars
<1>. QED
  BY <1>1, <1>2, <1>3, <1>4, <1>5, <1>6 DEF Next

LEMMA SaveInvKept ==
  ASSUME MediaInv, RowsInv, SaveInv, [Next]_vars PROVE SaveInv'
<1>1. Onward /\ StoreTypeOK /\ EntriesShaped /\ Surroundings
  BY RowsKept DEF RowsSteady, MediaInv, RowsInv
<1>2. JobKnows'
  BY <1>1, JobKept DEF SaveInv
<1>3. ASSUME UNCHANGED <<pc, run>>, NoneOpened, NEW q \in Workers,
             Owns("intake", q)' => Owns("intake", q)
      PROVE  SavePlace(q)'
  <2>1. Save'.open => Save.open
    BY <1>3 DEF NoneOpened, Save, PublicationTypes
  <2>. QED
    BY <1>1, <1>3, <2>1, SavePlaceStays DEF SaveInv
<1>4. ASSUME UNCHANGED <<pc, run>>, Steady PROVE SaveInv'
  <2>1. ASSUME NEW q \in Workers PROVE Owns("intake", q)' => Owns("intake", q)
    BY <1>4, SteadyRows DEF NoneClaimed, Operations, Claimants
  <2>. QED
    BY <1>2, <1>3, <1>4, <2>1, SteadyRows DEF SaveInv
<1>5. CASE UNCHANGED vars
  BY <1>1, <1>4, <1>5, UnchangedSteady DEF vars
<1>6. ASSUME NEW d \in Dispatchers, Dispatcher(d) PROVE SaveInv'
  <2>1. UNCHANGED <<pc, run>>
    BY <1>6 DEF Dispatcher, ClaimForDispatch, DispatcherSends, DispatcherMarks, dispatcherUnchanged
  <2>2. NoneOpened /\ \A q \in Workers : Owns("intake", q)' => Owns("intake", q)
    BY <1>1, <1>6, DispatcherSteadyRows DEF Dispatches, Operations
  <2>. QED
    BY <1>2, <1>3, <2>1, <2>2 DEF SaveInv
<1>7. ASSUME NEW p \in Workers, Worker(p) PROVE SaveInv'
  BY <1>2, <1>7, OwnSaveKept, OtherSaveKept DEF SaveInv
<1>8. CASE Environment
  <2>1. UNCHANGED <<pc, run>>
    BY <1>8 DEF Environment, LeaseEnds, MessageReappears, Scanner, Administer, Withdraw, ConfirmManual
  <2>. QED
    BY <1>1, <1>4, <1>8, <2>1, EnvironmentSteadyRows
<1>. QED
  BY <1>5, <1>6, <1>7, <1>8 DEF Next

\* What the agent job of the manual save says is what became of the save, whichever worker
\* settled it, whoever withdrew the source or took the binding away in between, and whichever
\* of the two updates was lost.
THEOREM SaveIsTold == Spec => []JobTellsSave
<1>1. Init => RowsInv /\ SaveInv
  <2>. SUFFICES ASSUME Init PROVE RowsInv /\ SaveInv
    OBVIOUS
  <2>1. SaveInv
    BY DEF Init, StoreInit, SaveInv, JobKnows, SavePlace, AtWork, Calling, NoRun, NoWork, NoPublication,
           PublicationTypes
  <2>. QED
    BY <2>1, RowsAtStart
<1>2. MediaInv /\ RowsInv /\ SaveInv /\ [Next]_vars => RowsInv' /\ SaveInv'
  BY RowsKept, SaveInvKept
<1>3. SaveInv => JobTellsSave
  BY DEF SaveInv, JobKnows, JobTellsSave, Decided, LostForGood, Save
<1>. QED
  BY <1>1, <1>2, <1>3, MediaInvariant, PTL DEF Spec

-----------------------------------------------------------------------------
(* The deletion of the message and the removals come last in a run.        *)

\* Of the steps behind the intake lease, the acknowledgement and the removals, which a run
\* reaches from where.
Late == {"ack"} \cup DeleteSteps

LEMMA WorkIsNotLate ==
  ASSUME MediaInv, NEW p \in Workers,
         \/ LoadIntake(p) \/ DownloadSource(p) \/ CreateAsset(p) \/ UploadAsset(p)
         \/ PersistAsset(p) \/ GetAsset(p) \/ PrepareManual(p) \/ SettleJob(p)
         \/ Reserve(p) \/ Publish(p) \/ Settle(p) \/ FailManual(p)
  PROVE  pc'[p] \notin Late
<1>1. /\ Ends(p) => pc'[p] \notin Late
      /\ Works(p) => pc'[p] \notin Late
      /\ AfterStep(p, Settled(p)) => pc'[p] \notin Late
      /\ Continues(p, "complete", run[p]) => pc'[p] \notin Late
  BY DEF Ends, Works, AfterStep, Continues, EndSteps, AtWork, Late, DeleteSteps
<1>2. {"publish", "settle", "job"} \cap Late = {}
  BY DEF Late, DeleteSteps
<1>3. CASE Reserve(p) \/ Publish(p) \/ Settle(p) \/ FailManual(p)
  BY <1>1, <1>2, <1>3, ReserveGoes, PublishGoes, SettleGoes, FailManualGoes
<1>. QED
  BY <1>1, <1>3, LoadIntakeWorks, DownloadSourceWorks, CreateAssetWorks, UploadAssetWorks,
     PersistAssetWorks, GetAssetWorks, PrepareManualWorks, SettleJobGoes

LEMMA EarlyIsNotLate ==
  ASSUME MediaInv, NEW p \in Workers,
         \/ RememberAsset(p) \/ CompensateOwner(p) \/ FinishCompensation(p) \/ ClaimIntake(p)
         \/ DeleteMessage(p) \/ TransientError(p) \/ WorkerStops(p)
         \/ \E m \in Messages : ReceiveMessage(p, m)
  PROVE  pc'[p] \notin Late
<1>1. {"idle", "hold", "block", "compensate", "tombstone", "fail", "load", "explain", "retry", "claim"}
        \cap Late = {}
  BY DEF Late, DeleteSteps
<1>2. CASE RememberAsset(p)
  BY <1>1, <1>2, GoesTo, InvParts DEF RememberAsset
<1>3. CASE CompensateOwner(p)
  <2>1. \E locals : GoWith(p, "compensate", locals)
    BY <1>3 DEF CompensateOwner
  <2>. QED
    BY <1>1, <2>1, GoesTo
<1>4. CASE FinishCompensation(p)
  BY <1>1, <1>4, GoesTo DEF FinishCompensation
<1>5. CASE ClaimIntake(p)
  BY <1>1, <1>5, GoesTo DEF ClaimIntake
<1>6. CASE DeleteMessage(p) \/ TransientError(p) \/ WorkerStops(p)
  BY <1>1, <1>6, GoesTo DEF DeleteMessage, TransientError, WorkerStops
<1>7. ASSUME NEW m \in Messages, ReceiveMessage(p, m) PROVE pc'[p] \notin Late
  BY <1>1, <1>7, GoesTo DEF ReceiveMessage
<1>. QED
  BY <1>2, <1>3, <1>4, <1>5, <1>6, <1>7

LEMMA RemovalGoes ==
  ASSUME MediaInv, NEW p \in Workers, Worker(p), pc'[p] = "remove"
  PROVE  LoadDelete(p) \/ RemoveOwner(p)
<1>1. pc'[p] \in Late
  BY DEF Late, DeleteSteps
<1>2. CASE \/ ExplainIntake(p) \/ BlockUnclaimed(p) \/ Complete(p) \/ BlockUncertain(p) \/ Hold(p)
           \/ BlockOwned(p) \/ Release(p) \/ FailIntake(p) \/ TombstoneWork(p) \/ ExplainDelete(p)
           \/ CompleteDelete(p) \/ ReleaseDelete(p) \/ ClaimDelete(p)
  BY <1>2, GoesTo
  DEF ExplainIntake, BlockUnclaimed, Complete, BlockUncertain, Hold, BlockOwned, Release, FailIntake,
      TombstoneWork, ExplainDelete, CompleteDelete, ReleaseDelete, ClaimDelete
<1>. QED
  BY <1>1, <1>2, WorkIsNotLate, EarlyIsNotLate DEF Worker

-----------------------------------------------------------------------------
(* What a withdrawal leaves behind.                                        *)

\* What a withdrawal still has to remove.
Remains(o) ==
  IF o = "asset" THEN ingest.asset /\ asset.upload # "deleted" ELSE thing[o] = "live"

Listed(o, owners) == \E i \in 1..Len(owners) : owners[i] = o

\* A run that removes has everything that remains before it.
CleanPlace(p) ==
  pc[p] = "remove" /\ OwnsDelete(p) /\ ~OpenAttempt =>
    \A o \in Owners : Remains(o) => Listed(o, run[p].owners)

CleanDone == outbox["delete"].row = "done" => ~OpenAttempt /\ \A o \in Owners : ~Remains(o)

CleanInv == CleanDone /\ \A p \in Workers : CleanPlace(p)

\* Without an open attempt nothing is published, and a deleted Asset never comes back.
Subsides ==
  /\ asset.upload = "deleted" => asset'.upload = "deleted"
  /\ \A t \in PublicationTypes : thing'[t] = "live" => thing[t] = "live"

LEMMA RemovalSubsides ==
  ASSUME Surroundings, NEW o \in Owners, DeleteOwner(o) PROVE Subsides /\ ~Remains(o)'
<1>1. CASE o = "asset"
  <2>1. asset' = [asset EXCEPT !.upload = "deleted"] /\ thing' = thing
    BY <1>1 DEF DeleteOwner
  <2>2. asset'.upload = "deleted"
    BY <2>1 DEF Surroundings
  <2>. QED
    BY <1>1, <2>1, <2>2 DEF Subsides, Remains
<1>2. CASE o # "asset"
  <2>1. thing' = [thing EXCEPT ![o] = "removed"] /\ asset' = asset /\ o \in PublicationTypes
    BY <1>2 DEF DeleteOwner, Owners
  <2>. QED
    BY <1>2, <2>1 DEF Subsides, Remains, Surroundings
<1>. QED
  BY <1>1, <1>2

LEMMA WorkerSubsides ==
  ASSUME MediaInv, ~OpenAttempt, NEW p \in Workers, Worker(p) PROVE Subsides
<1>1. CASE UNCHANGED <<asset, thing>>
  BY <1>1 DEF Subsides
<1>2. CASE CreateAsset(p) \/ UploadAsset(p)
  <2>1. thing' = thing /\ (asset' = asset \/ asset.upload # "deleted")
    BY <1>2 DEF CreateAsset, UploadAsset
  <2>. QED
    BY <2>1 DEF Subsides
<1>3. ~Publish(p)
  BY InvParts DEF Publish, MediaInv, RunKnows, OpenAttempt
<1>4. CASE CompensateOwner(p) \/ RemoveOwner(p)
  <2>1. PICK o : o = Head(run[p].owners)
    OBVIOUS
  <2>2. DeleteOwner(o) \/ UNCHANGED serviceVars
    BY <1>4, <2>1 DEF CompensateOwner, RemoveOwner
  <2>3. o \in Owners /\ Surroundings
    BY <1>4, <2>1, InvParts, TailBacked DEF CompensateOwner, RemoveOwner
  <2>. QED
    BY <1>1, <2>2, <2>3, RemovalSubsides DEF serviceVars
<1>. QED
  BY <1>1, <1>2, <1>3, <1>4
  DEF Worker, ReceiveMessage, ClaimIntake, ExplainIntake, BlockUnclaimed, LoadIntake, DownloadSource,
      RememberAsset, PersistAsset, GetAsset, Reserve, Settle,
      PrepareManual, FailManual, SettleJob, Complete, BlockUncertain, Hold, BlockOwned, Release, FailIntake,
      FinishCompensation, TombstoneWork, ClaimDelete, ExplainDelete, LoadDelete,
      CompleteDelete, ReleaseDelete, TransientError, DeleteMessage, WorkerStops,
      serviceVars, storeCallUnchanged

LEMMA StepSubsides ==
  ASSUME MediaInv, ~OpenAttempt, [Next]_vars PROVE Subsides
<1>1. CASE UNCHANGED <<asset, thing>>
  BY <1>1 DEF Subsides
<1>2. ASSUME NEW d \in Dispatchers, Dispatcher(d) PROVE UNCHANGED <<asset, thing>>
  BY <1>2 DEF Dispatcher, ClaimForDispatch, DispatcherSends, DispatcherMarks, dispatcherUnchanged,
              serviceVars
<1>3. CASE Scanner
  <2>1. asset.upload = "live" /\ thing' = thing
    BY <1>3 DEF Scanner
  <2>. QED
    BY <2>1 DEF Subsides
<1>4. Environment /\ ~Scanner => UNCHANGED <<asset, thing>>
  BY DEF Environment, LeaseEnds, MessageReappears, Administer, Withdraw, ConfirmManual, serviceVars
<1>5. UNCHANGED vars => UNCHANGED <<asset, thing>>
  BY DEF vars, serviceVars
<1>. QED
  BY <1>1, <1>2, <1>3, <1>4, <1>5, WorkerSubsides DEF Next

\* While somebody cleans up, or it has been done, nothing comes to what remains.
LEMMA LeftShrinks ==
  ASSUME MediaInv, [Next]_vars, RowsSteady, ~OpenAttempt',
         outbox'["delete"].row = "done" \/ (\E p \in Workers : Owns("delete", p)')
  PROVE  ~OpenAttempt /\ \A o \in Owners : Remains(o)' => Remains(o)
<1>1. /\ ingest'.asset => ingest.asset
      /\ \A t \in PublicationTypes : publication[t].open => publication'[t].open
  BY DEF RowsSteady, Reopening
<1>2. ~OpenAttempt
  BY <1>1 DEF OpenAttempt
<1>3. Subsides
  BY <1>2, StepSubsides
<1>. QED
  BY <1>1, <1>2, <1>3 DEF Subsides, Remains, Owners

LEMMA CleanDoneStays ==
  ASSUME MediaInv, [Next]_vars, RowsSteady, CleanDone, NotCleaned, ~OpenAttempt => ~OpenAttempt'
  PROVE  CleanDone'
<1>. SUFFICES ASSUME outbox'["delete"].row = "done" PROVE ~OpenAttempt' /\ \A o \in Owners : ~Remains(o)'
  BY DEF CleanDone
<1>1. ~OpenAttempt' /\ \A o \in Owners : ~Remains(o)
  BY DEF NotCleaned, CleanDone
<1>. QED
  BY <1>1, LeftShrinks

LEMMA CleanPlaceStays ==
  ASSUME MediaInv, EntriesShaped, [Next]_vars, RowsSteady, NEW q \in Workers, CleanPlace(q),
         pc'[q] = pc[q], run'[q] = run[q], Owns("delete", q)' => Owns("delete", q)
  PROVE  CleanPlace(q)'
<1>. SUFFICES ASSUME pc[q] = "remove", OwnsDelete(q)', ~OpenAttempt', NEW o \in Owners, Remains(o)'
              PROVE  Listed(o, run[q].owners)
  BY DEF CleanPlace
<1>1. Owns("delete", q)' /\ OwnsDelete(q)
  BY DEF OwnsDelete, Owns, EntriesShaped
<1>2. ~OpenAttempt /\ Remains(o)
  BY <1>1, LeftShrinks
<1>. QED
  BY <1>1, <1>2 DEF CleanPlace

\* The run's list is whole when it is made.
LEMMA DeletionListed ==
  ASSUME NEW work
  PROVE  \A o \in Owners : Holds(work, o) => Listed(o, DeletionOrder(work))
<1>. SUFFICES ASSUME NEW o \in Owners, Holds(work, o) PROVE Listed(o, DeletionOrder(work))
  OBVIOUS
<1>1. /\ Kept(work, "asset") \in Seq(Owners) /\ Kept(work, "collection") \in Seq(Owners)
      /\ Kept(work, "manual") \in Seq(Owners)
      /\ Kept(work, o) = <<o>> /\ o \in {"asset", "collection", "manual"}
  BY DEF Kept, Owners, PublicationTypes
<1>2. ASSUME NEW a \in Seq(Owners), NEW b \in Seq(Owners)
      PROVE  /\ a \o b \in Seq(Owners)
             /\ Listed(o, a) \/ Listed(o, b) => Listed(o, a \o b)
  <2>1. /\ a \o b \in Seq(Owners) /\ Len(a \o b) = Len(a) + Len(b)
        /\ Len(a) \in Nat /\ Len(b) \in Nat
        /\ \A i \in 1..Len(a) : (a \o b)[i] = a[i]
        /\ \A i \in 1..Len(b) : (a \o b)[Len(a) + i] = b[i]
    OBVIOUS
  <2>2. Listed(o, a) => Listed(o, a \o b)
    BY <2>1 DEF Listed
  <2>3. ASSUME NEW i \in 1..Len(b), b[i] = o PROVE Listed(o, a \o b)
    <3>1. Len(a) + i \in 1..Len(a \o b) /\ (a \o b)[Len(a) + i] = o
      BY <2>1, <2>3
    <3>. QED
      BY <3>1 DEF Listed
  <2>. QED
    BY <2>1, <2>2, <2>3 DEF Listed
<1>3. Listed(o, <<o>>)
  BY DEF Listed
<1>4. Listed(o, Kept(work, "collection")) \/ Listed(o, Kept(work, "manual")) \/ Listed(o, Kept(work, "asset"))
  BY <1>1, <1>3
<1>. QED
  BY <1>1, <1>2, <1>4 DEF DeletionOrder

LEMMA LoadedHolds ==
  ASSUME MediaInv, ~OpenAttempt PROVE \A o \in Owners : Remains(o) => Holds(Loaded, o)
<1>1. Loaded.asset = ingest.asset
  BY DEF Loaded
<1>2. ASSUME NEW t \in PublicationTypes, thing[t] = "live" PROVE Loaded.pub[t].target
  <2>1. publication[t] \in PublicationRow /\ publication[t].target
    BY <1>2, OutboxTypes DEF MediaInv, JournalKept, OpenAttempt
  <2>. QED
    BY <2>1 DEF Loaded, PublicationRow
<1>. QED
  BY <1>1, <1>2 DEF Remains, Holds, Owners, PublicationTypes

LEMMA RestListed ==
  ASSUME NEW owners \in Seq(Owners), owners # <<>>, NEW o, Listed(o, owners), o # Head(owners)
  PROVE  Listed(o, Tail(owners))
<1>1. PICK i \in 1..Len(owners) : owners[i] = o
  BY DEF Listed
<1>2. /\ i # 1 /\ i - 1 \in 1..Len(Tail(owners)) /\ Tail(owners)[i - 1] = owners[i]
  BY <1>1
<1>. QED
  BY <1>1, <1>2 DEF Listed

LEMMA LoadDeleteClean ==
  ASSUME MediaInv, NEW p \in Workers, LoadDelete(p) PROVE CleanPlace(p)'
<1>. DEFINE locals == [run[p] EXCEPT !.owners = DeletionOrder(Loaded)]
<1>1. UNCHANGED <<storeVars, asset, thing>>
  BY DEF LoadDelete, storeCallUnchanged, serviceVars
<1>2. CASE ~OpenAttempt /\ GoWith(p, "remove", locals)
  <2>1. locals.owners = DeletionOrder(Loaded)
    BY InvParts DEF RunRecord
  <2>. HIDE DEF locals
  <2>2. run'[p].owners = DeletionOrder(Loaded)
    BY <1>2, <2>1, GoesTo
  <2>3. \A o \in Owners : Remains(o)' => Remains(o)
    BY <1>1 DEF Remains, storeVars
  <2>4. \A o \in Owners : Remains(o)' => Listed(o, DeletionOrder(Loaded))
    BY <1>2, <2>3, LoadedHolds, DeletionListed
  <2>. QED
    BY <2>2, <2>4 DEF CleanPlace
<1>3. CASE Finish(p) \/ Go(p, "retry_delete")
  BY <1>3, GoesTo DEF CleanPlace
<1>. QED
  BY <1>2, <1>3 DEF LoadDelete

LEMMA RemoveOwnerClean ==
  ASSUME MediaInv, NEW p \in Workers, CleanPlace(p), RemoveOwner(p) PROVE CleanPlace(p)'
<1>. DEFINE owners == run[p].owners
            rest == [run[p] EXCEPT !.owners = Tail(owners)]
<1>1. UNCHANGED storeVars /\ pc[p] = "remove" /\ owners # <<>>
  BY DEF RemoveOwner
<1>2. PICK h : h = Head(owners)
  OBVIOUS
<1>3. owners \in Seq(Owners) /\ Surroundings /\ h \in Owners
  BY <1>1, <1>2, InvParts, TailBacked
<1>4. CASE DeleteOwner(h) /\ OwnsDelete(p) /\ GoWith(p, "remove", rest)
  <2>1. rest.owners = Tail(owners)
    BY InvParts DEF RunRecord
  <2>2. Subsides /\ ~Remains(h)'
    BY <1>3, <1>4, RemovalSubsides
  <2>3. ASSUME ~OpenAttempt', NEW o \in Owners, Remains(o)' PROVE Listed(o, Tail(owners))
    <3>1. Remains(o) /\ o # h
      BY <1>1, <2>2, <2>3 DEF Remains, Subsides, Owners, storeVars
    <3>2. ~OpenAttempt
      BY <1>1, <2>3 DEF OpenAttempt, storeVars
    <3>3. Listed(o, owners)
      BY <1>1, <1>4, <3>1, <3>2 DEF CleanPlace
    <3>. QED
      BY <1>1, <1>2, <1>3, <3>1, <3>3, RestListed
  <2>. HIDE DEF rest
  <2>4. run'[p].owners = Tail(owners)
    BY <1>4, <2>1, GoesTo
  <2>. QED
    BY <2>3, <2>4 DEF CleanPlace
<1>5. CASE Finish(p) \/ Go(p, "retry_delete")
  BY <1>5, GoesTo DEF CleanPlace
<1>. QED
  BY <1>2, <1>4, <1>5 DEF RemoveOwner

LEMMA CompleteDeleteClean ==
  ASSUME MediaInv, NEW p \in Workers, CleanPlace(p), Cleans(p) PROVE CleanDone'
<1>1. /\ pc[p] = "remove" /\ run[p].owners = <<>> /\ OwnsDelete(p) /\ ~OpenAttempt
      /\ UNCHANGED <<ingest, publication, asset, thing>>
  BY DEF Cleans, CompleteDelete, CompleteDeleteWork, CanCompleteDelete, storeCallUnchanged, serviceVars
<1>2. \A o \in Owners : ~Remains(o)
  BY <1>1 DEF CleanPlace, Listed
<1>. QED
  BY <1>1, <1>2 DEF CleanDone, OpenAttempt, Remains

LEMMA CleanInvKept ==
  ASSUME MediaInv, RowsInv, CleanInv, [Next]_vars PROVE CleanInv'
<1>1. RowsSteady /\ EntriesShaped /\ StoreTypeOK /\ Surroundings /\ CleanDone
      /\ \A q \in Workers : CleanPlace(q)
  BY RowsKept DEF MediaInv, RowsInv, CleanInv
<1>2. ASSUME NoneOpened PROVE ~OpenAttempt => ~OpenAttempt'
  BY <1>2 DEF NoneOpened, OpenAttempt
<1>3. ASSUME NoneOpened, NotCleaned PROVE CleanDone'
  BY <1>1, <1>2, <1>3, CleanDoneStays
<1>4. ASSUME UNCHANGED <<pc, run>>, Steady PROVE CleanInv'
  <2>1. ASSUME NEW q \in Workers PROVE Owns("delete", q)' => Owns("delete", q)
    BY <1>4, SteadyRows DEF NoneClaimed, Operations, Claimants
  <2>. QED
    BY <1>1, <1>3, <1>4, <2>1, CleanPlaceStays, SteadyRows DEF CleanInv
<1>5. CASE UNCHANGED vars
  BY <1>1, <1>4, <1>5, UnchangedSteady DEF vars
<1>6. CASE Environment
  <2>1. UNCHANGED <<pc, run>>
    BY <1>6 DEF Environment, LeaseEnds, MessageReappears, Scanner, Administer, Withdraw, ConfirmManual
  <2>. QED
    BY <1>1, <1>4, <1>6, <2>1, EnvironmentSteadyRows
<1>7. ASSUME NEW d \in Dispatchers, Dispatcher(d) PROVE CleanInv'
  <2>1. UNCHANGED <<pc, run>>
    BY <1>7 DEF Dispatcher, ClaimForDispatch, DispatcherSends, DispatcherMarks, dispatcherUnchanged
  <2>2. /\ NoneOpened /\ NotCleaned
        /\ \A q \in Workers : Owns("delete", q)' => Owns("delete", q)
    BY <1>1, <1>7, DispatcherSteadyRows DEF Dispatches, Operations
  <2>. QED
    BY <1>1, <1>3, <2>1, <2>2, CleanPlaceStays DEF CleanInv
<1>8. ASSUME NEW p \in Workers, Worker(p) PROVE CleanInv'
  <2>1. Steady \/ Takes(p) \/ Reserves(p) \/ Cleans(p)
    BY <1>8, WorkerSteady
  <2>2. CleanDone'
    <3>1. CASE Steady \/ Takes(p)
      BY <1>3, <3>1, SteadyRows DEF Takes
    <3>2. CASE Reserves(p)
      <4>1. ~Withdrawn /\ NotCleaned
        BY <3>2 DEF Reserves, ReservePublication, CanReserve, FenceOpen
      <4>2. outbox'["delete"].row # "done"
        BY <1>1, <4>1 DEF EntriesShaped, NotCleaned
      <4>. QED
        BY <4>2 DEF CleanDone
    <3>3. CASE Cleans(p)
      BY <1>1, <3>3, CompleteDeleteClean
    <3>. QED
      BY <2>1, <3>1, <3>2, <3>3
  <2>3. \A q \in Workers \ {p} : CleanPlace(q)'
    <3>1. \A q \in Workers \ {p} : pc'[q] = pc[q] /\ run'[q] = run[q]
      BY <1>8, OthersStay DEF Stays
    <3>2. \A q \in Workers \ {p} : Owns("delete", q)' => Owns("delete", q)
      BY <2>1, SteadyRows
      DEF Takes, Reserves, Cleans, NoneClaimed, ClaimedOnly, Operations, Claimants
    <3>. QED
      BY <1>1, <3>1, <3>2, CleanPlaceStays
  <2>4. CleanPlace(p)'
    <3>1. CASE LoadDelete(p) \/ RemoveOwner(p)
      BY <1>1, <3>1, LoadDeleteClean, RemoveOwnerClean
    <3>2. CASE pc'[p] # "remove"
      BY <3>2 DEF CleanPlace
    <3>. QED
      BY <1>8, <3>1, <3>2, RemovalGoes
  <2>. QED
    BY <2>2, <2>3, <2>4 DEF CleanInv
<1>. QED
  BY <1>5, <1>6, <1>7, <1>8 DEF Next

\* A withdrawal that is reported as done has left neither the collection occurrence nor the
\* manual resource, nor an Asset the ingest names, also when results arrive late, leases run
\* out, or workers stop half way.
THEOREM CleanupIsComplete == Spec => []CleanupLeavesNothing
<1>1. Init => RowsInv /\ CleanInv
  <2>. SUFFICES ASSUME Init PROVE RowsInv /\ CleanInv
    OBVIOUS
  <2>1. CleanInv
    BY DEF Init, StoreInit, CleanInv, CleanDone, CleanPlace, NoEntry, Operations
  <2>. QED
    BY <2>1, RowsAtStart
<1>2. MediaInv /\ RowsInv /\ CleanInv /\ [Next]_vars => RowsInv' /\ CleanInv'
  BY RowsKept, CleanInvKept
<1>3. CleanInv => CleanupLeavesNothing
  BY DEF CleanInv, CleanDone, CleanupLeavesNothing, Remains, Owners, PublicationTypes
<1>. QED
  BY <1>1, <1>2, <1>3, MediaInvariant, PTL DEF Spec

-----------------------------------------------------------------------------
(* Whose message waits.                                                    *)

\* A dispatcher has sent the message of an entry, and will mark the entry.
SentBy(d, op) == dispatcher[d].step = "mark" /\ dispatcher[d].op = op /\ Owns(op, d)

\* An entry nobody will dispatch again before its message has been handled.
Awaited(op) ==
  /\ outbox[op].row = "open"
  /\ outbox[op].dispatched \/ \E d \in Dispatchers : SentBy(d, op)
  /\ op = "intake" => ~Save.confirmed /\ "pause" \notin scenario

\* Where a run has nothing more to do for an entry than to delete its message.
Doomed(op) == {"ack"} \cup IF op = "intake" THEN DeleteSteps ELSE {}

Holding(p, op, m) == queue[m].holder = p /\ run[p].message = m /\ pc[p] \in Doomed(op)

\* A message that nobody is about to delete without having looked at the entry.
Waiting(op, m) == queue[m].there /\ \A p \in Workers : ~Holding(p, op, m)

NotPaused == "pause" \notin scenario => binding # "paused"

QueueInv ==
  NotPaused /\ \A op \in Operations : Awaited(op) => \E m \in Messages : Waiting(op, m)

\* An entry that waits did so before.
AwaitedBefore == \A op \in Operations : Awaited(op)' => Awaited(op)

LEMMA AwaitedBack ==
  ASSUME Onward, NoneDispatched, UNCHANGED <<dispatcher, scenario>>,
         \A op \in Operations, d \in Dispatchers : Owns(op, d)' => Owns(op, d)
  PROVE  AwaitedBefore
<1>. SUFFICES ASSUME NEW op \in Operations, Awaited(op)' PROVE Awaited(op)
  BY DEF AwaitedBefore
<1>1. op = "intake" => ~Save.confirmed /\ "pause" \notin scenario
  BY DEF Awaited, Onward
<1>2. CASE outbox'[op].row = "open" /\ outbox'[op].dispatched
  BY <1>1, <1>2 DEF NoneDispatched, Awaited
<1>3. ASSUME NEW d \in Dispatchers, SentBy(d, op)' PROVE Awaited(op)
  BY <1>1, <1>3 DEF SentBy, Awaited, Owns
<1>. QED
  BY <1>2, <1>3 DEF Awaited

\* An entry that is given back is closed, or back with the dispatcher.
LEMMA EntriesGivenBack ==
  ASSUME StoreTypeOK, NEW p \in Workers,
         \/ CompleteClaimedWork(p) \/ BlockUncertainPublication(p) \/ HoldPausedWork(p)
         \/ BlockUnavailableWork \/ FailClaimedWork(p) \/ TombstoneClaimedWorkForCleanup(p)
         \/ RetryOutbox("intake", p, run[p].error)
  PROVE  /\ outbox'["intake"].row # "open"
              \/ (~outbox'["intake"].dispatched /\ outbox'["intake"].claimedBy = None)
         /\ \/ outbox'["delete"] = outbox["delete"]
            \/ ~outbox'["delete"].dispatched /\ outbox'["delete"].claimedBy = None
<1>1. outbox["intake"] \in OutboxRow /\ outbox["delete"] \in OutboxRow
  BY OutboxTypes
<1>2. ASSUME NEW error, outbox' = CompletedIntake(error)
      PROVE  outbox'["intake"].row = "done" /\ outbox'["delete"] = outbox["delete"]
  BY <1>1, <1>2 DEF CompletedIntake, Completed, Released, OutboxRow, Operations, StoreTypeOK
<1>3. ASSUME NEW error, outbox' = [outbox EXCEPT !["intake"] =
                           [Released(@) EXCEPT !.dispatched = FALSE, !.error = error]]
      PROVE  /\ ~outbox'["intake"].dispatched /\ outbox'["intake"].claimedBy = None
             /\ outbox'["delete"] = outbox["delete"]
  <2>. DEFINE entry == [Released(outbox["intake"]) EXCEPT !.dispatched = FALSE, !.error = error]
  <2>1. ~entry.dispatched /\ entry.claimedBy = None
    BY <1>1 DEF Released, OutboxRow
  <2>2. outbox' = [outbox EXCEPT !["intake"] = entry]
    BY <1>3
  <2>. HIDE DEF entry
  <2>. QED
    BY <2>1, <2>2 DEF StoreTypeOK, Operations
<1>4. CASE TombstoneClaimedWorkForCleanup(p)
  <2>1. publication' = AllRevoked
        /\ outbox' = [intake |-> Completed(outbox["intake"]), delete |-> Reopened(outbox["delete"])]
    BY <1>4 DEF TombstoneClaimedWorkForCleanup
  <2>. QED
    BY <2>1, TombstonedRows
<1>. QED
  BY <1>2, <1>3, <1>4
  DEF CompleteClaimedWork, BlockUncertainPublication, BlockUnavailableWork, FailClaimedWork,
      HoldPausedWork, RetryOutbox

LEMMA DeleteGivenBack ==
  ASSUME StoreTypeOK, NEW p \in Workers, NEW error,
         CompleteDeleteWork(p) \/ RetryOutbox("delete", p, error)
  PROVE  outbox'["delete"].row # "open"
           \/ (~outbox'["delete"].dispatched /\ outbox'["delete"].claimedBy = None)
BY OutboxTypes
DEF CompleteDeleteWork, RetryOutbox, Completed, Released, OutboxRow, Operations, StoreTypeOK

\* Whoever gives an intake entry back leaves nothing waiting.
LEMMA IntakeEndsWaiting ==
  ASSUME MediaInv, RowsInv, NEW p \in Workers, pc'[p] = "ack",
         \/ BlockUnclaimed(p) \/ Complete(p) \/ BlockUncertain(p) \/ Hold(p) \/ BlockOwned(p)
         \/ Release(p) \/ FailIntake(p) \/ TombstoneWork(p)
  PROVE  \A op \in Operations : ~Awaited(op)'
<1>1. StoreTypeOK /\ EntriesShaped
  BY InvParts DEF RowsInv
<1>2. ~Finish(p)
  BY GoesTo
<1>3. /\ \/ CompleteClaimedWork(p) \/ BlockUncertainPublication(p) \/ HoldPausedWork(p)
         \/ BlockUnavailableWork \/ FailClaimedWork(p) \/ TombstoneClaimedWorkForCleanup(p)
         \/ RetryOutbox("intake", p, run[p].error)
      /\ ~Withdrawn
  BY <1>2
  DEF BlockUnclaimed, Complete, BlockUncertain, Hold, BlockOwned, Release, FailIntake, TombstoneWork,
      CanBlockUnclaimed, CanBlock, CompleteClaimedWork, CanComplete, BlockUncertainPublication,
      CanBlockUncertain, HoldPausedWork, CanHold, FailClaimedWork, TombstoneClaimedWorkForCleanup,
      RetryOutbox, OwnsIntake
<1>4. outbox["delete"].row = "absent"
  BY <1>1, <1>3 DEF EntriesShaped
<1>5. \A op \in Operations :
        outbox'[op].row # "open" \/ (~outbox'[op].dispatched /\ outbox'[op].claimedBy = None)
  BY <1>1, <1>3, <1>4, EntriesGivenBack DEF Operations
<1>. QED
  BY <1>5, ClaimantAssumption DEF Awaited, SentBy, Owns

LEMMA ExplainedIsNotAwaited ==
  ASSUME MediaInv, RowsInv, NotPaused, NEW p \in Workers, ExplainIntake(p), pc'[p] \in Late
  PROVE  ~Awaited("intake")' /\ (pc'[p] = "ack" => ~Awaited("delete")')
<1>1. UNCHANGED <<outbox, publication, dispatcher, scenario>> /\ EntriesShaped
  BY DEF ExplainIntake, storeVars, storeCallUnchanged, limits, RowsInv
<1>2. CASE Disposition("intake") \in {"missing", "paused"}
  <2>1. outbox["intake"].row = "absent" \/ (outbox["intake"].row = "open" /\ binding = "paused")
        \/ outbox["intake"].row \notin {"absent", "open", "done"}
    BY <1>2 DEF Disposition
  <2>2. outbox["delete"].row = "absent"
    BY <1>1, <2>1, OutboxTypes DEF EntriesShaped, Received, Withdrawn, MediaInv, OutboxRow
  <2>. QED
    BY <1>1, <2>1, <2>2, OutboxTypes DEF Awaited, NotPaused, MediaInv, OutboxRow
<1>3. CASE Disposition("intake") = "terminal" /\ Go(p, "claim_delete")
  <2>1. outbox["intake"].row = "done" \/ ingest.state \in {"ready", "failed", "tombstoned"}
    BY <1>3 DEF Disposition
  <2>2. outbox["intake"].row # "open" \/ Save.confirmed
    BY <1>1, <2>1 DEF EntriesShaped, Unsettled
  <2>3. pc'[p] = "claim_delete"
    BY <1>3, GoesTo
  <2>. QED
    BY <1>1, <2>2, <2>3 DEF Awaited, Save
<1>4. CASE Finish(p) \/ Go(p, "block_unclaimed")
  BY <1>4, GoesTo DEF Late, DeleteSteps
<1>. QED
  BY <1>2, <1>3, <1>4 DEF ExplainIntake

LEMMA DeleteEndsWaiting ==
  ASSUME MediaInv, RowsInv, NEW p \in Workers, pc'[p] = "ack",
         ExplainDelete(p) \/ CompleteDelete(p) \/ ReleaseDelete(p)
  PROVE  ~Awaited("delete")'
<1>1. StoreTypeOK /\ EntriesShaped /\ ~Finish(p)
  BY InvParts, GoesTo DEF RowsInv
<1>2. outbox'["delete"].row # "open"
        \/ (~outbox'["delete"].dispatched /\ outbox'["delete"].claimedBy = None)
  <2>1. CASE ExplainDelete(p)
    <3>1. outbox' = outbox /\ Disposition("delete") \in {"missing", "terminal"}
      BY <1>1, <2>1 DEF ExplainDelete, storeVars
    <3>2. outbox["delete"].row # "open"
      BY <1>1, <3>1 DEF Disposition, EntriesShaped
    <3>. QED
      BY <3>1, <3>2
  <2>2. CASE CompleteDelete(p) \/ ReleaseDelete(p)
    BY <1>1, <2>2, DeleteGivenBack DEF CompleteDelete, ReleaseDelete
  <2>. QED
    BY <2>1, <2>2
<1>. QED
  BY <1>2, ClaimantAssumption DEF Awaited, SentBy, Owns

\* What a run does to its message: nothing, but for receiving and deleting it.
LEMMA MessageKept ==
  ASSUME MediaInv, NEW p \in Workers, Worker(p), pc'[p] \in Late
  PROVE  run'[p].message = run[p].message
<1>1. run[p] \in RunRecord /\ Ending(p).message = run[p].message
  BY InvParts, EndingFields
<1>2. CASE \/ ExplainIntake(p) \/ BlockUnclaimed(p) \/ Complete(p) \/ BlockUncertain(p) \/ Hold(p)
           \/ BlockOwned(p) \/ Release(p) \/ FailIntake(p) \/ TombstoneWork(p) \/ ExplainDelete(p)
           \/ CompleteDelete(p) \/ ReleaseDelete(p)
  <2>1. "idle" \notin Late
    BY DEF Late, DeleteSteps
  <2>. QED
    BY <1>1, <1>2, <2>1, GoesTo
    DEF ExplainIntake, BlockUnclaimed, Complete, BlockUncertain, Hold, BlockOwned, Release, FailIntake,
        TombstoneWork, ExplainDelete, CompleteDelete, ReleaseDelete
<1>3. CASE ClaimDelete(p)
  <2>. DEFINE locals == [run[p] EXCEPT !.claim = "delete"]
  <2>1. locals.message = run[p].message
    BY <1>1 DEF RunRecord
  <2>2. GoWith(p, "load_delete", locals) \/ Go(p, "explain_delete")
    BY <1>3 DEF ClaimDelete
  <2>. HIDE DEF locals
  <2>. QED
    BY <2>1, <2>2, GoesTo
<1>4. CASE LoadDelete(p) \/ RemoveOwner(p)
  <2>1. ASSUME NEW owners, GoWith(p, "remove", [run[p] EXCEPT !.owners = owners])
        PROVE  run'[p].message = run[p].message
    <3>. DEFINE locals == [run[p] EXCEPT !.owners = owners]
    <3>1. locals.message = run[p].message /\ GoWith(p, "remove", locals)
      BY <1>1, <2>1 DEF RunRecord
    <3>. HIDE DEF locals
    <3>. QED
      BY <3>1, GoesTo
  <2>2. "idle" \notin Late
    BY DEF Late, DeleteSteps
  <2>. QED
    BY <1>4, <2>1, <2>2, GoesTo DEF LoadDelete, RemoveOwner
<1>. QED
  BY <1>2, <1>3, <1>4, WorkIsNotLate, EarlyIsNotLate DEF Worker

\* Nobody comes to the deletion of a message while its entry waits.
LEMMA DoomedBefore ==
  ASSUME MediaInv, RowsInv, NotPaused, NEW p \in Workers, Worker(p), NEW op \in Operations,
         Awaited(op)', pc'[p] \in Doomed(op)
  PROVE  pc[p] \in Doomed(op)
<1>1. pc'[p] \in Late /\ op \in {"intake", "delete"} /\ (op = "delete" => pc'[p] = "ack")
  BY DEF Doomed, Late, Operations
<1>2. ~ExplainIntake(p)
  BY <1>1, ExplainedIsNotAwaited DEF Doomed, Late
<1>3. CASE \/ BlockUnclaimed(p) \/ Complete(p) \/ BlockUncertain(p) \/ Hold(p) \/ BlockOwned(p)
           \/ Release(p) \/ FailIntake(p) \/ TombstoneWork(p)
  <2>1. pc'[p] = "ack"
    <3>1. Acknowledge(p) \/ Finish(p)
      BY <1>3 DEF BlockUnclaimed, Complete, BlockUncertain, Hold, BlockOwned, Release, FailIntake,
                  TombstoneWork
    <3>2. "idle" \notin Late
      BY DEF Late, DeleteSteps
    <3>. QED
      BY <1>1, <3>1, <3>2, GoesTo
  <2>. QED
    BY <1>3, <2>1, IntakeEndsWaiting
<1>4. CASE ExplainDelete(p) \/ CompleteDelete(p) \/ ReleaseDelete(p)
  <2>1. op = "intake"
    BY <1>1, <1>4, DeleteEndsWaiting
  <2>. QED
    BY <1>4, <2>1 DEF ExplainDelete, CompleteDelete, ReleaseDelete, Doomed, DeleteSteps
<1>5. CASE ClaimDelete(p) \/ LoadDelete(p) \/ RemoveOwner(p)
  <2>1. pc'[p] # "ack"
    BY <1>5, GoesTo DEF ClaimDelete, LoadDelete, RemoveOwner
  <2>. QED
    BY <1>1, <1>5, <2>1 DEF ClaimDelete, LoadDelete, RemoveOwner, Doomed, DeleteSteps
<1>. QED
  BY <1>1, <1>2, <1>3, <1>4, <1>5, WorkIsNotLate, EarlyIsNotLate DEF Worker

\* A message that waits still does so behind a step of a worker.
LEMMA WaitingKept ==
  ASSUME MediaInv, RowsInv, NotPaused, NEW p \in Workers, Worker(p), NEW op \in Operations,
         Awaited(op)', NEW m \in Messages, Waiting(op, m)
  PROVE  Waiting(op, m)'
<1>1. Stays(p) /\ Surroundings
  BY OthersStay DEF MediaInv
<1>2. CASE queue'[m] = queue[m]
  <2>1. ~Holding(p, op, m)'
    <3>1. SUFFICES ASSUME Holding(p, op, m)' PROVE Holding(p, op, m)
      BY DEF Waiting
    <3>2. pc[p] \in Doomed(op) /\ pc'[p] \in Late
      BY <3>1, DoomedBefore DEF Holding, Doomed, Late
    <3>. QED
      BY <1>2, <3>1, <3>2, MessageKept DEF Holding
  <2>2. \A q \in Workers \ {p} : ~Holding(q, op, m)'
    BY <1>1, <1>2 DEF Stays, Holding, Waiting
  <2>. QED
    BY <1>2, <2>1, <2>2 DEF Waiting
<1>3. ASSUME NEW n \in Messages, ReceiveMessage(p, n), n = m PROVE Waiting(op, m)'
  <2>1. queue'[m].there /\ queue'[m].holder = p
    BY <1>1, <1>3 DEF ReceiveMessage, Surroundings, Waiting
  <2>2. pc'[p] = "claim"
    BY <1>3, GoesTo DEF ReceiveMessage
  <2>. QED
    BY <2>1, <2>2 DEF Waiting, Holding, Doomed, DeleteSteps
<1>4. ASSUME NEW n \in Messages, ReceiveMessage(p, n), n # m PROVE queue'[m] = queue[m]
  BY <1>1, <1>4 DEF ReceiveMessage, Surroundings
<1>5. CASE DeleteMessage(p)
  <2>1. ~(queue[m].holder = p /\ run[p].message = m)
    BY <1>5 DEF DeleteMessage, Waiting, Holding, Doomed
  <2>. QED
    BY <1>1, <1>2, <1>5, <2>1 DEF DeleteMessage, Surroundings
<1>6. (\E n \in Messages : ReceiveMessage(p, n)) \/ DeleteMessage(p) \/ queue' = queue
  BY DEF Worker, ClaimIntake, ExplainIntake, BlockUnclaimed, LoadIntake, DownloadSource,
      CreateAsset, UploadAsset, RememberAsset, PersistAsset, GetAsset, Reserve, Publish, Settle,
      PrepareManual, FailManual, SettleJob, Complete, BlockUncertain, Hold, BlockOwned, Release,
      FailIntake, CompensateOwner, FinishCompensation, TombstoneWork, ClaimDelete, ExplainDelete,
      LoadDelete, RemoveOwner, CompleteDelete, ReleaseDelete, TransientError, WorkerStops,
      storeCallUnchanged
<1>. QED
  BY <1>2, <1>3, <1>4, <1>5, <1>6

LEMMA NotPausedKept ==
  ASSUME NotPaused, [Next]_vars PROVE NotPaused'
<1>1. scenario' = scenario
  BY DEF Next, Dispatcher, ClaimForDispatch, DispatcherSends, DispatcherMarks, Worker, ReceiveMessage,
      ClaimIntake, ExplainIntake, BlockUnclaimed, LoadIntake, DownloadSource,
      CreateAsset, UploadAsset, RememberAsset, PersistAsset, GetAsset, Reserve, Publish, Settle,
      PrepareManual, FailManual, SettleJob, Complete, BlockUncertain, Hold, BlockOwned, Release,
      FailIntake, CompensateOwner, FinishCompensation, TombstoneWork, ClaimDelete, ExplainDelete,
      LoadDelete, RemoveOwner, CompleteDelete, ReleaseDelete, DeleteMessage, TransientError, WorkerStops,
      Environment, LeaseEnds, MessageReappears, Scanner, Administer, Withdraw, ConfirmManual,
      Fault, NoFault, limits, vars
<1>2. binding' # "paused" \/ binding' = binding \/ "pause" \in scenario
  <2>1. Environment => binding' # "paused" \/ binding' = binding \/ "pause" \in scenario
    BY DEF Environment, LeaseEnds, LeaseLapses, MessageReappears, Scanner, Administer, Withdraw,
        ConfirmManual, CreateIngest, AttachManualIntent, PauseBinding, ResumeBinding, UnbindBinding,
        RevokeAdmission, BeginCollectionDeletion, CompleteCollectionDeletion, RetryWork,
        TombstoneSource, ConfirmManualPublication, bindingVars, storeVars
  <2>2. ASSUME NEW d \in Dispatchers, Dispatcher(d) PROVE binding' = binding
    BY <2>2 DEF Dispatcher, ClaimForDispatch, ClaimOutboxForDispatch, DispatcherSends, DispatcherMarks,
        MarkOutboxDispatched, bindingVars, storeVars
  <2>3. ASSUME NEW p \in Workers, Worker(p) PROVE binding' = binding
    <3>1. CASE UNCHANGED storeVars
      BY <3>1 DEF storeVars
    <3>2. CASE CompensateOwner(p)
      BY <3>1, <3>2 DEF CompensateOwner, RememberOwner, RememberOwnedAsset, RememberExternalHandle, bindingVars
    <3>3. CASE \/ ClaimIntake(p) \/ ClaimDelete(p) \/ BlockUnclaimed(p) \/ BlockOwned(p)
               \/ RememberAsset(p) \/ PersistAsset(p) \/ Complete(p) \/ Release(p) \/ ReleaseDelete(p)
               \/ Reserve(p) \/ Settle(p) \/ FailManual(p) \/ CompleteDelete(p)
               \/ BlockUncertain(p) \/ Hold(p) \/ FailIntake(p) \/ TombstoneWork(p)
      BY <3>1, <3>3
      DEF ClaimIntake, ClaimDelete, BlockUnclaimed, BlockOwned, RememberAsset, PersistAsset, Complete,
          Release, ReleaseDelete, Reserve, Settle, FailManual, CompleteDelete, BlockUncertain, Hold,
          FailIntake, TombstoneWork, ClaimWork, BlockUnavailableWork, RememberOwnedAsset,
          PersistCompletedAsset, CompleteClaimedWork, RetryOutbox, ReservePublication,
          SettlePublication, FailManualPublication, CompleteDeleteWork, BlockUncertainPublication,
          HoldPausedWork, FailClaimedWork, TombstoneClaimedWorkForCleanup, bindingVars
    <3>. QED
      BY <2>3, <3>1, <3>2, <3>3
      DEF Worker, ReceiveMessage, ExplainIntake, LoadIntake, DownloadSource, CreateAsset, UploadAsset,
          GetAsset, Publish, PrepareManual, SettleJob, FinishCompensation, ExplainDelete, LoadDelete,
          RemoveOwner, DeleteMessage, TransientError, WorkerStops
  <2>. QED
    BY <2>1, <2>2, <2>3 DEF Next, vars, storeVars
<1>. QED
  BY <1>1, <1>2 DEF NotPaused

\* Steps that leave the runs, and what is in the queue, alone.
LEMMA WaitingStays ==
  ASSUME UNCHANGED <<pc, run>>, NEW op, NEW m \in Messages, Waiting(op, m),
         queue'[m].there = queue[m].there, queue'[m].holder \in {queue[m].holder, None}
  PROVE  Waiting(op, m)'
BY ClaimantAssumption DEF Waiting, Holding

LEMMA QueueStays ==
  ASSUME NotPaused', QueueInv, AwaitedBefore,
         \A op \in Operations, m \in Messages : Awaited(op)' /\ Waiting(op, m) => Waiting(op, m)'
  PROVE  QueueInv'
BY DEF QueueInv, AwaitedBefore

LEMMA WorkerQueues ==
  ASSUME MediaInv, RowsInv, QueueInv, NotPaused', NEW p \in Workers, Worker(p) PROVE QueueInv'
<1>1. UNCHANGED <<dispatcher, scenario>>
  BY DEF Worker, ReceiveMessage,
      ClaimIntake, ExplainIntake, BlockUnclaimed, LoadIntake, DownloadSource,
      CreateAsset, UploadAsset, RememberAsset, PersistAsset, GetAsset, Reserve, Publish, Settle,
      PrepareManual, FailManual, SettleJob, Complete, BlockUncertain, Hold, BlockOwned, Release,
      FailIntake, CompensateOwner, FinishCompensation, TombstoneWork, ClaimDelete, ExplainDelete,
      LoadDelete, RemoveOwner, CompleteDelete, ReleaseDelete, DeleteMessage, TransientError, WorkerStops,
      Fault, NoFault, limits, storeCallUnchanged
<1>2. /\ Onward /\ NoneDispatched
      /\ \A op \in Operations, d \in Dispatchers : Owns(op, d)' => Owns(op, d)
  <2>1. \A d \in Dispatchers : d \in Claimants /\ d # p
    BY ClaimantAssumption DEF Claimants
  <2>. QED
    BY <2>1, WorkerSteady, SteadyRows
    DEF Takes, Reserves, Cleans, RowsSteady, NoneClaimed, ClaimedOnly
<1>3. AwaitedBefore
  BY <1>1, <1>2, AwaitedBack
<1>. QED
  BY <1>3, QueueStays, WaitingKept DEF QueueInv

LEMMA EnvironmentQueues ==
  ASSUME MediaInv, RowsInv, QueueInv, NotPaused', Environment PROVE QueueInv'
<1>1. UNCHANGED <<dispatcher, scenario, pc, run>>
  BY DEF Environment, LeaseEnds, MessageReappears, Scanner, Administer, Withdraw, ConfirmManual,
         Fault, NoFault, limits
<1>2. Steady /\ Surroundings
  BY EnvironmentSteadyRows DEF MediaInv, RowsInv
<1>3. AwaitedBefore
  <2>1. \A d \in Dispatchers : d \in Claimants
    BY DEF Claimants
  <2>. QED
    BY <1>1, <1>2, <2>1, SteadyRows, AwaitedBack DEF RowsSteady, NoneClaimed
<1>4. \A m \in Messages :
        queue'[m].there = queue[m].there /\ queue'[m].holder \in {queue[m].holder, None}
  <2>1. ASSUME NEW n \in Messages, MessageReappears(n), NEW m \in Messages
        PROVE  queue'[m].there = queue[m].there /\ queue'[m].holder \in {queue[m].holder, None}
    BY <1>2, <2>1 DEF MessageReappears, Surroundings
  <2>. QED
    BY <2>1
    DEF Environment, LeaseEnds, Scanner, Administer, Withdraw, ConfirmManual
<1>. QED
  BY <1>1, <1>3, <1>4, WaitingStays, QueueStays

\* A message that has just been sent waits for both operations.
LEMMA SentWaits ==
  ASSUME Surroundings, Send, UNCHANGED <<pc, run>>
  PROVE  \E m \in Messages : \A op \in Operations : Waiting(op, m)'
<1>1. PICK m \in Messages : queue' = [queue EXCEPT ![m] = [FreeSlot EXCEPT !.there = TRUE]]
  BY DEF Send
<1>2. queue'[m].there /\ queue'[m].holder = None
  BY <1>1 DEF Surroundings, FreeSlot
<1>. QED
  BY <1>2, ClaimantAssumption DEF Waiting, Holding

LEMMA DispatcherQueues ==
  ASSUME MediaInv, RowsInv, QueueInv, NotPaused', NEW d \in Dispatchers, Dispatcher(d)
  PROVE  QueueInv'
<1>1. StoreTypeOK /\ EntriesShaped /\ Surroundings /\ dispatcher[d].op \in Operations
  BY DEF MediaInv, RowsInv, Surroundings
<1>2. UNCHANGED <<pc, run>>
  BY DEF Dispatcher, ClaimForDispatch, DispatcherSends, DispatcherMarks, dispatcherUnchanged
<1>3. UNCHANGED <<scenario, publication>>
  BY DEF Dispatcher, ClaimForDispatch, DispatcherSends, DispatcherMarks, Fault, NoFault, limits,
         ClaimOutboxForDispatch, MarkOutboxDispatched, storeVars
<1>4. CASE Send
  BY <1>1, <1>2, <1>4, SentWaits DEF QueueInv
<1>5. ASSUME AwaitedBefore, UNCHANGED queue PROVE QueueInv'
  BY <1>2, <1>5, WaitingStays, QueueStays
<1>6. \A step, op : DispatcherTo(d, step, op) =>
        /\ dispatcher'[d].step = step
        /\ \A e \in Dispatchers \ {d} : dispatcher'[e] = dispatcher[e]
  BY <1>1 DEF DispatcherTo, Surroundings
<1>7. ASSUME NEW op \in Operations, ClaimForDispatch(d, op) PROVE QueueInv'
  <2>1. /\ NoneDispatched /\ ClaimedOnly(op, d) /\ UNCHANGED queue
        /\ dispatcher'[d].step = "send"
        /\ \A e \in Dispatchers \ {d} : dispatcher'[e] = dispatcher[e]
    BY <1>1, <1>6, <1>7, DispatchClaimSteady DEF ClaimForDispatch
  <2>2. ASSUME NEW o \in Operations, Awaited(o)' PROVE Awaited(o)
    <3>1. o = "intake" => ~Save.confirmed /\ "pause" \notin scenario
      BY <1>3, <2>2 DEF Awaited, Save
    <3>2. CASE outbox'[o].row = "open" /\ outbox'[o].dispatched
      BY <2>1, <3>1, <3>2 DEF NoneDispatched, Awaited
    <3>3. ASSUME NEW e \in Dispatchers, SentBy(e, o)' PROVE Awaited(o)
      <4>1. e # d /\ e \in Claimants
        BY <2>1, <3>3 DEF SentBy, Claimants
      <4>2. Owns(o, e) /\ dispatcher'[e] = dispatcher[e]
        BY <2>1, <3>3, <4>1 DEF SentBy, ClaimedOnly
      <4>. QED
        BY <3>1, <3>3, <4>2 DEF SentBy, Awaited, Owns
    <3>. QED
      BY <2>2, <3>2, <3>3 DEF Awaited
  <2>. QED
    BY <1>5, <2>1, <2>2 DEF AwaitedBefore
<1>8. ASSUME UNCHANGED <<storeVars, queue>>, DispatcherTo(d, "idle", "intake") PROVE QueueInv'
  <2>1. /\ dispatcher'[d].step = "idle"
        /\ \A e \in Dispatchers \ {d} : dispatcher'[e] = dispatcher[e]
    BY <1>6, <1>8
  <2>2. AwaitedBefore
    BY <1>3, <1>8, <2>1 DEF AwaitedBefore, Awaited, SentBy, Owns, storeVars, Save
  <2>. QED
    BY <1>5, <1>8, <2>2
<1>9. CASE DispatcherMarks(d) /\ MarkOutboxDispatched(d, dispatcher[d].op)
  <2>1. PICK op \in Operations : op = dispatcher[d].op
    BY <1>1
  <2>2. /\ Owns(op, d) /\ NoneClaimed /\ UNCHANGED queue /\ dispatcher[d].step = "mark"
        /\ \A o \in Operations \ {op} : outbox'[o] = outbox[o]
        /\ dispatcher'[d].step = "idle"
        /\ \A e \in Dispatchers \ {d} : dispatcher'[e] = dispatcher[e]
    BY <1>1, <1>6, <1>9, <2>1, MarkSteady
    DEF DispatcherMarks, MarkOutboxDispatched, CanMarkDispatched
  <2>3. ASSUME NEW o \in Operations, Awaited(o)' PROVE Awaited(o)
    <3>1. o = "intake" => ~Save.confirmed /\ "pause" \notin scenario
      BY <1>3, <2>3 DEF Awaited, Save
    <3>2. CASE o = op
      BY <2>1, <2>2, <3>1, <3>2 DEF Awaited, SentBy, Owns
    <3>3. CASE o # op
      <4>1. outbox'[o] = outbox[o]
        BY <2>2, <3>3
      <4>. QED
        BY <2>2, <2>3, <3>1, <4>1 DEF Awaited, SentBy, Owns
    <3>. QED
      BY <3>2, <3>3
  <2>. QED
    BY <1>5, <2>2, <2>3 DEF AwaitedBefore
<1>. QED
  BY <1>4, <1>7, <1>8, <1>9 DEF Dispatcher, DispatcherSends, DispatcherMarks

LEMMA QueueInvKept ==
  ASSUME MediaInv, RowsInv, QueueInv, [Next]_vars PROVE QueueInv'
<1>1. NotPaused'
  BY NotPausedKept DEF QueueInv
<1>2. CASE UNCHANGED vars
  BY <1>2 DEF vars, storeVars, limits, QueueInv, NotPaused, Awaited, SentBy, Owns, Waiting, Holding, Save
<1>. QED
  BY <1>1, <1>2, WorkerQueues, EnvironmentQueues, DispatcherQueues DEF Next

\* The dispatcher never takes a work from the outbox that nobody will hear of: an open entry
\* that counts as dispatched has its message in the queue, whichever worker deletes which copy
\* of it, and in front of which row.
THEOREM UnsettledWorkWaits == Spec => []UnsettledWorkIsQueued
<1>1. Init => RowsInv /\ QueueInv
  <2>. SUFFICES ASSUME Init PROVE RowsInv /\ QueueInv
    OBVIOUS
  <2>1. QueueInv
    BY DEF Init, StoreInit, QueueInv, NotPaused, Awaited, NoEntry
  <2>. QED
    BY <2>1, RowsAtStart
<1>2. MediaInv /\ RowsInv /\ QueueInv /\ [Next]_vars => RowsInv' /\ QueueInv'
  BY RowsKept, QueueInvKept
<1>3. QueueInv => UnsettledWorkIsQueued
  BY DEF QueueInv, UnsettledWorkIsQueued, Awaited, Waiting, Save
<1>. QED
  BY <1>1, <1>2, <1>3, MediaInvariant, PTL DEF Spec
=============================================================================
