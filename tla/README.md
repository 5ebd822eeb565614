# A verification project for hhc-line-function-bot

The program is a LINE bot: a webhook server that answers helper commands, and background
workers that publish confirmed attachments and group media to OneDrive.  Several replicas run
side by side, share state through Redis and PostgreSQL, and are fed by two transports that
deliver at least once: LINE webhooks and Azure Storage queues.  The code that is hard to get
right is the code that turns *at least once* into *at most once, and never forgotten*.  That is
what these modules specify, what TLC checks on small instances and what TLAPS proves.

Paths below are relative to the repository.  "The store" is the scan work store.

## 1. Inventory

| Component | State it keeps | Operations | What makes it hard | What makes it correct |
| --- | --- | --- | --- | --- |
| Scan work store `src/attachments/scan-work-store.ts` | one record per confirmed attachment (status, claim, two leases, descriptor, asset id, failure code, pending job update), an index of pending hand-offs | create, markEnqueued, cancelPendingEnqueue, claimForProcessing, recordUploadDescriptor, recordAsset, releaseForRetry, beginPublishing, complete, fail, clearPendingJobUpdate, listPendingEnqueue; each a Lua script | leases that run out under a live worker, stale claim ids, a clock read before the call, keys that expire | publication granted at most once; write-once fields; index exact; outcome tells the history |
| Attachment pipeline `attachment-intake.ts`, `scan-outbox.ts`, `scan-queue.ts`, `run-attachment-worker.ts`, `asset-worker.ts`, `resource-binary-publisher.ts` | local variables of handlers, dispatcher runs and workers; queue messages; assets; drive and catalog | confirm, hand off, dispatch, receive, claim, upload, scan, verify, publish, index, compensate, settle, tell the job, acknowledge | every step is a remote call that may fail, or succeed without an answer; duplicated and redelivered messages | one upload per attachment; only verified content; no work forgotten; the job tells the outcome |
| Webhook receipts `webhook-event-store.ts`, `webhook-receipt.ts` | one receipt per LINE event: phase, owner, lease, delivery | claim, start, complete, uncertain, release, renew, delivery; tryStart | redelivery while the owner lives, stalls or is gone; lost replies | a handler starts at most once; the receipt does not deny what happened |
| Event turns `webhook-routes.ts`, `postbacks.ts`, `group-replies.ts` | local state of one handling of one event; the client for replies | take button, claim, admit, start, run, reply, defer, finish | the turn outlives its HTTP request; the heartbeat, the handler and the reply run side by side | one execution, one reply |
| Agent jobs `agent/jobs.ts` | status, started flag, execution lease, result | createPending, markStarted, renewExecution, complete, fail, get | a process that dies after its write | a run that may have written is never shown as failed; a started job is never pending for good |
| Conversation sessions `state/redis-session-store.ts` | one interactive session per requester and profile: a review, a pending attachment or an upload intent | set, take, delete, updatePendingAttachment, takePendingAttachment, promoteUploadIntent, restoreUploadIntentPromotion | a plain set next to compare-and-set; reads that are used after an await; several kinds of sessions in one slot | what is taken is what was shown; a permission is used once; what disappears is answered |
| Media sync `media-sync/*.ts` | rows of one message in PostgreSQL: two outbox entries (intake, delete) with leases, the ingest, a tombstone, two publications with their attempts; the binding | claimOutboxForDispatch, markOutboxDispatched, claimWork, loadClaimedWork, reservePublication, settlePublication, blockUncertainPublication, hold and block, retryOutbox, failClaimedWork, completeClaimedWork, completeDeleteWork, tombstoneSource, confirmManualPublication, pause, resume, unbind | leases in SQL, withdrawal while publishing, results that arrive after the attempt was blocked, entries reopened under a dispatcher | one call per destination under a durable attempt; withdrawn means removed; a confirmed save is decided |
| Helper agent, action review `helper-agent`, `runtime/main-runtime.ts`, `runtime/action-executor.ts` | reviews awaiting approval, the arguments of a profile update, agent jobs, the thread lock | propose, revise, approve, reject, cancel, reset, execute, settle | confirmation against revision; one profile under a lock and one under none; a stored result that fails after the write | a revoked approval writes nothing; the job tells the write; a review that is gone has an answer |
| Confirmations, invite codes, rate limit, quota | one-shot tokens, counters | consume, check, reserve | redelivery, window edges | a token works once; a limit is not exceeded |
| Conversation context `helper-agent/state.ts`, `runtime.ts`, `transport/line/quote-context.ts`, `webhook-routes.ts` | per thread a checkpoint, its metadata (generation, expiry, dirty) and the thread lock; per turn a quote token and history evidence | prepareQuoteContext, run, history search, answer, fence, record, deliver, unsend, clearContext, reset, cleanupExpired | a turn that waits for the lock goes on with a context that was reset; an unsend meets open turns; handlers die half-way | no answer from withdrawn text; every checkpoint is reached by the unsends of what it holds; evidence stays in its turn |
| Quote index `quotes/postgres-store.ts` | threads with generation and lineage, message rows, dependencies, tombstones | begin, recordReply, isCurrent, acknowledgeClear, reset, unsend | a withdrawal travels through quoted replies across threads; lineages are bounded | an unsend reaches every thread that depends on the message |
| Group history `history/postgres.ts`, `history/collector.ts` | policy with floors, rows, a queue per process | synchronize, collect, ingest, evict, purge, search, validate, recordReply | late and duplicated events, replicas under different configurations, eviction across groups, answers that become anchors | what is gone stays gone; no answer is sent from it |
| Catalog synchronization `catalog/sync-service.ts`, `catalog/onedrive-sync.ts`, `catalog/postgres-store.ts`, `functions/resource-binary-publisher.ts` | one row per source (enabled, revision, delta cursor, health), the rows of its files, the folder in the drive | list, read, delta, reset, listing, publish, fail, enable and disable; check, upload, index, compensate, withdraw | the scheduled job and an administrator's overlap; a cursor expires between read and publication; uploads happen meanwhile | the newest answer wins; the catalog shows the folder; added files stay |
| Knowledge sync | revisions in PostgreSQL | scheduled and manual sync | pages of outside services | (not modelled) |
| Schedules, account and administration, lookups and models, observability, configuration | tables, text | reads and single statements | little shared state | (not modelled) |

How they interact: a turn confirms an attachment and creates the work, the outbox entry and the
job; its draft lived in the interactive session of the requester, which reviews of the helper
share; every turn of the helper opens the quote index, runs over its thread's checkpoint and may
search the history of its group; the outbox dispatcher (in the web process) and the turn itself send queue messages; a
worker receives one, claims the work, calls the Asset API and Microsoft Graph, settles the work
and tells the job; the requester reads the job.  Redis scripts are atomic; between two calls of
one process anything may happen in another.

`PROJECT.json` lists under "hazards" what is hard to test in this code, with its line, and the
properties that would catch it.

## 2. Modules

| Module | Models | Composition |
| --- | --- | --- |
| `PublicationTicket` | what the store promises of one work, seen from outside | abstract specification |
| `ScanWorkStore` | the store, one action per Lua script | refines `PublicationTicket` |
| `AttachmentPipeline` | handler, dispatcher, queue, workers, Asset API, scanner, publisher, job | extends `ScanWorkStore`; is shown to be a client of `StoreSpec` |
| `WebhookReceipts` | RedisWebhookEventStore under its most general client | specification of the receipt |
| `WebhookTurn` | event loop, WebhookReceipt, agent job, replies, deferral, crashes | extends `WebhookReceipts`; is shown to be a client of `ReceiptSpec` |
| `PublicationJournal` | what the attempts of a message's publications promise: one reservation, one call, nothing removed but what is owned | abstract specification |
| `MediaSyncStore` | the rows of one message, one operator per transaction | used by `MediaSyncWorker` |
| `MediaSyncWorker` | dispatcher, queue, workers, Asset API, publisher, requester and administrators | extends `MediaSyncStore`; refines `PublicationJournal` |
| `RequesterState` | the Redis scripts on a requester's slot and on the jobs of reviews | used by `ActionReview` |
| `ActionReview` | turns of the helper (under the thread lock) and of main (under none), the executor, the draft of an attachment, the upload intent of a group | extends `RequesterState` |
| `QuoteStore` | the quote index, one operator per transaction | used by `ConversationContext` |
| `ConversationContext` | the turns over the checkpoints, the unsend handler, expiry and cleanup | extends `QuoteStore` |
| `GroupHistory` | collectors, ingest and eviction, purge, policy changes, answers from history | stands alone: turns reach it by search, validate and recordReply only |
| `CatalogSource` | the row of a source and the reads of it that are still current | used by `CatalogSync` |
| `CatalogSync` | the folder, its owners, the synchronizing runs and the publisher beside them | extends `CatalogSource` |
| `ScanWorkStoreProofs`, `AttachmentPipelineProofs`, `WebhookTurnProofs`, `MediaSyncProofs`, `ActionReviewProofs`, `GroupHistoryProofs`, `CatalogSyncProofs`, `ConversationContextProofs` | theorems | extend the module they are about |
| `MCAttachmentPipeline`, `MCWebhookTurn`, `MCMediaSync`, `MCActionReview`, `MCConversationContext`, `MCGroupHistory`, `MCCatalogSync` | instances for TLC | extend the module they instantiate |

### Correspondence to the code

*Records.*  `work[w]` is the JSON under the key of w; `outbox` is the Redis set
`attachment-scan-outbox`; `receipt[e]` is the receipt JSON, and "legacy" is the bare value that
`tryStart` writes.  Message texts, targets and file metadata are left out.  A content is
identified by its upload descriptor, so "has the same descriptor" and "is the same content" are
one comparison.

*Time.*  Timestamps are countdowns, aged by `AgeWorks`, `AgeReceipts` and `Tick`.  The scan work
store reads the clock in Node before it awaits Redis, so every one of its operations takes a
`lag`, at most `MaxLag` units, by which its time is behind; the receipts use the clock of Redis.
One unit is about ten minutes in the pipeline: scan deadline 10 min, publication deadline
14 min, queue visibility 30 min, claim lease 35 min; the configurations keep their order.
`Floor` ends the countdown of a lease nobody can see alive any more.

*Calls.*  Every call to Redis, the queue or a service is one action with up to three outcomes:
it took effect and the answer came; it took effect and the answer was lost; it failed without
an effect.  The second and third, crashes and transient errors count against `MaxFaults`.

*Histories.*  `grants`, `uploads`, `dispatches`, `executions`, `sent` and `outcome` record what
happened for the properties; no guard reads them.

*Pipeline.*  `handler[w]` is `enqueueAttachmentScan` with `dispatchAttachmentScanWork`;
`flusher[f]` a run of `flushAttachmentScanOutbox` (its read of an index entry and its use of
what it read are two steps); `pc[p]`/`run[p]` a run of `runAttachmentWorkerQueueLease` around
`runAttachmentAssetWorker` and `publishVerifiedResource`.  `holder` in a queue slot is the pop
receipt.  Errors before beginPublishing release the claim, errors after it leave the work to
its publishing lease, as in the catch blocks of the worker.

*Turns.*  `pc[t]` follows the event loop: take (only for a click on a group reply button),
claim, admit, start, then either a handler that runs under an agent job (create_job, mark_job,
execute, settle_job or fail_job) or one that runs directly, its answer, and the `finally` that
finishes the receipt.  `replying[t]` is the call of the line client that may run beside it, after
`Defer` answered the request with a button.  `Admit` stands for all the gates between the claim and
the start: they refuse silently or with a reply, pass, or fail.  `Execute` stands for the handlers:
they end or throw, and what they write is their own.

Three details of the source that a reader may miss in the model: the branch
`asset-worker.ts:78-80` cannot be reached from a claim and is left out; no caller sets the
`deferStart` option; and a second turn can find its operation's job already started only when
it is dispatched twice, which the receipt excludes: the refused `markStarted` is kept as the
IF of `MarkJobStarted`.

*Media sync.*  All variables are about one message of one group, since no transaction touches two.
`outbox[op]` is its row in the outbox for the intake or the delete entry, `ingest`, `tombstone` and
`publication[t]` are the rows of those names, `binding` the fence of the group's collection.  A
lease token is the claimant in `claimedBy` together with `lapsed`: a claimant whose entry was given
to another, or whose lease is over, fails the comparison exactly as its token or its expiry does in
SQL.  `holder` in a queue slot is the pop receipt.  `scenario` is fixed at the start and says which
operations of people occur; a second unsend of one message counts as a fault.  A check of the
execution fence (`requireExecutionFence`) that follows a call is part of the call's action, and what
it read may be stale at the next one.  `thing` and `calls` are the destinations (the collection and
the drive) and `asset` is the Asset API, which rejects `createUpload` for a deleted asset and
`complete` for one that is not open: an assumption about a service outside the repository.

Several branches of the code are unreachable and left out: `finalizeCollectionPublication` and
`finalizeManualPublication` (`store.ts` 1704-1789, called at `worker.ts` 461-474 and 535-548) act on a
row that is pending with a target, and no transaction leaves a row so.

*Reviews.*  `slot` is the interactive index of a requester's session together with the session it
names; an index that names an expired session is None.  Each operator of `RequesterState` is one
script.  A step of `pc[t]` is the code between two awaits.  `lock` is `withPgThreadLock`, which the
helper holds for a whole run and main never takes.  `revoked` are the reviews rewritten with an
`approvalExpiresAt` that has passed; `late` and `over` are the two ends of a review's time;
`arguments` are the stored arguments of main's profile updates.  A review and its job have one id
here, as `createActionReview` makes them together.  The upload intent has no identity: a member of a
group has at most one.  `turn[t].ended` is the approval as it was when the turn read the review.
`written`, `saved`, `evicted`, `withdrawn`, `given`, `opened` and `barred` are histories.

*Context.*  `thread`, `depends` and `owned`, `rows` and `tombs` are the tables of the quote index; a row's
`gen` is its generation.  A checkpoint is the set of messages its text was derived from, and `basis[m]`
is the same of the reply to m: neither is read by the code, which only has what the index recorded,
so the properties compare what is true with what is known.  `token[m]` is what `isCurrent` compares.
`lock[t]` is `withPgThreadLock` and dies with its process.  `evidence[t]` is the turn whose history
excerpts the checkpoint still holds, and `dirty` the flag that `run` sets before and clears after it.
`clearing[m]` are the threads the handler of m's unsend has still to clear; if it fails, LINE may
deliver the event again.  `Expire` and `Idle` are the two expiries, of the index and of the checkpoint.
`cut` is a history: the messages that a shortened row did not name when the dependencies of its thread
were deleted (`Unnamed`), which is where the index loses track of them.

*History.*  A message has one time when it was sent and one when it was unsent; `horizon` is the retention
seen from the newest.  A configuration is what a process was started with, ordered by generation, so
`Synchronize` is a restart.  `rows` holds human messages and recorded answers alike, as the table does;
`gone` is the history of what was withdrawn or evicted.  `basis` is again what a text was really
derived from, `sources` what the code stores as dependencies.  Sizes in bytes are rows.

*Catalog.*  `log` is what happened in the folder, and a delta link is a position in it: a delta since i names
the files that changed after i.  The drive is external; what is assumed of it is that an answer describes
one moment between request and response.  A revision only grows and is only compared for equality with
one that was read, so `current[r]` keeps which reads of run r still have the revision of the row:
"listed" that of `listSources`, "read" that of the adapter's `getSource`.  `rows[f]` is the name under
which file f is listed, `titled` the rows written by the bot last, which hold the title a requester
gave; `asOf` is a history.  `PublishAt` is one SQL statement; what `Withdraw` does is repeated by the
message that asked for it, so its failures are steps not taken.

## 3. Runs

| Run | Instance | What it shows |
| --- | --- | --- |
| `pipeline` | 2 workers, 3 claims, 2 messages, 1 fault | one upload, no forgotten work, job tells the outcome, rejected is not published |
| `faults` | 1 worker, 2 contents, lag 1, retention ends, `RecoveryActive`, 2 faults | the index of pending works is exact, the outcome agrees with the history, and the store refines the ticket; what is published was scanned clean and described; what completed is indexed; the pipeline uses the store as its specification allows; a message is acknowledged only when its work needs no delivery, or is gone and not awaiting recovery |
| `liveness` | 1 worker, 3 messages, 2 faults, `FairSpec` | a stored work is eventually settled and its job answered |
| `webhook` | 2 turns of one event, leases of 2, 2 faults, `FairSpec` | one execution, truthful receipt, one reply per turn, a failed run is uncertain, a started job is eventually known, receipts used as specified |
| `media` | 2 workers, 1 dispatcher, 2 messages, 1 fault; the scenarios manual save + unsend, pause + unsend, unbind + retry, collection deletion + revocation + unsend | a withdrawal reported as done left nothing; no work is taken from the outbox unheard; a confirmed save is pending until decided; the job tells the save; the publication journal is implemented |
| `media_liveness` | 1 worker, 1 dispatcher, 4 messages, unsend, 1 fault, `FairSpec` | a received message is settled, a withdrawn one removed |
| `review` | 3 turns, 2 reviews, 2 files, 3 revisions, 2 faults, both profiles, direct, group and bound chats | the job tells the write; what is saved was previewed; one file per permission; a dropped review is answered; a revoked approval writes nothing |
| `context` | 2 threads, lineages of one key, 3 generations: three or four turns without a failure, two turns of one requester, or a turn and a /reset, with two failures; one message may be unsent | no answer derived from withdrawn text passes the fence and a checkpoint that will be used is covered by the dependency table, both except what was cut; history evidence is seen by its own turn only |
| `history` | 2 processes, 2 groups, 3 messages, 2 answers, queue and batch of 1, four configurations | withdrawn and evicted messages stay gone; answers are sent from live rows only; queues are bounded |
| `catalog` | 2 runs, 2 files, an accepted and a refused name; three changes of owners, or one before and two beside an upload; 1 fault | the catalog shows the folder as the last published answer had it; the newest answer wins; no added file is dropped |
| `media_ack`, `catalog_duplicate` | as small as shows it | the findings below |

*Why the bounds are enough to be interesting.*  Works and events do not share records, so one of
each exposes every race on a record; two workers (or turns) are one live owner and one that
overtakes it, and three claim ids leave a fresh one while two are held.  Two message slots hold a
duplicate.  In the `pipeline` run the lease (4) outlives the visibility (3), as in the code, and
both workers still meet on one work after a retry.  One content is enough where no property
compares contents; two where one does.  `MaxFaults` of 2 lets a lost answer be followed by a
crash.  With the theorems of section 4 the bounds do not matter for what is proved.  Symmetry is
used only in runs without liveness.

In `media`, two workers are an owner and one that took over or was told "busy"; two queue slots hold
a message and its copy.  The slots bound the copies, so `media_liveness` needs four: a fault of the
dispatcher, a redispatch and the delete entry each leave one.  The scenarios are the pairs of
operations that touch the same rows.  Manual save with pause was only checked separately (1 and 2
workers, 1 message: 1.85 million states; all of unsend, manual, pause, retry and unbind with 1 worker
and 1 message: 0.46 million), because together with the other sets it is beyond the time of a run.
In `review`, three turns are one that proposes, one that decides and one that revises, cancels or
uploads in between; two reviews are the old and the new one; four turns with one fault were checked
separately without the group (3.1 million states).

In `context`, two threads are a requester whose message is unsent and one who quotes the reply to it;
a lineage of one key already forces every bound of the index, and three generations let a thread
expire and begin anew.  Where three turns meet, the second message of the first requester comes after
the turn of the first (`After`).  Where four meet, one more of each requester follows that turn: the
thread begins anew after its reply, with a shortened lineage, was quoted, which is the case `cut` is for.  In `history`, two messages in one group let an answer use one of them
and an anchor made of the other; the third, in the other group, is for evictions across groups and
reaches the two processes of the second scenario (`Reaches`).  The plan of configurations raises the caps,
lowers them by one row and removes the policy.

In `catalog`, two runs are the one that is overtaken and the one that overtakes; two files are one that an
answer names and one that it does not; a refused name is what a file gets that leaves the catalog
without leaving the folder.  Larger logs and more uploads are covered by the proofs.  That a source that
stays enabled lets the catalog catch up, with one fair run, was checked separately on one file.

The type invariants of `ScanWorkStore`, `AttachmentPipeline`, `WebhookTurn`, `MediaSyncWorker`,
`ActionReview`, `GroupHistory` and `CatalogSync`, and a few invariants that follow from stronger ones (AtMostOneGrant, AtMostOneDispatch,
WriteOnce), are proved (section 4) and therefore in no run.

*Limited properties.*  `UnsettledWorkIsQueued` speaks of the intake only while no save has reopened it
and nobody pauses: beyond that finding 1 is why it does not hold.  `JobTellsWrite` excepts reviews whose
creation main gave up (`withdrawn`): the catch block of `createUpdateReview` (`main-runtime.ts` 260-265)
tells them as failed while a confirmation by text may already execute them.
`DroppedReviewIsAnswered` excepts reviews displaced by another session, and those whose action was no
longer enabled when they were taken (`barred`).

`ContextIsTracked` speaks of checkpoints the next run would go on with; others are
dropped at its start.  It and `NothingWithdrawnIsAnswered` except what was `cut`; see the observations.
`LateMessagesStayGone` holds under one policy (`OnePolicy`); see the observations.

*Fairness.*  In the pipeline every process is weakly fair, except that a requester need never
confirm.  A call of a worker takes far less than ten minutes, so `PromptTick` lets a unit pass
only while every worker is idle or polls for the scan; without this a worker could let every
lease it is given run out.  The scanner is weakly fair: without a verdict the claim is retried
for as long as the work is retained.  In the turn, `Proceed` is weakly fair for each process
that has not crashed, and time passes; heartbeats, redeliveries and the second part of a
deferral are not fair, since the code does not promise them.  Faults are bounded, which stands
for "failures end".  In media sync the dispatcher (a timer), every worker, the reappearance of a hidden
message, the scanner, and the end of a lease nobody relies on any more (`LeftBehind`) are weakly fair;
what people do is not.  A lease that ends under a worker still using it counts as a fault.


*Deadlock* is checked in the runs of the pipeline and of the turns.  Media sync ends when its message is
settled and nobody does anything to it any more, and the turns of `review` and `context` and the answers and times of
`history` are finitely many, so
these systems may stop (`CHECK_DEADLOCK FALSE`).

### Findings

1. `media_ack`: `src/__tests__/media-sync-worker.test.ts:194` says that only messages of durable outcomes
   are acknowledged.  `flushMediaSyncOutbox` enqueues before it marks the row as dispatched
   (`scan-outbox.ts:84-86`).  When a save has reopened the row of a settled ingest, a worker that
   receives the message in between is told "terminal", acknowledges, and the mark then succeeds:
   the row is open and dispatched without a message.  The same happens when a pause is answered with
   an acknowledgement and ended before the mark, and when a redelivered copy is acknowledged as
   "terminal" while the worker that holds the entry dies.
2. `catalog_duplicate`: docs/superpowers/plans/2026-07-12-external-sheet-music-import.md:245 says that the save
   handler prevents same-title duplicates.  `findCatalogConflict` (`resource-binary-publisher.ts:423`)
   compares the given title with the titles of the catalog, but a synchronization writes the file name,
   with its extension, as the title and no hash (`onedrive-sync.ts:98`).  A listed file is not found, and
   the PUT by name replaces it.

### Observations

Where a document says more than the code does, seen while modelling and checked by hand or on separate instances, without a run:

* README.md:542-543 says that the reply token is not reused.  A reply sent during admission is forgotten when
  the event is claimed again after the lease: the claim script writes a new record with delivery
  `not_attempted` (`webhook-event-store.ts:163`).  `OneReplyPerTurn` is the part that holds.
* README.md:532-533 says that failed admissions can be retried.  The session of a group reply button is taken
  (`webhook-routes.ts:751`) before the receipt is claimed, so the redelivered click finds none.
* README.md:240 says that a failed refresh marks the snapshot as stale.  The failure is recorded under the
  revision of the job's first listing (`sync-service.ts:163`); the adapter reads the source again and may
  work on a newer one, whose refresh then fails while the source stays ready.
* docs/runbooks/group-history.md:27-29 says that the collector may lose events: so may it lose a withdrawal
  (`collector.ts:15`), and the text stays readable.  `LateMessagesStayGone` speaks of stored ones.
* README.md:369 calls upload and catalog upsert "one logical commit".  An upload whose answer is lost is
  reported as a failure (`resource-binary-publisher.ts:169-174`), and a compensation may fail (199-206):
  the work is settled, the file is in the drive and in no catalog entry.  `CompletedIsIndexed` is the
  part that holds.
* docs/architecture-context.md:188-190 says that the dependency table "preserves withdrawal propagation past
  text expiry".  A reply is stored with the newest 64 keys of its thread (`quotes/postgres-store.ts:196`);
  when that thread expires and begins anew, its dependencies are deleted (128-133), and the unsend of an
  older source no longer reaches a thread that quotes the reply.  The properties of `context` therefore
  except `cut`; the fourth turn of its second scenario violates them without.  That nothing
  else escapes a withdrawal is proved (section 4).
* docs/runbooks/group-history.md:22-23 says that late messages cannot resurrect withdrawn ones.  The marker
  of a withdrawal is in the row; when the policy is revised, or removed and brought back, purge deletes
  the row without raising the floor (`history/postgres.ts:441-445`), and a late delivery stores the text.
  Hence `OnePolicy`.
* docs/runbooks/group-history.md:19 says that row and byte caps are enforced.  One ingest evicts at most a
  hundred rows and rolls back if that is not enough (`history/postgres.ts:199-223`): caps lowered by more
  are not reached, and nothing is stored, until rows expire.

Behaviour the models show and no document of the repository speaks against:

* A worker whose lease is over, on a permanent error, compensates the owners it had read
  (`worker.ts` 1168-1175): another worker may complete the work with an asset that was deleted.
* A crash between `createUpload` and the moment the asset is remembered, after a withdrawal, leaves
  an asset nobody names.  `CleanupLeavesNothing` speaks of assets the ingest names.
* A save that a pause has blocked stays blocked although it is confirmed later.
* The early denials of the executor (`action-executor.ts` 105-128) leave the job pending, so the
  requester is told that the work is under way until the job expires.
* A confirmation that read the review before it waited for the lock takes, and discards, a draft
  whose approval was revoked meanwhile; nothing is written, but README.md:208 says that an edit does
  not discard the draft.
* The answer to the opt-in is stored by a plain set (`attachment-intake.ts:371`) of a copy read earlier,
  which brings back an attachment that was cancelled or confirmed in between.
* A delta that names a file with an extension the source refuses leaves its row alone
  (`onedrive-sync.ts`): a listed file that is renamed so stays listed under its old name until the next full
  answer.  `CatalogFollowsDrive` speaks of accepted names and of files that are gone.
* An upload that is indexed after a synchronization published the deletion of its file stays listed
  until the next full answer; hence the exception for `titled` rows.
* `upsertItem` marks the source as ready, whatever its last synchronization told.
* A source that fails ends the job for the sources after it, and for the knowledge (`sync-service.ts:180`).
* Main's `createUpdateReview`, without a lock, may displace another review and leave its job pending.

## 4. Proofs

TLAPS proves the following for every number of works, events, workers, reviews, turns, messages and faults
and for every length of the leases.  A theorem that names a property of a run states it without
the run's bounds.

| Module | Theorems | Invariant behind them |
| --- | --- | --- |
| `ScanWorkStoreProofs` | StoreTypeCorrect, GrantedAtMostOnce, OutboxExact, OutcomeCorrect, RecordedOnce, StoreImplementsTicket | `StoreInv` |
| `AttachmentPipelineProofs` | PipelineImplementsStore, PipelineTypeCorrect, PublishedAtMostOnce, NoWorkForgotten, JobIsTold, NothingAcknowledgedEarly, RejectedUnpublished, CompletedWorkIndexed, PublicationVerified | `PipelineInv`, `PublicationInv`, `SettleInv`, `ClaimInv`, `ResourceInv`, `IndexedInv`, `VerifiedInv` |
| `WebhookTurnProofs` | DispatchedAtMostOnce, TurnTypeCorrect, ExecutedAtMostOnce, ReceiptTruthful, RepliedAtMostOnce, FailedRunStaysUncertain, TurnImplementsReceipts | `ReceiptInv`, `TurnInv` |
| `MediaSyncProofs` | MediaTypeCorrect, JournalImplemented, ConfirmedSaveKept, SaveIsTold, CleanupIsComplete, UnsettledWorkWaits | `MediaInv`, `SaveHeld`, `RowsInv`, `SaveInv`, `CleanInv`, `QueueInv` |
| `GroupHistoryProofs` | HistoryTypeCorrect, AnswersAreLive, LateMessagesGone | `HistoryInv`, `LateInv` |
| `CatalogSyncProofs` | CatalogTypeCorrect, CatalogShowsDrive, NewestPublished, AddedStay | `CatalogInv` |
| `ActionReviewProofs` | ReviewTypeCorrect, JobTruthful, RevokedNotWritten, SavedIsPreviewed, DroppedAnswered, OnePermissionEach | `ReviewInv`, `AnswerInv`, `PermissionInv` |
| `ConversationContextProofs` | ContextTypeCorrect, EvidenceStays, TrackedInvariant, CheckpointIsTracked, WithdrawnIsNotAnswered | `ContextInv`, `Tracked` |

*The store.*  "At most one grant" is not inductive: a grant is given to a claimed work, so it has
to be known that a claimed work has none yet.  `StoreInv` ties the number of grants, the index,
the owner and the outcome of a work to its status.  Each operation is shown to keep it, and each
property follows from it.  The refinement of `PublicationTicket` maps every step of the store to a
grant, an end or a stutter of the ticket of each work, with the invariant supplying the guards.

*The pipeline.*  `PipelineImplementsStore` shows that every step of handler, dispatcher, queue and
worker is a step of the store or leaves it alone, for which `PipelineInv` has to say what a worker's
variables hold where it calls the store, and that a dispatcher removes an index entry only for a
work that no longer waits.  All theorems of the store then hold in the pipeline.
`PublishedAtMostOnce` needs one more invariant: `PublicationInv` says that workers between
beginPublishing and their last step hold different works, each with a grant, and that a work
without a grant has not been sent.  The single grant of the store thereby becomes a single upload.

*The pipeline's other promises* each need an invariant of their own.  `SettleInv` follows the duty to settle
a work: it is with the handler or the outbox until a message is sent, and then with a message
that is not acknowledged before the job knows the outcome; what a worker believes when it acknowledges
is what the record still says, because a final status stays (NoWorkForgotten, JobIsTold, NothingAcknowledgedEarly).
`ClaimInv` says that claim ids tell runs and works apart, so the one that may fail a published work
is its publisher and a rejected work was never granted (RejectedUnpublished).  `IndexedInv` says that nobody publishes
for a completed work, hence nobody compensates one, and that a run which completes what it sent has
indexed it (CompletedWorkIndexed); it needs `ResourceInv`, that a publisher holds a content.  `VerifiedInv` is the longest: for
each work there is one content on which the record's descriptor, every run for the work,
the assets it owns and the drive agree, and the steps up to a publication know one more fact each about the
asset: it is the work's own, it has content, it was found clean.  A content that is once clean
stays what it is, so a stale run publishes the same file or none (PublicationVerified).

*The receipts.*  `ReceiptInv` says that a receipt that can be claimed has never been dispatched.

*The turns.*  The store's promise is about the start transition; a turn runs its handler later,
when its lease may be gone.  `TurnInv` says why this is harmless: from start to the end of its
handler a turn is the *last owner* of a receipt that nobody can claim any more (`RunningOwns`), so
no second turn reaches a handler of the same event, and a receipt that can be claimed, or that the
intake of media events took, has no history (`ReceiptKeepsHistory`).  Whoever completes a receipt
is that owner and knows whether its handler threw (`ThrewIsUncertain`).  A reply that was attempted
stays noted in the receipt while the turn owns it, and a turn that lost the receipt can note
nothing more (`ReplySpent`).  The steps that change neither claims nor history are proved together
(`QuietInv`); the others touch one turn and one event (`Frame`, `StepParts`).

*Media sync.*  A worker acts on what it read of the rows calls ago.  `MediaInv` therefore says, for each
run, which of its local facts still hold whatever others did (`RunKnows`): a run about to publish holds
an open attempt that nobody has used, what it believes to be published is published, and the owners
it is about to delete are backed by recorded targets.  `JournalKept` ties the attempt of each publication
to the calls and to what the destination keeps.  Most actions change no attempt and one run
(`Still`); the others reserve, publish, settle, or delete one owner.  From these the refinement of
`PublicationJournal` follows step by step.  `ConfirmedSaveKept` is a matter of the rows alone
(`SaveHeld`): every transaction keeps a confirmed, undecided save open or blocked.

Three promises of media sync span several runs, and need to know what *no* transaction of any actor does
to the rows.  `RowsInv` gives the shape of the two outbox entries (a delete entry exists only for a
withdrawn source, whose intake entry is done; an open intake without a confirmed save belongs to an unsettled
ingest), and each transaction is `Steady`: it takes no lease, opens no attempt, marks no entry
dispatched and finishes no cleanup, what is decided stays decided, and what it changes under a withdrawal
reopens the delete entry (`Reopening`).  The exceptions are a claim, a reservation, the end of
a cleanup (`Takes`, `Reserves`, `Cleans`) and the two writes of a dispatcher.
* `SaveInv` (SaveIsTold): a run that works under its lease in front of the save's reservation knows that no
  attempt of the save is open, so when it fails the save, or learns that its own attempt was a
  duplicate, the row is final and nobody can succeed afterwards.  A run that lost its lease may still tell the job,
  but only what the row already says.
* `CleanInv` (CleanupIsComplete): while a delete run holds its lease and no attempt is open, its list of
  owners contains all that remains.  Nothing is added to what remains: a call to a destination needs an
  open attempt, a settlement or a remembered owner takes the lease away, and an Asset once
  deleted stays deleted.
* `QueueInv` (UnsettledWorkWaits): behind an entry that is dispatched, or sent and about to be marked, there
  is a message that no run is about to delete for it.  A run that reaches the deletion has looked at the entry last,
  and each way there leaves the entry closed or back with the dispatcher (`IntakeEndsWaiting`,
  `DeleteEndsWaiting`, `ExplainedIsNotAwaited`), except the two that `UnsettledWorkIsQueued` excepts.

*Reviews.*  Two profiles share one invariant for two reasons: the helper's steps exclude each other
by the lock (`TurnFits`: whoever is at a locked step holds it), main's by the session, which names
a review only while nobody has taken it (`Offered`).  `ReviewInv` says from there who executes a
review and how far it got (`Executed`), that nobody past the executor's own look works under a
revoked approval (`Approved`), and that a turn says "failed" only of a review that was not written
and that nobody can reach any more (`Refused`); `JobTellsWrite` is then what each result step needs
(`Truthful`).  Most steps matter to no review (`QuietKeeps`), the others to one.  `AnswerInv` is the
other half: as long as nothing failed, an open review is on offer or in the hands of a turn that
will settle its job, and a revoked one whose job is open is just being failed, which is why the
executor may drop it.

*Permissions.*  A permission to upload moves: from the session slot to a turn, from there to a file, and back
when the file turns out to be unsent.  `PermissionInv` collects where permissions are (the slot,
the turns that hold one, the files that have used one up) and says that they are at most as many as were given;
each step replaces one by one, drops one, or adds one that is given (`CountedAfter`).  A file that is
opened and not unsent stands for one of them (OnePermissionEach).

*Context.*  `ContextInv` relates the tables of the index, the metadata and the turns; EvidenceStays is part of it
(`TurnFits`: whoever works on a checkpoint holds the lock, on metadata of its own generation).  Withdrawal
is about paths: a text gets into a thread directly or through the replies it quotes.  `Reach(n)` is the least set of
threads closed under those paths, and `Tracked` says that whatever a stored reply, a current turn or a current
checkpoint derives from is in reach of its unsend and not withdrawn.  The step that could break
a path is a thread that begins anew, because its rows and dependencies are deleted: who quoted them depends on what
they name (`NamedOrCut`), so the rest of the path still stands (SafeKept).  An unsend hits
`Affected`, a closed set that contains `Reach` (ReachIsAffected), and every thread in it gets a
new generation.  CheckpointIsTracked and WithdrawnIsNotAnswered follow.

*History.*  `HistoryInv` says that answers and anchors name everything they were derived from (`Derived`,
`RowFits`): an answer's basis is part of its sources however many anchors lie between, so validating
the sources is enough (AnswersAreLive).  `GoneInv` gives the reason why what is gone stays gone: its
marker is still stored, or the floor of its group or the horizon has passed the time it was sent.
Evictions move a row from the first reason to the second (`RaisedFits`, which needs that a bounded set
has a greatest element: LatestIsGreatest), purges from the first to the third.

*Catalog.*  `CatalogFollowsDrive` is inductive only together with what a run knows while its read is
current (`RunKnows`): that its cursor is the position the rows show, so a delta since it names every
file on which rows and folder differ, that its answer is not older than that position, and that every
listed file had been in the folder when the answer was given, because an upload that is indexed
promotes the revision.  The same three facts give NewestPublished and AddedStay.  The lemmas about the
drive's log (`LastChange`, `NameKnown`, `NameKept`, `PastStays`, `NextEvent`) are proved for logs of any length.

*Assumptions.*  The theorems rest on the named ASSUMEs of the modules: positive leases and a clock
lag below the claim lease (`TimingAssumption`), the order scan deadline, publication deadline,
visibility, claim lease of `scan-timing.ts` (`PipelineTimingAssumption`), positive leases of receipts
and jobs (`ReceiptAssumption`, `TurnAssumption`), and that the values for "none" and "nobody"
are not ids (`NoneAssumption`, `ActorAssumption`, `ReceiptAssumption`, `ClaimantAssumption`, `WorkerAssumption`,
`RequesterAssumption`, `TurnsAssumption`), and that there is a newest message and at least one configuration
(`HistoryAssumption`); that a lineage holds at least one key (`QuoteAssumption`); that uploads have accepted names
(`CatalogAssumption`).  LateMessagesGone also assumes `OnePolicy`.  TLC evaluates them in
every run.

Every safety property of a passing run is thus also a theorem; the strengthened invariants were model-checked on the
instances of the runs before they were proved.  Model-checked only are the properties that need fairness,
which is out of the prover's reach, as ENABLED is: EventuallySettled, JobEventuallyAnswered,
ResultEventuallyKnown, WithdrawalIsCleanedUp, IntakeIsSettled.  No module here uses recursion.

## 5. Not modelled

* The in-memory stores (tests and single-process use): their methods are single-threaded
  versions of the same transitions.
* The seven days of a receipt, batches of events in one request (they run one after the other in
  one loop).
* Of media sync: the codes that create a binding (`store.ts` 458-680), status queries, the audit
  outbox (836-945) and the HTTP routes: they read, or change rows no worker looks at.
* Of the sessions: the text stages and selections, which no profile but the helper's combines with
  writes; the loss of the thread lock when its database connection drops.
* Of the quotes: deferred requests that quote an attachment, the collection of threads and tombstones after
  seven days.  Of the history: the choice of records by topic and size.
* Two works racing for the same title in the publisher: the conflict check compares names and contents
  of the drive and the catalog, which are outside the repository.
* Schema validation of records: the scripts refuse malformed records, and no action writes one
  (the type invariants).  Formatting, prompts, message texts, logging.
* The components marked not_modelled in `PROJECT.json`, each with its reason.

## 6. Plan

What is modelled was taken in the order of importance: the store and the pipeline, receipts and turns,
media sync, reviews, the conversation context, the group history and the catalog.  What would come next, and why it is not here:

1. `ResourcePublisher`: two works of one target, with the drive and the catalog as an external part.
2. Erasure as liveness: the text of an unsent message leaves every checkpoint in the end.
3. The knowledge synchronization beside the catalog's.
4. One-shot tokens and counters (confirmations, invite codes, rate limit, search quota): each is one
   script, so a model would say little a unit test does not.
