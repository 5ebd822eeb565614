--------------------------- MODULE RequesterState ---------------------------
(***************************************************************************)
(* What Redis keeps for one requester in one chat under one profile: the   *)
(* interactive session (src/state/redis-session-store.ts), which is an     *)
(* action review, a pending attachment or an upload intent and of which    *)
(* the index key admits one at a time; the stored arguments of a profile   *)
(* update; and the job of each review (src/agent/jobs.ts).  Each operator  *)
(* is one script.                                                          *)
(***************************************************************************)
EXTENDS Naturals, FiniteSets

CONSTANTS
  Reviews,          \* review ids; a review and its result job share an id here
  Files,            \* the pending attachments, by session id
  MaxRevision,      \* bounds the revisions of pending attachments
  Intent,           \* the upload intent, whichever id it has
  None

ASSUME RequesterAssumption ==
  /\ Reviews \cap Files = {} /\ None \notin Reviews \cup Files
  /\ Intent \notin Reviews \cup Files \cup {None}
  /\ MaxRevision \in Nat

VARIABLES
  slot,             \* the session the index names, or None
  revoked,          \* reviews stored with an approvalExpiresAt a later turn has set
  arguments,        \* reviews of main whose profile_update session is stored
  file,             \* file[f]: stage and revision of the pending attachment f
  revision,         \* the last revision given to a pending attachment
  late,             \* reviews whose approval time is up
  over,             \* reviews whose session has ended
  job               \* job[r]: the result job of review r

sessionVars == <<slot, revoked, arguments, file, revision>>
timeVars == <<late, over>>
requesterVars == <<sessionVars, timeVars, job>>

Stages == {"none", "opt_in", "purpose", "confirm"}
FileRecord == [stage : Stages, revision : Nat]
JobRecord ==
  [status : {"none", "pending", "completed", "failed", "uncertain", "gone"},
   started : BOOLEAN, lapsed : BOOLEAN]

RequesterTypeOK ==
  /\ slot \in Reviews \cup Files \cup {Intent, None}
  /\ revoked \subseteq Reviews /\ arguments \subseteq Reviews /\ late \subseteq Reviews
  /\ over \subseteq Reviews /\ slot \notin over
  /\ file \in [Files -> FileRecord] /\ revision \in Nat
  /\ job \in [Reviews -> JobRecord]

\* A requester may already have an attachment waiting for an answer or a confirmation.
RequesterInit ==
  /\ revoked = {} /\ arguments = {} /\ late = {} /\ over = {} /\ revision = 1
  /\ slot \in Files \cup {None}
  /\ \E stage \in {"opt_in", "confirm"} :
       file = [f \in Files |-> [stage |-> IF f = slot THEN stage ELSE "none",
                                revision |-> IF f = slot THEN 1 ELSE 0]]
  /\ job = [r \in Reviews |-> [status |-> "none", started |-> FALSE, lapsed |-> FALSE]]

-----------------------------------------------------------------------------
(* The scripts on sessions.                                                *)

\* REPLACE_INTERACTIVE_SESSION_SCRIPT: the session the index named before is deleted.  A
\* review that is over is stored for a millisecond; a pending attachment is always refreshed.
Replaced(x) == slot' = IF x \in over THEN None ELSE x

\* TAKE_ACTION_REVIEW_SCRIPT
TakeAction(r) == slot = r /\ slot' = None

\* DELETE_INDEXED_SESSION_SCRIPT, and CONSUME_INDEXED_SESSION_SCRIPT without an expected value
Deleted(x) == slot' = IF slot = x THEN None ELSE slot

Current(f, v) == slot = f /\ file[f].revision = v

ConsumeWhateverIsThere(f, v) ==          \* faulty: compares no snapshot
  slot = f /\ slot' = None

\* CONSUME_INDEXED_SESSION_SCRIPT with the expected value
ConsumeExpected(f, v) == Current(f, v) /\ slot' = None

Rewritten(f, stage) ==
  /\ revision < MaxRevision /\ revision' = revision + 1
  /\ file' = [file EXCEPT ![f] = [stage |-> stage, revision |-> revision']]

PromoteWhateverIsThere(f) == slot # None /\ slot' = f      \* faulty: any session will do

\* PROMOTE_UPLOAD_INTENT_SCRIPT: the intent becomes the pending attachment.
Promote(f) == slot = Intent /\ slot' = f

\* RESTORE_UPLOAD_INTENT_SCRIPT: the two minutes of the intent may be over by now.
Restore(f) == IF slot = f THEN slot' \in {Intent, None} ELSE UNCHANGED slot

\* UPDATE_ATTACHMENT_SCRIPT
UpdateExpected(f, v, stage) == Current(f, v) /\ Rewritten(f, stage) /\ UNCHANGED slot

-----------------------------------------------------------------------------
(* The scripts on jobs.                                                    *)

\* projectJob: what get answers
Told(r) ==
  IF job[r].status = "pending" /\ job[r].lapsed THEN "uncertain" ELSE job[r].status

CreatePending(r) ==
  job[r].status = "none" /\ job' = [job EXCEPT ![r].status = "pending"]

\* FAIL_PENDING_JOB_SCRIPT
FailPending(r, outcome) ==
  job' = IF job[r].status = "pending" THEN [job EXCEPT ![r].status = outcome] ELSE job

CanStart(r) == job[r].status = "pending" /\ ~job[r].started
MarkStarted(r) == CanStart(r) /\ job' = [job EXCEPT ![r].started = TRUE]

\* COMPLETE_JOB: an uncertain job may still be completed.
CompleteJob(r) ==
  job' = IF job[r].status \in {"pending", "uncertain"}
         THEN [job EXCEPT ![r].status = "completed"] ELSE job

-----------------------------------------------------------------------------
(* Time.                                                                   *)

Known(r) == job[r].status # "none"

ApprovalEnds(r) ==
  /\ Known(r) /\ r \notin late /\ late' = late \cup {r}
  /\ UNCHANGED <<sessionVars, over, job>>

\* The stored arguments of a review have the time of the review.
ReviewEnds(r) ==
  /\ r \in late /\ r \notin over /\ over' = over \cup {r}
  /\ Deleted(r) /\ arguments' = arguments \ {r}
  /\ UNCHANGED <<revoked, file, revision, late, job>>

\* A pending attachment, or the two minutes of an upload intent
WaitingEnds ==
  /\ slot \in Files \cup {Intent} /\ slot' = None
  /\ UNCHANGED <<revoked, arguments, file, revision, timeVars, job>>

LeaseEnds(r) ==
  /\ job[r].status = "pending" /\ job[r].started /\ ~job[r].lapsed
  /\ job' = [job EXCEPT ![r].lapsed = TRUE]
  /\ UNCHANGED <<sessionVars, timeVars>>

\* resultTtlMs is at least as long as the session of the review.
JobEnds(r) ==
  /\ r \in over /\ job[r].status # "gone"
  /\ job' = [job EXCEPT ![r].status = "gone"]
  /\ UNCHANGED <<sessionVars, timeVars>>

TimePasses ==
  \/ WaitingEnds
  \/ \E r \in Reviews : ApprovalEnds(r) \/ ReviewEnds(r) \/ LeaseEnds(r) \/ JobEnds(r)
=============================================================================
