---------------------------- MODULE CatalogSync ----------------------------
(***************************************************************************)
(* A folder of OneDrive and its rows in the catalog: synchronization       *)
(* (src/catalog/sync-service.ts, onedrive-sync.ts), the owners of the      *)
(* files, and the publisher of the bot, which writes to both               *)
(* (src/functions/resource-binary-publisher.ts).  A delta link stands for  *)
(* a position in the log of the drive.  Files are their ids; names stand   *)
(* for file names, the title a requester gave for the name it becomes.     *)
(***************************************************************************)
EXTENDS CatalogSource, Sequences, FiniteSets

CONSTANTS
  Files,            \* ids of files, never used again
  Names,
  Allowed,          \* names with an extension that the source accepts
  Uploads,          \* publications of the bot
  NameOf,           \* the file name of an upload
  MaxLog,           \* bound of the drive's log when an owner changes something
  MaxFaults         \* bound of failed calls and stopped processes

ASSUME CatalogAssumption ==
  /\ Allowed \subseteq Names /\ None \notin Names \cup Nat
  /\ NameOf \in [Uploads -> Allowed]
  /\ MaxLog \in Nat /\ MaxFaults \in Nat

VARIABLES
  log,              \* what happened in the folder
  rows,             \* name under which a file is listed: catalog_items, None if there is no live row
  titled,           \* rows written by the bot last: they hold the given title and the hash
  run,              \* the runs
  upload,           \* the publications
  asOf,             \* the position that the last synchronization published
  faults

vars == <<source, current, log, rows, titled, run, upload, asOf, faults>>

DriveEvent == [file : Files, name : Names \cup {None}]
RunState ==
  [step : {"idle", "listed", "read", "reset", "fetched"},
   from : Cursors,                        \* cursor of the request, None for all files
   at : Nat,                              \* position of the answer
   link : BOOLEAN]                        \* the answer has a delta link
IdleRun == [step |-> "idle", from |-> None, at |-> 0, link |-> FALSE]
UploadState ==
  [step : {"waiting", "checked", "uploaded", "failed", "published", "removing", "done"},
   file : Files \cup {None}]

CatalogTypeOK ==
  /\ source \in SourceRow /\ current \in [Runs -> SUBSET Reads]
  /\ log \in Seq(DriveEvent)
  /\ rows \in [Files -> Names \cup {None}] /\ titled \subseteq Files
  /\ run \in [Runs -> RunState]
  /\ upload \in [Uploads -> UploadState]
  /\ asOf \in Cursors /\ faults \in 0..MaxFaults

CatalogInit ==
  /\ SourceInit
  /\ log = <<>> /\ rows = [f \in Files |-> None] /\ titled = {}
  /\ run = [r \in Runs |-> IdleRun]
  /\ upload = [u \in Uploads |-> [step |-> "waiting", file |-> None]]
  /\ asOf = None /\ faults = 0

-----------------------------------------------------------------------------
(* The drive *)

Events(f, i, j) == {k \in (i + 1)..j : log[k].file = f}
Changed(f, i, j) == Events(f, i, j) # {}
Last(f, i) == CHOOSE k \in Events(f, 0, i) : ~Changed(f, k, i)
NameAt(f, i) == IF Changed(f, 0, i) THEN log[Last(f, i)].name ELSE None
Now == Len(log)
NameNow(f) == NameAt(f, Now)
Present(f) == NameNow(f) # None
Unused == {f \in Files : ~Changed(f, 0, Now)}
Taken(n) == \E f \in Files : NameNow(f) = n
Happens(f, n) == log' = Append(log, [file |-> f, name |-> n])

\* Owners add, edit or rename, and delete files.
OwnerChanges ==
  /\ Len(log) < MaxLog
  /\ \E f \in Files :
       \/ f \in Unused /\ \E n \in {n \in Names : ~Taken(n)} : Happens(f, n)
       \/ Present(f) /\ \E n \in {n \in Names : ~Taken(n)} \cup {NameNow(f), None} : Happens(f, n)
  /\ UNCHANGED <<source, current, rows, titled, run, upload, asOf, faults>>

-----------------------------------------------------------------------------
(* Synchronization *)

RunUnchanged == UNCHANGED <<log, upload>>
Fault == faults < MaxFaults /\ faults' = faults + 1

\* syncCatalogSources lists the sources; a disabled one is skipped.
List(r) ==
  /\ run[r].step = "idle" /\ source.enabled
  /\ ListSource(r)
  /\ run' = [run EXCEPT ![r].step = "listed"]
  /\ UNCHANGED <<source, rows, titled, asOf, faults>> /\ RunUnchanged

\* syncOneDriveCatalogSource reads it again, after other sources may have taken their time.
Read(r) ==
  /\ run[r].step = "listed"
  /\ IF source.enabled
     THEN ReadSource(r) /\ run' = [run EXCEPT ![r].step = "read", ![r].from = source.cursor]
     ELSE Forget(r) /\ run' = [run EXCEPT ![r] = IdleRun]
  /\ UNCHANGED <<source, rows, titled, asOf, faults>> /\ RunUnchanged

\* listFolderDelta since the cursor, or of all files without one
FetchDelta(r) ==
  /\ run[r].step \in {"read", "reset"}
  /\ run' = [run EXCEPT ![r].step = "fetched", ![r].at = Now, ![r].link = TRUE]
  /\ UNCHANGED <<source, current, rows, titled, asOf, faults>> /\ RunUnchanged

\* Status 410: the cursor is dropped, and everything is requested, with the revision already read.
ResetCursor(r) ==
  /\ run[r].step = "read" /\ run[r].from # None
  /\ SetCursor(None)
  /\ run' = [run EXCEPT ![r].step = "reset", ![r].from = None]
  /\ UNCHANGED <<current, rows, titled, asOf, faults>> /\ RunUnchanged

\* The drive has no delta: the folder is listed, whatever the cursor.
FetchListing(r) ==
  /\ run[r].step = "read"
  /\ run' = [run EXCEPT ![r].step = "fetched", ![r].from = None, ![r].at = Now, ![r].link = FALSE]
  /\ UNCHANGED <<source, current, rows, titled, asOf, faults>> /\ RunUnchanged

\* An item with another extension is left out of the answer, whatever its row.
Upserted(f, s) == Changed(f, IF s.from = None THEN 0 ELSE s.from, s.at) /\ NameAt(f, s.at) \in Allowed
\* faulty: deletions that a delta tells of are ignored
RemovedBySnapshot(f, s) == s.from = None /\ ~Upserted(f, s)
Removed(f, s) ==
  IF s.from = None THEN ~Upserted(f, s) ELSE Changed(f, s.from, s.at) /\ NameAt(f, s.at) = None

\* faulty: whatever the revision
MayAlwaysPublish(r) == r \in Runs
MayPublish(r) == "read" \in current[r]

\* publishSourceSnapshot and publishSourceDelta: rows, tombstones, cursor and revision in one
\* statement, and nothing at all under another revision than the one read.  The failure that is
\* then recorded, like that of a publication whose answer is lost, finds another revision too.
PublishAt(r) ==
  LET s == run[r] IN
  /\ s.step = "fetched"
  /\ IF MayPublish(r)
     THEN /\ rows' = [f \in Files |-> IF Upserted(f, s) THEN NameAt(f, s.at)
                                      ELSE IF Removed(f, s) THEN None ELSE rows[f]]
          /\ titled' = {f \in titled : ~Upserted(f, s) /\ ~Removed(f, s)}
          /\ Promote(IF s.link THEN s.at ELSE None)
          /\ asOf' = s.at
     ELSE /\ Forget(r)
          /\ UNCHANGED <<source, rows, titled, asOf>>
  /\ run' = [run EXCEPT ![r] = IdleRun]
  /\ UNCHANGED faults /\ RunUnchanged

\* A request or statement fails: the run records it under the revision it listed first and ends.
SyncFails(r) ==
  /\ run[r].step \in {"listed", "read", "reset", "fetched"} /\ Fault
  /\ MarkFailure(r)
  /\ Forget(r)
  /\ run' = [run EXCEPT ![r] = IdleRun]
  /\ UNCHANGED <<rows, titled, asOf>> /\ RunUnchanged

\* The deadline of the job, or its end: nothing is recorded.
Abort(r) ==
  /\ run[r].step # "idle" /\ Fault
  /\ Forget(r)
  /\ run' = [run EXCEPT ![r] = IdleRun]
  /\ UNCHANGED <<source, rows, titled, asOf>> /\ RunUnchanged

Toggle ==
  /\ SetEnabled(~source.enabled)
  /\ UNCHANGED <<current, log, rows, titled, run, upload, asOf, faults>>

-----------------------------------------------------------------------------
(* The publisher *)

UploadUnchanged == UNCHANGED <<run, asOf>>

\* findCatalogConflict compares titles: what a synchronization wrote has the file's name as title.
SameTitle(u) == {f \in titled : rows[f] = NameOf[u]}

Check(u) ==
  /\ upload[u].step = "waiting" /\ source.enabled
  /\ upload' = [upload EXCEPT ![u].step = IF SameTitle(u) = {} THEN "checked" ELSE "done"]
  /\ UNCHANGED <<source, current, log, rows, titled, faults>> /\ UploadUnchanged

\* A PUT by name: a file of that name is replaced and keeps its id.
Stored(u) ==
  IF Taken(NameOf[u]) THEN {f \in Files : NameNow(f) = NameOf[u]} ELSE Unused
UploadFile(u) ==
  /\ upload[u].step = "checked"
  /\ \E f \in Stored(u) :
       /\ Happens(f, NameOf[u])
       /\ \/ upload' = [upload EXCEPT ![u] = [step |-> "uploaded", file |-> f]] /\ UNCHANGED faults
          \/ upload' = [upload EXCEPT ![u].step = "done"] /\ Fault    \* the answer is lost
  /\ UNCHANGED <<source, current, rows, titled>> /\ UploadUnchanged

WriteItem(u) ==
  /\ rows' = [rows EXCEPT ![upload[u].file] = NameOf[u]]
  /\ titled' = titled \cup {upload[u].file}

\* upsertItem.  It locks the item before the source, a publication of the same file the source
\* before the item: one of the two is told of a deadlock.  The row may have been written although
\* the call fails.
Index(u) ==
  /\ upload[u].step = "uploaded"
  /\ WriteItem(u) /\ PromoteByItem
  /\ \/ upload' = [upload EXCEPT ![u].step = "published"] /\ UNCHANGED faults
     \/ upload' = [upload EXCEPT ![u].step = "failed"] /\ Fault
  /\ UNCHANGED log /\ UploadUnchanged
IndexFails(u) ==
  /\ upload[u].step = "uploaded" /\ Fault
  /\ upload' = [upload EXCEPT ![u].step = "failed"]
  /\ UNCHANGED <<source, current, log, rows, titled>> /\ UploadUnchanged

\* deleteItem of the file, if it is still there
Delete(u) ==
  LET f == upload[u].file IN IF Present(f) THEN Happens(f, None) ELSE UNCHANGED log

\* The upload is compensated; a failure of that is ignored.
Compensate(u) ==
  /\ upload[u].step = "failed"
  /\ upload' = [upload EXCEPT ![u].step = "done"]
  /\ \/ Delete(u) /\ UNCHANGED faults
     \/ Fault /\ UNCHANGED log
  /\ UNCHANGED <<source, current, rows, titled>> /\ UploadUnchanged

\* tombstonePublishedResource deletes the file, then the row; a process that stops in between or a
\* call that fails is repeated with the message that asked for it.
Withdraw(u) ==
  /\ upload[u].step = "published"
  /\ upload' = [upload EXCEPT ![u].step = IF rows[upload[u].file] = None THEN "done" ELSE "removing"]
  /\ IF rows[upload[u].file] = None THEN UNCHANGED log ELSE Delete(u)
  /\ UNCHANGED <<source, current, rows, titled, faults>> /\ UploadUnchanged
TombstoneItem(u) ==
  /\ upload[u].step = "removing"
  /\ upload' = [upload EXCEPT ![u].step = "done"]
  /\ rows' = [rows EXCEPT ![upload[u].file] = None] /\ titled' = titled \ {upload[u].file}
  /\ UNCHANGED <<source, current, log, faults>> /\ UploadUnchanged

SyncStep(r) ==
  \/ List(r) \/ Read(r) \/ FetchDelta(r) \/ ResetCursor(r) \/ FetchListing(r) \/ PublishAt(r)
  \/ SyncFails(r) \/ Abort(r)
UploadStep(u) ==
  \/ Check(u) \/ UploadFile(u) \/ Index(u) \/ IndexFails(u) \/ Compensate(u)
  \/ Withdraw(u) \/ TombstoneItem(u)

CatalogNext ==
  \/ OwnerChanges \/ Toggle
  \/ \E r \in Runs : SyncStep(r)
  \/ \E u \in Uploads : UploadStep(u)

CatalogSpec == CatalogInit /\ [][CatalogNext]_vars

-----------------------------------------------------------------------------
\* The catalog shows the folder as it was when the last synchronization asked for it, except for
\* what happened since: a file under its name, and no file that was gone.  A row of the bot keeps
\* the title it was given, and one that was written after its file's removal had been published
\* stays (README: observations).
CatalogFollowsDrive ==
  asOf # None => \A f \in {f \in Files : ~Changed(f, asOf, Now)} :
    /\ NameAt(f, asOf) \in Allowed => (rows[f] = NameAt(f, asOf) \/ (rows[f] # None /\ f \in titled))
    /\ NameAt(f, asOf) = None => (rows[f] = None \/ f \in titled)

\* A run that asked earlier never replaces what a later answer published.
NewestAnswerWins == [][asOf = None \/ asOf' >= asOf]_vars

\* A file that always had an accepted name is not dropped from the catalog by an answer from
\* before it was added (postgres-store.ts 246, 428).
Steady(f) == \A k \in Events(f, 0, Now) : log[k].name \in Allowed
AddedFilesStay == [][\A f \in Files : Steady(f) /\ rows[f] # None => rows'[f] # None]_vars

\* docs/superpowers/plans/2026-07-12-external-sheet-music-import.md:245: duplicates of a title are
\* prevented, so an upload never lands on a file that the catalog lists.
NoListedFileReplaced ==
  [][\A u \in Uploads : upload[u].step = "checked" /\ upload'[u].file # None
       => rows[upload'[u].file] = None]_vars
=============================================================================
