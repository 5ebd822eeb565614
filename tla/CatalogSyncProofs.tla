------------------------- MODULE CatalogSyncProofs -------------------------
(***************************************************************************)
(* Theorems about CatalogSync, for any number of runs, files, names and    *)
(* uploads, any length of the drive's log and any number of faults.        *)
(*                                                                         *)
(* CatalogInv says what the revision is worth: while a run's read of the   *)
(* source is current, the cursor it uses is the position the catalog       *)
(* shows (RunKnows), nothing was listed that its answer cannot know, and   *)
(* its answer is no older than the one published.                          *)
(***************************************************************************)
EXTENDS CatalogSync, WellFoundedInduction, TLAPS

-----------------------------------------------------------------------------
(* The log of the drive.                                                   *)

\* A nonempty bounded set of numbers has a greatest element.
LEMMA GreatestExists ==
  ASSUME NEW N \in Nat, NEW S \in SUBSET (0..N), S # {}
  PROVE  \E x \in S : \A y \in S : y <= x
<1> DEFINE R == OpToRel(<, Nat)
           T == {N - y : y \in S}
<1>1. IsWellFoundedOn(R, Nat)
  BY NatLessThanWellFounded
<1>2. T \subseteq Nat /\ T # {}
  <2>1. \A y \in S : N - y \in Nat
    OBVIOUS
  <2>2. T # {}
    OBVIOUS
  <2> QED BY <2>1, <2>2
<1>3. PICK t \in T : \A y \in T : <<y, t>> \notin R
  <2> HIDE DEF R, T
  <2> QED BY <1>1, <1>2, WFMin
<1>4. PICK x \in S : t = N - x
  BY <1>3
<1>5. \A y \in S : ~(N - y < N - x)
  BY <1>3, <1>4, <1>2 DEF OpToRel
<1>6. \A y \in S : y \in Nat /\ y <= N
  OBVIOUS
<1> QED BY <1>5, <1>6

LEMMA EventsAre ==
  ASSUME NEW f, NEW i \in Nat, NEW j \in Nat, NEW k
  PROVE  k \in Events(f, i, j) <=> k \in Nat /\ i < k /\ k <= j /\ log[k].file = f
BY DEF Events

\* A file that changed has a last change, and its name is the name of that.
LEMMA LastChange ==
  ASSUME NEW f, NEW i \in Nat, Changed(f, 0, i)
  PROVE  /\ Last(f, i) \in Events(f, 0, i) /\ ~Changed(f, Last(f, i), i)
         /\ NameAt(f, i) = log[Last(f, i)].name
<1>1. Events(f, 0, i) \in SUBSET (0..i) /\ Events(f, 0, i) # {}
  BY DEF Events, Changed
<1>2. PICK k \in Events(f, 0, i) : \A l \in Events(f, 0, i) : l <= k
  BY <1>1, GreatestExists
<1>3. k \in Nat
  BY <1>1
<1>4. ~Changed(f, k, i)
  BY <1>2, <1>3, EventsAre DEF Changed
<1>5. Last(f, i) \in Events(f, 0, i) /\ ~Changed(f, Last(f, i), i)
  BY <1>4, <1>2 DEF Last
<1> QED BY <1>5 DEF NameAt

LEMMA NameKnown ==
  ASSUME NEW f, NEW i \in 0..Len(log), log \in Seq(DriveEvent)
  PROVE  /\ NameAt(f, i) \in Names \cup {None}
         /\ NameAt(f, i) # None => Changed(f, 0, i)
<1>1. CASE Changed(f, 0, i)
  <2>1. Last(f, i) \in Events(f, 0, i) /\ NameAt(f, i) = log[Last(f, i)].name
    BY <1>1, LastChange
  <2>2. Last(f, i) \in 1..Len(log)
    BY <2>1, EventsAre
  <2>3. log[Last(f, i)] \in DriveEvent
    BY <2>2
  <2> QED BY <1>1, <2>1, <2>3 DEF DriveEvent
<1>2. CASE ~Changed(f, 0, i)
  BY <1>2 DEF NameAt
<1> QED BY <1>1, <1>2

\* A file that does not change keeps its name.
LEMMA NameKept ==
  ASSUME NEW f, NEW i \in Nat, NEW j \in Nat, i <= j, ~Changed(f, i, j)
  PROVE  NameAt(f, j) = NameAt(f, i) /\ (Changed(f, 0, j) <=> Changed(f, 0, i))
<1>1. \A k \in Nat : k \in Events(f, 0, j) <=> k \in Events(f, 0, i)
  BY EventsAre DEF Changed
<1>2. Events(f, 0, j) = Events(f, 0, i)
  BY <1>1 DEF Events
<1>3. \A k \in Events(f, 0, i) : Changed(f, k, j) <=> Changed(f, k, i)
  <2> TAKE k \in Events(f, 0, i)
  <2>1. k \in Nat /\ k <= i
    BY EventsAre
  <2>2. \A l \in Nat : l \in Events(f, k, j) <=> l \in Events(f, k, i)
    BY <2>1 DEF Changed, Events
  <2>3. Events(f, k, j) = Events(f, k, i)
    BY <2>2, <2>1 DEF Events
  <2> QED BY <2>3 DEF Changed
<1>4. Last(f, j) = Last(f, i)
  BY <1>2, <1>3 DEF Last
<1> QED BY <1>2, <1>4 DEF NameAt, Changed

\* The past of the log stays.
LEMMA PastStays ==
  ASSUME log \in Seq(DriveEvent), NEW e, log' = Append(log, e), NEW f, NEW j \in 0..Len(log)
  PROVE  /\ \A i \in Nat : Events(f, i, j)' = Events(f, i, j) /\ (Changed(f, i, j)' <=> Changed(f, i, j))
         /\ NameAt(f, j)' = NameAt(f, j)
<1>1. \A k \in 1..Len(log) : log'[k] = log[k]
  OBVIOUS
<1>2. \A i \in Nat : Events(f, i, j)' = Events(f, i, j)
  BY <1>1 DEF Events
<1>3. \A i \in Nat : Changed(f, i, j)' <=> Changed(f, i, j)
  BY <1>2 DEF Changed
<1>4. \A k \in Events(f, 0, j) : log'[k] = log[k] /\ k \in Nat
  BY <1>1 DEF Events
<1>5. Last(f, j)' = Last(f, j)
  BY <1>2, <1>3, <1>4 DEF Last
<1>6. NameAt(f, j)' = NameAt(f, j)
  <2>1. CASE Changed(f, 0, j)
    <3>1. Last(f, j) \in Events(f, 0, j)
      BY <2>1, LastChange
    <3> QED BY <2>1, <3>1, <1>3, <1>4, <1>5 DEF NameAt
  <2>2. CASE ~Changed(f, 0, j)
    BY <2>2, <1>3 DEF NameAt
  <2> QED BY <2>1, <2>2
<1> QED BY <1>2, <1>3, <1>6

LEMMA NextEvent ==
  ASSUME log \in Seq(DriveEvent), NEW g \in Files, NEW n \in Names \cup {None}, Happens(g, n), NEW f
  PROVE  /\ log' \in Seq(DriveEvent) /\ Now' = Now + 1 /\ Now \in Nat
         /\ \A i \in 0..Now : Changed(f, i, Now)' <=> Changed(f, i, Now) \/ f = g
         /\ f = g => NameNow(f)' = n
         /\ f # g => NameNow(f)' = NameNow(f)
<1> DEFINE e == [file |-> g, name |-> n]
           L == Len(log)
<1>1. log' \in Seq(DriveEvent) /\ Len(log') = L + 1 /\ L \in Nat /\ log'[L + 1] = e
  BY DEF Happens, DriveEvent
<1>2. \A k \in 1..L : log'[k] = log[k]
  BY DEF Happens
<1>3. \A i \in 0..L : Changed(f, i, Now)' <=> Changed(f, i, Now) \/ f = g
  <2> TAKE i \in 0..L
  <2>1. Events(f, i, Now)' = {k \in (i + 1)..(L + 1) : log'[k].file = f}
    BY <1>1 DEF Events, Now
  <2>2. Events(f, i, Now) = {k \in (i + 1)..L : log[k].file = f}
    BY DEF Events, Now
  <2>3. L + 1 \in Events(f, i, Now)' <=> f = g
    BY <2>1, <1>1
  <2>4. \A k \in 1..L : k \in Events(f, i, Now)' <=> k \in Events(f, i, Now)
    BY <2>1, <2>2, <1>2
  <2>5. Events(f, i, Now) \subseteq 1..L /\ Events(f, i, Now)' \subseteq 1..(L + 1)
    BY <2>1, <2>2
  <2> QED BY <2>3, <2>4, <2>5, <1>1 DEF Changed
<1>4. \A i \in 0..L, k \in Nat :
        k \in Events(f, i, Now)' <=> i < k /\ k <= L + 1 /\ log'[k].file = f
  BY <1>1 DEF Events, Now
<1>5. ASSUME f = g PROVE NameNow(f)' = n
  <2>1. L + 1 \in Events(f, 0, Now)' /\ \A k \in Events(f, 0, Now)' : k \in 1..(L + 1)
    BY <1>5, <1>1 DEF Events, Now
  <2>2. ~Changed(f, L + 1, Now)'
    BY <1>1 DEF Changed, Events, Now
  <2>3. \A k \in Events(f, 0, Now)' : ~Changed(f, k, Now)' => k = L + 1
    <3> TAKE k \in Events(f, 0, Now)'
    <3>1. k \in 1..(L + 1)
      BY <2>1
    <3>2. CASE k # L + 1
      BY <3>1, <3>2, <1>3, <1>5
    <3> QED BY <3>2
  <2>4. Last(f, Now)' = L + 1
    BY <2>1, <2>2, <2>3 DEF Last
  <2>5. Changed(f, 0, Now)'
    BY <2>1 DEF Changed
  <2> QED BY <2>4, <2>5, <1>1 DEF NameNow, NameAt
<1>6. ASSUME f # g PROVE NameNow(f)' = NameNow(f)
  <2>1. \A k \in Events(f, 0, Now) : k \in 1..L /\ log'[k] = log[k]
    BY <1>2 DEF Events, Now
  <2>2. \A i \in 0..L : Changed(f, i, Now)' <=> Changed(f, i, Now)
    BY <1>3, <1>6
  <2>3. Events(f, 0, Now)' = Events(f, 0, Now)
    <3>1. \A k \in Nat : k \in Events(f, 0, Now)' <=> k \in Events(f, 0, Now)
      BY <1>1, <1>2, <1>6 DEF Events, Now
    <3> QED BY <3>1, <1>1 DEF Events, Now
  <2>4. Last(f, Now)' = Last(f, Now)
    BY <2>1, <2>2, <2>3 DEF Last
  <2>5. CASE Changed(f, 0, Now)
    BY <2>1, <2>2, <2>4, <2>5, <1>1, LastChange DEF NameNow, NameAt, Now
  <2>6. CASE ~Changed(f, 0, Now)
    BY <2>6, <2>2 DEF NameNow, NameAt
  <2> QED BY <2>5, <2>6
<1> QED BY <1>1, <1>3, <1>5, <1>6 DEF Now

LEMMA SameLog ==
  ASSUME log' = log
  PROVE  /\ Now' = Now
         /\ \A f, i, j : Changed(f, i, j)' <=> Changed(f, i, j)
         /\ \A f, i : NameAt(f, i)' = NameAt(f, i)
<1>1. \A f, i, j : Events(f, i, j)' = Events(f, i, j)
  BY DEF Events
<1>2. \A f, i, j : Changed(f, i, j)' <=> Changed(f, i, j)
  BY <1>1 DEF Changed
<1>3. \A f, i : Last(f, i)' = Last(f, i)
  BY <1>1, <1>2 DEF Last
<1> QED BY <1>2, <1>3 DEF NameAt, Now

-----------------------------------------------------------------------------
(* The invariant.                                                          *)

Holding == {"uploaded", "failed", "published", "removing"}

\* Whatever is listed was in the folder at some time.
Known == \A f \in Files : rows[f] # None => Changed(f, 0, Now)

\* While a run's read is current, what it bases its publication on is what the catalog shows.
RunKnows(r) ==
  LET s == run[r] IN
  /\ s.at <= Now
  /\ "read" \in current[r] =>
       /\ s.step \in {"read", "reset", "fetched"}
       /\ s.from # None => s.from = asOf
       /\ s.step = "fetched" =>
            /\ asOf # None => asOf <= s.at
            /\ \A f \in Files : rows[f] # None => Changed(f, 0, s.at)

UploadKnows(u) ==
  /\ upload[u].step \in Holding => upload[u].file \in Files /\ Changed(upload[u].file, 0, Now)
  /\ upload[u].step = "removing" => NameNow(upload[u].file) = None

Position == /\ asOf # None => asOf <= Now
            /\ source.cursor # None => source.cursor = asOf

CatalogInv ==
  /\ CatalogTypeOK /\ Position /\ Known /\ CatalogFollowsDrive
  /\ \A r \in Runs : RunKnows(r)
  /\ \A u \in Uploads : UploadKnows(u)

LEMMA Types ==
  ASSUME CatalogInv
  PROVE  /\ Now \in Nat /\ log \in Seq(DriveEvent)
         /\ asOf # None => asOf \in 0..Now
         /\ \A r \in Runs : run[r] \in RunState /\ run[r].at \in 0..Now
         /\ \A u \in Uploads : upload[u] \in UploadState
         /\ \A f \in Files : rows[f] \in Names \cup {None}
         /\ None \notin Nat /\ None \notin Names /\ Allowed \subseteq Names
BY CatalogAssumption DEF CatalogInv, CatalogTypeOK, Cursors, RunKnows, RunState, Now, Position, CatalogAssumption

\* A step of run r that publishes nothing.
LEMMA RunMoves ==
  ASSUME CatalogInv, CatalogTypeOK', NEW r \in Runs,
         UNCHANGED <<log, rows, titled, upload, asOf>>,
         source'.cursor \in {source.cursor, None},
         \A q \in Runs \ {r} : run'[q] = run[q] /\ current'[q] = current[q],
         RunKnows(r)'
  PROVE  CatalogInv'
<1>1. Position' /\ Known'
  BY SameLog DEF CatalogInv, Position, Known
<1>2. CatalogFollowsDrive'
  BY SameLog DEF CatalogInv, CatalogFollowsDrive
<1>3. \A q \in Runs : RunKnows(q)'
  <2> TAKE q \in Runs
  <2>1. CASE q # r
    BY <2>1, SameLog DEF CatalogInv, RunKnows
  <2> QED BY <2>1
<1>4. \A u \in Uploads : UploadKnows(u)'
  BY SameLog DEF CatalogInv, UploadKnows, NameNow
<1> QED BY <1>1, <1>2, <1>3, <1>4 DEF CatalogInv

\* A change in the drive.
LEMMA DriveMoves ==
  ASSUME CatalogInv, NEW g \in Files, NEW n \in Names \cup {None}, g \in Unused \/ Present(g),
         Happens(g, n), UNCHANGED <<source, current, rows, titled, run, asOf>>
  PROVE  /\ log' \in Seq(DriveEvent) /\ Position' /\ Known' /\ CatalogFollowsDrive'
         /\ \A r \in Runs : RunKnows(r)'
         /\ \A u \in Uploads : upload'[u] = upload[u] => UploadKnows(u)'
         /\ Changed(g, 0, Now)' /\ NameNow(g)' = n
<1> USE Types
<1>1. log' \in Seq(DriveEvent) /\ Now' = Now + 1
  BY NextEvent
<1>2. \A f : /\ \A i \in 0..Now : Changed(f, i, Now)' <=> Changed(f, i, Now) \/ f = g
             /\ f = g => NameNow(f)' = n
             /\ f # g => NameNow(f)' = NameNow(f)
  BY NextEvent
<1>3. \A f : \A j \in 0..Now : /\ Changed(f, 0, j)' <=> Changed(f, 0, j)
                               /\ NameAt(f, j)' = NameAt(f, j)
  BY PastStays DEF Happens, Now
<1>4. Position' /\ Known'
  <2>1. Position'
    BY <1>1 DEF CatalogInv, Position
  <2>2. 0 \in 0..Now
    OBVIOUS
  <2>3. Known'
    BY <1>2, <2>2 DEF CatalogInv, Known
  <2> QED BY <2>1, <2>3
<1>5. CatalogFollowsDrive'
  <2> SUFFICES ASSUME asOf # None, NEW f \in Files, ~Changed(f, asOf, Now)'
               PROVE  /\ NameAt(f, asOf)' \in Allowed
                           => (rows[f] = NameAt(f, asOf)' \/ (rows[f] # None /\ f \in titled))
                      /\ NameAt(f, asOf)' = None => (rows[f] = None \/ f \in titled)
    BY DEF CatalogFollowsDrive
  <2>1. ~Changed(f, asOf, Now) /\ NameAt(f, asOf)' = NameAt(f, asOf)
    BY <1>2, <1>3
  <2> QED BY <2>1 DEF CatalogInv, CatalogFollowsDrive
<1>6. \A r \in Runs : RunKnows(r)'
  BY <1>1, <1>3 DEF CatalogInv, RunKnows
<1>7. ASSUME NEW u \in Uploads, upload'[u] = upload[u] PROVE UploadKnows(u)'
  <2>1. upload[u].step = "removing" => upload[u].file # g
    BY DEF CatalogInv, UploadKnows, Unused, Present, Holding
  <2>2. 0 \in 0..Now
    OBVIOUS
  <2>3. \A f : /\ Changed(f, 0, Now) => Changed(f, 0, Now)'
               /\ f # g => NameNow(f)' = NameNow(f)
    BY <2>2, <1>2
  <2>4. UploadKnows(u)
    BY DEF CatalogInv
  <2> QED BY <2>1, <2>3, <2>4, <1>7 DEF UploadKnows
<1> QED BY <1>1, <1>2, <1>4, <1>5, <1>6, <1>7

-----------------------------------------------------------------------------
(* The steps of a run.                                                     *)

LEMMA InitHolds == CatalogInit => CatalogInv
<1> SUFFICES ASSUME CatalogInit PROVE CatalogInv
  OBVIOUS
<1> USE CatalogAssumption DEF CatalogAssumption
<1>1. CatalogTypeOK
  BY DEF CatalogInit, CatalogTypeOK, SourceInit, SourceRow, Cursors, NoReads, Reads, IdleRun, RunState, UploadState
<1>2. \A r \in Runs : RunKnows(r)
  <2>1. Now = 0 /\ \A r \in Runs : run[r].at = 0 /\ current[r] = {}
    BY DEF CatalogInit, SourceInit, NoReads, IdleRun, Now
  <2> TAKE r \in Runs
  <2>2. run[r].at <= Now /\ "read" \notin current[r]
    BY <2>1
  <2> QED BY <2>2 DEF RunKnows
<1>3. \A u \in Uploads : UploadKnows(u)
  BY DEF CatalogInit, UploadKnows, Holding
<1> QED BY <1>1, <1>2, <1>3
    DEF CatalogInit, SourceInit, CatalogInv, Position, Known, CatalogFollowsDrive

\* A run that ends, or that may not publish any more.
LEMMA RunEnds ==
  ASSUME CatalogInv, NEW r \in Runs, source' \in SourceRow, source'.cursor = source.cursor,
         Forget(r), run' = [run EXCEPT ![r] = IdleRun], faults' \in 0..MaxFaults,
         UNCHANGED <<log, rows, titled, upload, asOf>>
  PROVE  CatalogInv'
<1> USE Types
<1>1. CatalogTypeOK'
  BY DEF CatalogInv, CatalogTypeOK, Forget, IdleRun, RunState, Cursors
<1>2. run'[r] = IdleRun /\ current'[r] = {} /\ \A q \in Runs \ {r} : run'[q] = run[q] /\ current'[q] = current[q]
  BY DEF CatalogInv, CatalogTypeOK, Forget
<1>3. RunKnows(r)'
  BY <1>2, SameLog DEF RunKnows, IdleRun
<1> QED BY <1>1, <1>2, <1>3, RunMoves

LEMMA FaultBounded == ASSUME CatalogInv, Fault PROVE faults' \in 0..MaxFaults
BY CatalogAssumption DEF Fault, CatalogInv, CatalogTypeOK, CatalogAssumption

LEMMA ListKeeps == ASSUME CatalogInv, NEW r \in Runs, List(r) PROVE CatalogInv'
<1> USE Types
<1>1. /\ run'[r] = [run[r] EXCEPT !.step = "listed"] /\ current'[r] = {"listed"}
      /\ \A q \in Runs \ {r} : run'[q] = run[q] /\ current'[q] = current[q]
  BY DEF CatalogInv, CatalogTypeOK, List, ListSource
<1>2. CatalogTypeOK'
  BY DEF CatalogInv, CatalogTypeOK, List, ListSource, RunUnchanged, RunState, Reads
<1>3. RunKnows(r)'
  BY <1>1, SameLog DEF RunKnows, List, RunUnchanged, RunState
<1> QED BY <1>1, <1>2, <1>3, RunMoves DEF List, RunUnchanged

LEMMA ReadKeeps == ASSUME CatalogInv, NEW r \in Runs, Read(r) PROVE CatalogInv'
<1> USE Types
<1>1. CASE source.enabled
  <2>1. /\ run'[r].step = "read" /\ run'[r].from = source.cursor /\ run'[r].at = run[r].at
        /\ run'[r] \in RunState /\ \A q \in Runs \ {r} : run'[q] = run[q] /\ current'[q] = current[q]
    BY <1>1 DEF CatalogInv, CatalogTypeOK, Read, ReadSource, RunState, SourceRow
  <2>2. CatalogTypeOK'
    <3>1. run' \in [Runs -> RunState]
      BY <1>1, <2>1 DEF CatalogInv, CatalogTypeOK, Read
    <3>2. current' \in [Runs -> SUBSET Reads]
      BY <1>1 DEF CatalogInv, CatalogTypeOK, Read, ReadSource, Reads
    <3> QED BY <3>1, <3>2 DEF CatalogInv, CatalogTypeOK, Read, RunUnchanged
  <2>3. RunKnows(r)'
    BY <2>1, SameLog DEF RunKnows, Read, RunUnchanged, RunState, CatalogInv, Position
  <2> QED BY <2>1, <2>2, <2>3, RunMoves DEF Read, RunUnchanged
<1>2. CASE ~source.enabled
  BY <1>2, RunEnds DEF Read, RunUnchanged, CatalogInv, CatalogTypeOK
<1> QED BY <1>1, <1>2

LEMMA FetchDeltaKeeps == ASSUME CatalogInv, NEW r \in Runs, FetchDelta(r) PROVE CatalogInv'
<1> USE Types
<1>1. /\ run'[r] \in RunState /\ current'[r] = current[r] /\ run'[r].step = "fetched" /\ run'[r].at = Now
      /\ run'[r].from = run[r].from
      /\ \A q \in Runs \ {r} : run'[q] = run[q] /\ current'[q] = current[q]
  BY DEF CatalogInv, CatalogTypeOK, FetchDelta, RunState
<1>2. CatalogTypeOK'
  <2>1. run' \in [Runs -> RunState]
    BY <1>1 DEF CatalogInv, CatalogTypeOK, FetchDelta
  <2> QED BY <2>1 DEF CatalogInv, CatalogTypeOK, FetchDelta, RunUnchanged
<1>3. RunKnows(r)'
  <2>1. log' = log /\ asOf' = asOf /\ rows' = rows
    BY DEF FetchDelta, RunUnchanged
  <2>2. RunKnows(r) /\ Known /\ Position
    BY DEF CatalogInv
  <2>3. \A f \in Files : rows'[f] # None => Changed(f, 0, run[r].at)'
    BY <2>1, <2>2, <1>1, SameLog DEF Known
  <2>4. Now' = Now
    BY <2>1, SameLog
  <2> QED BY <1>1, <2>1, <2>2, <2>3, <2>4 DEF RunKnows, Position
<1> QED BY <1>1, <1>2, <1>3, RunMoves DEF FetchDelta, RunUnchanged

LEMMA ResetKeeps == ASSUME CatalogInv, NEW r \in Runs, ResetCursor(r) PROVE CatalogInv'
<1> USE Types
<1>1. /\ run'[r] \in RunState /\ current'[r] = current[r] /\ run'[r].at = run[r].at /\ run'[r].from = None /\ run'[r].step = "reset" /\ source'.cursor = None
      /\ \A q \in Runs \ {r} : run'[q] = run[q] /\ current'[q] = current[q]
  BY DEF CatalogInv, CatalogTypeOK, ResetCursor, SetCursor, SourceRow, RunState, Cursors
<1>2. CatalogTypeOK'
  <2>1. run' \in [Runs -> RunState]
    BY <1>1 DEF CatalogInv, CatalogTypeOK, ResetCursor
  <2> QED BY <2>1 DEF CatalogInv, CatalogTypeOK, ResetCursor, SetCursor, SourceRow, RunUnchanged, Cursors
<1>3. RunKnows(r)'
  BY <1>1, SameLog DEF RunKnows, ResetCursor, RunUnchanged, CatalogInv
<1> QED BY <1>1, <1>2, <1>3, RunMoves DEF ResetCursor, RunUnchanged

LEMMA FetchListingKeeps == ASSUME CatalogInv, NEW r \in Runs, FetchListing(r) PROVE CatalogInv'
<1> USE Types
<1>1. /\ run'[r] \in RunState /\ current'[r] = current[r] /\ run'[r].step = "fetched" /\ run'[r].at = Now
      /\ run'[r].from = None
      /\ \A q \in Runs \ {r} : run'[q] = run[q] /\ current'[q] = current[q]
  BY DEF CatalogInv, CatalogTypeOK, FetchListing, RunState, Cursors
<1>2. CatalogTypeOK'
  <2>1. run' \in [Runs -> RunState]
    BY <1>1 DEF CatalogInv, CatalogTypeOK, FetchListing
  <2> QED BY <2>1 DEF CatalogInv, CatalogTypeOK, FetchListing, RunUnchanged, Cursors
<1>3. RunKnows(r)'
  <2>1. log' = log /\ asOf' = asOf /\ rows' = rows
    BY DEF FetchListing, RunUnchanged
  <2>2. RunKnows(r) /\ Known /\ Position
    BY DEF CatalogInv
  <2>3. \A f \in Files : rows'[f] # None => Changed(f, 0, run[r].at)'
    BY <2>1, <2>2, <1>1, SameLog DEF Known
  <2>4. Now' = Now
    BY <2>1, SameLog
  <2> QED BY <1>1, <2>1, <2>2, <2>3, <2>4 DEF RunKnows, Position
<1> QED BY <1>1, <1>2, <1>3, RunMoves DEF FetchListing, RunUnchanged

LEMMA FailKeeps == ASSUME CatalogInv, NEW r \in Runs, SyncFails(r) \/ Abort(r) PROVE CatalogInv'
<1>1. source' \in SourceRow /\ source'.cursor = source.cursor
  BY DEF SyncFails, Abort, MarkFailure, SourceRow, CatalogInv, CatalogTypeOK
<1> QED BY <1>1, FaultBounded, RunEnds DEF SyncFails, Abort, RunUnchanged

LEMMA ChangedWidens ==
  ASSUME NEW f, NEW i \in Nat, NEW j \in Nat, NEW k \in Nat, j <= k, Changed(f, i, j)
  PROVE  Changed(f, 0, k)
BY DEF Changed, Events

\* What a run that may publish knows of its answer.
LEMMA AnswerFits ==
  ASSUME CatalogInv, NEW r \in Runs, run[r].step = "fetched", MayPublish(r)
  PROVE  LET s == run[r]
             start == IF s.from = None THEN 0 ELSE s.from IN
         /\ s.at \in 0..Now /\ start \in 0..s.at
         /\ s.from # None => s.from = asOf
         /\ asOf # None => asOf <= s.at
         /\ \A f \in Files : rows[f] # None => Changed(f, 0, s.at)
         /\ \A f : Upserted(f, s) <=> Changed(f, start, s.at) /\ NameAt(f, s.at) \in Allowed
<1> USE Types
<1>1. RunKnows(r)
  BY DEF CatalogInv
<1> QED BY <1>1 DEF RunKnows, MayPublish, Upserted

\* The rows that a publication leaves follow the drive as of its answer.
LEMMA RowsFollow ==
  ASSUME CatalogInv, NEW r \in Runs, run[r].step = "fetched", MayPublish(r), NEW f \in Files
  PROVE  LET s == run[r]
             row == IF Upserted(f, s) THEN NameAt(f, s.at) ELSE IF Removed(f, s) THEN None ELSE rows[f]
             given == f \in titled /\ ~Upserted(f, s) /\ ~Removed(f, s) IN
         /\ row \in Names \cup {None}
         /\ row # None => Changed(f, 0, Now)
         /\ ~Changed(f, s.at, Now) =>
              /\ NameAt(f, s.at) \in Allowed => row = NameAt(f, s.at) \/ (row # None /\ given)
              /\ NameAt(f, s.at) = None => row = None \/ given
<1> DEFINE s == run[r]
           start == IF s.from = None THEN 0 ELSE s.from
           row == IF Upserted(f, s) THEN NameAt(f, s.at) ELSE IF Removed(f, s) THEN None ELSE rows[f]
           given == f \in titled /\ ~Upserted(f, s) /\ ~Removed(f, s)
<1> USE Types
<1>1. /\ s.at \in 0..Now /\ start \in 0..s.at
      /\ s.from # None => s.from = asOf /\ asOf <= s.at
      /\ Upserted(f, s) <=> Changed(f, start, s.at) /\ NameAt(f, s.at) \in Allowed
  BY AnswerFits
<1>2. /\ NameAt(f, s.at) \in Names \cup {None}
      /\ NameAt(f, s.at) # None => Changed(f, 0, s.at)
  BY <1>1, NameKnown DEF Now
<1>3. row # None => Changed(f, 0, Now)
  BY <1>1, ChangedWidens DEF CatalogInv, Known
<1>4. ASSUME ~Changed(f, s.at, Now)
      PROVE  /\ NameAt(f, s.at) \in Allowed => row = NameAt(f, s.at) \/ (row # None /\ given)
             /\ NameAt(f, s.at) = None => row = None \/ given
  <2>1. CASE s.from = None
    BY <2>1, <1>1, <1>2 DEF Removed
  <2>2. CASE s.from # None /\ Changed(f, s.from, s.at)
    BY <2>2, <1>1 DEF Removed
  <2>3. CASE s.from # None /\ ~Changed(f, s.from, s.at)
    <3>1. s.from = asOf /\ asOf \in 0..s.at /\ ~Upserted(f, s) /\ ~Removed(f, s)
      BY <2>3, <1>1 DEF Removed
    <3>2. NameAt(f, s.at) = NameAt(f, asOf)
      BY <3>1, <2>3, <1>1, NameKept
    <3>3. ~Changed(f, asOf, Now)
      BY <3>1, <2>3, <1>1, <1>4 DEF Changed, Events
    <3>4. /\ NameAt(f, asOf) \in Allowed => rows[f] = NameAt(f, asOf) \/ (rows[f] # None /\ f \in titled)
          /\ NameAt(f, asOf) = None => rows[f] = None \/ f \in titled
      BY <3>1, <3>3 DEF CatalogInv, CatalogFollowsDrive
    <3> QED BY <3>1, <3>2, <3>4
  <2> QED BY <2>1, <2>2, <2>3
<1> QED BY <1>1, <1>2, <1>3, <1>4

LEMMA PublishKeeps == ASSUME CatalogInv, NEW r \in Runs, PublishAt(r) PROVE CatalogInv'
<1> DEFINE s == run[r]
<1> USE Types
<1>1. CASE ~MayPublish(r)
  BY <1>1, RunEnds DEF PublishAt, RunUnchanged, CatalogInv, CatalogTypeOK
<1>2. CASE MayPublish(r)
  <2>1. s.step = "fetched" /\ s.at \in 0..Now
    BY DEF PublishAt
  <2>2. /\ \A f \in Files : rows'[f] = IF Upserted(f, s) THEN NameAt(f, s.at)
                                       ELSE IF Removed(f, s) THEN None ELSE rows[f]
        /\ titled' = {f \in titled : ~Upserted(f, s) /\ ~Removed(f, s)}
        /\ asOf' = s.at /\ log' = log /\ upload' = upload /\ current' = NoReads /\ faults' = faults
        /\ source' \in SourceRow /\ source'.cursor \in {s.at, None}
        /\ run' = [run EXCEPT ![r] = IdleRun] /\ DOMAIN rows' = Files
    <3>1. /\ rows' = [f \in Files |-> IF Upserted(f, s) THEN NameAt(f, s.at)
                                      ELSE IF Removed(f, s) THEN None ELSE rows[f]]
          /\ source' = [source EXCEPT !.cursor = IF s.link THEN s.at ELSE None, !.health = "ready"]
      BY <1>2 DEF PublishAt, Promote
    <3>2. source' \in SourceRow /\ source'.cursor \in {s.at, None}
      <4> DEFINE c == IF s.link THEN s.at ELSE None
      <4>1. c \in {s.at, None} /\ c \in Cursors
        BY <2>1 DEF Cursors
      <4>2. source \in SourceRow /\ source' = [source EXCEPT !.cursor = c, !.health = "ready"]
        BY <3>1 DEF CatalogInv, CatalogTypeOK
      <4> HIDE DEF c
      <4> QED BY <4>1, <4>2 DEF SourceRow
    <3>3. /\ titled' = {f \in titled : ~Upserted(f, s) /\ ~Removed(f, s)}
          /\ asOf' = s.at /\ log' = log /\ upload' = upload /\ current' = NoReads /\ faults' = faults
          /\ run' = [run EXCEPT ![r] = IdleRun]
      BY <1>2 DEF PublishAt, Promote, RunUnchanged
    <3> QED BY <3>1, <3>2, <3>3
  <2>3. rows' \in [Files -> Names \cup {None}]
    <3>1. \A f \in Files : rows'[f] \in Names \cup {None}
      BY <2>1, <2>2, <1>2, RowsFollow
    <3>2. rows' = [f \in Files |-> rows'[f]]
      BY <1>2 DEF PublishAt
    <3> QED BY <3>1, <3>2
  <2>4. run' \in [Runs -> RunState] /\ \A q \in Runs : run'[q].at <= Now
    BY <2>2 DEF CatalogInv, CatalogTypeOK, IdleRun, RunState, Cursors
  <2>5. CatalogTypeOK'
    BY <2>1, <2>2, <2>3, <2>4 DEF CatalogInv, CatalogTypeOK, NoReads, Cursors
  <2>6. Position' /\ Known'
    BY <2>1, <2>2, <1>2, RowsFollow, SameLog DEF Position, Known
  <2>7. CatalogFollowsDrive'
    <3> SUFFICES ASSUME NEW f \in Files, ~Changed(f, s.at, Now)
                 PROVE  /\ NameAt(f, s.at) \in Allowed
                             => (rows'[f] = NameAt(f, s.at) \/ (rows'[f] # None /\ f \in titled'))
                        /\ NameAt(f, s.at) = None => (rows'[f] = None \/ f \in titled')
      BY <2>2, SameLog DEF CatalogFollowsDrive
    <3> QED BY <2>1, <2>2, <1>2, RowsFollow
  <2>8. \A q \in Runs : RunKnows(q)'
    BY <2>2, <2>4, SameLog DEF RunKnows, NoReads
  <2>9. \A u \in Uploads : UploadKnows(u)'
    BY <2>2, SameLog DEF CatalogInv, UploadKnows, NameNow
  <2> QED BY <2>5, <2>6, <2>7, <2>8, <2>9 DEF CatalogInv
<1> QED BY <1>1, <1>2

-----------------------------------------------------------------------------
(* Owners and the publisher.                                               *)

LEMMA OwnerKeeps == ASSUME CatalogInv, OwnerChanges PROVE CatalogInv'
<1> USE Types
<1>1. PICK g \in Files : \E n \in Names \cup {None} : (g \in Unused \/ Present(g)) /\ Happens(g, n)
  <2>1. \A g \in Files : NameNow(g) \in Names \cup {None}
    BY NameKnown DEF NameNow, Now
  <2> QED BY <2>1 DEF OwnerChanges
<1>2. PICK n \in Names \cup {None} : (g \in Unused \/ Present(g)) /\ Happens(g, n)
  BY <1>1
<1>3. /\ log' \in Seq(DriveEvent) /\ Position' /\ Known' /\ CatalogFollowsDrive'
      /\ \A r \in Runs : RunKnows(r)'
      /\ \A u \in Uploads : upload'[u] = upload[u] => UploadKnows(u)'
  BY <1>2, DriveMoves DEF OwnerChanges
<1> QED BY <1>3 DEF OwnerChanges, CatalogInv, CatalogTypeOK

\* A step of upload u that leaves the drive, the rows and the source alone.
LEMMA UploadMoves ==
  ASSUME CatalogInv, NEW u \in Uploads, NEW s \in UploadState, faults' \in 0..MaxFaults,
         upload' = [upload EXCEPT ![u] = s], UNCHANGED <<source, current, log, rows, titled, run, asOf>>,
         s.step \in Holding => s.file \in Files /\ Changed(s.file, 0, Now),
         s.step = "removing" => NameNow(s.file) = None
  PROVE  CatalogInv'
<1> USE Types
<1>1. CatalogTypeOK'
  BY DEF CatalogInv, CatalogTypeOK
<1>2. Position' /\ Known' /\ CatalogFollowsDrive' /\ \A r \in Runs : RunKnows(r)'
  BY SameLog DEF CatalogInv, Position, Known, CatalogFollowsDrive, RunKnows
<1>3. upload'[u] = s /\ \A v \in Uploads \ {u} : upload'[v] = upload[v]
  BY DEF CatalogInv, CatalogTypeOK
<1>4. \A v \in Uploads : UploadKnows(v)'
  <2> TAKE v \in Uploads
  <2>1. CASE v = u
    BY <2>1, <1>3, SameLog DEF UploadKnows, NameNow
  <2>2. CASE v # u
    BY <2>2, <1>3, SameLog DEF CatalogInv, UploadKnows, NameNow
  <2> QED BY <2>1, <2>2
<1> QED BY <1>1, <1>2, <1>4 DEF CatalogInv

\* A step of upload u that changes its file in the drive.
LEMMA UploadChanges ==
  ASSUME CatalogInv, NEW u \in Uploads, NEW s \in UploadState, faults' \in 0..MaxFaults,
         upload' = [upload EXCEPT ![u] = s], UNCHANGED <<source, current, rows, titled, run, asOf>>,
         NEW g \in Files, NEW n \in Names \cup {None}, g \in Unused \/ Present(g), Happens(g, n),
         s.step \in Holding => s.file = g,
         s.step = "removing" => n = None
  PROVE  CatalogInv'
<1> USE Types
<1>1. /\ log' \in Seq(DriveEvent) /\ Position' /\ Known' /\ CatalogFollowsDrive'
      /\ \A r \in Runs : RunKnows(r)'
      /\ \A v \in Uploads : upload'[v] = upload[v] => UploadKnows(v)'
      /\ Changed(g, 0, Now)' /\ NameNow(g)' = n
  BY DriveMoves
<1>2. upload'[u] = s /\ \A v \in Uploads \ {u} : upload'[v] = upload[v]
  BY DEF CatalogInv, CatalogTypeOK
<1>3. CatalogTypeOK'
  BY <1>1 DEF CatalogInv, CatalogTypeOK
<1>4. UploadKnows(u)'
  BY <1>1, <1>2 DEF UploadKnows, Holding
<1> QED BY <1>1, <1>2, <1>3, <1>4 DEF CatalogInv

LEMMA CheckKeeps == ASSUME CatalogInv, NEW u \in Uploads, Check(u) PROVE CatalogInv'
<1> DEFINE s == [upload[u] EXCEPT !.step = IF SameTitle(u) = {} THEN "checked" ELSE "done"]
<1>1. s \in UploadState /\ s.step \in {"checked", "done"}
  BY Types DEF UploadState
<1>2. upload' = [upload EXCEPT ![u] = s] /\ faults' \in 0..MaxFaults
  BY DEF Check, CatalogInv, CatalogTypeOK
<1> HIDE DEF s
<1> QED BY <1>1, <1>2, UploadMoves DEF Check, UploadUnchanged, Holding

LEMMA UploadFileKeeps == ASSUME CatalogInv, NEW u \in Uploads, UploadFile(u) PROVE CatalogInv'
<1> USE Types
<1>1. PICK g \in Stored(u) :
        /\ Happens(g, NameOf[u])
        /\ \/ upload' = [upload EXCEPT ![u] = [step |-> "uploaded", file |-> g]] /\ UNCHANGED faults
           \/ upload' = [upload EXCEPT ![u].step = "done"] /\ Fault
  BY DEF UploadFile
<1>2. NameOf[u] \in Names /\ NameOf[u] # None
  BY CatalogAssumption DEF CatalogAssumption
<1>3. g \in Files /\ (g \in Unused \/ Present(g))
  BY <1>2 DEF Stored, Present, Unused
<1>4. faults' \in 0..MaxFaults
  BY <1>1, FaultBounded DEF CatalogInv, CatalogTypeOK
<1>5. CASE upload' = [upload EXCEPT ![u] = [step |-> "uploaded", file |-> g]]
  <2>1. [step |-> "uploaded", file |-> g] \in UploadState
    BY <1>3 DEF UploadState
  <2> QED BY <2>1, <1>1, <1>2, <1>3, <1>4, <1>5, UploadChanges DEF UploadFile, UploadUnchanged
<1>6. CASE upload' = [upload EXCEPT ![u].step = "done"]
  <2> DEFINE s == [upload[u] EXCEPT !.step = "done"]
  <2>1. s \in UploadState /\ s.step = "done" /\ upload' = [upload EXCEPT ![u] = s]
    BY <1>6 DEF UploadState
  <2> HIDE DEF s
  <2> QED BY <2>1, <1>1, <1>2, <1>3, <1>4, UploadChanges DEF UploadFile, UploadUnchanged, Holding
<1> QED BY <1>1, <1>5, <1>6

LEMMA IndexKeeps == ASSUME CatalogInv, NEW u \in Uploads, Index(u) PROVE CatalogInv'
<1> DEFINE g == upload[u].file
<1> USE Types
<1>1. g \in Files /\ Changed(g, 0, Now)
  BY DEF Index, CatalogInv, UploadKnows, Holding
<1>2. NameOf[u] \in Names /\ NameOf[u] # None
  BY CatalogAssumption DEF CatalogAssumption
<1>3. /\ rows'[g] = NameOf[u] /\ \A f \in Files \ {g} : rows'[f] = rows[f]
      /\ rows' \in [Files -> Names \cup {None}] /\ titled' = titled \cup {g} /\ titled' \subseteq Files
  BY <1>1, <1>2 DEF Index, WriteItem, CatalogInv, CatalogTypeOK
<1>4. source' \in SourceRow /\ source'.cursor = source.cursor /\ current' = NoReads
  BY DEF Index, PromoteByItem, Promote, SourceRow, CatalogInv, CatalogTypeOK
<1>5. PICK t \in {"published", "failed"} : upload' = [upload EXCEPT ![u].step = t]
  BY DEF Index
<1>6. upload'[u].file = g /\ upload'[u].step = t /\ upload' \in [Uploads -> UploadState]
  BY <1>5 DEF CatalogInv, CatalogTypeOK, UploadState
<1>7. \A v \in Uploads \ {u} : upload'[v] = upload[v]
  BY <1>5 DEF CatalogInv, CatalogTypeOK
<1>8. faults' \in 0..MaxFaults /\ log' = log /\ run' = run /\ asOf' = asOf
  BY FaultBounded DEF Index, UploadUnchanged, CatalogInv, CatalogTypeOK
<1> HIDE DEF g
<1>9. CatalogTypeOK'
  BY <1>3, <1>4, <1>6, <1>8 DEF CatalogInv, CatalogTypeOK, NoReads
<1>10. Position' /\ Known'
  BY <1>1, <1>3, <1>4, <1>8, SameLog DEF CatalogInv, Position, Known
<1>11. CatalogFollowsDrive'
  BY <1>2, <1>3, <1>8, SameLog DEF CatalogInv, CatalogFollowsDrive
<1>12. \A r \in Runs : RunKnows(r)'
  BY <1>4, <1>8, SameLog DEF CatalogInv, RunKnows, NoReads
<1>13. \A v \in Uploads : UploadKnows(v)'
  <2> TAKE v \in Uploads
  <2>1. CASE v = u
    BY <2>1, <1>1, <1>6, <1>8, SameLog DEF UploadKnows
  <2>2. CASE v # u
    BY <2>2, <1>7, <1>8, SameLog DEF CatalogInv, UploadKnows, NameNow
  <2> QED BY <2>1, <2>2
<1> QED BY <1>9, <1>10, <1>11, <1>12, <1>13 DEF CatalogInv

\* The step of an upload that is done, with or without the deletion of its file.
LEMMA DeleteKeeps ==
  ASSUME CatalogInv, NEW u \in Uploads, upload[u].step \in Holding, Delete(u) \/ UNCHANGED log,
         NEW t \in {"done", "removing"}, t = "removing" => Delete(u),
         upload' = [upload EXCEPT ![u].step = t], faults' \in 0..MaxFaults,
         UNCHANGED <<source, current, rows, titled, run, asOf>>
  PROVE  CatalogInv'
<1> DEFINE s == [upload[u] EXCEPT !.step = t]
           g == upload[u].file
<1> USE Types
<1>1. s \in UploadState /\ s.step = t /\ s.file = g /\ upload' = [upload EXCEPT ![u] = s]
  BY DEF UploadState, CatalogInv, CatalogTypeOK
<1>2. g \in Files /\ Changed(g, 0, Now)
  BY DEF CatalogInv, UploadKnows
<1> HIDE DEF s
<1>3. CASE Present(g) /\ Happens(g, None)
  BY <1>1, <1>2, <1>3, UploadChanges
<1>4. CASE log' = log /\ (t = "removing" => ~Present(g))
  BY <1>1, <1>2, <1>4, UploadMoves DEF Present
<1>5. CASE Delete(u) /\ ~Present(g)
  BY <1>4, <1>5 DEF Delete
<1> QED BY <1>3, <1>4, <1>5 DEF Delete

LEMMA IndexFailsKeeps == ASSUME CatalogInv, NEW u \in Uploads, IndexFails(u) PROVE CatalogInv'
<1> DEFINE s == [upload[u] EXCEPT !.step = "failed"]
<1> USE Types
<1>1. /\ s \in UploadState /\ s.step = "failed" /\ s.file = upload[u].file
      /\ upload' = [upload EXCEPT ![u] = s]
  BY DEF UploadState, IndexFails, CatalogInv, CatalogTypeOK
<1>2. s.file \in Files /\ Changed(s.file, 0, Now)
  BY <1>1 DEF IndexFails, CatalogInv, UploadKnows, Holding
<1> HIDE DEF s
<1> QED BY <1>1, <1>2, FaultBounded, UploadMoves DEF IndexFails, UploadUnchanged

LEMMA CompensateKeeps == ASSUME CatalogInv, NEW u \in Uploads, Compensate(u) PROVE CatalogInv'
BY FaultBounded, DeleteKeeps DEF Compensate, UploadUnchanged, Holding, CatalogInv, CatalogTypeOK

LEMMA WithdrawKeeps == ASSUME CatalogInv, NEW u \in Uploads, Withdraw(u) PROVE CatalogInv'
<1>1. CASE rows[upload[u].file] = None
  BY <1>1, DeleteKeeps DEF Withdraw, UploadUnchanged, Holding, CatalogInv, CatalogTypeOK
<1>2. CASE rows[upload[u].file] # None
  BY <1>2, DeleteKeeps DEF Withdraw, UploadUnchanged, Holding, CatalogInv, CatalogTypeOK
<1> QED BY <1>1, <1>2

LEMMA TombstoneKeeps == ASSUME CatalogInv, NEW u \in Uploads, TombstoneItem(u) PROVE CatalogInv'
<1> DEFINE g == upload[u].file
<1> USE Types
<1>1. g \in Files /\ Changed(g, 0, Now) /\ NameNow(g) = None
  BY DEF TombstoneItem, CatalogInv, UploadKnows, Holding
<1>2. /\ rows'[g] = None /\ \A f \in Files \ {g} : rows'[f] = rows[f]
      /\ rows' \in [Files -> Names \cup {None}] /\ titled' = titled \ {g}
  BY <1>1 DEF TombstoneItem, CatalogInv, CatalogTypeOK
<1>3. /\ upload'[u].step = "done" /\ upload' \in [Uploads -> UploadState]
      /\ \A v \in Uploads \ {u} : upload'[v] = upload[v]
  BY DEF TombstoneItem, CatalogInv, CatalogTypeOK, UploadState
<1>4. UNCHANGED <<source, current, log, faults, run, asOf>>
  BY DEF TombstoneItem, UploadUnchanged
<1> HIDE DEF g
<1>5. CatalogTypeOK' /\ Position' /\ Known'
  BY <1>1, <1>2, <1>3, <1>4, SameLog DEF CatalogInv, CatalogTypeOK, Position, Known
<1>6. CatalogFollowsDrive'
  <2>1. asOf # None /\ ~Changed(g, asOf, Now) => NameAt(g, asOf) = None
    BY <1>1, NameKept DEF NameNow
  <2> QED BY <2>1, <1>1, <1>2, <1>4, SameLog DEF CatalogInv, CatalogFollowsDrive
<1>7. \A r \in Runs : RunKnows(r)'
  <2> TAKE r \in Runs
  <2>1. \A f \in Files : rows'[f] # None => rows[f] # None
    BY <1>2
  <2> QED BY <2>1, <1>4, SameLog DEF CatalogInv, RunKnows
<1>8. \A v \in Uploads : UploadKnows(v)'
  <2> TAKE v \in Uploads
  <2>1. CASE v = u
    BY <2>1, <1>3 DEF UploadKnows, Holding
  <2>2. CASE v # u
    BY <2>2, <1>3, <1>4, SameLog DEF CatalogInv, UploadKnows, NameNow
  <2> QED BY <2>1, <2>2
<1> QED BY <1>5, <1>6, <1>7, <1>8 DEF CatalogInv

LEMMA ToggleKeeps == ASSUME CatalogInv, Toggle PROVE CatalogInv'
<1>1. source' \in SourceRow /\ source'.cursor = source.cursor
  BY DEF Toggle, SetEnabled, SourceRow, CatalogInv, CatalogTypeOK
<1>2. CatalogTypeOK' /\ Position' /\ Known' /\ CatalogFollowsDrive'
  BY <1>1, SameLog DEF Toggle, CatalogInv, CatalogTypeOK, Position, Known, CatalogFollowsDrive
<1>3. (\A r \in Runs : RunKnows(r)') /\ \A u \in Uploads : UploadKnows(u)'
  BY SameLog DEF Toggle, CatalogInv, RunKnows, UploadKnows, NameNow
<1> QED BY <1>2, <1>3 DEF CatalogInv

-----------------------------------------------------------------------------
(* The theorems.                                                           *)

LEMMA CatalogStep == CatalogInv /\ [CatalogNext]_vars => CatalogInv'
<1> SUFFICES ASSUME CatalogInv, [CatalogNext]_vars PROVE CatalogInv'
  OBVIOUS
<1>1. CASE OwnerChanges
  BY <1>1, OwnerKeeps
<1>2. CASE Toggle
  BY <1>2, ToggleKeeps
<1>3. ASSUME NEW r \in Runs, SyncStep(r) PROVE CatalogInv'
  BY <1>3, ListKeeps, ReadKeeps, FetchDeltaKeeps, ResetKeeps, FetchListingKeeps, PublishKeeps, FailKeeps
     DEF SyncStep
<1>4. ASSUME NEW u \in Uploads, UploadStep(u) PROVE CatalogInv'
  BY <1>4, CheckKeeps, UploadFileKeeps, IndexKeeps, IndexFailsKeeps, CompensateKeeps, WithdrawKeeps, TombstoneKeeps
     DEF UploadStep
<1>5. CASE UNCHANGED vars
  <2>1. CatalogTypeOK' /\ Position' /\ Known' /\ CatalogFollowsDrive'
    BY <1>5, SameLog DEF vars, CatalogInv, CatalogTypeOK, Position, Known, CatalogFollowsDrive
  <2>2. (\A r \in Runs : RunKnows(r)') /\ \A u \in Uploads : UploadKnows(u)'
    BY <1>5, SameLog DEF vars, CatalogInv, RunKnows, UploadKnows, NameNow
  <2> QED BY <2>1, <2>2 DEF CatalogInv
<1> QED BY <1>1, <1>2, <1>3, <1>4, <1>5 DEF CatalogNext

\* What the runs of the synchronization know of the catalog holds in every behaviour.
THEOREM CatalogInvariant == CatalogSpec => []CatalogInv
BY InitHolds, CatalogStep, PTL DEF CatalogSpec

\* The row, the reads, the log, the runs and the uploads keep their types (postgres-store.ts, sync-service.ts).
THEOREM CatalogTypeCorrect == CatalogSpec => []CatalogTypeOK
<1>1. CatalogInv => CatalogTypeOK
  BY DEF CatalogInv
<1> QED BY <1>1, CatalogInvariant, PTL

\* The catalog shows every file as it was when the last published answer was given, unless it
\* changed since or a row of the bot stands for it (publishSourceSnapshot, publishSourceDelta).
THEOREM CatalogShowsDrive == CatalogSpec => []CatalogFollowsDrive
<1>1. CatalogInv => CatalogFollowsDrive
  BY DEF CatalogInv
<1> QED BY <1>1, CatalogInvariant, PTL

\* No answer is published over a later one: the revision a run read is current only while nothing
\* was published (postgres-store.ts 246, 315).
THEOREM NewestPublished == CatalogSpec => NewestAnswerWins
<1>1. CatalogInv /\ [CatalogNext]_vars => [asOf = None \/ asOf' >= asOf]_vars
  <2> SUFFICES ASSUME CatalogInv, CatalogNext, asOf # None PROVE asOf' >= asOf
    OBVIOUS
  <2> USE Types
  <2>1. asOf \in Nat
    OBVIOUS
  <2>2. CASE \E r \in Runs : PublishAt(r)
    <3> PICK r \in Runs : PublishAt(r)
      BY <2>2
    <3>1. CASE MayPublish(r)
      BY <2>1, <3>1, AnswerFits DEF PublishAt
    <3>2. CASE ~MayPublish(r)
      BY <2>1, <3>2 DEF PublishAt
    <3> QED BY <3>1, <3>2
  <2>3. CASE asOf' = asOf
    BY <2>1, <2>3
  <2>4. ASSUME NEW r \in Runs, SyncStep(r), ~PublishAt(r) PROVE asOf' = asOf
    BY <2>4 DEF SyncStep, List, Read, FetchDelta, ResetCursor, FetchListing, SyncFails, Abort
  <2>5. ASSUME NEW u \in Uploads, UploadStep(u) PROVE asOf' = asOf
    BY <2>5 DEF UploadStep, Check, UploadFile, Index, IndexFails, Compensate, Withdraw, TombstoneItem, UploadUnchanged
  <2> QED BY <2>2, <2>3, <2>4, <2>5 DEF CatalogNext, OwnerChanges, Toggle
<1> QED BY <1>1, CatalogInvariant, PTL DEF CatalogSpec, NewestAnswerWins

LEMMA SteadyName ==
  ASSUME log \in Seq(DriveEvent), NEW f, Steady(f), NEW i \in 0..Now, Changed(f, 0, i)
  PROVE  NameAt(f, i) \in Allowed
<1>1. Now \in Nat
  BY DEF Now
<1>2. Last(f, i) \in Events(f, 0, i) /\ NameAt(f, i) = log[Last(f, i)].name
  BY <1>1, LastChange
<1>3. Last(f, i) \in Events(f, 0, Now)
  BY <1>1, <1>2 DEF Events
<1> QED BY <1>2, <1>3 DEF Steady

\* A file that always had an accepted name stays listed once it is: an item that is upserted while a
\* run works makes the run's answer worthless (upsertItem promotes the revision).
THEOREM AddedStay == CatalogSpec => AddedFilesStay
<1>1. CatalogInv /\ [CatalogNext]_vars
        => [\A f \in Files : Steady(f) /\ rows[f] # None => rows'[f] # None]_vars
  <2> SUFFICES ASSUME CatalogInv, CatalogNext, NEW f \in Files, Steady(f), rows[f] # None
               PROVE  rows'[f] # None
    OBVIOUS
  <2> USE Types
  <2>1. ASSUME NEW r \in Runs, PublishAt(r) PROVE rows'[f] # None
    <3> DEFINE s == run[r]
               start == IF s.from = None THEN 0 ELSE s.from
    <3>1. CASE MayPublish(r)
      <4>1. s.step = "fetched"
        BY <2>1 DEF PublishAt
      <4>2. /\ s.at \in 0..Now /\ Changed(f, 0, s.at)
            /\ Upserted(f, s) <=> Changed(f, start, s.at) /\ NameAt(f, s.at) \in Allowed
        BY <4>1, <3>1, AnswerFits
      <4>3. NameAt(f, s.at) \in Allowed /\ NameAt(f, s.at) # None
        BY <4>2, SteadyName
      <4>4. ~Removed(f, s)
        BY <4>2, <4>3 DEF Removed
      <4>5. rows'[f] = IF Upserted(f, s) THEN NameAt(f, s.at)
                       ELSE IF Removed(f, s) THEN None ELSE rows[f]
        BY <2>1, <3>1 DEF PublishAt
      <4> QED BY <4>3, <4>4, <4>5
    <3>2. CASE ~MayPublish(r)
      BY <2>1, <3>2 DEF PublishAt
    <3> QED BY <3>1, <3>2
  <2>2. ASSUME NEW u \in Uploads, Index(u) PROVE rows'[f] # None
    <3>1. NameOf[u] # None /\ rows' = [rows EXCEPT ![upload[u].file] = NameOf[u]]
      BY <2>2, CatalogAssumption DEF CatalogAssumption, Index, WriteItem
    <3> QED BY <3>1 DEF CatalogInv, CatalogTypeOK
  <2>3. ASSUME NEW u \in Uploads, TombstoneItem(u) PROVE rows'[f] # None
    <3>1. Changed(upload[u].file, 0, Now) /\ NameNow(upload[u].file) = None
      BY <2>3 DEF CatalogInv, UploadKnows, TombstoneItem, Holding
    <3>2. f # upload[u].file
      BY <3>1, SteadyName DEF NameNow
    <3> QED BY <2>3, <3>2 DEF TombstoneItem, CatalogInv, CatalogTypeOK
  <2>4. ASSUME NEW r \in Runs, SyncStep(r), ~PublishAt(r) PROVE rows' = rows
    BY <2>4 DEF SyncStep, List, Read, FetchDelta, ResetCursor, FetchListing, SyncFails, Abort
  <2>5. ASSUME NEW u \in Uploads, UploadStep(u), ~Index(u), ~TombstoneItem(u) PROVE rows' = rows
    BY <2>5 DEF UploadStep, Check, UploadFile, IndexFails, Compensate, Withdraw
  <2> QED BY <2>1, <2>2, <2>3, <2>4, <2>5 DEF CatalogNext, OwnerChanges, Toggle
<1> QED BY <1>1, CatalogInvariant, PTL DEF CatalogSpec, AddedFilesStay
=============================================================================
