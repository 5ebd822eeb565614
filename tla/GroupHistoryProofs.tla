------------------------- MODULE GroupHistoryProofs -------------------------
(***************************************************************************)
(* Theorems about GroupHistory, for any number of processes, groups,       *)
(* messages, answers and configurations, any queue bound and any batch.    *)
(*                                                                         *)
(* HistoryInv says what the rows and the answers contain: an answer names  *)
(* among its sources everything it was derived from, also through anchors  *)
(* (Derived), and a row with a text carries the time its message was sent  *)
(* (RowFits).  GoneInv says why what is gone stays gone: a marker is left, *)
(* or the floor or the horizon has moved past the message.                 *)
(***************************************************************************)
EXTENDS GroupHistory, WellFoundedInduction, TLAPS

-----------------------------------------------------------------------------
(* Numbers: a nonempty bounded set has a greatest element.                 *)

LEMMA LeastExists ==
  ASSUME NEW S \in SUBSET Nat, S # {}
  PROVE  \E x \in S : \A y \in S : x <= y
<1> DEFINE R == OpToRel(<, Nat)
<1>1. IsWellFoundedOn(R, Nat)
  BY NatLessThanWellFounded
<1>2. PICK x \in S : \A y \in S : <<y, x>> \notin R
  <2> HIDE DEF R
  <2> QED BY <1>1, WFMin
<1>3. \A y \in S : ~(y < x)
  BY <1>2 DEF OpToRel
<1> QED BY <1>3

LEMMA LatestIsGreatest ==
  ASSUME NEW N \in Nat, NEW S, S \subseteq 0..N, S # {}
  PROVE  Latest(S) \in S /\ \A y \in S : y <= Latest(S)
<1> DEFINE U == {n \in Nat : \A y \in S : y <= n}
<1>1. N \in U
  OBVIOUS
<1>2. PICK x \in U : \A y \in U : x <= y
  BY <1>1, LeastExists
<1>3. x \in S
  <2> SUFFICES ASSUME x \notin S PROVE FALSE
    OBVIOUS
  <2>1. \A y \in S : y < x
    BY <1>2
  <2>2. PICK y \in S : TRUE
    OBVIOUS
  <2>3. x - 1 \in Nat
    BY <2>1, <2>2, <1>2
  <2>4. x - 1 \in U
    BY <2>1, <2>3
  <2> QED BY <2>4, <2>3, <1>2
<1>4. \A y \in S : y <= x
  BY <1>2
<1> QED BY <1>3, <1>4 DEF Latest

LEMMA NowIsLast ==
  /\ Now \in Nat
  /\ \A m \in Messages : SentAt(m) \in Nat /\ UnsentAt(m) \in Nat /\ UnsentAt(m) < Now
<1>1. PICK n \in Messages : \A m \in Messages : m <= n
  BY HistoryAssumption DEF HistoryAssumption
<1>2. Messages \subseteq 0..n /\ Messages # {} /\ n \in Nat
  BY <1>1, HistoryAssumption DEF HistoryAssumption
<1>3. Latest(Messages) \in Messages /\ \A m \in Messages : m <= Latest(Messages)
  BY <1>2, LatestIsGreatest
<1> DEFINE l == Latest(Messages)
<1>4. l \in Nat /\ \A m \in Messages : m \in Nat /\ m <= l
  BY <1>3, HistoryAssumption DEF HistoryAssumption
<1> HIDE DEF l
<1>5. Now = 2 * l + 2
  BY DEF Now, l
<1> QED BY <1>4, <1>5 DEF SentAt, UnsentAt

-----------------------------------------------------------------------------
(* The invariants.                                                         *)

\* What the stored row of key k may be.
RowFits(k, r) ==
  /\ r.at <= Now
  /\ r.basis \subseteq KeysOf(GroupOf[k])
  /\ k \in Messages =>
       /\ r.human /\ r.basis \subseteq {k}
       /\ r.at \in {SentAt(k), UnsentAt(k)} /\ (r.text => r.at = SentAt(k))
  /\ k \in Answers => ~r.human /\ r.basis \subseteq r.sources

Fits(table) == \A k \in Keys : table[k] # NoRow => RowFits(k, table[k])

\* An answer names what it was derived from.
Derived ==
  \A a \in Answers : /\ answer[a].basis \subseteq answer[a].sources
                     /\ answer[a].basis \subseteq KeysOf(GroupOf[a])

HistoryInv ==
  /\ HistoryTypeOK
  /\ \A g \in Groups : policy.floor[g] <= Now + 1
  /\ Fits(rows)
  /\ Derived

LEMMA KeyFacts ==
  /\ \A k \in Keys : GroupOf[k] \in Groups
  /\ Messages \subseteq Keys /\ Answers \subseteq Keys
  /\ \A k \in Messages : k \notin Answers
  /\ \A c \in 1..Len(Configs) : Configs[c] \in Policy
  /\ Len(Configs) \in Nat /\ 1 \in 1..Len(Configs)
<1>1. Len(Configs) \in Nat /\ Len(Configs) # 0
  BY HistoryAssumption DEF HistoryAssumption
<1> QED BY <1>1, HistoryAssumption DEF HistoryAssumption, Keys

LEMMA NoRowFacts == NoRow \in Row /\ ~NoRow.text /\ ~NoRow.withdrawn /\ NoRow.at = 0
BY DEF NoRow, Row

-----------------------------------------------------------------------------
(* An ingest: the upsert, the eviction and the floors.                     *)

LEMMA UpsertedFits ==
  ASSUME HistoryTypeOK, Fits(rows), NEW k \in Keys, NEW new \in Row, RowFits(k, new)
  PROVE  /\ Upserted(k, new) \in [Keys -> Row]
         /\ Fits(Upserted(k, new))
<1> DEFINE table == Upserted(k, new)
<1>1. rows \in [Keys -> Row]
  BY DEF HistoryTypeOK
<1>2. table = [rows EXCEPT ![k] = table[k]] /\ DOMAIN table = Keys
  BY <1>1 DEF Upserted
<1>3. CASE rows[k] = NoRow
  <2>1. table[k] = new
    BY <1>1, <1>3 DEF Upserted
  <2> HIDE DEF table
  <2> QED BY <1>1, <1>2, <2>1 DEF Fits, table
<1>4. CASE rows[k] # NoRow
  <2> DEFINE r == Merged(rows[k], new)
  <2>1. table[k] = r
    BY <1>1, <1>4 DEF Upserted
  <2>2. rows[k] \in Row /\ RowFits(k, rows[k])
    BY <1>1, <1>4 DEF Fits
  <2>3. r \in Row
    BY <2>2 DEF Row, Merged
  <2>4. /\ r.at = rows[k].at /\ r.basis = rows[k].basis /\ r.human = rows[k].human
        /\ r.sources = rows[k].sources /\ (r.text => rows[k].text)
    BY <2>2 DEF Row, Merged
  <2>5. RowFits(k, r)
    <3> HIDE DEF r
    <3> QED BY <2>2, <2>4 DEF RowFits
  <2> HIDE DEF table, r
  <2> QED BY <1>1, <1>2, <2>1, <2>3, <2>5 DEF Fits, table
<1> QED BY <1>3, <1>4

LEMMA WithoutFits ==
  ASSUME NEW table \in [Keys -> Row], Fits(table), NEW ks
  PROVE  /\ Without(table, ks) \in [Keys -> Row]
         /\ Fits(Without(table, ks))
BY NoRowFacts DEF Without, Fits

\* The floors only rise, and pass every row that is evicted.
LEMMA RaisedFits ==
  ASSUME HistoryInv, NEW table \in [Keys -> Row], Fits(table), NEW ks \in SUBSET Keys, NEW g
  PROVE  /\ Raised(table, ks, g) \in [Groups -> Nat]
         /\ \A h \in Groups : /\ Raised(table, ks, g)[h] <= Now + 1
                              /\ Raised(table, ks, g)[h] >= policy.floor[h]
         /\ \A k \in ks : table[k].at < Raised(table, ks, g)[GroupOf[k]]
<1> DEFINE T(h) == {table[k].at + 1 : k \in ks \cap KeysOf(h)} \cup {policy.floor[h]}
<1>1. \A k \in Keys : table[k].at \in Nat /\ table[k].at <= Now
  BY NoRowFacts, NowIsLast DEF Fits, RowFits, Row
<1>2. \A h \in Groups : policy.floor[h] \in Nat /\ policy.floor[h] <= Now + 1
  BY DEF HistoryInv, HistoryTypeOK, PolicyRow
<1>3. ASSUME NEW h \in Groups
      PROVE  Latest(T(h)) \in T(h) /\ \A y \in T(h) : y <= Latest(T(h))
  <2>1. T(h) \subseteq 0..(Now + 1) /\ T(h) # {}
    BY <1>1, <1>2, NowIsLast DEF KeysOf
  <2>2. Now + 1 \in Nat
    BY NowIsLast
  <2> HIDE DEF T
  <2> QED BY <2>1, <2>2, LatestIsGreatest
<1>4. \A h \in Groups : T(h) \subseteq 0..(Now + 1)
  BY <1>1, <1>2, NowIsLast DEF KeysOf
<1>5. Raised(table, ks, g) = [h \in Groups |-> Latest(T(h))]
  BY DEF Raised
<1>6. \A k \in ks : table[k].at + 1 \in T(GroupOf[k]) /\ GroupOf[k] \in Groups
  BY KeyFacts DEF KeysOf
<1>7. \A h \in Groups : policy.floor[h] \in T(h)
  OBVIOUS
<1>8. \A h \in Groups : Latest(T(h)) \in Nat /\ Latest(T(h)) <= Now + 1
  BY <1>3, <1>4, NowIsLast
<1> HIDE DEF T
<1>9. \A h \in Groups : Latest(T(h)) >= policy.floor[h]
  BY <1>3, <1>7, <1>8, <1>2
<1>10. \A k \in ks : table[k].at < Latest(T(GroupOf[k]))
  BY <1>3, <1>6, <1>8, <1>1
<1> QED BY <1>5, <1>6, <1>8, <1>9, <1>10

\* What an ingest may do.
Ingested(p, k, new, table, ks) ==
  /\ InForce(p)
  /\ table = Upserted(k, new) /\ ks \in SUBSET Stored(table, Keys)
  /\ rows' = Without(table, ks)
  /\ policy' = [policy EXCEPT !.floor = Raised(table, ks, GroupOf[k])]
  /\ gone' = gone \cup (ks \cap Messages) \cup (IF new.withdrawn THEN {k} ELSE {})

LEMMA IngestCases ==
  ASSUME NEW p, NEW k \in Keys, NEW new, Ingest(p, k, new)
  PROVE  \/ UNCHANGED <<policy, rows, gone>>
         \/ \E table, ks : Ingested(p, k, new, table, ks)
<1> DEFINE table == Upserted(k, new)
<1>1. CASE ~Accepts(p, k, new.at)
  BY <1>1 DEF Ingest
<1>2. CASE Accepts(p, k, new.at)
  <2>1. PICK ks \in Oldest(table, GroupOf[k], config[p]) :
          IF Over(Without(table, ks), GroupOf[k], config[p]) THEN UNCHANGED <<policy, rows, gone>>
          ELSE /\ rows' = Without(table, ks)
               /\ policy' = [policy EXCEPT !.floor = Raised(table, ks, GroupOf[k])]
               /\ gone' = gone \cup (ks \cap Messages) \cup (IF new.withdrawn THEN {k} ELSE {})
    BY <1>2 DEF Ingest
  <2>2. ks \in SUBSET Stored(table, Keys)
    <3> HIDE DEF table
    <3> QED BY <2>1 DEF Oldest, Candidates, Stored, KeysOf
  <2>3. InForce(p)
    BY <1>2 DEF Accepts
  <2> HIDE DEF table
  <2> QED BY <2>1, <2>2, <2>3 DEF Ingested, table
<1> QED BY <1>1, <1>2

LEMMA IngestKeeps ==
  ASSUME HistoryInv, NEW p, NEW k \in Keys, NEW new \in Row, RowFits(k, new),
         new.withdrawn => k \in Messages, Ingest(p, k, new)
  PROVE  /\ rows' \in [Keys -> Row] /\ Fits(rows')
         /\ policy' \in PolicyRow /\ \A g \in Groups : policy'.floor[g] <= Now + 1
         /\ gone' \subseteq Messages
<1>1. CASE UNCHANGED <<policy, rows, gone>>
  BY <1>1 DEF HistoryInv, HistoryTypeOK
<1>2. ASSUME NEW table, NEW ks, Ingested(p, k, new, table, ks)
      PROVE  /\ rows' \in [Keys -> Row] /\ Fits(rows')
             /\ policy' \in PolicyRow /\ \A g \in Groups : policy'.floor[g] <= Now + 1
             /\ gone' \subseteq Messages
  <2>1. table \in [Keys -> Row] /\ Fits(table)
    BY <1>2, UpsertedFits DEF Ingested, HistoryInv
  <2>2. rows' \in [Keys -> Row] /\ Fits(rows')
    BY <1>2, <2>1, WithoutFits DEF Ingested
  <2> DEFINE f == Raised(table, ks, GroupOf[k])
  <2>3. f \in [Groups -> Nat] /\ \A g \in Groups : f[g] <= Now + 1
    BY <1>2, <2>1, RaisedFits DEF Ingested, Stored
  <2>4. policy' = [policy EXCEPT !.floor = f] /\ policy \in PolicyRow
    BY <1>2 DEF Ingested, HistoryInv, HistoryTypeOK
  <2> HIDE DEF f
  <2>5. policy' \in PolicyRow /\ policy'.floor = f
    BY <2>3, <2>4 DEF PolicyRow
  <2>6. gone' \subseteq Messages
    BY <1>2 DEF Ingested, HistoryInv, HistoryTypeOK
  <2> QED BY <2>2, <2>3, <2>5, <2>6
<1> QED BY <1>1, <1>2, IngestCases

-----------------------------------------------------------------------------
(* The invariant holds.                                                    *)

LEMMA InitHolds == HistoryInit => HistoryInv
<1> SUFFICES ASSUME HistoryInit PROVE HistoryInv
  OBVIOUS
<1>1. \A a \in Answers : /\ answer[a] \in AnswerState /\ answer[a].basis = {}
  BY DEF HistoryInit, NoAnswer, AnswerState
<1>2. policy \in PolicyRow /\ \A g \in Groups : policy.floor[g] = 0
  BY KeyFacts DEF HistoryInit, PolicyRow, Policy
<1>3. HistoryTypeOK
  <2>1. config \in [Processes -> 0..Len(Configs)] /\ control \in 1..Len(Configs)
    BY KeyFacts DEF HistoryInit
  <2>2. queue \in [Processes -> Seq(Event)] /\ \A p \in Processes : Len(queue[p]) <= MaxQueue
    BY HistoryAssumption DEF HistoryInit, HistoryAssumption
  <2>3. rows \in [Keys -> Row] /\ horizon \in Nat /\ gone \subseteq Messages
    BY NoRowFacts DEF HistoryInit
  <2>4. answer \in [Answers -> AnswerState]
    BY <1>1 DEF HistoryInit
  <2> QED BY <1>2, <2>1, <2>2, <2>3, <2>4 DEF HistoryTypeOK
<1>4. Fits(rows) /\ Derived
  BY <1>1 DEF HistoryInit, Fits, Derived
<1> QED BY <1>2, <1>3, <1>4, NowIsLast DEF HistoryInv

\* A restart under another configuration keeps the rows, and the answers but for their step.
LEMMA ConfigKept ==
  ASSUME HistoryInv, NEW p \in Processes, NEW c \in 1..Len(Configs), Synchronize(p, c)
  PROVE  HistoryInv'
<1>1. config' \in [Processes -> 0..Len(Configs)]
  BY KeyFacts DEF HistoryInv, HistoryTypeOK, Synchronize
<1>2. queue' \in [Processes -> Seq(Event)] /\ \A q \in Processes : Len(queue'[q]) <= MaxQueue
  <2>1. <<>> \in Seq(Event) /\ Len(<<>>) <= MaxQueue
    BY HistoryAssumption DEF HistoryAssumption
  <2> QED BY <2>1 DEF HistoryInv, HistoryTypeOK, Synchronize
<1>3. answer' \in [Answers -> AnswerState] /\ Derived'
  <2>1. \A a \in Answers : /\ answer'[a] \in AnswerState
                           /\ answer'[a].sources = answer[a].sources
                           /\ answer'[a].basis = answer[a].basis
    BY DEF HistoryInv, HistoryTypeOK, Synchronize, AnswerState
  <2>2. DOMAIN answer' = Answers
    BY DEF Synchronize
  <2>3. answer' = [a \in Answers |-> answer'[a]]
    BY DEF Synchronize
  <2> QED BY <2>1, <2>3 DEF HistoryInv, Derived
<1>4. /\ control' \in 1..Len(Configs) /\ policy' \in PolicyRow
      /\ policy'.floor = policy.floor
  <2>1. Configs[c].revision \in Nat /\ Configs[c].on \in BOOLEAN
    BY KeyFacts DEF Policy
  <2> QED BY <2>1 DEF HistoryInv, HistoryTypeOK, Synchronize, PolicyRow
<1> QED BY <1>1, <1>2, <1>3, <1>4 DEF HistoryInv, HistoryTypeOK, Synchronize, Fits

LEMMA CollectKept ==
  ASSUME HistoryInv, NEW p \in Processes, NEW e \in Event, Collect(p, e)
  PROVE  HistoryInv'
<1>1. queue' \in [Processes -> Seq(Event)] /\ \A q \in Processes : Len(queue'[q]) <= MaxQueue
  <2>1. Append(queue[p], e) \in Seq(Event) /\ Len(Append(queue[p], e)) = Len(queue[p]) + 1
    BY DEF HistoryInv, HistoryTypeOK
  <2>2. Len(queue[p]) \in Nat /\ MaxQueue \in Nat /\ Len(queue[p]) < MaxQueue
    BY HistoryAssumption DEF HistoryInv, HistoryTypeOK, Collect, HistoryAssumption
  <2> QED BY <2>1, <2>2 DEF HistoryInv, HistoryTypeOK, Collect
<1> QED BY <1>1 DEF HistoryInv, HistoryTypeOK, Collect, Fits, Derived

LEMMA TailKept ==
  ASSUME HistoryTypeOK, NEW p \in Processes, queue[p] # <<>>,
         queue' = [queue EXCEPT ![p] = Tail(@)]
  PROVE  queue' \in [Processes -> Seq(Event)] /\ \A q \in Processes : Len(queue'[q]) <= MaxQueue
<1>1. Tail(queue[p]) \in Seq(Event) /\ Len(Tail(queue[p])) = Len(queue[p]) - 1
  BY DEF HistoryTypeOK
<1>2. Len(queue[p]) \in Nat /\ MaxQueue \in Nat /\ Len(queue[p]) <= MaxQueue
  BY HistoryAssumption DEF HistoryTypeOK, HistoryAssumption
<1> QED BY <1>1, <1>2 DEF HistoryTypeOK

\* The row an event is stored as.
EventRow(p, e) ==
  [revision |-> Configs[config[p]].revision, at |-> AtOf(e),
   withdrawn |-> e.kind = "unsend", text |-> e.kind = "message",
   human |-> TRUE, sources |-> {}, basis |-> IF e.kind = "message" THEN {e.of} ELSE {}]
AnswerRow(p, a) ==
  [revision |-> Configs[config[p]].revision, at |-> Now,
   withdrawn |-> FALSE, text |-> TRUE, human |-> FALSE,
   sources |-> answer[a].sources, basis |-> answer[a].basis]

LEMMA EventRowFits ==
  ASSUME HistoryInv, NEW p, config[p] = control, NEW e \in Event
  PROVE  /\ EventRow(p, e) \in Row /\ RowFits(e.of, EventRow(p, e))
         /\ e.of \in Keys /\ e.of \in Messages
<1>1. e.of \in Messages /\ e.of \in Keys /\ e.of \notin Answers
      /\ e.kind \in {"message", "unsend"}
  BY KeyFacts DEF Event
<1>2. Configs[config[p]].revision \in Nat
  BY KeyFacts DEF HistoryInv, HistoryTypeOK, Policy
<1>3. /\ AtOf(e) \in Nat /\ AtOf(e) <= Now /\ AtOf(e) \in {SentAt(e.of), UnsentAt(e.of)}
      /\ e.kind = "message" => AtOf(e) = SentAt(e.of)
  BY <1>1, NowIsLast DEF AtOf, SentAt, UnsentAt
<1>4. EventRow(p, e) \in Row
  BY <1>1, <1>2, <1>3 DEF EventRow, Row
<1>5. RowFits(e.of, EventRow(p, e))
  BY <1>1, <1>3 DEF EventRow, RowFits, KeysOf
<1> QED BY <1>1, <1>4, <1>5

LEMMA AnswerRowFits ==
  ASSUME HistoryInv, NEW p, config[p] = control, NEW a \in Answers
  PROVE  AnswerRow(p, a) \in Row /\ RowFits(a, AnswerRow(p, a)) /\ a \in Keys
<1>1. a \in Keys /\ a \notin Messages
  BY KeyFacts
<1>2. Configs[config[p]].revision \in Nat
  BY KeyFacts DEF HistoryInv, HistoryTypeOK, Policy
<1>3. answer[a] \in AnswerState
  BY DEF HistoryInv, HistoryTypeOK
<1>4. AnswerRow(p, a) \in Row
  BY <1>2, <1>3, NowIsLast DEF AnswerRow, Row, AnswerState
<1>5. RowFits(a, AnswerRow(p, a))
  BY <1>1, NowIsLast DEF AnswerRow, RowFits, HistoryInv, Derived
<1> QED BY <1>1, <1>4, <1>5

\* An ingest under a configuration that is not in force changes nothing.
LEMMA DrainCases ==
  ASSUME HistoryInv, NEW p \in Processes, Drain(p)
  PROVE  \/ UNCHANGED <<policy, rows, gone>>
         \/ \E e \in Event : config[p] = control /\ Ingest(p, e.of, EventRow(p, e))
<1> DEFINE e == Head(queue[p])
<1>1. e \in Event
  BY DEF HistoryInv, HistoryTypeOK, Drain
<1>2. Ingest(p, e.of, EventRow(p, e))
  BY DEF Drain, EventRow
<1> HIDE DEF e
<1>3. CASE config[p] = control
  BY <1>1, <1>2, <1>3
<1>4. CASE config[p] # control
  BY <1>2, <1>4 DEF Ingest, Accepts, InForce
<1> QED BY <1>3, <1>4

LEMMA RecordCases ==
  ASSUME NEW a \in Answers, RecordAnswer(a)
  PROVE  \/ UNCHANGED <<policy, rows, gone>>
         \/ \E p : config[p] = control /\ Ingest(p, a, AnswerRow(p, a))
<1> DEFINE p == answer[a].by
<1>1. \/ UNCHANGED <<policy, rows, gone>>
      \/ Ingest(p, a, AnswerRow(p, a))
  BY DEF RecordAnswer, AnswerRow
<1> HIDE DEF p
<1>2. CASE config[p] = control
  BY <1>1, <1>2
<1>3. CASE config[p] # control
  BY <1>1, <1>3 DEF Ingest, Accepts, InForce
<1> QED BY <1>2, <1>3

\* The stored tables as a step may leave them.
TablesKept ==
  /\ rows' \in [Keys -> Row] /\ Fits(rows')
  /\ policy' \in PolicyRow /\ \A g \in Groups : policy'.floor[g] <= Now + 1
  /\ gone' \subseteq Messages

LEMMA DrainKeepsTables ==
  ASSUME HistoryInv, NEW p \in Processes, Drain(p)
  PROVE  TablesKept
<1>1. CASE UNCHANGED <<policy, rows, gone>>
  BY <1>1 DEF TablesKept, HistoryInv, HistoryTypeOK
<1>2. ASSUME NEW e \in Event, config[p] = control, Ingest(p, e.of, EventRow(p, e))
      PROVE  TablesKept
  <2>1. /\ EventRow(p, e) \in Row /\ RowFits(e.of, EventRow(p, e))
        /\ e.of \in Keys /\ e.of \in Messages
    BY <1>2, EventRowFits
  <2> QED BY <1>2, <2>1, IngestKeeps DEF TablesKept
<1> QED BY <1>1, <1>2, DrainCases

LEMMA RecordKeepsTables ==
  ASSUME HistoryInv, NEW a \in Answers, RecordAnswer(a)
  PROVE  TablesKept
<1>1. CASE UNCHANGED <<policy, rows, gone>>
  BY <1>1 DEF TablesKept, HistoryInv, HistoryTypeOK
<1>2. ASSUME NEW p, config[p] = control, Ingest(p, a, AnswerRow(p, a))
      PROVE  TablesKept
  <2>1. AnswerRow(p, a) \in Row /\ RowFits(a, AnswerRow(p, a)) /\ a \in Keys
    BY <1>2, AnswerRowFits
  <2>2. ~AnswerRow(p, a).withdrawn
    BY DEF AnswerRow
  <2> QED BY <1>2, <2>1, <2>2, IngestKeeps DEF TablesKept
<1> QED BY <1>1, <1>2, RecordCases

\* A step of answer a that changes only its step.
LEMMA AnswerStep ==
  ASSUME HistoryInv, NEW a \in Answers, NEW s \in {"answered", "sent", "vouched", "done"},
         answer' = [answer EXCEPT ![a].step = s]
  PROVE  answer' \in [Answers -> AnswerState] /\ Derived'
<1>1. answer \in [Answers -> AnswerState]
  BY DEF HistoryInv, HistoryTypeOK
<1>2. [answer[a] EXCEPT !.step = s] \in AnswerState
  BY <1>1 DEF AnswerState
<1>3. answer' = [answer EXCEPT ![a] = [answer[a] EXCEPT !.step = s]]
  BY <1>1
<1>4. answer' \in [Answers -> AnswerState]
  BY <1>1, <1>2, <1>3
<1>5. \A b \in Answers : /\ answer'[b].sources = answer[b].sources
                         /\ answer'[b].basis = answer[b].basis
  BY <1>1, <1>3 DEF AnswerState
<1> QED BY <1>4, <1>5 DEF HistoryInv, Derived

\* What a search uses is among its sources: a message itself, or what an anchor depends on.
LEMMA SearchDerives ==
  ASSUME HistoryInv, NEW a \in Answers, NEW p, InForce(p),
         NEW ks, ks \subseteq Humans(GroupOf[a]) \cup Anchors(p, GroupOf[a])
  PROVE  LET basis == UNION {rows[k].basis : k \in ks} IN
         /\ basis \subseteq Sources(ks) /\ basis \subseteq KeysOf(GroupOf[a])
         /\ basis \subseteq Messages /\ Sources(ks) \subseteq Keys
<1>1. ASSUME NEW k \in ks
      PROVE  /\ rows[k].basis \subseteq {k} \cup rows[k].sources
             /\ rows[k].basis \subseteq KeysOf(GroupOf[a])
             /\ rows[k].basis \subseteq Messages /\ rows[k].sources \subseteq Keys /\ k \in Keys
  <2>1. k \in Keys /\ GroupOf[k] = GroupOf[a] /\ rows[k].text
    BY DEF Humans, Anchors, KeysOf, Live
  <2>2. rows[k] \in Row /\ rows[k] # NoRow
    BY <2>1, NoRowFacts DEF HistoryInv, HistoryTypeOK
  <2>3. RowFits(k, rows[k])
    BY <2>1, <2>2 DEF HistoryInv, Fits
  <2>4. k \in Messages \/ k \in Answers
    BY <2>1 DEF Keys
  <2> QED BY <2>1, <2>2, <2>3, <2>4 DEF RowFits, Row
<1> QED BY <1>1 DEF Sources

LEMMA SearchKept ==
  ASSUME HistoryInv, NEW p \in Processes, NEW a \in Answers, Search(p, a)
  PROVE  HistoryInv'
<1>1. PICK hits \in SUBSET Humans(GroupOf[a]), quoted \in SUBSET Anchors(p, GroupOf[a]) :
        answer' = [answer EXCEPT ![a] =
          [step |-> "answered", by |-> p, revision |-> policy.revision,
           sources |-> Sources(hits \cup quoted),
           basis |-> UNION {rows[k].basis : k \in hits \cup quoted}]]
  BY DEF Search
<1> DEFINE ks == hits \cup quoted
           basis == UNION {rows[k].basis : k \in ks}
<1>2. /\ basis \subseteq Sources(ks) /\ basis \subseteq KeysOf(GroupOf[a])
      /\ basis \subseteq Messages /\ Sources(ks) \subseteq Keys
  <2>1. ks \subseteq Humans(GroupOf[a]) \cup Anchors(p, GroupOf[a]) /\ InForce(p)
    BY DEF Search
  <2> HIDE DEF ks
  <2> QED BY <2>1, SearchDerives
<1>3. answer \in [Answers -> AnswerState] /\ policy.revision \in Nat
  BY DEF HistoryInv, HistoryTypeOK, PolicyRow
<1> DEFINE new == [step |-> "answered", by |-> p, revision |-> policy.revision,
                   sources |-> Sources(ks), basis |-> basis]
<1>4. answer' = [answer EXCEPT ![a] = new]
  BY <1>1
<1> HIDE DEF ks, basis
<1>5. new \in AnswerState /\ new.sources = Sources(ks) /\ new.basis = basis
  BY <1>2, <1>3 DEF AnswerState
<1> HIDE DEF new
<1>6. answer' \in [Answers -> AnswerState]
  BY <1>3, <1>4, <1>5
<1>7. Derived'
  BY <1>2, <1>3, <1>4, <1>5 DEF HistoryInv, Derived
<1> QED BY <1>6, <1>7 DEF Search, HistoryInv, HistoryTypeOK, Fits

LEMMA HistoryInvKept == HistoryInv /\ [HistoryNext]_vars => HistoryInv'
<1> SUFFICES ASSUME HistoryInv, [HistoryNext]_vars PROVE HistoryInv'
  OBVIOUS
<1>1. ASSUME NEW p \in Processes, NEW c \in 1..Len(Configs), Synchronize(p, c) PROVE HistoryInv'
  BY <1>1, ConfigKept
<1>2. ASSUME NEW p \in Processes, NEW e \in Event, Collect(p, e) PROVE HistoryInv'
  BY <1>2, CollectKept
<1>3. ASSUME NEW p \in Processes, Drain(p) PROVE HistoryInv'
  <2>1. TablesKept
    BY <1>3, DrainKeepsTables
  <2>2. queue' \in [Processes -> Seq(Event)] /\ \A q \in Processes : Len(queue'[q]) <= MaxQueue
    BY <1>3, TailKept DEF Drain, HistoryInv
  <2> QED BY <1>3, <2>1, <2>2 DEF Drain, HistoryInv, HistoryTypeOK, TablesKept, Derived
<1>4. ASSUME NEW p \in Processes, Lose(p) PROVE HistoryInv'
  <2>1. queue' \in [Processes -> Seq(Event)] /\ \A q \in Processes : Len(queue'[q]) <= MaxQueue
    BY <1>4, TailKept DEF Lose, HistoryInv
  <2> QED BY <1>4, <2>1 DEF Lose, HistoryInv, HistoryTypeOK, Fits, Derived
<1>5. ASSUME NEW p \in Processes, NEW a \in Answers, Search(p, a) PROVE HistoryInv'
  BY <1>5, SearchKept
<1>6. ASSUME NEW a \in Answers, Send(a) PROVE HistoryInv'
  <2>1. answer' \in [Answers -> AnswerState] /\ Derived'
    BY <1>6, AnswerStep DEF Send
  <2> QED BY <1>6, <2>1 DEF Send, HistoryInv, HistoryTypeOK, Fits
<1>7. ASSUME NEW a \in Answers, Vouch(a) PROVE HistoryInv'
  <2>1. answer' \in [Answers -> AnswerState] /\ Derived'
    BY <1>7, AnswerStep DEF Vouch
  <2> QED BY <1>7, <2>1 DEF Vouch, HistoryInv, HistoryTypeOK, Fits
<1>8. ASSUME NEW a \in Answers, RecordAnswer(a) PROVE HistoryInv'
  <2>1. TablesKept
    BY <1>8, RecordKeepsTables
  <2>2. answer' \in [Answers -> AnswerState] /\ Derived'
    BY <1>8, AnswerStep DEF RecordAnswer
  <2> QED BY <1>8, <2>1, <2>2 DEF RecordAnswer, HistoryInv, HistoryTypeOK, TablesKept
<1>9. CASE Purge
  <2>1. PICK ks : rows' = Without(rows, ks)
    BY <1>9 DEF Purge
  <2>2. rows' \in [Keys -> Row] /\ Fits(rows')
    BY <2>1, WithoutFits DEF HistoryInv, HistoryTypeOK
  <2> QED BY <1>9, <2>2 DEF Purge, HistoryInv, HistoryTypeOK, Derived
<1>10. CASE GrowOld
  <2>1. horizon' \in Nat
    BY <1>10 DEF GrowOld, HistoryInv, HistoryTypeOK
  <2> QED BY <1>10, <2>1 DEF GrowOld, HistoryInv, HistoryTypeOK, Fits, Derived
<1>11. CASE UNCHANGED vars
  BY <1>11 DEF vars, HistoryInv, HistoryTypeOK, Fits, Derived
<1> QED
  BY <1>1, <1>2, <1>3, <1>4, <1>5, <1>6, <1>7, <1>8, <1>9, <1>10, <1>11 DEF HistoryNext

\* The tables, the queues and the answers keep their types.
THEOREM HistoryTypeCorrect == HistorySpec => []HistoryTypeOK
<1>1. HistoryInv => HistoryTypeOK
  BY DEF HistoryInv
<1> QED BY <1>1, InitHolds, HistoryInvKept, PTL DEF HistorySpec

-----------------------------------------------------------------------------
(* Answers.                                                                *)

LEMMA OnlyLiveIsSent ==
  ASSUME HistoryInv, [HistoryNext]_vars, NEW a \in Answers,
         answer[a].step = "answered", answer'[a].step = "sent"
  PROVE  answer[a].basis \subseteq Humans(GroupOf[a])
<1>1. answer \in [Answers -> AnswerState]
  BY DEF HistoryInv, HistoryTypeOK
<1>2. Send(a)
  <2>1. ASSUME NEW b \in Answers, NEW s, answer' = [answer EXCEPT ![b].step = s], b # a
        PROVE  FALSE
    BY <1>1, <2>1
  <2>2. ASSUME NEW p \in Processes, NEW c \in 1..Len(Configs), Synchronize(p, c) PROVE FALSE
    BY <1>1, <2>2 DEF Synchronize, AnswerState
  <2>3. ASSUME NEW p \in Processes, NEW b \in Answers, Search(p, b) PROVE FALSE
    BY <1>1, <2>3 DEF Search
  <2>4. ASSUME NEW b \in Answers, Vouch(b) PROVE FALSE
    BY <1>1, <2>1, <2>4 DEF Vouch
  <2>5. ASSUME NEW b \in Answers, RecordAnswer(b) PROVE FALSE
    BY <1>1, <2>1, <2>5 DEF RecordAnswer
  <2>6. ASSUME NEW b \in Answers, Send(b) PROVE b = a
    BY <1>1, <2>1, <2>6 DEF Send
  <2>7. ASSUME UNCHANGED answer PROVE FALSE
    BY <2>7
  <2> QED
    BY <2>2, <2>3, <2>4, <2>5, <2>6, <2>7
    DEF HistoryNext, Collect, Drain, Lose, Purge, GrowOld, vars
<1>3. Valid(answer[a].by, answer[a].revision, answer[a].sources)
  BY <1>1, <1>2 DEF Send, AnswerState
<1>4. ASSUME NEW m \in answer[a].basis PROVE m \in Humans(GroupOf[a])
  <2>1. m \in Messages /\ m \in Keys
    BY <1>1, KeyFacts DEF AnswerState
  <2>2. m \in KeysOf(GroupOf[a]) /\ Live(m)
    BY <1>3 DEF HistoryInv, Derived, Valid
  <2>3. rows[m] # NoRow
    BY <2>2, NoRowFacts DEF Live
  <2>4. rows[m].human
    BY <2>1, <2>3 DEF HistoryInv, Fits, RowFits
  <2> QED BY <2>2, <2>4 DEF Humans
<1> QED BY <1>4

\* An answer is sent only if every message it was derived from, through anchors as well, may still
\* be read under the policy in force (quote-context.ts 54-61).
THEOREM AnswersAreLive == HistorySpec => SentAnswersAreLive
<1>1. HistoryInv /\ [HistoryNext]_vars
      => [\A a \in Answers : answer[a].step = "answered" /\ answer'[a].step = "sent"
            => answer[a].basis \subseteq Humans(GroupOf[a])]_vars
  BY OnlyLiveIsSent
<1> QED BY <1>1, InitHolds, HistoryInvKept, PTL DEF HistorySpec, SentAnswersAreLive

-----------------------------------------------------------------------------
(* Late messages.                                                          *)

\* Every row belongs to the one policy.
OfThePolicy ==
  /\ policy.revision = Configs[1].revision
  /\ policy.on = Configs[control].on
  /\ \A k \in Keys : rows[k] # NoRow => rows[k].revision = Configs[1].revision

\* A marker is left, or the message is older than the floor or the horizon.
Kept(m) ==
  \/ rows[m].withdrawn
  \/ SentAt(m) < policy.floor[GroupOf[m]]
  \/ SentAt(m) < horizon
GoneInv == policy.on => \A m \in gone : Kept(m)

LateInv == HistoryInv /\ OfThePolicy /\ GoneInv

LEMMA ConfigFacts == DOMAIN Configs = 1..Len(Configs)
BY HistoryAssumption DEF HistoryAssumption

LEMMA LateInit == HistoryInit => LateInv
<1> SUFFICES ASSUME HistoryInit PROVE LateInv
  OBVIOUS
<1>1. OfThePolicy
  BY KeyFacts DEF HistoryInit, OfThePolicy, Policy
<1>2. GoneInv
  BY DEF HistoryInit, GoneInv
<1> QED BY <1>1, <1>2, InitHolds DEF LateInv

LEMMA LateConfig ==
  ASSUME OnePolicy, LateInv, NEW p \in Processes, NEW c \in 1..Len(Configs), Synchronize(p, c)
  PROVE  OfThePolicy' /\ GoneInv'
<1>1. /\ policy \in PolicyRow /\ control \in 1..Len(Configs)
      /\ c \in Nat /\ control \in Nat /\ Len(Configs) \in Nat
  BY KeyFacts DEF LateInv, HistoryInv, HistoryTypeOK
<1>2. CASE c < control
  <2>1. UNCHANGED <<control, policy, rows, horizon, gone>>
    BY <1>2 DEF Synchronize
  <2> QED BY <2>1 DEF LateInv, OfThePolicy, GoneInv, Kept
<1>3. CASE ~(c < control)
  <2>1. /\ control' = c /\ UNCHANGED <<rows, horizon, gone>>
        /\ policy' = [policy EXCEPT !.revision = IF Configs[c].on THEN Configs[c].revision ELSE @,
                                   !.on = Configs[c].on]
    BY <1>3 DEF Synchronize
  <2>2. /\ Configs[c].revision = Configs[1].revision
        /\ Configs[c].on => Configs[control].on
    BY <1>1, <1>3, ConfigFacts, KeyFacts DEF OnePolicy
  <2>3. /\ policy'.revision = Configs[1].revision /\ policy'.on = Configs[c].on
        /\ policy'.floor = policy.floor
    BY <1>1, <2>1, <2>2 DEF PolicyRow, LateInv, OfThePolicy
  <2>4. OfThePolicy'
    BY <2>1, <2>3 DEF OfThePolicy, LateInv
  <2>5. GoneInv'
    <3>1. policy'.on => policy.on
      BY <2>2, <2>3 DEF LateInv, OfThePolicy
    <3> QED BY <2>1, <2>3, <3>1 DEF GoneInv, Kept, LateInv
  <2> QED BY <2>4, <2>5
<1> QED BY <1>2, <1>3

\* The row that is stored belongs to the policy; what an ingest evicts or withdraws is kept out.
LEMMA IngestLate ==
  ASSUME LateInv, NEW p, NEW k \in Keys, NEW new \in Row, RowFits(k, new),
         new.withdrawn => k \in Messages, new.revision = Configs[1].revision,
         Ingest(p, k, new), UNCHANGED <<control, horizon>>
  PROVE  OfThePolicy' /\ GoneInv'
<1>1. CASE UNCHANGED <<policy, rows, gone>>
  BY <1>1 DEF LateInv, OfThePolicy, GoneInv, Kept
<1>2. ASSUME NEW table, NEW ks, Ingested(p, k, new, table, ks)
      PROVE  OfThePolicy' /\ GoneInv'
  <2> USE <1>2
  <2> DEFINE f == Raised(table, ks, GroupOf[k])
  <2>1. /\ table \in [Keys -> Row] /\ Fits(table) /\ table = Upserted(k, new)
        /\ ks \in SUBSET Keys /\ \A j \in ks : table[j] # NoRow
    BY UpsertedFits DEF Ingested, Stored, LateInv, HistoryInv
  <2>2. /\ f \in [Groups -> Nat]
        /\ \A h \in Groups : f[h] >= policy.floor[h]
        /\ \A j \in ks : table[j].at < f[GroupOf[j]]
    BY <2>1, RaisedFits DEF LateInv
  <2>3. policy' = [policy EXCEPT !.floor = f] /\ policy \in PolicyRow
    BY DEF Ingested, LateInv, HistoryInv, HistoryTypeOK
  <2> HIDE DEF f
  <2>4. /\ policy'.floor = f /\ policy'.on = policy.on /\ policy'.revision = policy.revision
        /\ \A h \in Groups : policy.floor[h] \in Nat
    BY <2>3 DEF PolicyRow
  <2>5. /\ rows \in [Keys -> Row] /\ rows' = [j \in Keys |-> IF j \in ks THEN NoRow ELSE table[j]]
    BY DEF Ingested, Without, LateInv, HistoryInv, HistoryTypeOK
  <2>6. /\ \A j \in Keys \ {k} : table[j] = rows[j]
        /\ table[k] = IF rows[k] = NoRow THEN new ELSE Merged(rows[k], new)
    BY <2>1, <2>5 DEF Upserted
  <2>7. /\ Merged(rows[k], new).revision = rows[k].revision
        /\ Merged(rows[k], new).withdrawn <=> rows[k].withdrawn \/ new.withdrawn
    BY <2>5 DEF Merged, Row
  <2>8. OfThePolicy'
    <3>1. \A j \in Keys : table[j] # NoRow => table[j].revision = Configs[1].revision
      BY <2>6, <2>7 DEF LateInv, OfThePolicy
    <3> QED BY <2>4, <2>5, <3>1 DEF LateInv, OfThePolicy
  <2>9. \A j \in Keys : rows[j].withdrawn => table[j].withdrawn
    BY <2>6, <2>7, NoRowFacts
  <2>10. new.withdrawn => table[k].withdrawn
    BY <2>6, <2>7
  <2>11. \A m \in Messages : table[m] # NoRow => SentAt(m) <= table[m].at
    BY <2>1, NowIsLast, KeyFacts DEF Fits, RowFits, SentAt, UnsentAt
  <2>12. ASSUME policy'.on, NEW m \in gone' PROVE Kept(m)'
    <3>1. m \in Messages /\ m \in Keys /\ GroupOf[m] \in Groups /\ SentAt(m) \in Nat
      BY <2>1, KeyFacts, NowIsLast DEF Ingested, LateInv, HistoryInv, HistoryTypeOK
    <3>2. f[GroupOf[m]] \in Nat /\ policy.floor[GroupOf[m]] \in Nat
          /\ f[GroupOf[m]] >= policy.floor[GroupOf[m]]
      BY <2>2, <2>4, <3>1
    <3>3. CASE m \in ks
      <4>1. SentAt(m) <= table[m].at /\ table[m].at < f[GroupOf[m]] /\ table[m].at \in Nat
        BY <2>1, <2>2, <2>11, <3>1, <3>3 DEF Row
      <4> QED BY <2>4, <3>1, <3>2, <4>1 DEF Kept
    <3>4. CASE m \notin ks /\ table[m].withdrawn
      BY <2>5, <3>1, <3>4 DEF Kept
    <3>5. CASE SentAt(m) < policy.floor[GroupOf[m]]
      BY <2>4, <3>1, <3>2, <3>5 DEF Kept
    <3>6. CASE SentAt(m) < horizon
      BY <3>6 DEF Kept
    <3>7. m \in ks \/ table[m].withdrawn \/ SentAt(m) < policy.floor[GroupOf[m]] \/ SentAt(m) < horizon
      BY <2>4, <2>9, <2>10, <2>12, <3>1 DEF Ingested, LateInv, GoneInv, Kept
    <3> QED BY <3>3, <3>4, <3>5, <3>6, <3>7
  <2> QED BY <2>8, <2>12 DEF GoneInv
<1> QED BY <1>1, <1>2, IngestCases

LEMMA LateKept == OnePolicy /\ LateInv /\ [HistoryNext]_vars => LateInv'
<1> SUFFICES ASSUME OnePolicy, LateInv, [HistoryNext]_vars PROVE OfThePolicy' /\ GoneInv'
  BY HistoryInvKept DEF LateInv
<1>1. ASSUME NEW p \in Processes, NEW c \in 1..Len(Configs), Synchronize(p, c)
      PROVE  OfThePolicy' /\ GoneInv'
  BY <1>1, LateConfig
<1>2. ASSUME UNCHANGED <<control, policy, rows, horizon, gone>>
      PROVE  OfThePolicy' /\ GoneInv'
  BY <1>2 DEF LateInv, OfThePolicy, GoneInv, Kept
<1>3. Configs[control].revision = Configs[1].revision
  BY ConfigFacts, KeyFacts DEF OnePolicy, LateInv, HistoryInv, HistoryTypeOK
<1>4. ASSUME NEW p \in Processes, Drain(p)
      PROVE  OfThePolicy' /\ GoneInv'
  <2>1. UNCHANGED <<control, horizon>>
    BY <1>4 DEF Drain
  <2>2. ASSUME NEW e \in Event, config[p] = control, Ingest(p, e.of, EventRow(p, e))
        PROVE  OfThePolicy' /\ GoneInv'
    <3>1. /\ EventRow(p, e) \in Row /\ RowFits(e.of, EventRow(p, e))
          /\ e.of \in Keys /\ e.of \in Messages
      BY <2>2, EventRowFits DEF LateInv
    <3>2. EventRow(p, e).revision = Configs[1].revision
      BY <1>3, <2>2 DEF EventRow
    <3> QED BY <2>1, <2>2, <3>1, <3>2, IngestLate
  <2> QED BY <1>2, <1>4, <2>1, <2>2, DrainCases DEF LateInv
<1>5. ASSUME NEW a \in Answers, RecordAnswer(a)
      PROVE  OfThePolicy' /\ GoneInv'
  <2>1. UNCHANGED <<control, horizon>>
    BY <1>5 DEF RecordAnswer
  <2>2. ASSUME NEW p, config[p] = control, Ingest(p, a, AnswerRow(p, a))
        PROVE  OfThePolicy' /\ GoneInv'
    <3>1. AnswerRow(p, a) \in Row /\ RowFits(a, AnswerRow(p, a)) /\ a \in Keys
      BY <2>2, AnswerRowFits DEF LateInv
    <3>2. AnswerRow(p, a).revision = Configs[1].revision /\ ~AnswerRow(p, a).withdrawn
      BY <1>3, <2>2 DEF AnswerRow
    <3> QED BY <2>1, <2>2, <3>1, <3>2, IngestLate
  <2> QED BY <1>2, <1>5, <2>1, <2>2, RecordCases
<1>6. CASE Purge
  <2>1. PICK ks \in SUBSET {k \in Keys : Obsolete(k)} : rows' = Without(rows, ks)
    BY <1>6 DEF Purge
  <2>2. UNCHANGED <<control, policy, horizon, gone>>
    BY <1>6 DEF Purge
  <2>3. OfThePolicy'
    BY <2>1, <2>2 DEF LateInv, OfThePolicy, Without
  <2>4. ASSUME policy.on, NEW m \in gone PROVE Kept(m)'
    <3>1. m \in Messages /\ m \in Keys /\ rows[m] \in Row /\ horizon \in Nat
      BY KeyFacts DEF LateInv, HistoryInv, HistoryTypeOK
    <3>2. CASE m \in ks
      <4>1. rows[m] # NoRow /\ rows[m].at < horizon
        BY <2>1, <2>4, <3>1, <3>2 DEF Obsolete, LateInv, OfThePolicy
      <4>2. SentAt(m) <= rows[m].at
        BY <3>1, <4>1, NowIsLast DEF LateInv, HistoryInv, Fits, RowFits, SentAt, UnsentAt
      <4> QED BY <2>2, <3>1, <4>1, <4>2, NowIsLast DEF Kept, Row
    <3>3. CASE m \notin ks
      BY <2>1, <2>2, <2>4, <3>1, <3>3 DEF LateInv, GoneInv, Kept, Without
    <3> QED BY <3>2, <3>3
  <2> QED BY <2>2, <2>3, <2>4 DEF GoneInv
<1>7. CASE GrowOld
  <2>1. horizon \in Nat /\ horizon' = horizon + 2 /\ UNCHANGED <<control, policy, rows, gone>>
    BY <1>7 DEF GrowOld, LateInv, HistoryInv, HistoryTypeOK
  <2>2. \A m \in gone : SentAt(m) \in Nat
    BY NowIsLast DEF LateInv, HistoryInv, HistoryTypeOK
  <2>3. \A m \in gone : Kept(m) => Kept(m)'
    BY <2>1, <2>2 DEF Kept
  <2> QED BY <2>1, <2>3 DEF LateInv, OfThePolicy, GoneInv
<1> QED
  BY <1>1, <1>2, <1>4, <1>5, <1>6, <1>7
  DEF HistoryNext, Collect, Lose, Search, Send, Vouch, vars

LEMMA KeptIsNotLive == LateInv => LateMessagesStayGone
<1> SUFFICES ASSUME LateInv, policy.on, NEW m \in gone, Live(m) PROVE FALSE
  BY DEF LateMessagesStayGone
<1>1. m \in Messages /\ m \in Keys /\ rows[m] \in Row /\ horizon \in Nat
      /\ policy.floor[GroupOf[m]] \in Nat
  BY KeyFacts DEF LateInv, HistoryInv, HistoryTypeOK, PolicyRow
<1>2. rows[m] # NoRow /\ rows[m].at = SentAt(m)
  BY <1>1, NoRowFacts DEF Live, LateInv, HistoryInv, Fits, RowFits
<1>3. Kept(m)
  BY DEF LateInv, GoneInv
<1> QED BY <1>1, <1>2, <1>3, NowIsLast DEF Kept, Live

\* Under one policy, what was withdrawn or evicted is never read again, however late and however
\* often its message is delivered (docs/runbooks/group-history.md:22-23).
THEOREM LateMessagesGone ==
  ASSUME OnePolicy
  PROVE  HistorySpec => []LateMessagesStayGone
<1>1. HistoryInit => LateInv
  BY LateInit
<1>2. LateInv /\ [HistoryNext]_vars => LateInv'
  BY LateKept
<1> QED BY <1>1, <1>2, KeptIsNotLive, PTL DEF HistorySpec
=============================================================================
