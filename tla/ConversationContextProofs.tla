----------------------- MODULE ConversationContextProofs -----------------------
(***************************************************************************)
(* Theorems about ConversationContext and the quote index it runs on, for  *)
(* any number of threads, messages, failures and generations and any bound *)
(* on a lineage.                                                           *)
(*                                                                         *)
(* ContextInv relates the tables: rows and what a thread owns (IndexFits), *)
(* replies and turns (RepliesSent), tokens, locks and metadata (TurnFits,  *)
(* MetaFits).  Tracked says where a message has gone.  A text travels from *)
(* a reply to whoever quotes it (Link), so Reach(n) is the least set of    *)
(* threads that holds those that depend on n themselves and is closed      *)
(* under Link; what a stored reply, a current turn and a current           *)
(* checkpoint derive from is not withdrawn and is reached by its unsend    *)
(* (Safe), except what was cut.  When a thread begins anew, whoever quoted *)
(* its replies still depends on all their rows name, which is what         *)
(* SafeKept rests on; an unsend hits the closed set Affected, in which     *)
(* Reach is contained.                                                     *)
(***************************************************************************)
EXTENDS ConversationContext, FiniteSetTheorems, TLAPS

-----------------------------------------------------------------------------
(* Lineages: what Distinct and Newest make of a sequence. *)

\* A nonempty set of numbers has a least element.
LEMMA LeastExists ==
  ASSUME NEW S \in SUBSET Nat, S # {}
  PROVE  \E x \in S : \A y \in S : x <= y
<1>. DEFINE R == OpToRel(<, Nat)
<1>1. IsWellFoundedOn(R, Nat)
  BY NatLessThanWellFounded
<1>2. PICK x \in S : \A y \in S : <<y, x>> \notin R
  <2>. HIDE DEF R
  <2>. QED
    BY <1>1, WFMin
<1>3. \A y \in S : ~(y < x)
  BY <1>2 DEF OpToRel
<1>4. QED
  BY <1>3

\* The positions of Firsts and their places: Place is one to one onto 1..Cardinality(Firsts(s)).
LEMMA PlacesOfFirsts ==
  ASSUME NEW S, NEW s \in Seq(S)
  PROVE  /\ IsFiniteSet(Firsts(s)) /\ Cardinality(Firsts(s)) \in Nat
         /\ \A i \in Firsts(s) : Place(s, i) \in 1..Cardinality(Firsts(s))
         /\ \A i, j \in Firsts(s) : Place(s, i) = Place(s, j) => i = j
         /\ \A n \in 1..Cardinality(Firsts(s)) : \E i \in Firsts(s) : Place(s, i) = n
<1>. DEFINE F == Firsts(s)
            To(i) == {j \in F : j <= i}
<1>1. Len(s) \in Nat /\ F \subseteq 1..Len(s) /\ \A i \in F : i \in Nat
  BY DEF Firsts
<1>. HIDE DEF F
<1>2. IsFiniteSet(F) /\ Cardinality(F) \in Nat
  <2>1. IsFiniteSet(1..Len(s))
    BY <1>1, FS_Interval
  <2>2. QED
    BY <1>1, <2>1, FS_Subset, FS_CardinalityType
<1>3. ASSUME NEW i \in F PROVE Cardinality(To(i)) \in 1..Cardinality(F) /\ IsFiniteSet(To(i))
  <2>1. i \in To(i) /\ To(i) \subseteq F
    BY <1>1
  <2>2. IsFiniteSet(To(i)) /\ Cardinality(To(i)) <= Cardinality(F) /\ Cardinality(To(i)) \in Nat
    BY <1>2, <2>1, FS_Subset, FS_CardinalityType
  <2>3. Cardinality(To(i)) # 0
    BY <2>1, <2>2, FS_EmptySet
  <2>4. QED
    BY <1>2, <2>2, <2>3
<1>4. ASSUME NEW i \in F, NEW j \in F, i < j PROVE Cardinality(To(i)) < Cardinality(To(j))
  <2>0. i \in Nat /\ j \in Nat /\ \A x \in F : x \in Nat /\ (x <= i => x <= j)
    BY <1>1, <1>4
  <2>1. To(i) \subseteq To(j) /\ j \in To(j) /\ j \notin To(i)
    <3>1. \A x \in F : x <= i => x <= j
      BY <2>0
    <3>2. j <= j /\ ~(j <= i)
      BY <1>4, <2>0
    <3>3. QED
      BY <3>1, <3>2
  <2>2. To(i) # To(j)
    BY <2>1
  <2>. HIDE DEF To
  <2>3. Cardinality(To(i)) <= Cardinality(To(j)) /\ Cardinality(To(j)) # Cardinality(To(i))
    BY <1>3, <2>1, <2>2, FS_Subset
  <2>4. QED
    BY <1>2, <1>3, <2>3
<1>5. \A i, j \in F : Cardinality(To(i)) = Cardinality(To(j)) => i = j
  <2>. SUFFICES ASSUME NEW i \in F, NEW j \in F, Cardinality(To(i)) = Cardinality(To(j)), i # j
                PROVE  FALSE
    OBVIOUS
  <2>1. i < j \/ j < i
    BY <1>1
  <2>2. Cardinality(To(i)) \in Int /\ Cardinality(To(j)) \in Int
    BY <1>3
  <2>. HIDE DEF To
  <2>3. QED
    BY <1>4, <2>1, <2>2
<1>. DEFINE f == [i \in F |-> Cardinality(To(i))]
            N == 1..Cardinality(F)
<1>6. f \in Injection(F, N)
  <2>1. f \in [F -> N]
    BY <1>3
  <2>2. \A i, j \in F : f[i] = f[j] => i = j
    BY <1>5
  <2>3. QED
    BY <2>1, <2>2 DEF Injection, IsInjective
<1>7. IsFiniteSet(N) /\ Cardinality(N) = Cardinality(F)
  BY <1>2, FS_Interval
<1>8. f \in Surjection(F, N)
  <2>. HIDE DEF f, N
  <2>1. QED
    BY <1>6, <1>7, FS_Injection
<1>9. \A n \in N : \E i \in F : f[i] = n
  BY <1>8 DEF Surjection
<1>10. \A i \in F : f[i] = Place(s, i) /\ f[i] = Cardinality(To(i))
  BY DEF Place, F
<1>. HIDE DEF To, f
<1>11. QED
  BY <1>2, <1>3, <1>5, <1>9, <1>10 DEF F

\* Distinct keeps the elements and gives each of them one place.
LEMMA DistinctKeeps ==
  ASSUME NEW S, NEW s \in Seq(S)
  PROVE  /\ Distinct(s) \in Seq(S) /\ Range(Distinct(s)) = Range(s)
         /\ IsInjective(Distinct(s))
<1>. DEFINE F == Firsts(s)
            c == Cardinality(F)
            At(n) == CHOOSE i \in F : Place(s, i) = n
            d == [n \in 1..c |-> s[At(n)]]
<1>1. /\ c \in Nat
      /\ \A i \in F : Place(s, i) \in 1..c
      /\ \A i, j \in F : Place(s, i) = Place(s, j) => i = j
      /\ \A n \in 1..c : \E i \in F : Place(s, i) = n
  BY PlacesOfFirsts
<1>2. Distinct(s) = d
  BY DEF Distinct
<1>3. F \subseteq 1..Len(s) /\ Len(s) \in Nat /\ s \in [1..Len(s) -> S]
  BY DEF Firsts
<1>4. \A i, j \in F : s[i] = s[j] => i = j
  BY <1>3 DEF Firsts
<1>. HIDE DEF F, c
<1>5. \A n \in 1..c : At(n) \in F /\ Place(s, At(n)) = n
  BY <1>1
<1>6. \A i \in F : At(Place(s, i)) = i
  BY <1>1
<1>. HIDE DEF At
<1>7. d \in Seq(S) /\ DOMAIN d = 1..c
  <2>1. \A n \in 1..c : s[At(n)] \in S
    BY <1>3, <1>5
  <2>2. QED
    BY <1>1, <2>1
<1>8. IsInjective(d)
  <2>. SUFFICES ASSUME NEW n \in 1..c, NEW k \in 1..c, d[n] = d[k] PROVE n = k
    BY DEF IsInjective
  <2>1. At(n) = At(k)
    BY <1>4, <1>5
  <2>2. QED
    BY <1>5, <2>1
<1>9. Range(d) \subseteq Range(s)
  BY <1>3, <1>5 DEF Range
<1>10. ASSUME NEW x \in Range(s) PROVE x \in Range(d)
  <2>. DEFINE P == {i \in 1..Len(s) : s[i] = x}
  <2>1. P \in SUBSET Nat /\ P # {}
    BY <1>3 DEF Range
  <2>2. PICK i \in P : \A j \in P : i <= j
    BY <2>1, LeastExists
  <2>3. i \in F
    BY <1>3, <2>2 DEF F, Firsts
  <2>4. Place(s, i) \in 1..c /\ d[Place(s, i)] = x
    BY <1>1, <1>6, <2>2, <2>3
  <2>5. QED
    BY <2>4 DEF Range
<1>11. QED
  BY <1>2, <1>7, <1>8, <1>9, <1>10

\* A sequence that Newest shortens keeps its order.
LEMMA NewestKeeps ==
  ASSUME NEW S, NEW s \in Seq(S), IsInjective(s)
  PROVE  /\ Newest(s) \in Seq(S) /\ Len(Newest(s)) <= MaxLineage
         /\ IsInjective(Newest(s))
<1>1. MaxLineage \in Nat \ {0} /\ Len(s) \in Nat
  BY QuoteAssumption DEF QuoteAssumption
<1>2. CASE ~(Len(s) > MaxLineage)
  BY <1>1, <1>2 DEF Newest
<1>3. CASE Len(s) > MaxLineage
  <2>. DEFINE a == Len(s) - MaxLineage
              t == SubSeq(s, a + 1, Len(s))
  <2>1. Newest(s) = t
    BY <1>3 DEF Newest
  <2>2. a \in Nat /\ a + MaxLineage = Len(s)
    BY <1>1, <1>3
  <2>. HIDE DEF a
  <2>3. /\ t \in Seq(S) /\ Len(t) = MaxLineage /\ DOMAIN t = 1..MaxLineage
        /\ \A i \in 1..MaxLineage : t[i] = s[a + i] /\ a + i \in 1..Len(s)
    BY <1>1, <2>2
  <2>4. IsInjective(t)
    BY <1>1, <2>2, <2>3 DEF IsInjective
  <2>5. QED
    BY <1>1, <2>1, <2>3, <2>4
<1>4. QED
  BY <1>2, <1>3

-----------------------------------------------------------------------------
(* The invariants. *)

\* Generations are given out in order; a row belongs to the thread of its message, and a thread owns
\* the messages whose rows it has.
IndexFits ==
  /\ \A t \in Threads : /\ thread[t].gen <= generations
                        /\ thread[t].live => thread[t].gen # 0
  /\ \A k \in Keys : /\ rows[k].thread \in {None, Home[k.of]}
                     /\ rows[k].thread = None => rows[k] = NoRow
                     /\ \A t \in Threads : k \in owned[t] <=> rows[k].thread = t

\* Only a reply that was sent has a row.
RepliesSent ==
  \A n \in Messages : rows[Bot(n)].thread # None => pc[n] \in {"deliver", "delivered", "done"}

Inside == {"run", "searched", "ran", "threw"}

\* Who works on a checkpoint holds the lock, on metadata of its own generation.
TurnFits ==
  \A m \in Messages :
    /\ token[m].gen <= generations
    /\ pc[m] \in Inside \cup {"delivered"} => lock[Home[m]] = m /\ meta[Home[m]].gen # 0
    /\ pc[m] \in Inside => meta[Home[m]].gen = token[m].gen
    /\ pc[m] \in {"run", "ran"} => evidence[Home[m]] = None

\* A checkpoint has metadata, which tell whether there is evidence in it.
MetaFits ==
  \A t \in Threads :
    /\ meta[t].gen <= generations
    /\ meta[t].live => meta[t].gen # 0
    /\ meta[t].gen = 0 => checkpoint[t] = {}
    /\ evidence[t] # None => meta[t].gen # 0 /\ meta[t].dirty

ContextInv == ContextTypeOK /\ IndexFits /\ RepliesSent /\ TurnFits /\ MetaFits

-----------------------------------------------------------------------------
(* The operations of the index. *)

LEMMA KeyTypes ==
  /\ \A m \in Messages : /\ User(m) \in Keys /\ Bot(m) \in Keys /\ Home[m] \in Threads
                         /\ User(m).of = m /\ Bot(m).of = m /\ ~User(m).bot /\ Bot(m).bot
  /\ \A k \in Keys : k.of \in Messages /\ (k.bot => k = Bot(k.of)) /\ (~k.bot => k = User(k.of))
BY ContextAssumption DEF ContextAssumption, Keys, User, Bot

\* The elements of one sequence after the other.
LEMMA ConcatRange ==
  ASSUME NEW S, NEW s \in Seq(S), NEW u \in Seq(S)
  PROVE  s \o u \in Seq(S) /\ Range(s \o u) = Range(s) \cup Range(u)
<1>1. /\ Len(s) \in Nat /\ Len(u) \in Nat /\ Len(s \o u) = Len(s) + Len(u) /\ s \o u \in Seq(S)
      /\ DOMAIN s = 1..Len(s) /\ DOMAIN u = 1..Len(u) /\ DOMAIN (s \o u) = 1..Len(s \o u)
      /\ \A i \in 1..Len(s) + Len(u) :
           (s \o u)[i] = IF i <= Len(s) THEN s[i] ELSE u[i - Len(s)]
  OBVIOUS
<1>2. \A i \in 1..Len(s) : i \in 1..Len(s) + Len(u) /\ (s \o u)[i] = s[i]
  BY <1>1
<1>3. \A i \in 1..Len(u) : Len(s) + i \in 1..Len(s) + Len(u) /\ (s \o u)[Len(s) + i] = u[i]
  BY <1>1
<1>4. \A i \in 1..Len(s) + Len(u) : i \in 1..Len(s) \/ i - Len(s) \in 1..Len(u)
  BY <1>1
<1>5. QED
  BY <1>1, <1>2, <1>3, <1>4 DEF Range

\* What a turn depends on.
Quoted(t, k) == IF QuoteOf(t, k) = "resolved" THEN {k} \cup Range(rows[k].lineage) ELSE {}
LEMMA NeedsFit ==
  ASSUME QuoteTypeOK, NEW t \in Threads, NEW own \in Keys, NEW k \in Keys \cup {None}
  PROVE  /\ Dependencies(t, own, k) \in Seq(Keys)
         /\ Newest(Dependencies(t, own, k)) \in Seq(Keys)
         /\ Len(Newest(Dependencies(t, own, k))) <= MaxLineage
         /\ IsInjective(Newest(Dependencies(t, own, k)))
         /\ Range(Dependencies(t, own, k)) =
              (IF Starts(t) THEN {} ELSE Range(thread[t].lineage)) \cup {own} \cup Quoted(t, k)
<1>. DEFINE a == IF Starts(t) THEN <<>> ELSE thread[t].lineage
            b == IF QuoteOf(t, k) = "resolved" THEN <<k>> \o rows[k].lineage ELSE <<>>
            c == <<own>>
            ac == a \o c
<1>1. a \in Seq(Keys) /\ Range(a) = IF Starts(t) THEN {} ELSE Range(thread[t].lineage)
  BY DEF QuoteTypeOK, ThreadRow, Range
<1>2. c \in Seq(Keys) /\ Range(c) = {own}
  BY DEF Range
<1>3. b \in Seq(Keys) /\ Range(b) = Quoted(t, k)
  <2>1. CASE QuoteOf(t, k) = "resolved"
    <3>1. k \in Keys
      BY <2>1 DEF QuoteOf
    <3>. DEFINE u == <<k>>
                v == rows[k].lineage
    <3>2. v \in Seq(Keys)
      BY <3>1 DEF QuoteTypeOK, MessageRow
    <3>3. u \in Seq(Keys) /\ Range(u) = {k}
      BY <3>1 DEF Range
    <3>. HIDE DEF u, v
    <3>4. u \o v \in Seq(Keys) /\ Range(u \o v) = Range(u) \cup Range(v)
      BY <3>2, <3>3, ConcatRange
    <3>5. b = u \o v
      BY <2>1 DEF u, v
    <3>6. QED
      BY <2>1, <3>3, <3>4, <3>5 DEF Quoted, u, v
  <2>2. CASE QuoteOf(t, k) # "resolved"
    BY <2>2 DEF Quoted, Range
  <2>3. QED
    BY <2>1, <2>2
<1>4. Dependencies(t, own, k) = Distinct(ac \o b)
  BY DEF Dependencies
<1>. HIDE DEF a, b, c
<1>5. ac \in Seq(Keys) /\ Range(ac) = Range(a) \cup {own}
  BY <1>1, <1>2, ConcatRange
<1>. HIDE DEF ac
<1>6. ac \o b \in Seq(Keys) /\ Range(ac \o b) = Range(ac) \cup Range(b)
  BY <1>3, <1>5, ConcatRange
<1>. DEFINE e == ac \o b
<1>. HIDE DEF e
<1>7. /\ Dependencies(t, own, k) \in Seq(Keys) /\ IsInjective(Dependencies(t, own, k))
      /\ Range(Dependencies(t, own, k)) = Range(a) \cup {own} \cup Range(b)
  <2>1. /\ Distinct(e) \in Seq(Keys) /\ Range(Distinct(e)) = Range(e)
        /\ IsInjective(Distinct(e))
    BY <1>6, DistinctKeeps DEF e
  <2>2. QED
    BY <1>4, <1>5, <1>6, <2>1 DEF e
<1>8. QED
  BY <1>1, <1>3, <1>7, NewestKeeps

\* The types of the index, row by row.
LineageFits(s) == s \in Seq(Keys) /\ Len(s) <= MaxLineage /\ IsInjective(s)
LEMMA TypesByRow ==
  QuoteTypeOK <=>
    /\ thread \in [Threads -> ThreadRow] /\ rows \in [Keys -> MessageRow]
    /\ \A t \in Threads : LineageFits(thread[t].lineage)
    /\ \A k \in Keys : LineageFits(rows[k].lineage)
    /\ depends \in [Threads -> SUBSET Keys] /\ owned \in [Threads -> SUBSET Keys]
    /\ tombs \subseteq Keys /\ generations \in Nat
BY DEF QuoteTypeOK, Lineages, LineageFits, ThreadRow, MessageRow

LEMMA EmptyLineage == LineageFits(<<>>) /\ Range(<<>>) = {}
BY QuoteAssumption DEF QuoteAssumption, LineageFits, IsInjective, Range

LEMMA RowsWithoutFit ==
  ASSUME QuoteTypeOK, NEW ts
  PROVE  /\ RowsWithout(ts) \in [Keys -> MessageRow]
         /\ \A k \in Keys : /\ LineageFits(RowsWithout(ts)[k].lineage)
                            /\ rows[k].thread \in ts => RowsWithout(ts)[k] = NoRow
                            /\ rows[k].thread \notin ts => RowsWithout(ts)[k] = rows[k]
<1>1. NoRow \in MessageRow /\ LineageFits(NoRow.lineage)
  BY EmptyLineage DEF NoRow, MessageRow
<1>2. QED
  BY <1>1, TypesByRow DEF RowsWithout

\* The rows and dependencies of the threads in ts are deleted.
DroppedIndex(ts) ==
  /\ rows' = RowsWithout(ts)
  /\ depends' = Forgotten(depends, ts) /\ owned' = Forgotten(owned, ts)

LEMMA DropKeeps ==
  ASSUME QuoteTypeOK, IndexFits, NEW ts, DroppedIndex(ts)
  PROVE  /\ rows' \in [Keys -> MessageRow]
         /\ depends' \in [Threads -> SUBSET Keys] /\ owned' \in [Threads -> SUBSET Keys]
         /\ \A k \in Keys : /\ LineageFits(rows'[k].lineage)
                            /\ rows[k].thread \in ts => rows'[k] = NoRow
                            /\ rows[k].thread \notin ts => rows'[k] = rows[k]
                            /\ rows'[k].thread \in {None, Home[k.of]}
                            /\ rows'[k].thread = None => rows'[k] = NoRow
                            /\ \A t \in Threads : k \in owned'[t] <=> rows'[k].thread = t
         /\ \A t \in Threads : /\ t \in ts => depends'[t] = {} /\ owned'[t] = {}
                               /\ t \notin ts => depends'[t] = depends[t] /\ owned'[t] = owned[t]
<1>1. /\ rows' \in [Keys -> MessageRow]
      /\ \A k \in Keys : /\ LineageFits(rows'[k].lineage)
                         /\ rows[k].thread \in ts => rows'[k] = NoRow
                         /\ rows[k].thread \notin ts => rows'[k] = rows[k]
  BY RowsWithoutFit DEF DroppedIndex
<1>2. /\ depends' \in [Threads -> SUBSET Keys] /\ owned' \in [Threads -> SUBSET Keys]
      /\ \A t \in Threads : /\ t \in ts => depends'[t] = {} /\ owned'[t] = {}
                            /\ t \notin ts => depends'[t] = depends[t] /\ owned'[t] = owned[t]
  BY TypesByRow DEF DroppedIndex, Forgotten
<1>3. NoRow.thread = None /\ None \notin Threads
  BY QuoteAssumption DEF QuoteAssumption, NoRow
<1>4. \A k \in Keys : /\ rows'[k].thread \in {None, Home[k.of]}
                      /\ rows'[k].thread = None => rows'[k] = NoRow
                      /\ \A t \in Threads : k \in owned'[t] <=> rows'[k].thread = t
  BY <1>1, <1>2, <1>3 DEF IndexFits
<1>5. QED
  BY <1>1, <1>2, <1>4

\* begin: the thread goes on or starts again.
BeginFacts(m, k) ==
  LET t == Home[m] IN
  /\ generations' = IF Starts(t) THEN generations + 1 ELSE generations
  /\ thread'[t].gen = (IF Starts(t) THEN generations' ELSE thread[t].gen) /\ thread'[t].live
  /\ \A u \in Threads : u # t =>
       thread'[u] = thread[u] /\ depends'[u] = depends[u] /\ owned'[u] = owned[u]
  /\ User(m) \in depends'[t] /\ Quoted(t, k) \subseteq depends'[t]
  /\ ~Starts(t) => depends[t] \subseteq depends'[t] /\ owned[t] \subseteq owned'[t]
  /\ \A n \in Messages :
       rows'[Bot(n)] = IF Starts(t) /\ rows[Bot(n)].thread = t THEN NoRow ELSE rows[Bot(n)]
  /\ tombs' = tombs

LEMMA BeginIndex ==
  ASSUME QuoteTypeOK, IndexFits, NEW m \in Messages, NEW k \in Keys \cup {None},
         BeginThread(Home[m], User(m), k)
  PROVE  QuoteTypeOK' /\ IndexFits' /\ BeginFacts(m, k)
<1>. DEFINE t == Home[m]
            own == User(m)
            needs == Dependencies(t, own, k)
            dropped == IF Starts(t) THEN {t} ELSE {}
            kept == RowsWithout(dropped)
            new == [thread |-> t, gen |-> thread'[t].gen, public |-> FALSE, lineage |-> Newest(needs)]
<1>1. t \in Threads /\ own \in Keys /\ t # None
  BY KeyTypes, QuoteAssumption DEF QuoteAssumption
<1>2. /\ needs \in Seq(Keys) /\ LineageFits(Newest(needs))
      /\ own \in Range(needs) /\ Quoted(t, k) \subseteq Range(needs) /\ Range(needs) \subseteq Keys
  <2>1. /\ needs \in Seq(Keys) /\ LineageFits(Newest(needs))
        /\ Range(needs) = (IF Starts(t) THEN {} ELSE Range(thread[t].lineage)) \cup {own} \cup Quoted(t, k)
    BY <1>1, NeedsFit DEF LineageFits
  <2>2. Range(needs) \subseteq Keys
    <3>. HIDE DEF needs
    <3>. QED
      BY <2>1 DEF Range
  <2>3. QED
    BY <2>1, <2>2
<1>3. /\ thread \in [Threads -> ThreadRow] /\ generations \in Nat
      /\ depends \in [Threads -> SUBSET Keys] /\ owned \in [Threads -> SUBSET Keys]
      /\ tombs \subseteq Keys /\ \A u \in Threads : LineageFits(thread[u].lineage)
  BY TypesByRow
<1>4. /\ generations' = (IF Starts(t) THEN generations + 1 ELSE generations) /\ generations' \in Nat
  BY <1>3 DEF BeginThread, NewGeneration
<1>5. /\ thread' = [thread EXCEPT
           ![t].gen = IF Starts(t) THEN generations' ELSE @, ![t].live = TRUE,
           ![t].clear = @ \/ (Starts(t) /\ thread[t].gen # 0), ![t].lineage = Newest(needs)]
      /\ depends' = [depends EXCEPT ![t] = Recorded(t, needs)]
      /\ owned' = [owned EXCEPT ![t] = (IF Starts(t) THEN {} ELSE @) \cup {own}]
      /\ rows' = IF kept[own] # NoRow THEN kept ELSE [kept EXCEPT ![own] = new]
      /\ tombs' = tombs
  BY DEF BeginThread
<1>. HIDE DEF needs, own
<1>6. /\ thread'[t].gen = (IF Starts(t) THEN generations' ELSE thread[t].gen) /\ thread'[t].live
      /\ thread'[t].lineage = Newest(needs)
      /\ \A u \in Threads : u # t => thread'[u] = thread[u]
  BY <1>1, <1>3, <1>5 DEF ThreadRow
<1>7. thread' \in [Threads -> ThreadRow] /\ thread'[t].gen \in Nat
  <2>1. thread'[t] = [gen |-> IF Starts(t) THEN generations' ELSE thread[t].gen, live |-> TRUE,
                      clear |-> thread[t].clear \/ (Starts(t) /\ thread[t].gen # 0),
                      by |-> thread[t].by, lineage |-> Newest(needs)]
    BY <1>1, <1>3, <1>5 DEF ThreadRow
  <2>2. thread'[t] \in ThreadRow
    BY <1>1, <1>2, <1>3, <1>4, <2>1 DEF ThreadRow, LineageFits
  <2>3. QED
    BY <1>1, <1>3, <1>5, <1>6, <2>2 DEF ThreadRow
<1>8. /\ depends' \in [Threads -> SUBSET Keys] /\ owned' \in [Threads -> SUBSET Keys]
      /\ own \in depends'[t] /\ Quoted(t, k) \subseteq depends'[t]
      /\ owned'[t] = (IF Starts(t) THEN {} ELSE owned[t]) \cup {own}
      /\ ~Starts(t) => depends[t] \subseteq depends'[t]
      /\ \A u \in Threads : u # t => depends'[u] = depends[u] /\ owned'[u] = owned[u]
  BY <1>1, <1>2, <1>3, <1>5 DEF Recorded
<1>9. /\ kept \in [Keys -> MessageRow]
      /\ \A q \in Keys : /\ LineageFits(kept[q].lineage)
                         /\ rows[q].thread \in dropped => kept[q] = NoRow
                         /\ rows[q].thread \notin dropped => kept[q] = rows[q]
  BY RowsWithoutFit
<1>10. new \in MessageRow /\ new.thread = t /\ new.lineage = Newest(needs)
  BY <1>1, <1>2, <1>7 DEF MessageRow, LineageFits
<1>11. NoRow.thread = None /\ Home[own.of] = t
  BY KeyTypes DEF NoRow, own
<1>. HIDE DEF kept, new
<1>12. /\ rows' \in [Keys -> MessageRow] /\ rows'[own] = (IF kept[own] # NoRow THEN kept[own] ELSE new)
       /\ \A q \in Keys : q # own => rows'[q] = kept[q]
  BY <1>1, <1>5, <1>9, <1>10
<1>13. rows'[own].thread = t
  BY <1>1, <1>9, <1>10, <1>11, <1>12 DEF IndexFits
<1>14. \A q \in Keys : LineageFits(rows'[q].lineage)
  BY <1>2, <1>9, <1>10, <1>12
<1>15. QuoteTypeOK'
  <2>1. \A u \in Threads : LineageFits(thread'[u].lineage)
    BY <1>2, <1>3, <1>6
  <2>2. \A s \in Lineages' : Len(s) <= MaxLineage /\ IsInjective(s)
    BY <1>14, <2>1 DEF Lineages, LineageFits
  <2>3. QED
    BY <1>3, <1>4, <1>5, <1>7, <1>8, <1>12, <2>2 DEF QuoteTypeOK
<1>16. IndexFits'
  <2>1. ASSUME NEW u \in Threads
        PROVE  thread'[u].gen <= generations' /\ (thread'[u].live => thread'[u].gen # 0)
    <3>1. /\ thread[u].gen \in Nat /\ thread[u].gen <= generations
          /\ thread[u].live => thread[u].gen # 0
      BY <1>3 DEF IndexFits, ThreadRow
    <3>2. CASE u # t
      BY <1>3, <1>4, <1>6, <3>1, <3>2
    <3>3. CASE u = t
      BY <1>3, <1>4, <1>6, <3>1, <3>3 DEF Starts
    <3>4. QED
      BY <3>2, <3>3
  <2>2. ASSUME NEW q \in Keys
        PROVE  /\ rows'[q].thread \in {None, Home[q.of]}
               /\ rows'[q].thread = None => rows'[q] = NoRow
               /\ \A u \in Threads : q \in owned'[u] <=> rows'[q].thread = u
    <3>1. CASE q = own
      <4>1. ASSUME NEW u \in Threads, u # t PROVE q \notin owned'[u]
        BY <1>1, <1>8, <1>11, <3>1, <4>1, QuoteAssumption DEF IndexFits, QuoteAssumption
      <4>2. q \in owned'[t]
        BY <1>8, <3>1
      <4>3. QED
        BY <1>1, <1>11, <1>13, <3>1, <4>1, <4>2
    <3>2. CASE q # own
      BY <1>1, <1>8, <1>9, <1>11, <1>12, <3>2, QuoteAssumption DEF IndexFits, QuoteAssumption
    <3>3. QED
      BY <3>1, <3>2
  <2>3. QED
    BY <2>1, <2>2 DEF IndexFits
<1>17. BeginFacts(m, k)
  <2>1. \A n \in Messages : Bot(n) \in Keys /\ Bot(n) # own
    BY KeyTypes DEF own, User, Bot
  <2>2. ~Starts(t) => owned[t] \subseteq owned'[t]
    BY <1>8
  <2>3. \A n \in Messages :
          rows'[Bot(n)] = IF Starts(t) /\ rows[Bot(n)].thread = t THEN NoRow ELSE rows[Bot(n)]
    BY <1>9, <1>12, <2>1
  <2>4. QED
    BY <1>4, <1>5, <1>6, <1>8, <2>2, <2>3 DEF BeginFacts, own
<1>18. QED
  BY <1>15, <1>16, <1>17

LEMMA TypesAfter ==
  ASSUME thread' \in [Threads -> ThreadRow], rows' \in [Keys -> MessageRow],
         \A t \in Threads : LineageFits(thread'[t].lineage),
         \A k \in Keys : LineageFits(rows'[k].lineage),
         depends' \in [Threads -> SUBSET Keys], owned' \in [Threads -> SUBSET Keys],
         tombs' \subseteq Keys, generations' \in Nat
  PROVE  QuoteTypeOK'
<1>1. \A s \in Lineages' : Len(s) <= MaxLineage /\ IsInjective(s)
  BY DEF Lineages, LineageFits
<1>2. QED
  BY <1>1 DEF QuoteTypeOK

\* begin is refused: what an expired thread kept is gone.
RefusedFacts(m) ==
  LET dropped == IF Starts(Home[m]) /\ User(m) \notin tombs THEN {Home[m]} ELSE {} IN
  /\ DroppedIndex(dropped)
  /\ UNCHANGED <<thread, tombs, generations>>
LEMMA RefusedIndex ==
  ASSUME QuoteTypeOK, IndexFits, NEW m \in Messages, RefusedBegin(Home[m], User(m))
  PROVE  QuoteTypeOK' /\ IndexFits' /\ RefusedFacts(m)
<1>1. RefusedFacts(m)
  BY DEF RefusedBegin, RefusedFacts, DroppedIndex
<1>. DEFINE dropped == IF Starts(Home[m]) /\ User(m) \notin tombs THEN {Home[m]} ELSE {}
<1>2. DroppedIndex(dropped) /\ UNCHANGED <<thread, tombs, generations>>
  BY <1>1 DEF RefusedFacts
<1>. HIDE DEF dropped
<1>3. /\ rows' \in [Keys -> MessageRow]
      /\ depends' \in [Threads -> SUBSET Keys] /\ owned' \in [Threads -> SUBSET Keys]
      /\ \A k \in Keys : /\ LineageFits(rows'[k].lineage)
                         /\ rows'[k].thread \in {None, Home[k.of]}
                         /\ rows'[k].thread = None => rows'[k] = NoRow
                         /\ \A t \in Threads : k \in owned'[t] <=> rows'[k].thread = t
  BY <1>2, DropKeeps
<1>4. QuoteTypeOK'
  BY <1>2, <1>3, TypesByRow, TypesAfter
<1>5. IndexFits'
  BY <1>2, <1>3 DEF IndexFits
<1>6. QED
  BY <1>1, <1>4, <1>5

\* recordReply: the reply is one more message of its thread, or nothing happens.
RecordFacts(m) ==
  LET t == Home[m] IN
  /\ UNCHANGED <<thread, tombs, generations>>
  /\ \A u \in Threads : depends[u] \subseteq depends'[u] /\ owned[u] \subseteq owned'[u]
  /\ \A k \in Keys : rows'[k] # rows[k] =>
       /\ k = Bot(m) /\ rows[k] = NoRow /\ Current(m) /\ rows'[k].thread = t
LEMMA RecordIndex ==
  ASSUME QuoteTypeOK, IndexFits, NEW m \in Messages, NEW public \in BOOLEAN, token[m].gen \in Nat,
         RecordReply(Home[m], token[m].gen, token[m].sources, Bot(m), public)
  PROVE  QuoteTypeOK' /\ IndexFits' /\ RecordFacts(m)
<1>. DEFINE t == Home[m]
            reply == Bot(m)
            new == [thread |-> t, gen |-> token[m].gen, public |-> public, lineage |-> thread[t].lineage]
<1>1. t \in Threads /\ reply \in Keys /\ t # None /\ Home[reply.of] = t
  BY KeyTypes, QuoteAssumption DEF QuoteAssumption
<1>2. /\ thread \in [Threads -> ThreadRow] /\ rows \in [Keys -> MessageRow] /\ generations \in Nat
      /\ \A u \in Threads : LineageFits(thread[u].lineage)
      /\ \A k \in Keys : LineageFits(rows[k].lineage)
      /\ depends \in [Threads -> SUBSET Keys] /\ owned \in [Threads -> SUBSET Keys]
      /\ tombs \subseteq Keys
  BY TypesByRow
<1>3. CASE ~Current(m)
  <2>1. UNCHANGED quoteVars
    BY <1>3 DEF RecordReply, Current
  <2>2. QED
    BY <2>1 DEF quoteVars, QuoteTypeOK, Lineages, IndexFits, RecordFacts
<1>4. CASE Current(m)
  <2>1. /\ depends' = [depends EXCEPT ![t] = @ \cup {reply}]
        /\ owned' = [owned EXCEPT ![t] = @ \cup {reply}]
        /\ rows' = IF rows[reply] # NoRow THEN rows ELSE [rows EXCEPT ![reply] = new]
        /\ UNCHANGED <<thread, tombs, generations>>
    BY <1>4 DEF RecordReply, Current
  <2>2. new \in MessageRow /\ LineageFits(new.lineage) /\ new.thread = t
    BY <1>1, <1>2 DEF MessageRow, LineageFits
  <2>. HIDE DEF new, reply
  <2>3. /\ rows' \in [Keys -> MessageRow]
        /\ \A k \in Keys : LineageFits(rows'[k].lineage)
        /\ \A k \in Keys : rows'[k] # rows[k] => k = reply /\ rows[k] = NoRow /\ rows'[k].thread = t
    BY <1>1, <1>2, <2>1, <2>2
  <2>4. /\ depends' \in [Threads -> SUBSET Keys] /\ owned' \in [Threads -> SUBSET Keys]
        /\ \A u \in Threads : /\ depends[u] \subseteq depends'[u] /\ owned[u] \subseteq owned'[u]
                              /\ u # t => owned'[u] = owned[u]
        /\ owned'[t] = owned[t] \cup {reply}
    BY <1>1, <1>2, <2>1
  <2>5. QuoteTypeOK'
    BY <1>2, <2>1, <2>3, <2>4, TypesAfter
  <2>6. rows'[reply].thread = t
    BY <1>1, <1>2, <2>1, <2>2 DEF IndexFits
  <2>7. ASSUME NEW k \in Keys
        PROVE  /\ rows'[k].thread \in {None, Home[k.of]}
               /\ rows'[k].thread = None => rows'[k] = NoRow
               /\ \A u \in Threads : k \in owned'[u] <=> rows'[k].thread = u
    <3>1. CASE k = reply
      <4>1. ASSUME NEW u \in Threads, u # t PROVE k \notin owned'[u]
        BY <1>1, <2>4, <3>1, <4>1, QuoteAssumption DEF IndexFits, QuoteAssumption
      <4>2. QED
        BY <1>1, <2>4, <2>6, <3>1, <4>1
    <3>2. CASE k # reply
      BY <1>1, <2>3, <2>4, <3>2 DEF IndexFits
    <3>3. QED
      BY <3>1, <3>2
  <2>8. IndexFits'
    BY <2>1, <2>7 DEF IndexFits
  <2>9. RecordFacts(m)
    BY <1>4, <2>1, <2>3, <2>4 DEF RecordFacts, reply
  <2>10. QED
    BY <2>5, <2>8, <2>9
<1>5. QED
  BY <1>3, <1>4

\* Steps that change the row of one thread and leave its lineage and generation.
LEMMA RowOnly ==
  ASSUME QuoteTypeOK, IndexFits, NEW t \in Threads, NEW row \in ThreadRow,
         row.lineage = thread[t].lineage, row.gen = thread[t].gen, row.live => thread[t].live,
         thread' = [thread EXCEPT ![t] = row],
         UNCHANGED <<depends, owned, rows, tombs, generations>>
  PROVE  /\ QuoteTypeOK' /\ IndexFits'
         /\ \A u \in Threads : thread'[u].gen = thread[u].gen /\ (thread'[u].live => thread[u].live)
<1>1. /\ thread \in [Threads -> ThreadRow] /\ rows \in [Keys -> MessageRow] /\ generations \in Nat
      /\ \A u \in Threads : LineageFits(thread[u].lineage)
      /\ \A k \in Keys : LineageFits(rows[k].lineage)
      /\ depends \in [Threads -> SUBSET Keys] /\ owned \in [Threads -> SUBSET Keys]
      /\ tombs \subseteq Keys
  BY TypesByRow
<1>2. /\ thread' \in [Threads -> ThreadRow] /\ thread'[t] = row
      /\ \A u \in Threads : u # t => thread'[u] = thread[u]
  BY <1>1
<1>3. \A u \in Threads : LineageFits(thread'[u].lineage)
  BY <1>1, <1>2
<1>4. QuoteTypeOK'
  BY <1>1, <1>2, <1>3, TypesAfter
<1>5. \A u \in Threads : thread'[u].gen = thread[u].gen /\ (thread'[u].live => thread[u].live)
  BY <1>2
<1>6. QED
  BY <1>4, <1>5 DEF IndexFits

LEMMA AcknowledgeIndex ==
  ASSUME QuoteTypeOK, IndexFits, NEW t \in Threads, NEW gen, AcknowledgeClear(t, gen),
         UNCHANGED <<depends, owned, rows, tombs, generations>>
  PROVE  /\ QuoteTypeOK' /\ IndexFits'
         /\ \A u \in Threads : thread'[u].gen = thread[u].gen /\ (thread'[u].live => thread[u].live)
<1>1. thread[t] \in ThreadRow /\ thread \in [Threads -> ThreadRow]
  BY DEF QuoteTypeOK
<1>2. CASE thread[t].gen = gen
  <2>. DEFINE row == [thread[t] EXCEPT !.clear = FALSE, !.by = None]
  <2>1. row \in ThreadRow /\ row.lineage = thread[t].lineage /\ row.gen = thread[t].gen
        /\ row.live = thread[t].live
    BY <1>1 DEF ThreadRow
  <2>2. thread' = [thread EXCEPT ![t] = row]
    BY <1>1, <1>2 DEF AcknowledgeClear, ThreadRow
  <2>. HIDE DEF row
  <2>3. QED
    BY <2>1, <2>2, RowOnly
<1>3. CASE thread[t].gen # gen
  BY <1>1, <1>3 DEF AcknowledgeClear, QuoteTypeOK, Lineages, IndexFits
<1>4. QED
  BY <1>2, <1>3

LEMMA ExpireIndex ==
  ASSUME QuoteTypeOK, IndexFits, NEW t \in Threads, ThreadExpires(t)
  PROVE  /\ QuoteTypeOK' /\ IndexFits' /\ UNCHANGED <<depends, owned, rows, tombs, generations>>
         /\ \A u \in Threads : thread'[u].gen = thread[u].gen /\ (thread'[u].live => thread[u].live)
<1>. DEFINE row == [thread[t] EXCEPT !.live = FALSE]
<1>1. thread[t] \in ThreadRow /\ thread \in [Threads -> ThreadRow]
  BY DEF QuoteTypeOK
<1>2. row \in ThreadRow /\ row.lineage = thread[t].lineage /\ row.gen = thread[t].gen /\ ~row.live
  BY <1>1 DEF ThreadRow
<1>3. thread' = [thread EXCEPT ![t] = row] /\ UNCHANGED <<depends, owned, rows, tombs, generations>>
  BY <1>1 DEF ThreadExpires, ThreadRow
<1>. HIDE DEF row
<1>4. QED
  BY <1>2, <1>3, RowOnly

ResetFacts(t) ==
  /\ DroppedIndex({t}) /\ tombs' = tombs
  /\ generations' = generations + 1 /\ thread'[t].gen = generations'
  /\ \A u \in Threads : u # t => thread'[u] = thread[u]
LEMMA ResetIndex ==
  ASSUME QuoteTypeOK, IndexFits, NEW t \in Threads, ResetThread(t)
  PROVE  QuoteTypeOK' /\ IndexFits' /\ ResetFacts(t)
<1>. DEFINE row == [gen |-> generations', live |-> TRUE, clear |-> TRUE, by |-> None, lineage |-> <<>>]
<1>1. /\ thread \in [Threads -> ThreadRow] /\ generations \in Nat /\ tombs \subseteq Keys
      /\ \A u \in Threads : LineageFits(thread[u].lineage)
  BY TypesByRow
<1>2. DroppedIndex({t}) /\ tombs' = tombs /\ generations' = generations + 1
  BY DEF ResetThread, DroppedIndex, NewGeneration
<1>3. row \in ThreadRow /\ row.gen = generations' /\ LineageFits(row.lineage)
  BY <1>1, <1>2, EmptyLineage DEF ThreadRow
<1>4. thread' = [thread EXCEPT ![t] = row]
  BY DEF ResetThread
<1>. HIDE DEF row
<1>5. /\ thread' \in [Threads -> ThreadRow] /\ thread'[t] = row
      /\ \A u \in Threads : u # t => thread'[u] = thread[u]
  BY <1>1, <1>3, <1>4
<1>6. \A u \in Threads : LineageFits(thread'[u].lineage)
  BY <1>1, <1>3, <1>5
<1>7. /\ rows' \in [Keys -> MessageRow]
      /\ depends' \in [Threads -> SUBSET Keys] /\ owned' \in [Threads -> SUBSET Keys]
      /\ \A k \in Keys : /\ LineageFits(rows'[k].lineage)
                         /\ rows'[k].thread \in {None, Home[k.of]}
                         /\ rows'[k].thread = None => rows'[k] = NoRow
                         /\ \A u \in Threads : k \in owned'[u] <=> rows'[k].thread = u
  BY <1>2, DropKeeps
<1>8. QuoteTypeOK'
  BY <1>1, <1>2, <1>5, <1>6, <1>7, TypesAfter
<1>9. ASSUME NEW u \in Threads
      PROVE  thread'[u].gen <= generations' /\ (thread'[u].live => thread'[u].gen # 0)
  <2>1. thread[u].gen \in Nat /\ thread[u].gen <= generations /\ (thread[u].live => thread[u].gen # 0)
    BY <1>1 DEF IndexFits, ThreadRow
  <2>2. CASE u = t
    BY <1>1, <1>2, <1>3, <1>5, <2>2
  <2>3. CASE u # t
    BY <1>1, <1>2, <1>5, <2>1, <2>3
  <2>4. QED
    BY <2>2, <2>3
<1>10. IndexFits'
  BY <1>7, <1>9 DEF IndexFits
<1>11. QED
  BY <1>2, <1>3, <1>5, <1>8, <1>10 DEF ResetFacts

UnsendFacts(k) ==
  /\ DroppedIndex(Affected(k)) /\ tombs' = tombs \cup {k}
  /\ generations' \in {generations, generations + 1}
  /\ \A t \in Threads :
       IF t \in Affected(k) THEN thread'[t].gen = generations' /\ generations' = generations + 1
       ELSE thread'[t] = thread[t]
LEMMA UnsendIndex ==
  ASSUME QuoteTypeOK, IndexFits, NEW k \in Keys, UnsendMessage(k)
  PROVE  QuoteTypeOK' /\ IndexFits' /\ UnsendFacts(k)
<1>. DEFINE hit == Affected(k)
            Marked(t) == [thread[t] EXCEPT !.gen = generations', !.lineage = <<>>,
                                           !.clear = TRUE, !.by = k]
<1>1. /\ thread \in [Threads -> ThreadRow] /\ generations \in Nat /\ tombs \subseteq Keys
      /\ \A u \in Threads : LineageFits(thread[u].lineage)
  BY TypesByRow
<1>2. /\ DroppedIndex(hit) /\ tombs' = tombs \cup {k}
      /\ IF hit = {} THEN generations' = generations ELSE generations' = generations + 1
  BY DEF UnsendMessage, DroppedIndex, NewGeneration
<1>13. thread' = [t \in Threads |-> IF t \in hit THEN Marked(t) ELSE thread[t]]
  BY DEF UnsendMessage
<1>. HIDE DEF hit
<1>3. ASSUME NEW t \in Threads
      PROVE  /\ Marked(t) \in ThreadRow /\ Marked(t).gen = generations'
             /\ LineageFits(Marked(t).lineage)
  <2>1. generations' \in Nat /\ <<>> \in Seq(Keys) /\ thread[t] \in ThreadRow
    BY <1>1, <1>2
  <2>2. Marked(t) \in ThreadRow /\ Marked(t).gen = generations' /\ Marked(t).lineage = <<>>
    BY <2>1 DEF ThreadRow
  <2>. HIDE DEF Marked
  <2>3. QED
    BY <2>2, EmptyLineage
<1>. HIDE DEF Marked
<1>4. /\ thread' \in [Threads -> ThreadRow] /\ \A u \in Threads : LineageFits(thread'[u].lineage)
  BY <1>1, <1>3, <1>13
<1>5. \A t \in Threads :
        IF t \in hit THEN thread'[t].gen = generations' /\ generations' = generations + 1
        ELSE thread'[t] = thread[t]
  BY <1>2, <1>3, <1>13
<1>6. /\ rows' \in [Keys -> MessageRow]
      /\ depends' \in [Threads -> SUBSET Keys] /\ owned' \in [Threads -> SUBSET Keys]
      /\ \A q \in Keys : /\ LineageFits(rows'[q].lineage)
                         /\ rows'[q].thread \in {None, Home[q.of]}
                         /\ rows'[q].thread = None => rows'[q] = NoRow
                         /\ \A u \in Threads : q \in owned'[u] <=> rows'[q].thread = u
  BY <1>2, DropKeeps
<1>7. generations' \in Nat /\ generations' \in {generations, generations + 1}
  BY <1>1, <1>2
<1>8. QuoteTypeOK'
  BY <1>1, <1>2, <1>4, <1>6, <1>7, TypesAfter
<1>9. ASSUME NEW u \in Threads
      PROVE  thread'[u].gen <= generations' /\ (thread'[u].live => thread'[u].gen # 0)
  <2>1. thread[u].gen \in Nat /\ thread[u].gen <= generations /\ (thread[u].live => thread[u].gen # 0)
    BY <1>1 DEF IndexFits, ThreadRow
  <2>2. CASE u \in hit
    BY <1>1, <1>5, <1>7, <2>2
  <2>3. CASE u \notin hit
    BY <1>1, <1>5, <1>7, <2>1, <2>3
  <2>4. QED
    BY <2>2, <2>3
<1>10. IndexFits'
  BY <1>6, <1>9 DEF IndexFits
<1>11. UnsendFacts(k)
  BY <1>2, <1>5, <1>7 DEF UnsendFacts, hit
<1>12. QED
  BY <1>8, <1>10, <1>11

-----------------------------------------------------------------------------
(* Types, rows, locks and metadata. *)

MetaRow(row, texts, marks) ==
  /\ row.live => row.gen # 0
  /\ row.gen = 0 => texts = {}
  /\ marks # None => row.gen # 0 /\ row.dirty

SameAt(t) ==
  lock'[t] = lock[t] /\ meta'[t] = meta[t] /\ checkpoint'[t] = checkpoint[t] /\ evidence'[t] = evidence[t]

ContextTyped ==
  /\ lock' \in [Threads -> Messages \cup {None}] /\ meta' \in [Threads -> Meta]
  /\ checkpoint' \in [Threads -> SUBSET Messages] /\ evidence' \in [Threads -> Messages \cup {None}]
RestTyped ==
  /\ clearing' \in [Messages -> SUBSET Threads] /\ again' \subseteq Messages
  /\ cut' \subseteq Messages /\ faults' \in Nat

\* The turn of m after a step.
TurnAfter(m) ==
  /\ token'[m].gen <= generations'
  /\ pc'[m] \in Inside \cup {"delivered"} => lock'[Home[m]] = m /\ meta'[Home[m]].gen # 0
  /\ pc'[m] \in Inside => meta'[Home[m]].gen = token'[m].gen
  /\ pc'[m] \in {"run", "ran"} => evidence'[Home[m]] = None

\* A step of the turn of m: it changes its own thread only, and only when no other turn is at work.
LEMMA TurnMoves ==
  ASSUME ContextInv, NEW m \in Messages, QuoteTypeOK', IndexFits', ContextTyped, RestTyped,
         pc' \in [Messages -> Steps], token' \in [Messages -> Token],
         basis' \in [Messages -> SUBSET Messages],
         generations <= generations',
         \A n \in Messages : n # m => pc'[n] = pc[n] /\ token'[n] = token[n],
         \A t \in Threads : t # Home[m] => SameAt(t),
         lock[Home[m]] \notin {None, m} => SameAt(Home[m]),
         TurnAfter(m), meta'[Home[m]].gen <= generations',
         MetaRow(meta'[Home[m]], checkpoint'[Home[m]], evidence'[Home[m]]),
         \A n \in Messages : rows'[Bot(n)].thread # None =>
           rows[Bot(n)].thread # None \/ (n = m /\ pc'[n] = "deliver"),
         pc[m] \in {"deliver", "delivered", "done"} => pc'[m] \in {"deliver", "delivered", "done"}
  PROVE  ContextInv'
<1>1. ContextTypeOK'
  BY DEF ContextTypeOK, ContextTyped, RestTyped
<1>2. RepliesSent'
  <2>1. ASSUME NEW n \in Messages, rows'[Bot(n)].thread # None
        PROVE  pc'[n] \in {"deliver", "delivered", "done"}
    BY <2>1 DEF ContextInv, RepliesSent
  <2>2. QED
    BY <2>1 DEF RepliesSent
<1>3. /\ generations \in Nat /\ generations' \in Nat /\ token \in [Messages -> Token]
      /\ meta \in [Threads -> Meta] /\ Home[m] \in Threads /\ None \notin Messages
  BY KeyTypes, QuoteAssumption DEF ContextInv, ContextTypeOK, QuoteTypeOK, QuoteAssumption
<1>4. TurnFits'
  <2>1. ASSUME NEW n \in Messages, n # m
        PROVE  /\ token'[n].gen <= generations'
               /\ pc'[n] \in Inside \cup {"delivered"} => lock'[Home[n]] = n /\ meta'[Home[n]].gen # 0
               /\ pc'[n] \in Inside => meta'[Home[n]].gen = token'[n].gen
               /\ pc'[n] \in {"run", "ran"} => evidence'[Home[n]] = None
    <3>1. /\ token[n].gen <= generations /\ token[n].gen \in Nat
          /\ pc[n] \in Inside \cup {"delivered"} => lock[Home[n]] = n /\ meta[Home[n]].gen # 0
          /\ pc[n] \in Inside => meta[Home[n]].gen = token[n].gen
          /\ pc[n] \in {"run", "ran"} => evidence[Home[n]] = None
      BY <1>3 DEF ContextInv, TurnFits, Token
    <3>2. token'[n].gen <= generations'
      BY <1>3, <2>1, <3>1
    <3>3. ASSUME pc[n] \in Inside \cup {"delivered"} PROVE SameAt(Home[n])
      <4>1. CASE Home[n] = Home[m]
        BY <1>3, <2>1, <3>1, <3>3, <4>1
      <4>2. CASE Home[n] # Home[m]
        BY <4>2, KeyTypes
      <4>3. QED
        BY <4>1, <4>2
    <3>4. QED
      BY <2>1, <3>1, <3>2, <3>3 DEF SameAt, Inside
  <2>2. QED
    BY <2>1 DEF TurnFits, TurnAfter
<1>5. MetaFits'
  <2>1. ASSUME NEW t \in Threads
        PROVE  /\ meta'[t].gen <= generations'
               /\ MetaRow(meta'[t], checkpoint'[t], evidence'[t])
    <3>1. CASE t = Home[m]
      BY <3>1
    <3>2. CASE t # Home[m]
      <4>1. /\ meta[t].gen <= generations /\ meta[t].gen \in Nat
            /\ MetaRow(meta[t], checkpoint[t], evidence[t])
        BY <1>3 DEF ContextInv, MetaFits, Meta, MetaRow
      <4>2. SameAt(t)
        BY <3>2
      <4>3. QED
        BY <1>3, <4>1, <4>2 DEF SameAt
    <3>3. QED
      BY <3>1, <3>2
  <2>2. QED
    BY <2>1 DEF MetaFits, MetaRow
<1>6. QED
  BY <1>1, <1>2, <1>4, <1>5 DEF ContextInv

\* The same, for steps that leave the index alone.
LEMMA QuietTurnMoves ==
  ASSUME ContextInv, NEW m \in Messages, UNCHANGED quoteVars, ContextTyped, RestTyped,
         pc' \in [Messages -> Steps], token' \in [Messages -> Token],
         basis' \in [Messages -> SUBSET Messages],
         \A n \in Messages : n # m => pc'[n] = pc[n] /\ token'[n] = token[n],
         \A t \in Threads : t # Home[m] => SameAt(t),
         lock[Home[m]] \notin {None, m} => SameAt(Home[m]),
         TurnAfter(m), meta'[Home[m]].gen <= generations',
         MetaRow(meta'[Home[m]], checkpoint'[Home[m]], evidence'[Home[m]]),
         pc[m] \in {"deliver", "delivered", "done"} => pc'[m] \in {"deliver", "delivered", "done"}
  PROVE  ContextInv'
<1>1. QuoteTypeOK' /\ IndexFits' /\ generations' = generations /\ rows' = rows
  BY DEF ContextInv, ContextTypeOK, QuoteTypeOK, IndexFits, Lineages, quoteVars
<1>2. generations <= generations'
  BY <1>1 DEF ContextInv, ContextTypeOK, QuoteTypeOK
<1>3. QED
  BY <1>1, <1>2, TurnMoves

\* What Goto does.
LEMMA GotoMoves ==
  ASSUME ContextInv, NEW m \in Messages, NEW step \in Steps, Goto(m, step)
  PROVE  /\ pc' \in [Messages -> Steps] /\ token' \in [Messages -> Token]
         /\ pc'[m] = step /\ token'[m] = IF step = "done" THEN NoToken ELSE token[m]
         /\ \A n \in Messages : n # m => pc'[n] = pc[n] /\ token'[n] = token[n]
BY DEF Goto, ContextInv, ContextTypeOK, Token, NoToken

\* At the thread of m, before the step.
LEMMA AtHome ==
  ASSUME ContextInv, NEW m \in Messages
  PROVE  /\ Home[m] \in Threads /\ m # None /\ generations \in Nat /\ pc[m] \in Steps
         /\ token[m] \in Token /\ token[m].gen \in Nat /\ token[m].gen <= generations
         /\ NoToken \in Token /\ NoToken.gen = 0
         /\ meta[Home[m]] \in Meta /\ meta[Home[m]].gen \in Nat /\ meta[Home[m]].gen <= generations
         /\ MetaRow(meta[Home[m]], checkpoint[Home[m]], evidence[Home[m]])
         /\ thread[Home[m]] \in ThreadRow /\ thread[Home[m]].gen \in Nat
         /\ thread[Home[m]].live => thread[Home[m]].gen # 0
         /\ pc[m] \in Inside \cup {"delivered"} => lock[Home[m]] = m /\ meta[Home[m]].gen # 0
         /\ pc[m] \in Inside => meta[Home[m]].gen = token[m].gen
         /\ pc[m] \in {"run", "ran"} => evidence[Home[m]] = None
         /\ lock \in [Threads -> Messages \cup {None}] /\ meta \in [Threads -> Meta]
         /\ checkpoint \in [Threads -> SUBSET Messages]
         /\ evidence \in [Threads -> Messages \cup {None}]
         /\ basis \in [Messages -> SUBSET Messages]
         /\ clearing \in [Messages -> SUBSET Threads] /\ again \subseteq Messages
         /\ cut \subseteq Messages /\ faults \in Nat
<1>1. Home[m] \in Threads /\ m # None
  BY KeyTypes, QuoteAssumption DEF QuoteAssumption
<1>2. token[m] \in Token /\ meta[Home[m]] \in Meta /\ thread[Home[m]] \in ThreadRow
  BY <1>1 DEF ContextInv, ContextTypeOK, QuoteTypeOK
<1>3. token[m].gen \in Nat /\ meta[Home[m]].gen \in Nat /\ thread[Home[m]].gen \in Nat
  BY <1>2 DEF Token, Meta, ThreadRow
<1>4. NoToken \in Token /\ NoToken.gen = 0
  BY DEF NoToken, Token
<1>5. MetaRow(meta[Home[m]], checkpoint[Home[m]], evidence[Home[m]]) /\ meta[Home[m]].gen <= generations
  BY <1>1 DEF ContextInv, MetaFits, MetaRow
<1>6. /\ token[m].gen <= generations
      /\ pc[m] \in Inside \cup {"delivered"} => lock[Home[m]] = m /\ meta[Home[m]].gen # 0
      /\ pc[m] \in Inside => meta[Home[m]].gen = token[m].gen
      /\ pc[m] \in {"run", "ran"} => evidence[Home[m]] = None
  BY DEF ContextInv, TurnFits
<1>7. thread[Home[m]].live => thread[Home[m]].gen # 0
  BY <1>1 DEF ContextInv, IndexFits
<1>8. /\ generations \in Nat /\ pc[m] \in Steps
      /\ lock \in [Threads -> Messages \cup {None}] /\ meta \in [Threads -> Meta]
      /\ checkpoint \in [Threads -> SUBSET Messages]
      /\ evidence \in [Threads -> Messages \cup {None}]
      /\ basis \in [Messages -> SUBSET Messages]
      /\ clearing \in [Messages -> SUBSET Threads] /\ again \subseteq Messages
      /\ cut \subseteq Messages /\ faults \in Nat
  BY DEF ContextInv, ContextTypeOK, QuoteTypeOK
<1>9. QED
  BY <1>1, <1>2, <1>3, <1>4, <1>5, <1>6, <1>7, <1>8

-----------------------------------------------------------------------------
(* The steps of a turn. *)

LEMMA ClearKeeps ==
  ASSUME ContextInv, NEW m \in Messages, Clear(m)
  PROVE  ContextInv'
<1>1. /\ Goto(m, "acknowledge") /\ "acknowledge" \in Steps /\ pc[m] = "clear" /\ ClearThread(Home[m])
      /\ UNCHANGED <<quoteVars, basis, unsendVars, cut, faults>>
  BY DEF Clear, Steps
<1>2. /\ lock[Home[m]] = None /\ lock' = lock
      /\ checkpoint' = [checkpoint EXCEPT ![Home[m]] = {}]
      /\ evidence' = [evidence EXCEPT ![Home[m]] = None]
      /\ meta' = [meta EXCEPT ![Home[m]] = NoMeta]
  BY <1>1 DEF ClearThread, DeleteCheckpoint
<1>3. NoMeta \in Meta /\ NoMeta.gen = 0 /\ ~NoMeta.live
  BY DEF NoMeta, Meta
<1>4. ContextTyped /\ \A t \in Threads : t # Home[m] => SameAt(t)
  BY <1>2, <1>3, AtHome DEF ContextTyped, SameAt
<1>5. RestTyped /\ basis' \in [Messages -> SUBSET Messages] /\ generations' = generations
  BY <1>1, AtHome DEF RestTyped, unsendVars, quoteVars
<1>6. /\ meta'[Home[m]].gen = 0 /\ MetaRow(meta'[Home[m]], checkpoint'[Home[m]], evidence'[Home[m]])
  BY <1>2, <1>3, AtHome DEF MetaRow
<1>7. pc'[m] = "acknowledge" /\ token'[m] = token[m]
  BY <1>1, GotoMoves
<1>8. TurnAfter(m)
  BY <1>5, <1>7, AtHome DEF TurnAfter, Inside
<1>9. meta'[Home[m]].gen <= generations'
  BY <1>5, <1>6, AtHome
<1>10. QED
  BY <1>1, <1>2, <1>4, <1>5, <1>6, <1>8, <1>9, GotoMoves, QuietTurnMoves

LEMMA EnterKeeps ==
  ASSUME ContextInv, NEW m \in Messages, Enter(m)
  PROVE  ContextInv'
<1>. DEFINE t == Home[m]
            row == [gen |-> token[m].gen, live |-> TRUE, dirty |-> FALSE]
<1>1. pc[m] = "enter" /\ lock[t] = None /\ UNCHANGED <<quoteVars, basis, unsendVars, cut, faults>>
  BY DEF Enter
<1>2. RestTyped /\ basis' \in [Messages -> SUBSET Messages] /\ generations' = generations
  BY <1>1, AtHome DEF RestTyped, unsendVars, quoteVars
<1>3. CASE Current(m)
  <2>1. Goto(m, "run") /\ "run" \in Steps /\ lock' = [lock EXCEPT ![t] = m]
    BY <1>3 DEF Enter, Steps
  <2>2. /\ meta' = IF Dropped(m, t) \/ meta[t].gen = 0 THEN [meta EXCEPT ![t] = row] ELSE meta
        /\ checkpoint' = IF Dropped(m, t) THEN [checkpoint EXCEPT ![t] = {}] ELSE checkpoint
        /\ evidence' = IF Dropped(m, t) THEN [evidence EXCEPT ![t] = None] ELSE evidence
    BY <1>3 DEF Enter, DeleteCheckpoint
  <2>3. row \in Meta /\ row.gen = token[m].gen /\ row.live /\ ~row.dirty
    BY AtHome DEF Meta
  <2>4. token[m].gen # 0
    BY <1>3, AtHome DEF Current, IsCurrent
  <2>. HIDE DEF row
  <2>5. ContextTyped /\ \A u \in Threads : u # t => SameAt(u)
    BY <2>1, <2>2, <2>3, AtHome DEF ContextTyped, SameAt
  <2>6. lock'[t] = m /\ meta'[t] = IF Dropped(m, t) \/ meta[t].gen = 0 THEN row ELSE meta[t]
    BY <2>1, <2>2, AtHome
  <2>7. /\ checkpoint'[t] = IF Dropped(m, t) THEN {} ELSE checkpoint[t]
        /\ evidence'[t] = IF Dropped(m, t) THEN None ELSE evidence[t]
    BY <2>2, AtHome
  <2>8. meta'[t].gen = token[m].gen /\ evidence'[t] = None
    BY <2>3, <2>6, <2>7, AtHome DEF Dropped, MetaRow
  <2>9. MetaRow(meta'[t], checkpoint'[t], evidence'[t])
    BY <2>3, <2>4, <2>6, <2>7, <2>8, AtHome DEF MetaRow
  <2>10. pc'[m] = "run" /\ token'[m] = token[m]
    BY <2>1, GotoMoves
  <2>11. TurnAfter(m)
    BY <1>2, <2>4, <2>6, <2>8, <2>10, AtHome DEF TurnAfter
  <2>12. meta'[t].gen <= generations'
    BY <1>2, <2>8, AtHome
  <2>13. QED
    BY <1>1, <1>2, <2>1, <2>5, <2>9, <2>11, <2>12, GotoMoves, QuietTurnMoves
<1>4. CASE ~Current(m)
  <2>1. Goto(m, "done") /\ "done" \in Steps /\ UNCHANGED contextVars
    BY <1>4 DEF Enter, Steps
  <2>2. ContextTyped /\ \A u \in Threads : SameAt(u)
    BY <2>1, AtHome DEF ContextTyped, SameAt, contextVars
  <2>3. /\ meta'[t].gen <= generations' /\ MetaRow(meta'[t], checkpoint'[t], evidence'[t])
    BY <1>2, <2>1, AtHome DEF contextVars
  <2>4. pc'[m] = "done" /\ token'[m] = NoToken
    BY <2>1, GotoMoves
  <2>5. TurnAfter(m)
    BY <1>2, <2>4, AtHome DEF TurnAfter, Inside
  <2>6. QED
    BY <1>1, <1>2, <2>1, <2>2, <2>3, <2>4, <2>5, GotoMoves, QuietTurnMoves
<1>5. QED
  BY <1>3, <1>4

LEMMA SearchHistoryKeeps ==
  ASSUME ContextInv, NEW m \in Messages, SearchHistory(m)
  PROVE  ContextInv'
<1>. DEFINE t == Home[m]
<1>1. /\ pc[m] = "run" /\ Goto(m, "searched") /\ "searched" \in Steps
      /\ meta' = [meta EXCEPT ![t].dirty = meta[t].gen # 0]
      /\ evidence' = [evidence EXCEPT ![t] = m] /\ lock' = lock /\ checkpoint' = checkpoint
      /\ UNCHANGED <<quoteVars, basis, unsendVars, cut, faults>>
  BY DEF SearchHistory, Steps
<1>2. RestTyped /\ basis' \in [Messages -> SUBSET Messages] /\ generations' = generations
  BY <1>1, AtHome DEF RestTyped, unsendVars, quoteVars
<1>3. lock[t] = m /\ meta[t].gen # 0 /\ meta[t].gen = token[m].gen
  BY <1>1, AtHome DEF Inside
<1>4. /\ meta' \in [Threads -> Meta] /\ meta'[t].gen = meta[t].gen /\ meta'[t].dirty
      /\ meta'[t].live = meta[t].live /\ \A u \in Threads : u # t => meta'[u] = meta[u]
  BY <1>1, <1>3, AtHome DEF Meta
<1>5. ContextTyped /\ \A u \in Threads : u # t => SameAt(u)
  BY <1>1, <1>4, AtHome DEF ContextTyped, SameAt
<1>6. MetaRow(meta'[t], checkpoint'[t], evidence'[t])
  BY <1>1, <1>3, <1>4 DEF MetaRow
<1>7. pc'[m] = "searched" /\ token'[m] = token[m]
  BY <1>1, GotoMoves
<1>8. TurnAfter(m)
  BY <1>1, <1>2, <1>3, <1>4, <1>7, AtHome DEF TurnAfter
<1>9. meta'[t].gen <= generations'
  BY <1>2, <1>4, AtHome
<1>10. QED
  BY <1>1, <1>2, <1>3, <1>5, <1>6, <1>8, <1>9, AtHome, GotoMoves, QuietTurnMoves

\* A run ends, with its evidence removed or not.
LEMMA RunEnds ==
  ASSUME ContextInv, NEW m \in Messages, pc[m] \in {"run", "searched"}, Remember(m),
         WithoutEvidence(m) \/ UNCHANGED <<evidence, meta>>,
         NEW step \in {"ran", "threw"}, step = "ran" => WithoutEvidence(m),
         Goto(m, step), UNCHANGED <<quoteVars, lock, unsendVars, cut>>,
         basis' \in [Messages -> SUBSET Messages], faults' \in Nat
  PROVE  ContextInv'
<1>. DEFINE t == Home[m]
<1>1. step \in Steps /\ RestTyped /\ generations' = generations
  BY AtHome DEF RestTyped, unsendVars, quoteVars, Steps
<1>2. /\ lock[t] = m /\ meta[t].gen # 0 /\ meta[t].gen = token[m].gen
      /\ evidence[t] # None => pc[m] = "searched" /\ meta[t].dirty
  BY AtHome DEF Inside, MetaRow
<1>3. /\ checkpoint' \in [Threads -> SUBSET Messages]
      /\ \A u \in Threads : u # t => checkpoint'[u] = checkpoint[u]
  BY AtHome DEF Remember
<1>4. /\ evidence' \in [Threads -> Messages \cup {None}] /\ meta' \in [Threads -> Meta]
      /\ \A u \in Threads : u # t => evidence'[u] = evidence[u] /\ meta'[u] = meta[u]
      /\ meta'[t].gen = meta[t].gen /\ meta'[t].live = meta[t].live
      /\ evidence'[t] # None => meta'[t].dirty
      /\ step = "ran" => evidence'[t] = None
  <2>1. CASE WithoutEvidence(m)
    <3>1. /\ evidence' = [evidence EXCEPT ![t] = IF pc[m] = "searched" THEN None ELSE evidence[t]]
          /\ meta' = [meta EXCEPT ![t].dirty = meta[t].dirty /\ pc[m] # "searched"]
      BY <2>1, AtHome DEF WithoutEvidence
    <3>2. evidence' \in [Threads -> Messages \cup {None}] /\ evidence'[t] = None
      BY <1>2, <3>1, AtHome
    <3>. DEFINE mark == meta[t].dirty /\ pc[m] # "searched"
    <3>3. mark \in BOOLEAN /\ meta' = [meta EXCEPT ![t].dirty = mark] /\ t \in Threads
      BY <3>1, AtHome
    <3>. HIDE DEF mark
    <3>4. meta' = [meta EXCEPT ![t] = [@ EXCEPT !.dirty = mark]]
      BY <3>3
    <3>5. [meta[t] EXCEPT !.dirty = mark] \in Meta
      BY <3>3, AtHome DEF Meta
    <3>6. meta' \in [Threads -> Meta]
      BY <3>3, <3>4, <3>5, AtHome
    <3>7. /\ meta'[t].gen = meta[t].gen /\ meta'[t].live = meta[t].live
          /\ \A u \in Threads : u # t => meta'[u] = meta[u]
      BY <3>3, <3>4, AtHome DEF Meta
    <3>8. QED
      BY <3>1, <3>2, <3>6, <3>7, AtHome
  <2>2. CASE ~WithoutEvidence(m)
    BY <1>2, <2>2, AtHome
  <2>3. QED
    BY <2>1, <2>2
<1>5. ContextTyped /\ \A u \in Threads : u # t => SameAt(u)
  BY <1>3, <1>4, AtHome DEF ContextTyped, SameAt
<1>6. MetaRow(meta'[t], checkpoint'[t], evidence'[t])
  BY <1>2, <1>4 DEF MetaRow
<1>7. pc'[m] = step /\ token'[m] = token[m]
  BY <1>1, GotoMoves
<1>8. TurnAfter(m)
  BY <1>1, <1>2, <1>4, <1>7, AtHome DEF TurnAfter
<1>9. meta'[t].gen <= generations'
  BY <1>1, <1>4, AtHome
<1>10. pc' \in [Messages -> Steps] /\ token' \in [Messages -> Token]
  BY <1>1, GotoMoves
<1>11. \A n \in Messages : n # m => pc'[n] = pc[n] /\ token'[n] = token[n]
  BY <1>1, GotoMoves
<1>12. UNCHANGED quoteVars
  OBVIOUS
<1>13. lock[Home[m]] \notin {None, m} => SameAt(Home[m])
  BY <1>2
<1>14. pc[m] \in {"deliver", "delivered", "done"} => pc'[m] \in {"deliver", "delivered", "done"}
  OBVIOUS
<1>15. QED
  BY <1>1, <1>5, <1>6, <1>8, <1>9, <1>10, <1>11, <1>12, <1>13, <1>14, QuietTurnMoves

LEMMA AnswerKeeps ==
  ASSUME ContextInv, NEW m \in Messages, Answer(m)
  PROVE  ContextInv'
<1>1. /\ pc[m] \in {"run", "searched"} /\ Remember(m) /\ WithoutEvidence(m) /\ Goto(m, "ran")
      /\ UNCHANGED <<quoteVars, lock, unsendVars, cut>> /\ faults' = faults
      /\ basis' = [basis EXCEPT ![m] = @ \cup checkpoint[Home[m]]]
  BY DEF Answer
<1>2. basis' \in [Messages -> SUBSET Messages] /\ faults' \in Nat
  BY <1>1, AtHome
<1>3. QED
  BY <1>1, <1>2, RunEnds

LEMMA AnswerFailsKeeps ==
  ASSUME ContextInv, NEW m \in Messages, AnswerFails(m)
  PROVE  ContextInv'
<1>1. /\ pc[m] \in {"run", "searched"} /\ Remember(m) /\ Goto(m, "threw")
      /\ WithoutEvidence(m) \/ UNCHANGED <<evidence, meta>>
      /\ UNCHANGED <<quoteVars, lock, unsendVars, cut>> /\ faults' = faults + 1
      /\ basis' = [basis EXCEPT ![m] = {}]
  BY DEF AnswerFails, Fault
<1>2. basis' \in [Messages -> SUBSET Messages] /\ faults' \in Nat
  BY <1>1, AtHome
<1>3. QED
  BY <1>1, <1>2, RunEnds

\* A step that moves the turn out of the lock, or keeps it out.
LEMMA OutOfTheLock ==
  ASSUME ContextInv, NEW m \in Messages, NEW step \in Steps, Goto(m, step),
         UNCHANGED <<generations, meta, cut>>, ContextTyped, RestTyped,
         step \notin Inside \cup {"delivered"}
  PROVE  TurnAfter(m) /\ meta'[Home[m]].gen <= generations'
<1>1. pc'[m] = step /\ token'[m] = IF step = "done" THEN NoToken ELSE token[m]
  BY GotoMoves
<1>2. QED
  BY <1>1, AtHome DEF TurnAfter, Inside

LEMMA LeaveKeeps ==
  ASSUME ContextInv, NEW m \in Messages, Leave(m)
  PROVE  ContextInv'
<1>. DEFINE t == Home[m]
            row == [gen |-> token[m].gen, live |-> TRUE, dirty |-> FALSE]
<1>1. /\ pc[m] \in {"ran", "threw"} /\ lock' = [lock EXCEPT ![t] = None]
      /\ UNCHANGED <<quoteVars, basis, unsendVars, cut, faults>>
  BY DEF Leave
<1>2. RestTyped /\ basis' \in [Messages -> SUBSET Messages] /\ generations' = generations
  BY <1>1, AtHome DEF RestTyped, unsendVars, quoteVars
<1>3. lock[t] = m /\ meta[t].gen # 0 /\ meta[t].gen = token[m].gen
  BY <1>1, AtHome DEF Inside
<1>4. row \in Meta /\ row.gen = token[m].gen /\ row.live /\ ~row.dirty
  BY AtHome DEF Meta
<1>. HIDE DEF row
<1>5. CASE Current(m)
  <2>1. /\ Goto(m, "fence") /\ "fence" \in Steps /\ checkpoint' = checkpoint /\ evidence' = evidence
        /\ meta' = IF pc[m] = "threw" THEN meta ELSE [meta EXCEPT ![t] = row]
    BY <1>5 DEF Leave, row, Steps
  <2>2. ContextTyped /\ \A u \in Threads : u # t => SameAt(u)
    BY <1>1, <1>4, <2>1, AtHome DEF ContextTyped, SameAt
  <2>3. meta'[t].gen = meta[t].gen /\ MetaRow(meta'[t], checkpoint'[t], evidence'[t])
    <3>1. CASE pc[m] = "threw"
      BY <2>1, <3>1, AtHome
    <3>2. CASE pc[m] # "threw"
      BY <1>1, <1>3, <1>4, <2>1, <3>2, AtHome DEF MetaRow
    <3>3. QED
      BY <3>1, <3>2
  <2>4. pc'[m] = "fence" /\ token'[m] = token[m]
    BY <2>1, GotoMoves
  <2>5. TurnAfter(m)
    BY <1>2, <2>4, AtHome DEF TurnAfter, Inside
  <2>6. meta'[t].gen <= generations'
    BY <1>2, <2>3, AtHome
  <2>7. lock[t] \notin {None, m} => SameAt(t)
    BY <1>3
  <2>8. QED
    BY <1>1, <1>2, <2>1, <2>2, <2>3, <2>5, <2>6, <2>7, GotoMoves, QuietTurnMoves
<1>6. CASE ~Current(m)
  <2>1. /\ Goto(m, "done") /\ "done" \in Steps /\ meta' = meta
        /\ checkpoint' = [checkpoint EXCEPT ![t] = {}] /\ evidence' = [evidence EXCEPT ![t] = None]
    BY <1>6 DEF Leave, DeleteCheckpoint, Steps
  <2>2. ContextTyped /\ \A u \in Threads : u # t => SameAt(u)
    BY <1>1, <2>1, AtHome DEF ContextTyped, SameAt
  <2>3. MetaRow(meta'[t], checkpoint'[t], evidence'[t])
    BY <2>1, AtHome DEF MetaRow
  <2>4. TurnAfter(m) /\ meta'[t].gen <= generations'
    BY <1>1, <1>2, <2>1, <2>2, OutOfTheLock DEF Inside
  <2>5. lock[t] \notin {None, m} => SameAt(t)
    BY <1>3
  <2>6. pc'[m] = "done"
    BY <2>1, GotoMoves
  <2>7. QED
    BY <1>1, <1>2, <2>1, <2>2, <2>3, <2>4, <2>5, <2>6, GotoMoves, QuietTurnMoves
<1>7. QED
  BY <1>5, <1>6

LEMMA FenceKeeps ==
  ASSUME ContextInv, NEW m \in Messages, Fence(m)
  PROVE  ContextInv'
<1>. DEFINE t == Home[m]
            step == IF Current(m) THEN "sent" ELSE "done"
<1>1. /\ pc[m] = "fence" /\ Goto(m, step) /\ step \in Steps /\ step \in {"sent", "done"}
      /\ UNCHANGED <<quoteVars, contextVars, basis, unsendVars, cut, faults>>
  BY DEF Fence, Steps
<1>. HIDE DEF step
<1>2. RestTyped /\ basis' \in [Messages -> SUBSET Messages] /\ generations' = generations
  BY <1>1, AtHome DEF RestTyped, unsendVars, quoteVars
<1>3. ContextTyped /\ \A u \in Threads : SameAt(u)
  BY <1>1, AtHome DEF ContextTyped, SameAt, contextVars
<1>4. MetaRow(meta'[t], checkpoint'[t], evidence'[t]) /\ meta' = meta
  BY <1>1, AtHome DEF contextVars
<1>5. TurnAfter(m) /\ meta'[t].gen <= generations'
  BY <1>1, <1>2, <1>3, <1>4, OutOfTheLock DEF Inside
<1>6. SameAt(t)
  BY <1>3, AtHome
<1>7. /\ pc' \in [Messages -> Steps] /\ token' \in [Messages -> Token]
      /\ \A n \in Messages : n # m => pc'[n] = pc[n] /\ token'[n] = token[n]
  BY <1>1, GotoMoves
<1>8. pc[m] \in {"deliver", "delivered", "done"} => pc'[m] \in {"deliver", "delivered", "done"}
  BY <1>1
<1>9. QED
  BY <1>1, <1>2, <1>3, <1>4, <1>5, <1>6, <1>7, <1>8, QuietTurnMoves

LEMMA DeliverKeeps ==
  ASSUME ContextInv, NEW m \in Messages, Deliver(m)
  PROVE  ContextInv'
<1>. DEFINE t == Home[m]
<1>1. /\ pc[m] = "deliver" /\ lock[t] = None
      /\ UNCHANGED <<quoteVars, meta, evidence, basis, unsendVars, cut, faults>>
  BY DEF Deliver
<1>2. RestTyped /\ basis' \in [Messages -> SUBSET Messages] /\ generations' = generations
  BY <1>1, AtHome DEF RestTyped, unsendVars, quoteVars
<1>3. CASE meta[t].live /\ Current(m)
  <2>1. /\ Goto(m, "delivered") /\ "delivered" \in Steps /\ lock' = [lock EXCEPT ![t] = m]
        /\ checkpoint' = [checkpoint EXCEPT ![t] = @ \cup basis[m]]
    BY <1>3 DEF Deliver, Remember, Steps
  <2>2. ContextTyped /\ \A u \in Threads : u # t => SameAt(u)
    BY <1>1, <2>1, AtHome DEF ContextTyped, SameAt
  <2>3. MetaRow(meta'[t], checkpoint'[t], evidence'[t]) /\ meta' = meta /\ meta[t].gen # 0
    BY <1>1, <1>3, AtHome DEF MetaRow
  <2>4. pc'[m] = "delivered" /\ token'[m] = token[m] /\ lock'[t] = m
    BY <2>1, AtHome, GotoMoves
  <2>5. TurnAfter(m) /\ meta'[t].gen <= generations'
    BY <1>2, <2>3, <2>4, AtHome DEF TurnAfter, Inside
  <2>6. /\ pc' \in [Messages -> Steps] /\ token' \in [Messages -> Token]
        /\ \A n \in Messages : n # m => pc'[n] = pc[n] /\ token'[n] = token[n]
    BY <2>1, GotoMoves
  <2>7. QED
    BY <1>1, <1>2, <2>2, <2>3, <2>4, <2>5, <2>6, QuietTurnMoves
<1>4. CASE ~(meta[t].live /\ Current(m))
  <2>1. Goto(m, "done") /\ "done" \in Steps /\ lock' = lock /\ checkpoint' = checkpoint
    BY <1>4 DEF Deliver, Steps
  <2>2. ContextTyped /\ \A u \in Threads : SameAt(u)
    BY <1>1, <2>1, AtHome DEF ContextTyped, SameAt
  <2>3. MetaRow(meta'[t], checkpoint'[t], evidence'[t]) /\ SameAt(t)
    BY <1>1, <2>1, <2>2, AtHome
  <2>4. TurnAfter(m) /\ meta'[t].gen <= generations'
    BY <1>1, <1>2, <2>1, <2>2, OutOfTheLock DEF Inside
  <2>5. /\ pc' \in [Messages -> Steps] /\ token' \in [Messages -> Token] /\ pc'[m] = "done"
        /\ \A n \in Messages : n # m => pc'[n] = pc[n] /\ token'[n] = token[n]
    BY <2>1, GotoMoves
  <2>6. QED
    BY <1>1, <1>2, <2>2, <2>3, <2>4, <2>5, QuietTurnMoves
<1>5. QED
  BY <1>3, <1>4

LEMMA LeaveDeliveryKeeps ==
  ASSUME ContextInv, NEW m \in Messages, LeaveDelivery(m)
  PROVE  ContextInv'
<1>. DEFINE t == Home[m]
<1>1. /\ pc[m] = "delivered" /\ Goto(m, "done") /\ "done" \in Steps
      /\ lock' = [lock EXCEPT ![t] = None] /\ meta' = meta
      /\ UNCHANGED <<quoteVars, basis, unsendVars, cut, faults>>
  BY DEF LeaveDelivery, Steps
<1>2. \/ checkpoint' = checkpoint /\ evidence' = evidence
      \/ checkpoint' = [checkpoint EXCEPT ![t] = {}] /\ evidence' = [evidence EXCEPT ![t] = None]
  BY DEF LeaveDelivery, DeleteCheckpoint
<1>3. RestTyped /\ basis' \in [Messages -> SUBSET Messages] /\ generations' = generations
  BY <1>1, AtHome DEF RestTyped, unsendVars, quoteVars
<1>4. ContextTyped /\ \A u \in Threads : u # t => SameAt(u)
  BY <1>1, <1>2, AtHome DEF ContextTyped, SameAt
<1>5. MetaRow(meta'[t], checkpoint'[t], evidence'[t])
  BY <1>1, <1>2, AtHome DEF MetaRow
<1>6. TurnAfter(m) /\ meta'[t].gen <= generations'
  BY <1>1, <1>3, <1>4, OutOfTheLock DEF Inside
<1>7. lock[t] \notin {None, m} => SameAt(t)
  BY <1>1, AtHome
<1>8. /\ pc' \in [Messages -> Steps] /\ token' \in [Messages -> Token] /\ pc'[m] = "done"
      /\ \A n \in Messages : n # m => pc'[n] = pc[n] /\ token'[n] = token[n]
  BY <1>1, GotoMoves
<1>9. QED
  BY <1>1, <1>3, <1>4, <1>5, <1>6, <1>7, <1>8, QuietTurnMoves

LEMMA DieKeeps ==
  ASSUME ContextInv, NEW m \in Messages, Die(m)
  PROVE  ContextInv'
<1>. DEFINE t == Home[m]
<1>1. /\ lock' = [lock EXCEPT ![t] = IF @ = m THEN None ELSE @] /\ faults' = faults + 1
      /\ UNCHANGED <<quoteVars, meta, checkpoint, evidence, unsendVars, cut>>
  BY DEF Die, Fault
<1>2. PICK step \in {"new", "done"} : Goto(m, step) /\ (step = "new" => pc[m] \notin {"deliver", "delivered", "done"})
      /\ basis' = IF step = "new" THEN [basis EXCEPT ![m] = {}] ELSE basis
  BY DEF Die
<1>3. RestTyped /\ basis' \in [Messages -> SUBSET Messages] /\ generations' = generations /\ step \in Steps
  BY <1>1, <1>2, AtHome DEF RestTyped, unsendVars, quoteVars, Steps
<1>4. ContextTyped /\ \A u \in Threads : u # t => SameAt(u)
  BY <1>1, AtHome DEF ContextTyped, SameAt
<1>5. MetaRow(meta'[t], checkpoint'[t], evidence'[t])
  BY <1>1, AtHome
<1>6. TurnAfter(m) /\ meta'[t].gen <= generations'
  BY <1>1, <1>2, <1>3, <1>4, OutOfTheLock DEF Inside
<1>7. lock[t] \notin {None, m} => SameAt(t)
  BY <1>1, AtHome DEF SameAt
<1>8. /\ pc' \in [Messages -> Steps] /\ token' \in [Messages -> Token] /\ pc'[m] = step
      /\ \A n \in Messages : n # m => pc'[n] = pc[n] /\ token'[n] = token[n]
  BY <1>2, <1>3, GotoMoves
<1>9. pc[m] \in {"deliver", "delivered", "done"} => pc'[m] \in {"deliver", "delivered", "done"}
  BY <1>2, <1>8
<1>10. QED
  BY <1>1, <1>3, <1>4, <1>5, <1>6, <1>7, <1>8, <1>9, QuietTurnMoves

\* A step of a turn outside the lock that changes the index and not the context.
LEMMA IndexMoves ==
  ASSUME ContextInv, NEW m \in Messages, NEW step \in Steps, step \notin Inside \cup {"delivered"},
         QuoteTypeOK', IndexFits', generations <= generations',
         UNCHANGED <<contextVars, unsendVars>>, cut' \subseteq Messages, faults' \in Nat,
         basis' \in [Messages -> SUBSET Messages],
         pc' \in [Messages -> Steps], token' \in [Messages -> Token],
         pc'[m] = step, token'[m].gen <= generations',
         \A n \in Messages : n # m => pc'[n] = pc[n] /\ token'[n] = token[n],
         \A n \in Messages : rows'[Bot(n)].thread # None =>
           rows[Bot(n)].thread # None \/ (n = m /\ pc'[n] = "deliver"),
         pc[m] \in {"deliver", "delivered", "done"} => pc'[m] \in {"deliver", "delivered", "done"}
  PROVE  ContextInv'
<1>1. ContextTyped /\ \A t \in Threads : SameAt(t)
  BY AtHome DEF ContextTyped, SameAt, contextVars
<1>2. RestTyped
  BY AtHome DEF RestTyped, unsendVars
<1>3. SameAt(Home[m]) /\ MetaRow(meta'[Home[m]], checkpoint'[Home[m]], evidence'[Home[m]])
  BY <1>1, AtHome DEF SameAt
<1>4. TurnAfter(m)
  BY DEF TurnAfter, Inside
<1>5. meta'[Home[m]].gen <= generations'
  <2>1. meta' = meta
    BY DEF contextVars
  <2>2. generations' \in Nat
    BY DEF QuoteTypeOK
  <2>3. QED
    BY <2>1, <2>2, AtHome
<1>6. QED
  BY <1>1, <1>2, <1>3, <1>4, <1>5, TurnMoves

LEMMA AcknowledgeKeeps ==
  ASSUME ContextInv, NEW m \in Messages, Acknowledge(m)
  PROVE  ContextInv'
<1>1. /\ pc[m] = "acknowledge" /\ AcknowledgeClear(Home[m], token[m].gen)
      /\ UNCHANGED <<depends, owned, rows, tombs, generations>>
      /\ UNCHANGED <<contextVars, unsendVars>> /\ basis' = basis /\ cut' = cut /\ faults' = faults
  BY DEF Acknowledge
<1>2. PICK step \in {"fence", "enter"} : Goto(m, step)
  BY DEF Acknowledge, Answering
<1>3. QuoteTypeOK /\ IndexFits
  BY DEF ContextInv, ContextTypeOK
<1>4. QuoteTypeOK' /\ IndexFits'
  BY <1>1, <1>3, AtHome, AcknowledgeIndex
<1>5. step \in Steps /\ step \notin Inside \cup {"delivered"} /\ step # "done"
  BY <1>2 DEF Steps, Inside
<1>6. /\ pc' \in [Messages -> Steps] /\ token' \in [Messages -> Token] /\ pc'[m] = step
      /\ token'[m] = token[m]
      /\ \A n \in Messages : n # m => pc'[n] = pc[n] /\ token'[n] = token[n]
  BY <1>2, <1>5, GotoMoves
<1>7. /\ generations <= generations' /\ token'[m].gen <= generations'
      /\ cut' \subseteq Messages /\ faults' \in Nat /\ basis' \in [Messages -> SUBSET Messages]
  BY <1>1, <1>6, AtHome
<1>8. QED
  BY <1>1, <1>4, <1>5, <1>6, <1>7, IndexMoves

LEMMA RecordKeeps ==
  ASSUME ContextInv, NEW m \in Messages, Record(m)
  PROVE  ContextInv'
<1>1. /\ pc[m] = "sent" /\ Goto(m, "deliver") /\ "deliver" \in Steps
      /\ UNCHANGED <<contextVars, unsendVars>> /\ basis' = basis /\ cut' = cut
      /\ \/ /\ RecordReply(Home[m], token[m].gen, token[m].sources, Bot(m), m \in Public)
            /\ faults' = faults
         \/ faults' = faults + 1 /\ UNCHANGED quoteVars
  BY DEF Record, Fault, Steps
<1>2. QuoteTypeOK /\ IndexFits
  BY DEF ContextInv, ContextTypeOK
<1>3. /\ QuoteTypeOK' /\ IndexFits' /\ generations' = generations
      /\ \A k \in Keys : rows'[k] # rows[k] => k = Bot(m)
  <2>1. CASE UNCHANGED quoteVars
    BY <1>2, <2>1 DEF quoteVars, QuoteTypeOK, IndexFits, Lineages
  <2>2. CASE RecordReply(Home[m], token[m].gen, token[m].sources, Bot(m), m \in Public)
    <3>1. (m \in Public) \in BOOLEAN /\ token[m].gen \in Nat
      BY AtHome
    <3>2. PICK public \in BOOLEAN : RecordReply(Home[m], token[m].gen, token[m].sources, Bot(m), public)
      BY <2>2, <3>1
    <3>3. QuoteTypeOK' /\ IndexFits' /\ RecordFacts(m)
      BY <1>2, <3>1, <3>2, RecordIndex
    <3>4. QED
      BY <3>3 DEF RecordFacts
  <2>3. QED
    BY <1>1, <2>1, <2>2
<1>4. /\ pc' \in [Messages -> Steps] /\ token' \in [Messages -> Token] /\ pc'[m] = "deliver"
      /\ token'[m] = token[m]
      /\ \A n \in Messages : n # m => pc'[n] = pc[n] /\ token'[n] = token[n]
  BY <1>1, GotoMoves
<1>5. \A n \in Messages : rows'[Bot(n)].thread # None =>
        rows[Bot(n)].thread # None \/ (n = m /\ pc'[n] = "deliver")
  BY <1>3, <1>4, KeyTypes
<1>6. /\ generations <= generations' /\ token'[m].gen <= generations'
      /\ cut' \subseteq Messages /\ faults' \in Nat /\ basis' \in [Messages -> SUBSET Messages]
  BY <1>1, <1>3, <1>4, AtHome
<1>7. "deliver" \notin Inside \cup {"delivered"}
  BY DEF Inside
<1>8. QED
  BY <1>1, <1>3, <1>4, <1>5, <1>6, <1>7, IndexMoves

LEMMA CutTypes ==
  ASSUME ContextInv, NEW m \in Messages
  PROVE  (cut \cup Unnamed(Home[m])) \subseteq Messages
BY AtHome DEF Unnamed

LEMMA ResetFirstKeeps ==
  ASSUME ContextInv, NEW m \in Messages, ResetFirst(m)
  PROVE  ContextInv'
<1>1. /\ pc[m] = "new" /\ ResetThread(Home[m]) /\ Goto(m, "begin") /\ "begin" \in Steps
      /\ UNCHANGED <<contextVars, unsendVars>> /\ basis' = basis /\ faults' = faults
      /\ cut' = cut \cup Unnamed(Home[m])
  BY DEF ResetFirst, Comes, Steps
<1>2. QuoteTypeOK /\ IndexFits
  BY DEF ContextInv, ContextTypeOK
<1>3. QuoteTypeOK' /\ IndexFits' /\ ResetFacts(Home[m])
  BY <1>1, <1>2, AtHome, ResetIndex
<1>4. \A n \in Messages : rows'[Bot(n)].thread # None => rows[Bot(n)].thread # None
  <2>1. DroppedIndex({Home[m]})
    BY <1>3 DEF ResetFacts
  <2>2. \A k \in Keys : rows'[k] = NoRow \/ rows'[k] = rows[k]
    BY <1>2, <2>1, DropKeeps
  <2>3. QED
    BY <2>2, KeyTypes DEF NoRow
<1>5. /\ pc' \in [Messages -> Steps] /\ token' \in [Messages -> Token] /\ pc'[m] = "begin"
      /\ token'[m] = token[m]
      /\ \A n \in Messages : n # m => pc'[n] = pc[n] /\ token'[n] = token[n]
  BY <1>1, GotoMoves
<1>6. /\ generations <= generations' /\ token'[m].gen <= generations'
      /\ cut' \subseteq Messages /\ faults' \in Nat /\ basis' \in [Messages -> SUBSET Messages]
  BY <1>1, <1>3, <1>5, AtHome, CutTypes DEF ResetFacts
<1>7. "begin" \notin Inside \cup {"delivered"}
  BY DEF Inside
<1>8. QED
  BY <1>1, <1>3, <1>4, <1>5, <1>6, <1>7, IndexMoves

\* What an accepted turn does besides the index.
Accepted(m, k) ==
  /\ ~Refuses(Home[m], User(m), k) /\ BeginThread(Home[m], User(m), k)
  /\ token' = [token EXCEPT ![m] = [gen |-> thread'[Home[m]].gen,
                                    sources |-> Range(thread'[Home[m]].lineage)]]
  /\ basis' = [basis EXCEPT ![m] =
       IF m \in Resets THEN {}
       ELSE {m} \cup (IF QuoteOf(Home[m], k) = "resolved" THEN TextOf(k) ELSE {})]
  /\ pc' = [pc EXCEPT ![m] = IF thread'[Home[m]].clear THEN "clear" ELSE Answering(m)]
LEMMA BeginCases ==
  ASSUME NEW m \in Messages, Begin(m)
  PROVE  /\ pc[m] \in {"new", "begin"} /\ UNCHANGED <<contextVars, unsendVars>> /\ faults' = faults
         /\ cut' = IF Starts(Home[m]) /\ User(m) \notin tombs THEN cut \cup Unnamed(Home[m]) ELSE cut
         /\ \E k \in Keys \cup {None} :
              /\ k # None => rows[k] # NoRow
              /\ Accepted(m, k) \/ (RefusedBegin(Home[m], User(m)) /\ Goto(m, "done") /\ basis' = basis)
BY DEF Begin, Accepted, Comes

LEMMA BeginKeeps ==
  ASSUME ContextInv, NEW m \in Messages, Begin(m)
  PROVE  ContextInv'
<1>1. /\ pc[m] \in {"new", "begin"} /\ UNCHANGED <<contextVars, unsendVars>> /\ faults' = faults
      /\ cut' = IF Starts(Home[m]) /\ User(m) \notin tombs THEN cut \cup Unnamed(Home[m]) ELSE cut
  BY BeginCases
<1>2. PICK k \in Keys \cup {None} :
        Accepted(m, k) \/ (RefusedBegin(Home[m], User(m)) /\ Goto(m, "done") /\ basis' = basis)
  BY BeginCases
<1>3. QuoteTypeOK /\ IndexFits
  BY DEF ContextInv, ContextTypeOK
<1>4. cut' \subseteq Messages /\ faults' \in Nat
  BY <1>1, AtHome, CutTypes
<1>5. CASE Accepted(m, k)
  <2>1. QuoteTypeOK' /\ IndexFits' /\ BeginFacts(m, k)
    BY <1>3, <1>5, BeginIndex DEF Accepted
  <2>. DEFINE step == IF thread'[Home[m]].clear THEN "clear" ELSE Answering(m)
              quote == [gen |-> thread'[Home[m]].gen, sources |-> Range(thread'[Home[m]].lineage)]
              text == IF m \in Resets THEN {}
                      ELSE {m} \cup (IF QuoteOf(Home[m], k) = "resolved" THEN TextOf(k) ELSE {})
  <2>2. step \in {"clear", "fence", "enter"} /\ step \in Steps
    BY DEF Answering, Steps
  <2>3. quote \in Token /\ quote.gen = thread'[Home[m]].gen
    <3>1. thread'[Home[m]] \in ThreadRow
      BY <2>1, AtHome DEF QuoteTypeOK
    <3>2. thread'[Home[m]].gen \in Nat /\ thread'[Home[m]].lineage \in Seq(Keys)
      BY <3>1 DEF ThreadRow
    <3>3. QED
      BY <3>2 DEF Token, Range
  <2>4. text \in SUBSET Messages
    <3>1. QuoteOf(Home[m], k) = "resolved" => k \in Keys
      BY <1>2 DEF QuoteOf
    <3>2. k \in Keys => TextOf(k) \subseteq Messages
      BY AtHome, KeyTypes DEF TextOf
    <3>3. QED
      BY <3>1, <3>2
  <2>5. /\ pc' = [pc EXCEPT ![m] = step] /\ token' = [token EXCEPT ![m] = quote]
        /\ basis' = [basis EXCEPT ![m] = text]
    BY <1>5 DEF Accepted
  <2>6. thread'[Home[m]].gen <= generations' /\ generations <= generations'
    BY <2>1, AtHome DEF BeginFacts, IndexFits
  <2>. HIDE DEF step, quote, text
  <2>7. /\ pc' \in [Messages -> Steps] /\ token' \in [Messages -> Token] /\ pc'[m] = step
        /\ basis' \in [Messages -> SUBSET Messages]
        /\ token'[m].gen <= generations'
        /\ \A n \in Messages : n # m => pc'[n] = pc[n] /\ token'[n] = token[n]
    BY <2>2, <2>3, <2>4, <2>5, <2>6 DEF ContextInv, ContextTypeOK
  <2>8. \A n \in Messages : rows'[Bot(n)].thread # None => rows[Bot(n)].thread # None
    BY <2>1, KeyTypes DEF BeginFacts, NoRow
  <2>9. step \notin Inside \cup {"delivered"}
    BY <2>2 DEF Inside
  <2>10. QED
    BY <1>1, <1>4, <2>1, <2>2, <2>6, <2>7, <2>8, <2>9, IndexMoves
<1>6. CASE RefusedBegin(Home[m], User(m)) /\ Goto(m, "done") /\ basis' = basis
  <2>1. QuoteTypeOK' /\ IndexFits' /\ RefusedFacts(m)
    BY <1>3, <1>6, RefusedIndex
  <2>2. /\ pc' \in [Messages -> Steps] /\ token' \in [Messages -> Token] /\ pc'[m] = "done"
        /\ token'[m] = NoToken /\ "done" \in Steps /\ "done" \notin Inside \cup {"delivered"}
        /\ \A n \in Messages : n # m => pc'[n] = pc[n] /\ token'[n] = token[n]
    BY <1>6, GotoMoves DEF Steps, Inside
  <2>3. generations <= generations' /\ token'[m].gen <= generations' /\ basis' \in [Messages -> SUBSET Messages]
    BY <1>6, <2>1, <2>2, AtHome DEF RefusedFacts
  <2>4. \A n \in Messages : rows'[Bot(n)].thread # None => rows[Bot(n)].thread # None
    <3>1. PICK ts : DroppedIndex(ts)
      BY <2>1 DEF RefusedFacts
    <3>2. \A q \in Keys : rows'[q] = NoRow \/ rows'[q] = rows[q]
      BY <1>3, <3>1, DropKeeps
    <3>3. QED
      BY <3>2, KeyTypes DEF NoRow
  <2>5. QED
    BY <1>1, <1>4, <2>1, <2>2, <2>3, <2>4, IndexMoves
<1>7. QED
  BY <1>2, <1>5, <1>6

-----------------------------------------------------------------------------
(* Unsent messages and time. *)

\* A step that leaves the turns and the locks alone, and the checkpoint of whoever works on it.
LEMMA OutsideMoves ==
  ASSUME ContextInv, QuoteTypeOK', IndexFits', ContextTyped, RestTyped, UNCHANGED <<turnVars, lock>>,
         generations <= generations',
         \A t \in Threads : lock[t] # None => SameAt(t) \/ (meta'[t].gen = meta[t].gen /\ evidence'[t] = evidence[t]),
         \A t \in Threads : /\ meta'[t].gen <= generations'
                            /\ MetaRow(meta'[t], checkpoint'[t], evidence'[t]),
         \A n \in Messages : rows'[Bot(n)].thread # None => rows[Bot(n)].thread # None
  PROVE  ContextInv'
<1>1. pc' = pc /\ token' = token /\ basis' = basis /\ lock' = lock
  BY DEF turnVars
<1>2. ContextTypeOK'
  BY <1>1 DEF ContextTypeOK, ContextTyped, RestTyped, ContextInv
<1>3. RepliesSent'
  BY <1>1 DEF RepliesSent, ContextInv
<1>4. MetaFits'
  BY DEF MetaFits, MetaRow
<1>5. TurnFits'
  <2>1. ASSUME NEW n \in Messages
        PROVE  /\ token[n].gen <= generations'
               /\ pc[n] \in Inside \cup {"delivered"} => lock[Home[n]] = n /\ meta'[Home[n]].gen # 0
               /\ pc[n] \in Inside => meta'[Home[n]].gen = token[n].gen
               /\ pc[n] \in {"run", "ran"} => evidence'[Home[n]] = None
    <3>1. generations' \in Nat
      BY DEF QuoteTypeOK
    <3>2. token[n].gen <= generations'
      BY <3>1, AtHome
    <3>3. CASE lock[Home[n]] # None
      <4>1. meta'[Home[n]].gen = meta[Home[n]].gen /\ evidence'[Home[n]] = evidence[Home[n]]
        BY <3>3, AtHome DEF SameAt
      <4>2. QED
        BY <3>2, <4>1, AtHome
    <3>4. CASE lock[Home[n]] = None
      BY <3>2, <3>4, AtHome DEF Inside
    <3>5. QED
      BY <3>3, <3>4
  <2>2. QED
    BY <1>1, <2>1 DEF TurnFits
<1>6. QED
  BY <1>2, <1>3, <1>4, <1>5 DEF ContextInv

\* Before the step.
LEMMA Outside ==
  ASSUME ContextInv
  PROVE  /\ QuoteTypeOK /\ IndexFits /\ generations \in Nat
         /\ \A t \in Threads : /\ meta[t] \in Meta /\ meta[t].gen \in Nat /\ meta[t].gen <= generations
                               /\ MetaRow(meta[t], checkpoint[t], evidence[t])
         /\ lock \in [Threads -> Messages \cup {None}] /\ meta \in [Threads -> Meta]
         /\ checkpoint \in [Threads -> SUBSET Messages]
         /\ evidence \in [Threads -> Messages \cup {None}]
         /\ clearing \in [Messages -> SUBSET Threads] /\ again \subseteq Messages
         /\ cut \subseteq Messages /\ faults \in Nat
BY DEF ContextInv, ContextTypeOK, QuoteTypeOK, MetaFits, MetaRow, Meta

LEMMA UnsendKeeps ==
  ASSUME ContextInv, NEW m \in Messages, Unsend(m)
  PROVE  ContextInv'
<1>1. /\ UnsendMessage(User(m)) /\ clearing' = [clearing EXCEPT ![m] = Affected(User(m))]
      /\ again' = again \ {m} /\ UNCHANGED <<contextVars, turnVars, cut, faults>>
  BY DEF Unsend
<1>2. QuoteTypeOK' /\ IndexFits' /\ UnsendFacts(User(m))
  BY <1>1, Outside, KeyTypes, UnsendIndex
<1>3. lock' = lock /\ meta' = meta /\ checkpoint' = checkpoint /\ evidence' = evidence
  BY <1>1 DEF contextVars
<1>4. ContextTyped /\ \A t \in Threads : SameAt(t)
  BY <1>3, Outside DEF ContextTyped, SameAt
<1>5. RestTyped
  <2>1. Affected(User(m)) \subseteq Threads
    BY DEF Affected
  <2>2. QED
    BY <1>1, <2>1, Outside DEF RestTyped
<1>6. generations <= generations' /\ generations' \in Nat
  BY <1>2, Outside DEF UnsendFacts
<1>7. \A t \in Threads : meta'[t].gen <= generations' /\ MetaRow(meta'[t], checkpoint'[t], evidence'[t])
  BY <1>3, <1>6, Outside
<1>8. \A n \in Messages : rows'[Bot(n)].thread # None => rows[Bot(n)].thread # None
  <2>1. DroppedIndex(Affected(User(m)))
    BY <1>2 DEF UnsendFacts
  <2>2. \A q \in Keys : rows'[q] = NoRow \/ rows'[q] = rows[q]
    BY <2>1, Outside, DropKeeps
  <2>3. QED
    BY <2>2, KeyTypes DEF NoRow
<1>9. QED
  BY <1>1, <1>2, <1>3, <1>4, <1>5, <1>6, <1>7, <1>8, OutsideMoves

\* The metadata and the checkpoint of a thread nobody works on are deleted.
LEMMA ClearThreadMoves ==
  ASSUME ContextInv, NEW t \in Threads, ClearThread(t), UNCHANGED <<quoteVars, turnVars>>, RestTyped
  PROVE  ContextInv'
<1>1. /\ lock[t] = None /\ lock' = lock
      /\ checkpoint' = [checkpoint EXCEPT ![t] = {}]
      /\ evidence' = [evidence EXCEPT ![t] = None]
      /\ meta' = [meta EXCEPT ![t] = NoMeta]
  BY DEF ClearThread, DeleteCheckpoint
<1>2. NoMeta \in Meta /\ NoMeta.gen = 0 /\ ~NoMeta.live
  BY DEF NoMeta, Meta
<1>3. ContextTyped /\ \A u \in Threads : u # t => SameAt(u)
  BY <1>1, <1>2, Outside DEF ContextTyped, SameAt
<1>4. QuoteTypeOK' /\ IndexFits' /\ generations' = generations /\ rows' = rows
  BY Outside DEF QuoteTypeOK, IndexFits, Lineages, quoteVars
<1>5. \A u \in Threads : meta'[u].gen <= generations' /\ MetaRow(meta'[u], checkpoint'[u], evidence'[u])
  BY <1>1, <1>2, <1>3, <1>4, Outside DEF MetaRow, SameAt
<1>6. generations <= generations'
  BY <1>4, Outside
<1>7. QED
  BY <1>1, <1>3, <1>4, <1>5, <1>6, OutsideMoves

LEMMA ClearAffectedKeeps ==
  ASSUME ContextInv, NEW m \in Messages, NEW t \in Threads, ClearAffected(m, t)
  PROVE  ContextInv'
<1>1. /\ ClearThread(t) /\ clearing' = [clearing EXCEPT ![m] = @ \ {t}]
      /\ UNCHANGED <<quoteVars, turnVars, again, cut, faults>>
  BY DEF ClearAffected
<1>2. RestTyped
  BY <1>1, Outside DEF RestTyped
<1>3. QED
  BY <1>1, <1>2, ClearThreadMoves

LEMMA CleanupKeeps ==
  ASSUME ContextInv, NEW t \in Threads, Cleanup(t)
  PROVE  ContextInv'
<1>1. ClearThread(t) /\ UNCHANGED <<quoteVars, turnVars, unsendVars, cut, faults>>
  BY DEF Cleanup
<1>2. RestTyped
  BY <1>1, Outside DEF RestTyped, unsendVars
<1>3. QED
  BY <1>1, <1>2, ClearThreadMoves

LEMMA UnsendFailsKeeps ==
  ASSUME ContextInv, NEW m \in Messages, UnsendFails(m)
  PROVE  ContextInv'
<1>1. /\ clearing' = [clearing EXCEPT ![m] = {}] /\ again' = again \cup {m} /\ faults' = faults + 1
      /\ UNCHANGED <<quoteVars, contextVars, turnVars, cut>>
  BY DEF UnsendFails, Fault
<1>2. RestTyped
  BY <1>1, Outside DEF RestTyped
<1>3. lock' = lock /\ meta' = meta /\ checkpoint' = checkpoint /\ evidence' = evidence
  BY <1>1 DEF contextVars
<1>4. ContextTyped /\ \A t \in Threads : SameAt(t)
  BY <1>3, Outside DEF ContextTyped, SameAt
<1>5. QuoteTypeOK' /\ IndexFits' /\ generations' = generations /\ rows' = rows
  BY <1>1, Outside DEF QuoteTypeOK, IndexFits, Lineages, quoteVars
<1>6. \A u \in Threads : meta'[u].gen <= generations' /\ MetaRow(meta'[u], checkpoint'[u], evidence'[u])
  BY <1>3, <1>5, Outside
<1>7. generations <= generations'
  BY <1>5, Outside
<1>8. QED
  BY <1>1, <1>2, <1>3, <1>4, <1>5, <1>6, <1>7, OutsideMoves

LEMMA ExpireKeeps ==
  ASSUME ContextInv, NEW t \in Threads, Expire(t)
  PROVE  ContextInv'
<1>1. ThreadExpires(t) /\ UNCHANGED <<contextVars, turnVars, unsendVars, cut, faults>>
  BY DEF Expire
<1>2. QuoteTypeOK' /\ IndexFits' /\ UNCHANGED <<depends, owned, rows, tombs, generations>>
  BY <1>1, Outside, ExpireIndex
<1>3. lock' = lock /\ meta' = meta /\ checkpoint' = checkpoint /\ evidence' = evidence
  BY <1>1 DEF contextVars
<1>4. ContextTyped /\ \A u \in Threads : SameAt(u)
  BY <1>3, Outside DEF ContextTyped, SameAt
<1>5. RestTyped
  BY <1>1, Outside DEF RestTyped, unsendVars
<1>6. \A u \in Threads : meta'[u].gen <= generations' /\ MetaRow(meta'[u], checkpoint'[u], evidence'[u])
  BY <1>2, <1>3, Outside
<1>7. generations <= generations'
  BY <1>2, Outside
<1>8. QED
  BY <1>1, <1>2, <1>3, <1>4, <1>5, <1>6, <1>7, OutsideMoves

LEMMA IdleKeeps ==
  ASSUME ContextInv, NEW t \in Threads, Idle(t)
  PROVE  ContextInv'
<1>1. /\ meta' = [meta EXCEPT ![t].live = FALSE]
      /\ UNCHANGED <<quoteVars, lock, checkpoint, evidence, turnVars, unsendVars, cut, faults>>
  BY DEF Idle
<1>2. /\ meta' \in [Threads -> Meta] /\ ~meta'[t].live /\ meta'[t].gen = meta[t].gen
      /\ meta'[t].dirty = meta[t].dirty /\ \A u \in Threads : u # t => meta'[u] = meta[u]
  BY <1>1, Outside DEF Meta
<1>3. ContextTyped /\ \A u \in Threads : meta'[u].gen = meta[u].gen /\ evidence'[u] = evidence[u]
  BY <1>1, <1>2, Outside DEF ContextTyped
<1>4. RestTyped
  BY <1>1, Outside DEF RestTyped, unsendVars
<1>5. QuoteTypeOK' /\ IndexFits' /\ generations' = generations /\ rows' = rows
  BY <1>1, Outside DEF QuoteTypeOK, IndexFits, Lineages, quoteVars
<1>6. \A u \in Threads : meta'[u].gen <= generations' /\ MetaRow(meta'[u], checkpoint'[u], evidence'[u])
  BY <1>1, <1>2, <1>3, <1>5, Outside DEF MetaRow
<1>7. generations <= generations'
  BY <1>5, Outside
<1>8. QED
  BY <1>1, <1>3, <1>4, <1>5, <1>6, <1>7, OutsideMoves

-----------------------------------------------------------------------------

LEMMA ContextStarts == ContextInit => ContextInv
<1>. SUFFICES ASSUME ContextInit PROVE ContextInv
  OBVIOUS
<1>1. QuoteInit
  BY DEF ContextInit
<1>2. NoThread \in ThreadRow /\ NoRow \in MessageRow /\ LineageFits(NoThread.lineage) /\ LineageFits(NoRow.lineage)
  BY EmptyLineage DEF NoThread, NoRow, ThreadRow, MessageRow
<1>3. QuoteTypeOK
  BY <1>1, <1>2, TypesByRow DEF QuoteInit
<1>4. IndexFits
  <2>1. None \notin Threads /\ NoRow.thread = None /\ NoThread.gen = 0 /\ ~NoThread.live
    BY QuoteAssumption DEF QuoteAssumption, NoRow, NoThread
  <2>2. QED
    BY <1>1, <2>1 DEF QuoteInit, IndexFits
<1>5. NoMeta \in Meta /\ NoToken \in Token /\ NoMeta.gen = 0 /\ ~NoMeta.live /\ NoToken.gen = 0
  BY DEF NoMeta, NoToken, Meta, Token
<1>6. MaxFaults \in Nat /\ 0..MaxFaults \subseteq Nat /\ \A m \in Messages : Home[m] \in Threads
  BY ContextAssumption DEF ContextAssumption
<1>7. ContextTypeOK
  BY <1>3, <1>5, <1>6 DEF ContextInit, ContextTypeOK, Steps
<1>8. RepliesSent
  BY <1>1, KeyTypes DEF QuoteInit, RepliesSent, NoRow
<1>9. generations = 0
  BY <1>1 DEF QuoteInit
<1>10. TurnFits /\ MetaFits
  BY <1>5, <1>6, <1>9 DEF ContextInit, TurnFits, MetaFits, Inside
<1>11. QED
  BY <1>3, <1>4, <1>7, <1>8, <1>10 DEF ContextInv

LEMMA ContextStands == ContextInv /\ UNCHANGED vars => ContextInv'
BY DEF ContextInv, ContextTypeOK, QuoteTypeOK, Lineages, IndexFits, RepliesSent, TurnFits, MetaFits,
       vars, quoteVars, contextVars, turnVars, unsendVars

LEMMA ContextSteps == ContextInv /\ [ContextNext]_vars => ContextInv'
<1>. SUFFICES ASSUME ContextInv, [ContextNext]_vars PROVE ContextInv'
  OBVIOUS
<1>1. ASSUME NEW m \in Messages, Turn(m) PROVE ContextInv'
  BY <1>1, ResetFirstKeeps, BeginKeeps, ClearKeeps, AcknowledgeKeeps, EnterKeeps, AnswerKeeps,
     LeaveKeeps, FenceKeeps, RecordKeeps, DeliverKeeps, LeaveDeliveryKeeps DEF Turn
<1>2. ASSUME NEW m \in Messages,
             SearchHistory(m) \/ AnswerFails(m) \/ Die(m) \/ Unsend(m) \/ UnsendFails(m)
      PROVE  ContextInv'
  BY <1>2, SearchHistoryKeeps, AnswerFailsKeeps, DieKeeps, UnsendKeeps, UnsendFailsKeeps
<1>3. ASSUME NEW m \in Messages, NEW t \in Threads, ClearAffected(m, t) PROVE ContextInv'
  BY <1>3, ClearAffectedKeeps
<1>4. ASSUME NEW t \in Threads, Expire(t) \/ Idle(t) \/ Cleanup(t) PROVE ContextInv'
  BY <1>4, ExpireKeeps, IdleKeeps, CleanupKeeps
<1>5. CASE UNCHANGED vars
  BY <1>5, ContextStands
<1>6. QED
  BY <1>1, <1>2, <1>3, <1>4, <1>5 DEF ContextNext

\* Rows, owners, tokens, locks and metadata belong together after any turns, unsends and failures.
THEOREM ContextInvariant == ContextSpec => []ContextInv
BY ContextStarts, ContextSteps, PTL DEF ContextSpec

\* The variables of QuoteStore and ConversationContext keep their types; a lineage is never longer
\* than MaxLineage and names no message twice.
THEOREM ContextTypeCorrect == ContextSpec => []ContextTypeOK
<1>1. ContextInv => ContextTypeOK
  BY DEF ContextInv
<1>2. QED
  BY <1>1, ContextInvariant, PTL

\* A run never starts on a checkpoint in which a turn that died has left history evidence.
THEOREM EvidenceStays == ContextSpec => []EvidenceStaysInItsTurn
<1>1. ContextInv => EvidenceStaysInItsTurn
  BY DEF ContextInv, TurnFits, EvidenceStaysInItsTurn
<1>2. QED
  BY <1>1, ContextInvariant, PTL

-----------------------------------------------------------------------------
(* What is reached by the unsend of a message. *)

\* A reply of v that derives from n is quoted in c, with what its row names.
Link(v, c, r, n) ==
  /\ Bot(r) \in owned[v] /\ Bot(r) \in depends[c] /\ n \in basis[r]
  /\ Range(rows[Bot(r)].lineage) \subseteq depends[c]
Closes(ts, n) ==
  /\ \A t \in Threads : User(n) \in depends[t] => t \in ts
  /\ \A v \in ts, c \in Threads, r \in Messages : Link(v, c, r, n) => c \in ts
Reach(n) == {t \in Threads : \A ts \in SUBSET Threads : Closes(ts, n) => t \in ts}
Safe(t, n) == n \in cut \/ (User(n) \notin tombs /\ t \in Reach(n))

\* What a reply, a turn that is current and a checkpoint of the current generation derive from.
RepliesTracked ==
  \A t \in Threads, r \in Messages : rows[Bot(r)].thread = t => \A n \in basis[r] : Safe(t, n)
TurnsTracked ==
  \A m \in Messages :
    thread[Home[m]].live /\ token[m].gen = thread[Home[m]].gen => \A n \in basis[m] : Safe(Home[m], n)
CheckpointsTracked ==
  \A t \in Threads :
    thread[t].live /\ meta[t].gen = thread[t].gen => \A n \in checkpoint[t] : Safe(t, n)
Tracked == RepliesTracked /\ TurnsTracked /\ CheckpointsTracked

LEMMA AffectedCloses ==
  ASSUME NEW k
  PROVE  Affected(k) \in SUBSET Threads /\ Direct(k) \subseteq Affected(k) /\ Closed(Affected(k))
<1>1. Affected(k) \in SUBSET Threads
  BY DEF Affected
<1>2. Direct(k) \subseteq Affected(k)
  BY DEF Affected, Direct
<1>3. ASSUME NEW t \in Affected(k), NEW child \in Threads, depends[child] \cap owned[t] # {}
      PROVE  child \in Affected(k)
  <2>1. ASSUME NEW ts \in SUBSET Threads, Direct(k) \subseteq ts, Closed(ts) PROVE child \in ts
    BY <1>3, <2>1 DEF Affected, Closed
  <2>2. QED
    BY <2>1 DEF Affected
<1>4. QED
  BY <1>1, <1>2, <1>3 DEF Closed

LEMMA ReachIsAffected ==
  ASSUME NEW n \in Messages
  PROVE  Reach(n) \subseteq Affected(User(n))
<1>1. Closes(Affected(User(n)), n)
  <2>1. \A t \in Threads : User(n) \in depends[t] => t \in Affected(User(n))
    BY AffectedCloses DEF Direct
  <2>2. ASSUME NEW v \in Affected(User(n)), NEW c \in Threads, NEW r \in Messages, Link(v, c, r, n)
        PROVE  c \in Affected(User(n))
    <3>1. depends[c] \cap owned[v] # {}
      BY <2>2 DEF Link
    <3>2. QED
      BY <3>1, AffectedCloses DEF Closed
  <2>3. QED
    BY <2>1, <2>2 DEF Closes
<1>2. QED
  BY <1>1, AffectedCloses DEF Reach

\* Who depends on a message is reached, and who quotes a reply that is.
LEMMA ReachGrows ==
  ASSUME NEW n \in Messages, NEW t \in Threads
  PROVE  /\ User(n) \in depends[t] => t \in Reach(n)
         /\ \A v \in Reach(n), r \in Messages : Link(v, t, r, n) => t \in Reach(n)
<1>1. User(n) \in depends[t] => t \in Reach(n)
  BY DEF Reach, Closes
<1>2. ASSUME NEW v \in Reach(n), NEW r \in Messages, Link(v, t, r, n) PROVE t \in Reach(n)
  <2>1. ASSUME NEW ts \in SUBSET Threads, Closes(ts, n) PROVE t \in ts
    BY <1>2, <2>1 DEF Reach, Closes
  <2>2. QED
    BY <2>1 DEF Reach
<1>3. QED
  BY <1>1, <1>2

\* The threads outside hit keep what they have; what they had from hit they depend on themselves,
\* or it is cut.
Keeps(hit) ==
  /\ \A u \in Threads \ hit : depends[u] \subseteq depends'[u] /\ owned[u] \subseteq owned'[u]
  /\ \A v \in Threads \ hit, r \in Messages : Bot(r) \in owned[v] =>
       basis'[r] = basis[r] /\ rows'[Bot(r)] = rows[Bot(r)]
  /\ \A v \in hit, c \in Threads \ hit, r \in Messages, n \in Messages :
       Link(v, c, r, n) => n \in cut' \/ User(n) \in depends[c]
  /\ cut \subseteq cut'
LEMMA ReachKept ==
  ASSUME NEW hit \in SUBSET Threads, Keeps(hit), NEW n \in Messages, n \notin cut',
         NEW t \in Threads \ hit, t \in Reach(n)
  PROVE  t \in Reach(n)'
<1>1. ASSUME NEW ts \in SUBSET Threads, Closes(ts, n)' PROVE t \in ts
  <2>1. \A u \in Threads : User(n) \in depends'[u] => u \in ts
    BY <1>1 DEF Closes, User
  <2>2. ASSUME NEW v \in ts, NEW c \in Threads, NEW r \in Messages, Link(v, c, r, n)'
        PROVE  c \in ts
    BY <1>1, <2>2 DEF Closes
  <2>3. \A u \in Threads : User(n) \in depends[u] => u \in ts \cup hit
    BY <2>1 DEF Keeps
  <2>4. ASSUME NEW v \in ts \cup hit, NEW c \in Threads, NEW r \in Messages, Link(v, c, r, n)
        PROVE  c \in ts \cup hit
    <3>1. CASE c \in hit
      BY <3>1
    <3>2. CASE c \notin hit /\ v \in hit
      BY <2>3, <2>4, <3>2 DEF Keeps
    <3>3. CASE c \notin hit /\ v \notin hit
      <4>1. /\ depends[c] \subseteq depends'[c] /\ owned[v] \subseteq owned'[v]
            /\ basis'[r] = basis[r] /\ rows'[Bot(r)] = rows[Bot(r)]
        BY <1>1, <2>4, <3>3 DEF Keeps, Link
      <4>2. /\ Bot(r) \in owned'[v] /\ Bot(r) \in depends'[c] /\ n \in basis'[r]
            /\ Range(rows'[Bot(r)].lineage) \subseteq depends'[c]
        BY <2>4, <4>1 DEF Link
      <4>3. Link(v, c, r, n)'
        BY <4>2 DEF Link, Bot, Range
      <4>4. v \in ts
        BY <2>4, <3>3
      <4>5. QED
        BY <2>2, <4>3, <4>4
    <3>4. QED
      BY <3>1, <3>2, <3>3
  <2>5. Closes(ts \cup hit, n)
    BY <2>3, <2>4 DEF Closes
  <2>6. t \in ts \cup hit
    BY <2>5 DEF Reach
  <2>7. QED
    BY <2>6
<1>2. QED
  BY <1>1 DEF Reach

LEMMA SafeKept ==
  ASSUME NEW hit \in SUBSET Threads, Keeps(hit), NEW n \in Messages, NEW t \in Threads \ hit,
         User(n) \notin tombs /\ t \in Reach(n) => User(n) \notin tombs', Safe(t, n)
  PROVE  Safe(t, n)'
<1>1. CASE n \in cut'
  BY <1>1 DEF Safe
<1>2. CASE n \notin cut'
  <2>1. n \notin cut
    BY <1>2 DEF Keeps
  <2>2. User(n) \notin tombs /\ t \in Reach(n)
    BY <2>1 DEF Safe
  <2>3. t \in Reach(n)'
    BY <1>2, <2>2, ReachKept
  <2>4. User(n) \notin tombs'
    BY <2>2
  <2>5. QED
    BY <2>3, <2>4 DEF Safe, User
<1>3. QED
  BY <1>1, <1>2

\* A reply that was sent keeps what it derives from, in every step that only touches other turns.
LEMMA OwnedReplies ==
  ASSUME ContextInv, NEW v \in Threads, NEW r \in Messages
  PROVE  Bot(r) \in owned[v] <=> rows[Bot(r)].thread = v
BY KeyTypes DEF ContextInv, IndexFits

\* Whose token is of the generation of its thread, if that lives; so for the metadata.
TokenNow(m) == thread[Home[m]].live /\ token[m].gen = thread[Home[m]].gen
MetaNow(t) == thread[t].live /\ meta[t].gen = thread[t].gen

LEMMA TrackedHere ==
  ASSUME Tracked
  PROVE  /\ \A m \in Messages : TokenNow(m) => \A n \in basis[m] : Safe(Home[m], n)
         /\ \A t \in Threads : MetaNow(t) => \A n \in checkpoint[t] : Safe(t, n)
BY DEF Tracked, TurnsTracked, CheckpointsTracked, TokenNow, MetaNow

LEMMA TrackedThere ==
  ASSUME RepliesTracked',
         \A m \in Messages : thread'[Home[m]].live /\ token'[m].gen = thread'[Home[m]].gen
           => \A n \in basis'[m] : Safe(Home[m], n)',
         \A t \in Threads : thread'[t].live /\ meta'[t].gen = thread'[t].gen
           => \A n \in checkpoint'[t] : Safe(t, n)'
  PROVE  Tracked'
<1>1. TurnsTracked'
  BY DEF TurnsTracked
<1>2. CheckpointsTracked'
  BY DEF CheckpointsTracked
<1>3. QED
  BY <1>1, <1>2 DEF Tracked

\* A step that leaves the dependencies and the rows alone.
QuietIndex ==
  /\ UNCHANGED <<depends, owned, rows, tombs, generations, cut>>
  /\ \A t \in Threads : thread'[t].gen = thread[t].gen /\ (thread'[t].live => thread[t].live)
LEMMA QuietTracked ==
  ASSUME ContextInv, ContextInv', Tracked, QuietIndex,
         \A r \in Messages : rows[Bot(r)].thread # None => basis'[r] = basis[r],
         \A m \in Messages :
           \/ token'[m] = NoToken
           \/ token'[m] = token[m] /\ basis'[m] \subseteq basis[m]
           \/ /\ token'[m] = token[m] /\ meta[Home[m]].gen = token[m].gen
              /\ basis'[m] \subseteq basis[m] \cup checkpoint[Home[m]],
         \A t \in Threads :
           \/ checkpoint'[t] = {}
           \/ meta'[t].gen = meta[t].gen /\ checkpoint'[t] \subseteq checkpoint[t]
           \/ /\ meta'[t].gen = meta[t].gen
              /\ \E m \in Messages : /\ Home[m] = t /\ token[m].gen \in {meta[t].gen, thread[t].gen}
                                     /\ checkpoint'[t] \subseteq checkpoint[t] \cup basis[m]
  PROVE  Tracked'
<1>. basis' \in [Messages -> SUBSET Messages] /\ checkpoint' \in [Threads -> SUBSET Messages]
  BY DEF ContextInv, ContextTypeOK
<1>1. Keeps({})
  BY OwnedReplies, QuoteAssumption DEF Keeps, QuietIndex, QuoteAssumption
<1>2. ASSUME NEW t \in Threads, NEW n \in Messages, Safe(t, n) PROVE Safe(t, n)'
  <2>1. {} \in SUBSET Threads /\ t \in Threads \ {} /\ tombs' = tombs
    BY DEF QuietIndex
  <2>2. QED
    BY <1>1, <1>2, <2>1, SafeKept
<1>3. RepliesTracked'
  <2>1. ASSUME NEW t \in Threads, NEW r \in Messages, rows'[Bot(r)].thread = t, NEW n \in basis'[r]
        PROVE  Safe(t, n)'
    <3>1. rows[Bot(r)].thread = t /\ rows[Bot(r)].thread # None
      BY <2>1, QuoteAssumption DEF QuietIndex, QuoteAssumption
    <3>2. n \in basis[r] /\ n \in Messages
      BY <2>1, <3>1
    <3>3. Safe(t, n)
      BY <3>1, <3>2 DEF Tracked, RepliesTracked
    <3>4. QED
      BY <1>2, <3>2, <3>3
  <2>2. QED
    BY <2>1 DEF RepliesTracked, Bot
<1>4. ASSUME NEW m \in Messages, thread'[Home[m]].live, token'[m].gen = thread'[Home[m]].gen,
             NEW n \in basis'[m]
      PROVE  Safe(Home[m], n)'
  <2>1. /\ Home[m] \in Threads /\ n \in Messages /\ thread[Home[m]].live
        /\ thread'[Home[m]].gen = thread[Home[m]].gen /\ thread[Home[m]].gen # 0
    BY <1>4, AtHome DEF QuietIndex
  <2>2. token'[m] = token[m] /\ TokenNow(m)
    BY <1>4, <2>1, AtHome DEF TokenNow
  <2>3. n \in basis[m] \/ (n \in checkpoint[Home[m]] /\ MetaNow(Home[m]))
    BY <1>4, <2>1, <2>2, AtHome DEF TokenNow, MetaNow
  <2>4. Safe(Home[m], n)
    BY <2>1, <2>2, <2>3, TrackedHere
  <2>5. QED
    BY <1>2, <2>1, <2>4
<1>5. ASSUME NEW t \in Threads, thread'[t].live, meta'[t].gen = thread'[t].gen, NEW n \in checkpoint'[t]
      PROVE  Safe(t, n)'
  <2>1. n \in Messages /\ MetaNow(t)
    BY <1>5 DEF MetaNow, QuietIndex
  <2>2. n \in checkpoint[t] \/ \E m \in Messages : Home[m] = t /\ n \in basis[m] /\ TokenNow(m)
    BY <1>5, <2>1 DEF MetaNow, TokenNow
  <2>3. Safe(t, n)
    BY <2>1, <2>2, TrackedHere
  <2>4. QED
    BY <1>2, <2>1, <2>3
<1>6. QED
  BY <1>3, <1>4, <1>5, TrackedThere

\* The index does not change, or only the row of a thread does.
LEMMA QuietStep ==
  ASSUME UNCHANGED quoteVars, UNCHANGED cut
  PROVE  QuietIndex
BY DEF QuietIndex, quoteVars

\* The same for a step of the turn of m, which has no reply yet or keeps what it derives from.
LEMMA TurnTracked ==
  ASSUME ContextInv, ContextInv', Tracked, QuietIndex, NEW m \in Messages,
         \A n \in Messages : n # m => token'[n] = token[n] /\ basis'[n] = basis[n],
         \/ basis'[m] = basis[m]
         \/ pc[m] \notin {"deliver", "delivered", "done"},
         \/ token'[m] = NoToken
         \/ token'[m] = token[m] /\ basis'[m] \subseteq basis[m]
         \/ /\ token'[m] = token[m] /\ meta[Home[m]].gen = token[m].gen
            /\ basis'[m] \subseteq basis[m] \cup checkpoint[Home[m]],
         \A t \in Threads : t # Home[m] => meta'[t] = meta[t] /\ checkpoint'[t] = checkpoint[t],
         \/ checkpoint'[Home[m]] = {}
         \/ meta'[Home[m]].gen = meta[Home[m]].gen /\ checkpoint'[Home[m]] \subseteq checkpoint[Home[m]]
         \/ /\ meta'[Home[m]].gen = meta[Home[m]].gen
            /\ token[m].gen \in {meta[Home[m]].gen, thread[Home[m]].gen}
            /\ checkpoint'[Home[m]] \subseteq checkpoint[Home[m]] \cup basis[m]
  PROVE  Tracked'
<1>1. \A r \in Messages : rows[Bot(r)].thread # None => basis'[r] = basis[r]
  BY DEF ContextInv, RepliesSent
<1>2. \A n \in Messages :
           \/ token'[n] = NoToken
           \/ token'[n] = token[n] /\ basis'[n] \subseteq basis[n]
           \/ /\ token'[n] = token[n] /\ meta[Home[n]].gen = token[n].gen
              /\ basis'[n] \subseteq basis[n] \cup checkpoint[Home[n]]
  OBVIOUS
<1>3. ASSUME NEW t \in Threads
      PROVE  \/ checkpoint'[t] = {}
             \/ meta'[t].gen = meta[t].gen /\ checkpoint'[t] \subseteq checkpoint[t]
             \/ /\ meta'[t].gen = meta[t].gen
                /\ \E n \in Messages : /\ Home[n] = t /\ token[n].gen \in {meta[t].gen, thread[t].gen}
                                       /\ checkpoint'[t] \subseteq checkpoint[t] \cup basis[n]
  <2>1. CASE t = Home[m]
    BY <2>1
  <2>2. CASE t # Home[m]
    BY <2>2
  <2>3. QED
    BY <2>1, <2>2
<1>4. QED
  BY <1>1, <1>2, <1>3, QuietTracked

\* Turns leave the token or forget it.
LEMMA TokenStays ==
  ASSUME ContextInv, NEW m \in Messages, NEW step \in Steps, Goto(m, step), basis' = basis
  PROVE  /\ \A n \in Messages : n # m => token'[n] = token[n] /\ basis'[n] = basis[n]
         /\ basis'[m] = basis[m] /\ basis'[m] \subseteq basis[m]
         /\ token'[m] = NoToken \/ token'[m] = token[m]
BY GotoMoves

LEMMA ClearTracked ==
  ASSUME ContextInv, ContextInv', Tracked, NEW m \in Messages, Clear(m)
  PROVE  Tracked'
<1>1. /\ Goto(m, "acknowledge") /\ "acknowledge" \in Steps /\ UNCHANGED quoteVars /\ UNCHANGED cut
      /\ basis' = basis
      /\ checkpoint' = [checkpoint EXCEPT ![Home[m]] = {}]
      /\ meta' = [meta EXCEPT ![Home[m]] = NoMeta]
  BY DEF Clear, ClearThread, DeleteCheckpoint, Steps
<1>2. /\ checkpoint'[Home[m]] = {}
      /\ \A t \in Threads : t # Home[m] => meta'[t] = meta[t] /\ checkpoint'[t] = checkpoint[t]
  BY <1>1, AtHome
<1>3. QED
  BY <1>1, <1>2, QuietStep, TokenStays, TurnTracked

LEMMA EnterTracked ==
  ASSUME ContextInv, ContextInv', Tracked, NEW m \in Messages, Enter(m)
  PROVE  Tracked'
<1>1. UNCHANGED quoteVars /\ UNCHANGED cut /\ basis' = basis
  BY DEF Enter
<1>2. PICK step \in Steps : Goto(m, step)
  BY DEF Enter, Steps
<1>3. \/ checkpoint' = [checkpoint EXCEPT ![Home[m]] = {}]
      \/ checkpoint' = checkpoint
  BY DEF Enter, DeleteCheckpoint, contextVars
<1>4. \/ meta' = meta
      \/ /\ meta' = [meta EXCEPT ![Home[m]] = [gen |-> token[m].gen, live |-> TRUE, dirty |-> FALSE]]
         /\ checkpoint'[Home[m]] = {}
  BY AtHome DEF Enter, DeleteCheckpoint, contextVars, MetaRow
<1>5. \A t \in Threads : t # Home[m] => meta'[t] = meta[t] /\ checkpoint'[t] = checkpoint[t]
  BY <1>3, <1>4, AtHome
<1>6. \/ checkpoint'[Home[m]] = {}
      \/ meta'[Home[m]].gen = meta[Home[m]].gen /\ checkpoint'[Home[m]] \subseteq checkpoint[Home[m]]
  BY <1>3, <1>4, AtHome
<1>7. QED
  BY <1>1, <1>2, <1>5, <1>6, QuietStep, TokenStays, TurnTracked

LEMMA SearchHistoryTracked ==
  ASSUME ContextInv, ContextInv', Tracked, NEW m \in Messages, SearchHistory(m)
  PROVE  Tracked'
<1>1. /\ Goto(m, "searched") /\ "searched" \in Steps /\ UNCHANGED quoteVars /\ UNCHANGED cut
      /\ basis' = basis /\ checkpoint' = checkpoint
      /\ meta' = [meta EXCEPT ![Home[m]].dirty = meta[Home[m]].gen # 0]
  BY DEF SearchHistory, Steps
<1>2. /\ meta'[Home[m]].gen = meta[Home[m]].gen
      /\ \A t \in Threads : t # Home[m] => meta'[t] = meta[t]
  BY <1>1, AtHome DEF Meta
<1>3. QED
  BY <1>1, <1>2, QuietStep, TokenStays, TurnTracked

\* Removing the evidence keeps the generation.
LEMMA EvidenceMeta ==
  ASSUME ContextInv, NEW m \in Messages, WithoutEvidence(m) \/ UNCHANGED <<evidence, meta>>
  PROVE  /\ meta'[Home[m]].gen = meta[Home[m]].gen
         /\ \A t \in Threads : t # Home[m] => meta'[t] = meta[t]
<1>1. CASE UNCHANGED <<evidence, meta>>
  BY <1>1
<1>2. CASE WithoutEvidence(m)
  <2>. DEFINE mark == meta[Home[m]].dirty /\ pc[m] # "searched"
  <2>1. mark \in BOOLEAN /\ meta' = [meta EXCEPT ![Home[m]].dirty = mark]
    BY <1>2, AtHome DEF WithoutEvidence
  <2>. HIDE DEF mark
  <2>2. meta' = [meta EXCEPT ![Home[m]] = [@ EXCEPT !.dirty = mark]]
    BY <2>1
  <2>3. QED
    BY <2>2, AtHome DEF Meta
<1>3. QED
  BY <1>1, <1>2

LEMMA AnswerTracked ==
  ASSUME ContextInv, ContextInv', Tracked, NEW m \in Messages, Answer(m)
  PROVE  Tracked'
<1>1. /\ Goto(m, "ran") /\ "ran" \in Steps /\ UNCHANGED quoteVars /\ UNCHANGED cut
      /\ basis' = [basis EXCEPT ![m] = @ \cup checkpoint[Home[m]]]
      /\ checkpoint' = [checkpoint EXCEPT ![Home[m]] = @ \cup basis[m]]
      /\ WithoutEvidence(m) /\ pc[m] \in {"run", "searched"}
  BY DEF Answer, Remember, Steps
<1>2. meta[Home[m]].gen = token[m].gen
  BY <1>1, AtHome DEF Inside
<1>3. /\ basis'[m] = basis[m] \cup checkpoint[Home[m]] /\ token'[m] = token[m]
      /\ \A n \in Messages : n # m => token'[n] = token[n] /\ basis'[n] = basis[n]
  BY <1>1, AtHome, GotoMoves
<1>4. /\ checkpoint'[Home[m]] = checkpoint[Home[m]] \cup basis[m]
      /\ \A t \in Threads : t # Home[m] => checkpoint'[t] = checkpoint[t]
  BY <1>1, AtHome
<1>5. /\ meta'[Home[m]].gen = meta[Home[m]].gen
      /\ \A t \in Threads : t # Home[m] => meta'[t] = meta[t]
  BY <1>1, EvidenceMeta
<1>6. QED
  BY <1>1, <1>2, <1>3, <1>4, <1>5, QuietStep, TurnTracked

LEMMA AnswerFailsTracked ==
  ASSUME ContextInv, ContextInv', Tracked, NEW m \in Messages, AnswerFails(m)
  PROVE  Tracked'
<1>1. /\ Goto(m, "threw") /\ "threw" \in Steps /\ UNCHANGED quoteVars /\ UNCHANGED cut
      /\ basis' = [basis EXCEPT ![m] = {}]
      /\ checkpoint' = [checkpoint EXCEPT ![Home[m]] = @ \cup basis[m]]
      /\ (WithoutEvidence(m) \/ UNCHANGED <<evidence, meta>>) /\ pc[m] \in {"run", "searched"}
  BY DEF AnswerFails, Remember, Steps
<1>2. meta[Home[m]].gen = token[m].gen
  BY <1>1, AtHome DEF Inside
<1>3. /\ basis'[m] \subseteq basis[m] /\ token'[m] = token[m]
      /\ \A n \in Messages : n # m => token'[n] = token[n] /\ basis'[n] = basis[n]
  BY <1>1, AtHome, GotoMoves
<1>4. /\ checkpoint'[Home[m]] = checkpoint[Home[m]] \cup basis[m]
      /\ \A t \in Threads : t # Home[m] => checkpoint'[t] = checkpoint[t]
  BY <1>1, AtHome
<1>5. /\ meta'[Home[m]].gen = meta[Home[m]].gen
      /\ \A t \in Threads : t # Home[m] => meta'[t] = meta[t]
  BY <1>1, EvidenceMeta
<1>6. QED
  BY <1>1, <1>2, <1>3, <1>4, <1>5, QuietStep, TurnTracked

LEMMA LeaveTracked ==
  ASSUME ContextInv, ContextInv', Tracked, NEW m \in Messages, Leave(m)
  PROVE  Tracked'
<1>1. UNCHANGED quoteVars /\ UNCHANGED cut /\ basis' = basis /\ pc[m] \in {"ran", "threw"}
  BY DEF Leave
<1>2. PICK step \in Steps : Goto(m, step)
  BY DEF Leave, Steps
<1>3. \/ checkpoint' = [checkpoint EXCEPT ![Home[m]] = {}]
      \/ checkpoint' = checkpoint
  BY DEF Leave, DeleteCheckpoint
<1>4. \/ meta' = meta
      \/ meta' = [meta EXCEPT ![Home[m]] = [gen |-> token[m].gen, live |-> TRUE, dirty |-> FALSE]]
  BY DEF Leave
<1>5. meta[Home[m]].gen = token[m].gen
  BY <1>1, AtHome DEF Inside
<1>6. \A t \in Threads : t # Home[m] => meta'[t] = meta[t] /\ checkpoint'[t] = checkpoint[t]
  BY <1>3, <1>4, AtHome
<1>7. meta'[Home[m]].gen = meta[Home[m]].gen /\ checkpoint'[Home[m]] \subseteq checkpoint[Home[m]]
  BY <1>3, <1>4, <1>5, AtHome
<1>8. QED
  BY <1>1, <1>2, <1>6, <1>7, QuietStep, TokenStays, TurnTracked

LEMMA FenceTracked ==
  ASSUME ContextInv, ContextInv', Tracked, NEW m \in Messages, Fence(m)
  PROVE  Tracked'
<1>1. UNCHANGED quoteVars /\ UNCHANGED cut /\ basis' = basis /\ checkpoint' = checkpoint /\ meta' = meta
  BY DEF Fence, contextVars
<1>2. PICK step \in Steps : Goto(m, step)
  BY DEF Fence, Steps
<1>3. QED
  BY <1>1, <1>2, QuietStep, TokenStays, TurnTracked

LEMMA DeliverTracked ==
  ASSUME ContextInv, ContextInv', Tracked, NEW m \in Messages, Deliver(m)
  PROVE  Tracked'
<1>1. UNCHANGED quoteVars /\ UNCHANGED cut /\ basis' = basis /\ meta' = meta
  BY DEF Deliver
<1>2. PICK step \in Steps : Goto(m, step)
  BY DEF Deliver, Steps
<1>3. \/ checkpoint' = checkpoint
      \/ /\ checkpoint' = [checkpoint EXCEPT ![Home[m]] = @ \cup basis[m]]
         /\ token[m].gen = thread[Home[m]].gen
  BY DEF Deliver, Remember, Current, IsCurrent
<1>4. \A t \in Threads : t # Home[m] => meta'[t] = meta[t] /\ checkpoint'[t] = checkpoint[t]
  BY <1>1, <1>3, AtHome
<1>5. \/ checkpoint'[Home[m]] = checkpoint[Home[m]]
      \/ /\ token[m].gen = thread[Home[m]].gen
         /\ checkpoint'[Home[m]] = checkpoint[Home[m]] \cup basis[m]
  BY <1>3, AtHome
<1>6. QED
  BY <1>1, <1>2, <1>4, <1>5, QuietStep, TokenStays, TurnTracked

LEMMA LeaveDeliveryTracked ==
  ASSUME ContextInv, ContextInv', Tracked, NEW m \in Messages, LeaveDelivery(m)
  PROVE  Tracked'
<1>1. UNCHANGED quoteVars /\ UNCHANGED cut /\ basis' = basis /\ meta' = meta
  BY DEF LeaveDelivery
<1>2. PICK step \in Steps : Goto(m, step)
  BY DEF LeaveDelivery, Steps
<1>3. checkpoint' = checkpoint \/ checkpoint' = [checkpoint EXCEPT ![Home[m]] = {}]
  BY DEF LeaveDelivery, DeleteCheckpoint
<1>4. \A t \in Threads : t # Home[m] => meta'[t] = meta[t] /\ checkpoint'[t] = checkpoint[t]
  BY <1>1, <1>3, AtHome
<1>5. checkpoint'[Home[m]] \subseteq checkpoint[Home[m]] /\ meta'[Home[m]].gen = meta[Home[m]].gen
  BY <1>1, <1>3, AtHome
<1>6. QED
  BY <1>1, <1>2, <1>4, <1>5, QuietStep, TokenStays, TurnTracked

LEMMA DieTracked ==
  ASSUME ContextInv, ContextInv', Tracked, NEW m \in Messages, Die(m)
  PROVE  Tracked'
<1>1. UNCHANGED quoteVars /\ UNCHANGED cut /\ checkpoint' = checkpoint /\ meta' = meta
  BY DEF Die
<1>2. PICK step \in {"new", "done"} :
        /\ Goto(m, step) /\ step \in Steps
        /\ step = "new" => pc[m] \notin {"deliver", "delivered", "done"}
        /\ basis' = IF step = "new" THEN [basis EXCEPT ![m] = {}] ELSE basis
  BY DEF Die, Steps
<1>3. /\ \A n \in Messages : n # m => token'[n] = token[n] /\ basis'[n] = basis[n]
      /\ basis'[m] = basis[m] \/ pc[m] \notin {"deliver", "delivered", "done"}
      /\ token'[m] = NoToken \/ (token'[m] = token[m] /\ basis'[m] \subseteq basis[m])
  BY <1>2, AtHome, GotoMoves
<1>4. QED
  BY <1>1, <1>3, QuietStep, TurnTracked

LEMMA AcknowledgeTracked ==
  ASSUME ContextInv, ContextInv', Tracked, NEW m \in Messages, Acknowledge(m)
  PROVE  Tracked'
<1>1. /\ AcknowledgeClear(Home[m], token[m].gen) /\ UNCHANGED <<depends, owned, rows, tombs, generations>>
      /\ basis' = basis /\ cut' = cut /\ checkpoint' = checkpoint /\ meta' = meta
  BY DEF Acknowledge, contextVars
<1>2. PICK step \in Steps : Goto(m, step)
  BY DEF Acknowledge, Answering, Steps
<1>3. QuietIndex
  BY <1>1, AtHome, Outside, AcknowledgeIndex DEF QuietIndex
<1>4. QED
  BY <1>1, <1>2, <1>3, TokenStays, TurnTracked

-----------------------------------------------------------------------------
\* Outside the turns.
LEMMA OutsideTracked ==
  ASSUME ContextInv, ContextInv', Tracked, QuietIndex, UNCHANGED turnVars,
         \A t \in Threads :
           \/ checkpoint'[t] = {}
           \/ meta'[t].gen = meta[t].gen /\ checkpoint'[t] \subseteq checkpoint[t]
  PROVE  Tracked'
<1>1. \A n \in Messages : token'[n] = token[n] /\ basis'[n] = basis[n]
  BY DEF turnVars
<1>2. QED
  BY <1>1, QuietTracked

LEMMA ClearThreadTracked ==
  ASSUME ContextInv, ContextInv', Tracked, NEW t \in Threads, ClearThread(t),
         UNCHANGED quoteVars, UNCHANGED <<turnVars, cut>>
  PROVE  Tracked'
<1>1. /\ checkpoint' = [checkpoint EXCEPT ![t] = {}] /\ meta' = [meta EXCEPT ![t] = NoMeta]
  BY DEF ClearThread, DeleteCheckpoint
<1>2. \A u \in Threads : \/ checkpoint'[u] = {}
                         \/ meta'[u].gen = meta[u].gen /\ checkpoint'[u] \subseteq checkpoint[u]
  BY <1>1, Outside
<1>3. QED
  BY <1>2, QuietStep, OutsideTracked

LEMMA WaitingTracked ==
  ASSUME ContextInv, ContextInv', Tracked,
         \/ \E m \in Messages : UnsendFails(m) \/ \E t \in Threads : ClearAffected(m, t)
         \/ \E t \in Threads : Expire(t) \/ Idle(t) \/ Cleanup(t)
  PROVE  Tracked'
<1>1. ASSUME NEW m \in Messages, UnsendFails(m) PROVE Tracked'
  <2>1. UNCHANGED quoteVars /\ UNCHANGED cut /\ UNCHANGED turnVars /\ checkpoint' = checkpoint /\ meta' = meta
    BY <1>1 DEF UnsendFails, contextVars
  <2>2. QED
    BY <2>1, QuietStep, OutsideTracked
<1>2. ASSUME NEW m \in Messages, NEW t \in Threads, ClearAffected(m, t) PROVE Tracked'
  BY <1>2, ClearThreadTracked DEF ClearAffected
<1>3. ASSUME NEW t \in Threads, Expire(t) PROVE Tracked'
  <2>1. UNCHANGED cut /\ UNCHANGED turnVars /\ checkpoint' = checkpoint /\ meta' = meta /\ ThreadExpires(t)
    BY <1>3 DEF Expire, contextVars
  <2>2. QuietIndex
    BY <2>1, Outside, ExpireIndex DEF QuietIndex
  <2>3. QED
    BY <2>1, <2>2, OutsideTracked
<1>4. ASSUME NEW t \in Threads, Idle(t) PROVE Tracked'
  <2>1. /\ UNCHANGED quoteVars /\ UNCHANGED cut /\ UNCHANGED turnVars /\ checkpoint' = checkpoint
        /\ meta' = [meta EXCEPT ![t].live = FALSE]
    BY <1>4 DEF Idle
  <2>2. \A u \in Threads : meta'[u].gen = meta[u].gen
    BY <2>1, Outside DEF Meta
  <2>3. QED
    BY <2>1, <2>2, QuietStep, OutsideTracked
<1>5. ASSUME NEW t \in Threads, Cleanup(t) PROVE Tracked'
  BY <1>5, ClearThreadTracked DEF Cleanup
<1>6. QED
  BY <1>1, <1>2, <1>3, <1>4, <1>5

-----------------------------------------------------------------------------
\* What a quoting thread has from v it depends on itself, or v's row does not name it.
LEMMA NamedOrCut ==
  ASSUME ContextInv, NEW v \in Threads, NEW c \in Threads, NEW r \in Messages, NEW n \in Messages,
         Link(v, c, r, n)
  PROVE  n \in Unnamed(v) \/ User(n) \in depends[c]
<1>1. /\ Bot(r) \in Keys /\ Bot(r).bot /\ TextOf(Bot(r)) = basis[r]
  BY KeyTypes DEF TextOf
<1>2. rows[Bot(r)].thread = v /\ n \in basis[r] /\ Range(rows[Bot(r)].lineage) \subseteq depends[c]
  BY OwnedReplies DEF Link
<1>3. CASE User(n) \in Range(rows[Bot(r)].lineage)
  BY <1>2, <1>3
<1>4. CASE User(n) \notin Range(rows[Bot(r)].lineage)
  BY <1>1, <1>2, <1>4 DEF Unnamed
<1>5. QED
  BY <1>3, <1>4

\* The threads of hit lose their rows and dependencies, and go on as new ones or not at all.
LEMMA DroppedTracked ==
  ASSUME ContextInv, ContextInv', Tracked, NEW hit \in SUBSET Threads, DroppedIndex(hit),
         cut \subseteq cut', basis' = basis, UNCHANGED contextVars,
         \A v \in hit, c \in Threads \ hit, r \in Messages, n \in Messages :
           Link(v, c, r, n) => n \in cut' \/ User(n) \in depends[c],
         \A t \in Threads \ hit, n \in Messages :
           User(n) \notin tombs /\ t \in Reach(n) => User(n) \notin tombs',
         \A t \in Threads : IF t \in hit THEN ~thread'[t].live \/ thread'[t].gen = generations + 1
                            ELSE thread'[t] = thread[t],
         \A m \in Messages : token'[m] = NoToken \/ token'[m] = token[m]
  PROVE  Tracked'
<1>1. /\ \A k \in Keys : /\ rows[k].thread \in hit => rows'[k] = NoRow
                         /\ rows[k].thread \notin hit => rows'[k] = rows[k]
      /\ \A t \in Threads : t \notin hit => depends'[t] = depends[t] /\ owned'[t] = owned[t]
  BY Outside, DropKeeps
<1>2. Keeps(hit)
  <2>1. ASSUME NEW v \in Threads \ hit, NEW r \in Messages, Bot(r) \in owned[v]
        PROVE  basis'[r] = basis[r] /\ rows'[Bot(r)] = rows[Bot(r)]
    BY <1>1, <2>1, OwnedReplies, KeyTypes
  <2>2. QED
    BY <1>1, <2>1 DEF Keeps
<1>3. ASSUME NEW t \in Threads \ hit, NEW n \in Messages, Safe(t, n) PROVE Safe(t, n)'
  BY <1>2, <1>3, SafeKept
<1>4. RepliesTracked'
  <2>1. ASSUME NEW t \in Threads, NEW r \in Messages, rows'[Bot(r)].thread = t, NEW n \in basis'[r]
        PROVE  Safe(t, n)'
    <3>1. rows'[Bot(r)] = rows[Bot(r)] /\ t \notin hit
      BY <1>1, <2>1, KeyTypes, QuoteAssumption DEF QuoteAssumption, NoRow
    <3>2. n \in basis[r] /\ n \in Messages
      BY <2>1 DEF ContextInv, ContextTypeOK
    <3>3. Safe(t, n)
      BY <2>1, <3>1, <3>2 DEF Tracked, RepliesTracked
    <3>4. QED
      BY <1>3, <3>1, <3>2, <3>3
  <2>2. QED
    BY <2>1 DEF RepliesTracked, Bot
<1>5. ASSUME NEW m \in Messages, thread'[Home[m]].live, token'[m].gen = thread'[Home[m]].gen,
             NEW n \in basis'[m]
      PROVE  Safe(Home[m], n)'
  <2>1. Home[m] \in Threads /\ n \in Messages /\ n \in basis[m]
    BY <1>5, AtHome
  <2>2. thread'[Home[m]].gen # 0
    BY <1>5, <2>1 DEF ContextInv, IndexFits
  <2>3. token'[m] = token[m]
    BY <1>5, <2>2, AtHome
  <2>4. Home[m] \notin hit /\ TokenNow(m)
    BY <1>5, <2>1, <2>3, AtHome DEF TokenNow
  <2>5. Safe(Home[m], n)
    BY <2>1, <2>4, TrackedHere
  <2>6. QED
    BY <1>3, <2>1, <2>4, <2>5
<1>6. ASSUME NEW t \in Threads, thread'[t].live, meta'[t].gen = thread'[t].gen, NEW n \in checkpoint'[t]
      PROVE  Safe(t, n)'
  <2>1. meta' = meta /\ checkpoint' = checkpoint
    BY DEF contextVars
  <2>2. t \notin hit /\ MetaNow(t) /\ n \in Messages
    BY <1>6, <2>1, Outside DEF MetaNow
  <2>3. Safe(t, n)
    BY <1>6, <2>1, <2>2, TrackedHere
  <2>4. QED
    BY <1>3, <2>2, <2>3
<1>7. QED
  BY <1>4, <1>5, <1>6, TrackedThere

LEMMA ResetFirstTracked ==
  ASSUME ContextInv, ContextInv', Tracked, NEW m \in Messages, ResetFirst(m)
  PROVE  Tracked'
<1>1. /\ ResetThread(Home[m]) /\ Goto(m, "begin") /\ "begin" \in Steps /\ UNCHANGED contextVars
      /\ basis' = basis /\ cut' = cut \cup Unnamed(Home[m])
  BY DEF ResetFirst, Steps
<1>2. ResetFacts(Home[m])
  BY <1>1, Outside, AtHome, ResetIndex
<1>3. /\ DroppedIndex({Home[m]}) /\ tombs' = tombs /\ {Home[m]} \in SUBSET Threads
      /\ \A t \in Threads : IF t \in {Home[m]} THEN thread'[t].gen = generations + 1
                            ELSE thread'[t] = thread[t]
  BY <1>2, AtHome DEF ResetFacts
<1>4. \A v \in {Home[m]}, c \in Threads \ {Home[m]}, r \in Messages, n \in Messages :
        Link(v, c, r, n) => n \in cut' \/ User(n) \in depends[c]
  BY <1>1, AtHome, NamedOrCut
<1>5. cut \subseteq cut' /\ \A n \in Messages : token'[n] = NoToken \/ token'[n] = token[n]
  BY <1>1, GotoMoves
<1>6. QED
  BY <1>1, <1>3, <1>4, <1>5, DroppedTracked

LEMMA UnsendTracked ==
  ASSUME ContextInv, ContextInv', Tracked, NEW m \in Messages, Unsend(m)
  PROVE  Tracked'
<1>. DEFINE hit == Affected(User(m))
<1>1. UnsendMessage(User(m)) /\ UNCHANGED contextVars /\ UNCHANGED turnVars /\ cut' = cut
  BY DEF Unsend
<1>2. UnsendFacts(User(m))
  BY <1>1, Outside, KeyTypes, UnsendIndex
<1>3. /\ DroppedIndex(hit) /\ tombs' = tombs \cup {User(m)} /\ hit \in SUBSET Threads
      /\ \A t \in Threads : IF t \in hit THEN thread'[t].gen = generations + 1
                            ELSE thread'[t] = thread[t]
  BY <1>2, AffectedCloses DEF UnsendFacts
<1>4. \A v \in hit, c \in Threads \ hit, r \in Messages, n \in Messages : ~Link(v, c, r, n)
  <2>1. ASSUME NEW v \in hit, NEW c \in Threads, NEW r \in Messages, NEW n \in Messages, Link(v, c, r, n)
        PROVE  c \in hit
    <3>1. depends[c] \cap owned[v] # {}
      BY <2>1 DEF Link
    <3>2. QED
      BY <3>1, AffectedCloses DEF Closed
  <2>2. QED
    BY <2>1
<1>5. ASSUME NEW t \in Threads \ hit, NEW n \in Messages, User(n) \notin tombs, t \in Reach(n)
      PROVE  User(n) \notin tombs'
  <2>1. t \in Affected(User(n))
    BY <1>5, ReachIsAffected
  <2>2. User(n) # User(m)
    BY <2>1
  <2>3. QED
    BY <1>3, <1>5, <2>2
<1>6. basis' = basis /\ \A n \in Messages : token'[n] = NoToken \/ token'[n] = token[n]
  BY <1>1 DEF turnVars
<1>. HIDE DEF hit
<1>7. QED
  BY <1>1, <1>3, <1>4, <1>5, <1>6, DroppedTracked

LEMMA RefusedTracked ==
  ASSUME ContextInv, ContextInv', Tracked, NEW m \in Messages, RefusedBegin(Home[m], User(m)),
         Goto(m, "done"), basis' = basis, UNCHANGED contextVars,
         cut' = IF Starts(Home[m]) /\ User(m) \notin tombs THEN cut \cup Unnamed(Home[m]) ELSE cut
  PROVE  Tracked'
<1>. DEFINE hit == IF Starts(Home[m]) /\ User(m) \notin tombs THEN {Home[m]} ELSE {}
<1>1. RefusedFacts(m)
  BY Outside, RefusedIndex
<1>2. /\ DroppedIndex(hit) /\ tombs' = tombs /\ thread' = thread /\ hit \in SUBSET Threads
      /\ \A t \in hit : ~thread'[t].live
  BY <1>1, AtHome DEF RefusedFacts, Starts
<1>3. \A v \in hit, c \in Threads \ hit, r \in Messages, n \in Messages :
        Link(v, c, r, n) => n \in cut' \/ User(n) \in depends[c]
  BY AtHome, NamedOrCut
<1>4. cut \subseteq cut' /\ \A n \in Messages : token'[n] = NoToken \/ token'[n] = token[n]
  BY GotoMoves DEF Steps
<1>. HIDE DEF hit
<1>5. QED
  BY <1>2, <1>3, <1>4, DroppedTracked

LEMMA RecordTracked ==
  ASSUME ContextInv, ContextInv', Tracked, NEW m \in Messages, Record(m)
  PROVE  Tracked'
<1>1. /\ Goto(m, "deliver") /\ "deliver" \in Steps
      /\ UNCHANGED contextVars /\ basis' = basis /\ cut' = cut /\ checkpoint' = checkpoint /\ meta' = meta
      /\ \/ RecordReply(Home[m], token[m].gen, token[m].sources, Bot(m), m \in Public)
         \/ UNCHANGED quoteVars
  BY DEF Record, Steps, contextVars
<1>2. token' = token
  BY <1>1 DEF Goto
<1>3. CASE UNCHANGED quoteVars
  BY <1>1, <1>3, QuietStep, TokenStays, TurnTracked
<1>4. CASE RecordReply(Home[m], token[m].gen, token[m].sources, Bot(m), m \in Public)
  <2>1. RecordFacts(m)
    <3>1. (m \in Public) \in BOOLEAN /\ token[m].gen \in Nat
      BY AtHome
    <3>2. PICK public \in BOOLEAN : RecordReply(Home[m], token[m].gen, token[m].sources, Bot(m), public)
      BY <1>4, <3>1
    <3>3. QED
      BY <3>1, <3>2, Outside, RecordIndex
  <2>2. /\ UNCHANGED <<thread, tombs, generations>>
        /\ \A u \in Threads : depends[u] \subseteq depends'[u] /\ owned[u] \subseteq owned'[u]
        /\ \A r \in Messages : rows'[Bot(r)] # rows[Bot(r)] =>
             /\ r = m /\ rows[Bot(r)] = NoRow /\ Current(m) /\ rows'[Bot(r)].thread = Home[m]
    BY <2>1, KeyTypes DEF RecordFacts
  <2>3. Keeps({})
    <3>1. ASSUME NEW v \in Threads, NEW r \in Messages, Bot(r) \in owned[v]
          PROVE  rows'[Bot(r)] = rows[Bot(r)]
      BY <2>2, <3>1, OwnedReplies, QuoteAssumption DEF QuoteAssumption, NoRow
    <3>2. QED
      BY <1>1, <2>2, <3>1 DEF Keeps
  <2>4. ASSUME NEW t \in Threads, NEW n \in Messages, Safe(t, n) PROVE Safe(t, n)'
    <3>1. {} \in SUBSET Threads /\ t \in Threads \ {} /\ tombs' = tombs
      BY <2>2
    <3>2. QED
      BY <2>3, <2>4, <3>1, SafeKept
  <2>5. RepliesTracked'
    <3>1. ASSUME NEW t \in Threads, NEW r \in Messages, rows'[Bot(r)].thread = t, NEW n \in basis'[r]
          PROVE  Safe(t, n)'
      <4>1. n \in basis[r] /\ n \in Messages
        BY <1>1, <3>1 DEF ContextInv, ContextTypeOK
      <4>2. CASE rows'[Bot(r)] = rows[Bot(r)]
        BY <2>4, <3>1, <4>1, <4>2 DEF Tracked, RepliesTracked
      <4>3. CASE rows'[Bot(r)] # rows[Bot(r)]
        <5>1. r = m /\ t = Home[m] /\ TokenNow(m)
          BY <2>2, <3>1, <4>3 DEF TokenNow, Current, IsCurrent
        <5>2. QED
          BY <2>4, <4>1, <5>1, TrackedHere
      <4>4. QED
        BY <4>2, <4>3
    <3>2. QED
      BY <3>1 DEF RepliesTracked, Bot
  <2>6. ASSUME NEW n \in Messages, thread'[Home[n]].live, token'[n].gen = thread'[Home[n]].gen,
               NEW x \in basis'[n]
        PROVE  Safe(Home[n], x)'
    <3>1. Home[n] \in Threads /\ x \in Messages /\ x \in basis[n] /\ TokenNow(n)
      BY <1>1, <1>2, <2>2, <2>6, AtHome DEF TokenNow
    <3>2. QED
      BY <2>4, <3>1, TrackedHere
  <2>7. ASSUME NEW t \in Threads, thread'[t].live, meta'[t].gen = thread'[t].gen, NEW x \in checkpoint'[t]
        PROVE  Safe(t, x)'
    <3>1. x \in Messages /\ x \in checkpoint[t] /\ MetaNow(t)
      BY <1>1, <2>2, <2>7, Outside DEF MetaNow
    <3>2. QED
      BY <2>4, <3>1, TrackedHere
  <2>8. QED
    BY <2>5, <2>6, <2>7, TrackedThere
<1>5. QED
  BY <1>1, <1>3, <1>4

LEMMA AcceptedTracked ==
  ASSUME ContextInv, ContextInv', Tracked, NEW m \in Messages, NEW k \in Keys \cup {None},
         k # None => rows[k] # NoRow, Accepted(m, k), UNCHANGED contextVars, pc[m] \in {"new", "begin"},
         cut' = IF Starts(Home[m]) /\ User(m) \notin tombs THEN cut \cup Unnamed(Home[m]) ELSE cut
  PROVE  Tracked'
<1>. DEFINE t == Home[m]
            hit == IF Starts(t) THEN {t} ELSE {}
<1>1. BeginFacts(m, k) /\ IndexFits' /\ t \in Threads
  BY Outside, AtHome, BeginIndex DEF Accepted
\* Nothing it needs is withdrawn.
<1>2. User(m) \notin tombs /\ Quoted(t, k) \cap tombs = {} /\ tombs' = tombs
  <2>1. ~Refuses(t, User(m), k)
    BY DEF Accepted
  <2>2. Quoted(t, k) \subseteq Range(Dependencies(t, User(m), k))
    BY <1>1, Outside, KeyTypes, NeedsFit
  <2>3. QED
    BY <1>1, <2>1, <2>2 DEF Refuses, BeginFacts
<1>3. hit \in SUBSET Threads /\ cut \subseteq cut' /\ (Starts(t) => Unnamed(t) \subseteq cut')
  BY <1>1, <1>2
\* The turn has no reply yet.
<1>4. \A r \in Messages : rows[Bot(r)].thread # None => r # m
  BY DEF ContextInv, RepliesSent
<1>5. \A r \in Messages : r # m => basis'[r] = basis[r] /\ token'[r] = token[r]
  BY DEF Accepted, ContextInv, ContextTypeOK
<1>6. \A r \in Messages : rows'[Bot(r)] = IF Starts(t) /\ rows[Bot(r)].thread = t THEN NoRow ELSE rows[Bot(r)]
  BY <1>1 DEF BeginFacts
<1>7. /\ User(m) \in depends'[t] /\ Quoted(t, k) \subseteq depends'[t]
      /\ \A u \in Threads \ hit : depends[u] \subseteq depends'[u] /\ owned[u] \subseteq owned'[u]
  BY <1>1 DEF BeginFacts
<1>8. /\ \A u \in Threads : u # t => thread'[u] = thread[u]
      /\ thread'[t].gen = (IF Starts(t) THEN generations + 1 ELSE thread[t].gen) /\ thread'[t].live
  BY <1>1 DEF BeginFacts
<1>9. Keeps(hit)
  <2>1. ASSUME NEW v \in Threads \ hit, NEW r \in Messages, Bot(r) \in owned[v]
        PROVE  basis'[r] = basis[r] /\ rows'[Bot(r)] = rows[Bot(r)]
    <3>1. rows[Bot(r)].thread = v /\ v # None
      BY <2>1, OwnedReplies, QuoteAssumption DEF QuoteAssumption
    <3>2. QED
      BY <1>4, <1>5, <1>6, <2>1, <3>1
  <2>2. ASSUME NEW v \in hit, NEW c \in Threads \ hit, NEW r \in Messages, NEW n \in Messages,
               Link(v, c, r, n)
        PROVE  n \in cut' \/ User(n) \in depends[c]
    BY <1>1, <1>3, <2>2, NamedOrCut
  <2>3. QED
    BY <1>3, <1>7, <2>1, <2>2 DEF Keeps
<1>. HIDE DEF hit
<1>10. ASSUME NEW u \in Threads \ hit, NEW n \in Messages, Safe(u, n) PROVE Safe(u, n)'
  BY <1>2, <1>3, <1>9, <1>10, SafeKept
<1>11. RepliesTracked'
  <2>1. ASSUME NEW u \in Threads, NEW r \in Messages, rows'[Bot(r)].thread = u, NEW n \in basis'[r]
        PROVE  Safe(u, n)'
    <3>1. rows'[Bot(r)] = rows[Bot(r)] /\ u # None /\ u \notin hit
      BY <1>6, <2>1, QuoteAssumption DEF QuoteAssumption, NoRow, hit
    <3>2. n \in basis[r] /\ n \in Messages
      BY <1>4, <1>5, <2>1, <3>1 DEF ContextInv, ContextTypeOK
    <3>3. Safe(u, n)
      BY <2>1, <3>1, <3>2 DEF Tracked, RepliesTracked
    <3>4. QED
      BY <1>10, <3>1, <3>2, <3>3
  <2>2. QED
    BY <2>1 DEF RepliesTracked, Bot
\* What is not withdrawn and what t depends on now is reached.
<1>12. ASSUME NEW n \in Messages, User(n) \in depends'[t], User(n) \notin tombs PROVE Safe(t, n)'
  <2>1. \A ts \in SUBSET Threads : Closes(ts, n)' => t \in ts
    BY <1>1, <1>12 DEF Closes, User
  <2>2. t \in Reach(n)'
    BY <1>1, <2>1 DEF Reach
  <2>3. QED
    BY <1>2, <1>12, <2>2 DEF Safe, User
\* The text of the quoted message too.
<1>13. ASSUME QuoteOf(t, k) = "resolved", NEW n \in TextOf(k) PROVE Safe(t, n)'
  <2>1. k \in Keys /\ k \in Quoted(t, k) /\ Range(rows[k].lineage) \subseteq Quoted(t, k) /\ Visible(k)
    BY <1>13 DEF QuoteOf, Quoted
  <2>2. CASE ~k.bot
    <3>1. n = k.of /\ k = User(n) /\ n \in Messages
      BY <1>13, <2>1, <2>2, KeyTypes DEF TextOf
    <3>2. QED
      BY <1>2, <1>7, <1>12, <2>1, <3>1
  <2>3. CASE k.bot
    <3>1. PICK r \in Messages : k = Bot(r) /\ n \in basis[r]
      BY <1>13, <2>1, <2>3, KeyTypes DEF TextOf
    <3>2. PICK v \in Threads : v = rows[Bot(r)].thread
      BY <2>1, <3>1, Outside, KeyTypes DEF Visible, IndexFits
    <3>3. n \in Messages /\ rows[Bot(r)].thread # None /\ thread[v].live /\ v \notin hit
      BY <2>1, <3>1, <3>2 DEF Visible, ContextInv, ContextTypeOK, hit, Starts
    <3>4. Safe(v, n)'
      BY <1>10, <3>1, <3>2, <3>3 DEF Tracked, RepliesTracked
    <3>5. CASE n \in cut'
      BY <3>5 DEF Safe
    <3>6. CASE n \notin cut'
      <4>1. User(n) \notin tombs' /\ v \in Reach(n)'
        BY <3>4, <3>6 DEF Safe, User
      <4>2. Bot(r) \in owned[v] /\ basis'[r] = basis[r] /\ rows'[Bot(r)] = rows[Bot(r)]
        BY <1>9, <3>2, <3>3, OwnedReplies DEF Keeps
      <4>3. /\ Bot(r) \in owned'[v] /\ Bot(r) \in depends'[t] /\ n \in basis'[r]
            /\ Range(rows'[Bot(r)].lineage) \subseteq depends'[t]
        BY <1>7, <2>1, <3>1, <3>3, <4>2
      <4>4. Link(v, t, r, n)'
        BY <4>3 DEF Link, Bot, Range
      <4>5. ASSUME NEW ts \in SUBSET Threads, Closes(ts, n)' PROVE t \in ts
        <5>1. v \in ts
          BY <4>1, <4>5 DEF Reach
        <5>2. QED
          BY <1>1, <4>4, <4>5, <5>1 DEF Closes
      <4>6. t \in Reach(n)'
        BY <1>1, <4>5 DEF Reach
      <4>7. QED
        BY <4>1, <4>6 DEF Safe, User
    <3>7. QED
      BY <3>5, <3>6
  <2>4. QED
    BY <2>2, <2>3
<1>14. ASSUME NEW n \in Messages, thread'[Home[n]].live, token'[n].gen = thread'[Home[n]].gen,
              NEW x \in basis'[n]
       PROVE  Safe(Home[n], x)'
  <2>1. CASE n = m
    <3>1. x = m \/ (QuoteOf(t, k) = "resolved" /\ x \in TextOf(k))
      BY <1>14, <2>1, AtHome DEF Accepted
    <3>2. QED
      BY <1>2, <1>7, <1>12, <1>13, <2>1, <3>1
  <2>2. CASE n # m
    <3>1. Home[n] \in Threads /\ x \in basis[n] /\ x \in Messages /\ token'[n] = token[n]
      BY <1>5, <1>14, <2>2, AtHome
    <3>2. Home[n] \notin hit /\ TokenNow(n)
      BY <1>8, <1>14, <3>1, AtHome DEF TokenNow, Starts, hit
    <3>3. QED
      BY <1>10, <3>1, <3>2, TrackedHere
  <2>3. QED
    BY <2>1, <2>2
<1>15. ASSUME NEW u \in Threads, thread'[u].live, meta'[u].gen = thread'[u].gen, NEW x \in checkpoint'[u]
       PROVE  Safe(u, x)'
  <2>1. meta' = meta /\ checkpoint' = checkpoint
    BY DEF contextVars
  <2>2. x \in Messages /\ u \notin hit /\ MetaNow(u)
    BY <1>8, <1>15, <2>1, Outside DEF MetaNow, Starts, hit
  <2>3. QED
    BY <1>10, <1>15, <2>1, <2>2, TrackedHere
<1>16. QED
  BY <1>11, <1>14, <1>15, TrackedThere

LEMMA BeginTracked ==
  ASSUME ContextInv, ContextInv', Tracked, NEW m \in Messages, Begin(m)
  PROVE  Tracked'
<1>1. /\ pc[m] \in {"new", "begin"} /\ UNCHANGED contextVars
      /\ cut' = IF Starts(Home[m]) /\ User(m) \notin tombs THEN cut \cup Unnamed(Home[m]) ELSE cut
  BY BeginCases
<1>2. PICK k \in Keys \cup {None} :
        /\ k # None => rows[k] # NoRow
        /\ Accepted(m, k) \/ (RefusedBegin(Home[m], User(m)) /\ Goto(m, "done") /\ basis' = basis)
  BY BeginCases
<1>3. QED
  BY <1>1, <1>2, AcceptedTracked, RefusedTracked

-----------------------------------------------------------------------------
LEMMA TrackedStarts == ContextInit => Tracked
<1>. SUFFICES ASSUME ContextInit PROVE Tracked
  OBVIOUS
<1>1. \A m \in Messages : basis[m] = {}
  BY DEF ContextInit
<1>2. \A t \in Threads : checkpoint[t] = {}
  BY DEF ContextInit
<1>3. QED
  BY <1>1, <1>2 DEF Tracked, RepliesTracked, TurnsTracked, CheckpointsTracked

LEMMA TrackedSteps == ContextInv /\ ContextInv' /\ Tracked /\ [ContextNext]_vars => Tracked'
<1>. SUFFICES ASSUME ContextInv, ContextInv', Tracked, [ContextNext]_vars PROVE Tracked'
  OBVIOUS
<1>1. ASSUME NEW m \in Messages, Turn(m) PROVE Tracked'
  BY <1>1, ResetFirstTracked, BeginTracked, ClearTracked, AcknowledgeTracked, EnterTracked,
     AnswerTracked, LeaveTracked, FenceTracked, RecordTracked, DeliverTracked, LeaveDeliveryTracked DEF Turn
<1>2. ASSUME NEW m \in Messages, SearchHistory(m) \/ AnswerFails(m) \/ Die(m) \/ Unsend(m) PROVE Tracked'
  BY <1>2, SearchHistoryTracked, AnswerFailsTracked, DieTracked, UnsendTracked
<1>3. CASE \/ \E m \in Messages : UnsendFails(m) \/ \E t \in Threads : ClearAffected(m, t)
           \/ \E t \in Threads : Expire(t) \/ Idle(t) \/ Cleanup(t)
  BY <1>3, WaitingTracked
<1>4. CASE UNCHANGED vars
  <2>1. UNCHANGED quoteVars /\ UNCHANGED cut /\ UNCHANGED turnVars /\ checkpoint' = checkpoint /\ meta' = meta
    BY <1>4 DEF vars, contextVars
  <2>2. QED
    BY <2>1, QuietStep, OutsideTracked
<1>5. QED
  BY <1>1, <1>2, <1>3, <1>4 DEF ContextNext

\* Whatever a stored reply, a current turn or a current checkpoint derives from is within the reach
\* of its unsend and not withdrawn, except what was cut.
THEOREM TrackedInvariant == ContextSpec => [](ContextInv /\ Tracked)
<1>1. ContextInit => ContextInv /\ Tracked
  BY ContextStarts, TrackedStarts
<1>2. ContextInv /\ Tracked /\ [ContextNext]_vars => ContextInv' /\ Tracked'
  BY ContextSteps, TrackedSteps
<1>3. QED
  BY <1>1, <1>2, PTL DEF ContextSpec

\* A checkpoint the next run would go on with holds nothing withdrawn, and the unsend of whatever
\* it holds would clear it, except what was cut.
THEOREM CheckpointIsTracked == ContextSpec => []ContextIsTracked
<1>1. ContextInv /\ Tracked => ContextIsTracked
  <2>. SUFFICES ASSUME ContextInv, Tracked PROVE ContextIsTracked
    OBVIOUS
  <2>1. ASSUME NEW t \in Threads, MetaNow(t), NEW n \in checkpoint[t] \ cut
        PROVE  n \notin Withdrawn /\ t \in Affected(User(n))
    <3>1. n \in Messages /\ n \notin cut /\ n \in checkpoint[t]
      BY <2>1, Outside
    <3>2. Safe(t, n)
      BY <2>1, <3>1, TrackedHere
    <3>3. User(n) \notin tombs /\ t \in Reach(n)
      BY <3>1, <3>2 DEF Safe
    <3>4. QED
      BY <3>1, <3>3, ReachIsAffected DEF Withdrawn
  <2>2. QED
    BY <2>1 DEF ContextIsTracked, ContextInv, MetaFits, MetaNow
<1>2. QED
  BY <1>1, TrackedInvariant, PTL

\* Nobody else moves a turn.
LEMMA OwnSteps ==
  ASSUME ContextInv, NEW m \in Messages, pc[m] = "fence", pc'[m] = "sent", ContextNext
  PROVE  Fence(m)
<1>1. ASSUME NEW n \in Messages, Turn(n) \/ SearchHistory(n) \/ AnswerFails(n) \/ Die(n) PROVE n = m
  <2>1. \E step : pc' = [pc EXCEPT ![n] = step]
    <3>1. CASE Begin(n)
      BY <3>1 DEF Begin, Goto
    <3>2. CASE ~Begin(n)
      BY <1>1, <3>2 DEF Turn, ResetFirst, Clear, Acknowledge, Enter, SearchHistory, Answer, AnswerFails,
        Leave, Fence, Record, Deliver, LeaveDelivery, Die, Goto
    <3>3. QED
      BY <3>1, <3>2
  <2>2. QED
    BY <2>1, AtHome
<1>2. ASSUME NEW n \in Messages, Unsend(n) \/ UnsendFails(n) \/ \E t \in Threads : ClearAffected(n, t)
      PROVE  pc' = pc
  BY <1>2 DEF Unsend, UnsendFails, ClearAffected, turnVars
<1>3. ASSUME NEW t \in Threads, Expire(t) \/ Idle(t) \/ Cleanup(t) PROVE pc' = pc
  BY <1>3 DEF Expire, Idle, Cleanup, turnVars
<1>4. Turn(m) \/ SearchHistory(m) \/ AnswerFails(m) \/ Die(m)
  BY <1>1, <1>2, <1>3 DEF ContextNext
<1>5. ~Die(m)
  BY AtHome DEF Die, Goto, ContextInv, ContextTypeOK
<1>6. QED
  BY <1>4, <1>5 DEF Turn, ResetFirst, Begin, Comes, Clear, Acknowledge, Enter, SearchHistory, Answer,
    AnswerFails, Leave, Record, Deliver, LeaveDelivery

\* No answer derived from a withdrawn message passes the fence, except what was cut.
THEOREM WithdrawnIsNotAnswered == ContextSpec => NothingWithdrawnIsAnswered
<1>. DEFINE Body == \A m \in Messages :
              pc[m] = "fence" /\ pc'[m] = "sent" => basis[m] \cap Withdrawn \subseteq cut
<1>1. ContextInv /\ Tracked /\ [ContextNext]_vars => Body
  <2>. SUFFICES ASSUME ContextInv, Tracked, [ContextNext]_vars, NEW m \in Messages,
                       pc[m] = "fence", pc'[m] = "sent"
                PROVE  basis[m] \cap Withdrawn \subseteq cut
    OBVIOUS
  <2>1. ContextNext
    BY DEF vars, turnVars
  <2>2. Fence(m)
    BY <2>1, OwnSteps
  <2>3. Current(m)
    BY <2>2, AtHome DEF Fence, Goto, ContextInv, ContextTypeOK
  <2>4. TokenNow(m)
    BY <2>3 DEF Current, IsCurrent, TokenNow
  <2>5. ASSUME NEW n \in basis[m], n \in Withdrawn PROVE n \in cut
    BY <2>4, <2>5, TrackedHere DEF Safe, Withdrawn
  <2>6. QED
    BY <2>5
<1>2. ContextSpec => [][Body]_vars
  BY <1>1, TrackedInvariant, PTL DEF ContextSpec
<1>3. QED
  BY <1>2 DEF NothingWithdrawnIsAnswered
=============================================================================
