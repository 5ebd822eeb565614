----------------------------- MODULE QuoteStore -----------------------------
(***************************************************************************)
(* The index of quotable messages of one group chat                        *)
(* (src/quotes/postgres-store.ts): a thread per requester with its         *)
(* generation, the messages each thread's context depends on, the safe     *)
(* texts that may be quoted, and tombstones of unsent messages.  Each      *)
(* operator is one transaction; the advisory lock of the chat makes them   *)
(* atomic.  Rows are deleted with their thread's generation; the seven     *)
(* days after which threads and tombstones are collected are not modelled. *)
(***************************************************************************)
EXTENDS Naturals, Sequences, FiniteSets, Functions

CONSTANTS
  Threads,          \* the requesters of the group
  Messages,         \* messages of requesters
  MaxLineage,       \* MAX_TOKEN_LINEAGE
  MaxGenerations,   \* bounds the generations given out
  None

ASSUME QuoteAssumption ==
  /\ None \notin Threads \cup Messages
  /\ MaxLineage \in Nat \ {0} /\ MaxGenerations \in Nat

\* A message key: a message of a requester, or the reply of the bot to it.
User(m) == [of |-> m, bot |-> FALSE]
Bot(m) == [of |-> m, bot |-> TRUE]
Keys == [of : Messages, bot : BOOLEAN]

VARIABLES
  thread,           \* thread[t]: line_quote_threads; generation 0 is no row
  depends, owned,   \* line_quote_dependencies of thread t, and those it owns
  rows,             \* line_quote_messages, [thread |-> None, ...] is no row
  tombs,            \* line_quote_tombstones
  generations       \* the last generation given out

quoteVars == <<thread, depends, owned, rows, tombs, generations>>

ThreadRow == [gen : Nat, live : BOOLEAN, clear : BOOLEAN, by : Keys \cup {None},
              lineage : Seq(Keys)]
MessageRow == [thread : Threads \cup {None}, gen : Nat, public : BOOLEAN, lineage : Seq(Keys)]
Lineages == {thread[t].lineage : t \in Threads} \cup {rows[k].lineage : k \in Keys}
NoThread == [gen |-> 0, live |-> FALSE, clear |-> FALSE, by |-> None, lineage |-> <<>>]
NoRow == [thread |-> None, gen |-> 0, public |-> FALSE, lineage |-> <<>>]

QuoteTypeOK ==
  /\ thread \in [Threads -> ThreadRow]
  /\ depends \in [Threads -> SUBSET Keys] /\ owned \in [Threads -> SUBSET Keys]
  /\ rows \in [Keys -> MessageRow]
  /\ tombs \subseteq Keys /\ generations \in Nat
  /\ \A s \in Lineages : Len(s) <= MaxLineage /\ IsInjective(s)

QuoteInit ==
  /\ thread = [t \in Threads |-> NoThread]
  /\ depends = [t \in Threads |-> {}] /\ owned = [t \in Threads |-> {}]
  /\ rows = [k \in Keys |-> NoRow]
  /\ tombs = {} /\ generations = 0

NewGeneration == generations < MaxGenerations /\ generations' = generations + 1

\* The rows that remain when those of the threads in ts are deleted.
RowsWithout(ts) == [k \in Keys |-> IF rows[k].thread \in ts THEN NoRow ELSE rows[k]]
Forgotten(f, ts) == [t \in Threads |-> IF t \in ts THEN {} ELSE f[t]]

\* message(): what may be quoted of k
Visible(k) ==
  /\ rows[k].thread # None
  /\ thread[rows[k].thread].live /\ thread[rows[k].thread].gen = rows[k].gen
  /\ ({k} \cup Range(rows[k].lineage)) \cap tombs = {}

\* The status of a quote of k in thread t: a bot's reply to another requester is shared only if it
\* is a public read.
QuoteOf(t, k) ==
  CASE k = None -> "none"
    [] k # None /\ ~Visible(k) -> "unavailable"
    [] k # None /\ Visible(k) /\ rows[k].thread # t /\ k.bot /\ ~rows[k].public -> "other"
    [] OTHER -> "resolved"

\* The positions of s that hold a key for the first time, and the place each of them gets.
Firsts(s) == {i \in 1..Len(s) : \A j \in 1..(i - 1) : s[j] # s[i]}
Place(s, i) == Cardinality({j \in Firsts(s) : j <= i})
Distinct(s) ==
  [n \in 1..Cardinality(Firsts(s)) |-> s[CHOOSE i \in Firsts(s) : Place(s, i) = n]]
NewestAll(s) == s                        \* faulty: does not truncate
Newest(s) == IF Len(s) > MaxLineage THEN SubSeq(s, Len(s) - MaxLineage + 1, Len(s)) ELSE s

\* A turn starts a new generation when the thread is new or its time is up.
Starts(t) == ~thread[t].live
Dependencies(t, own, k) ==
  Distinct((IF Starts(t) THEN <<>> ELSE thread[t].lineage) \o <<own>>
           \o (IF QuoteOf(t, k) = "resolved" THEN <<k>> \o rows[k].lineage ELSE <<>>))

\* begin for the message own that quotes k.  What an expired thread kept is deleted even if
\* the turn is refused.
Refuses(t, own, k) == own \in tombs \/ Range(Dependencies(t, own, k)) \cap tombs # {}
RefusedBegin(t, own) ==
  LET dropped == IF Starts(t) /\ own \notin tombs THEN {t} ELSE {} IN
  /\ rows' = RowsWithout(dropped)
  /\ depends' = Forgotten(depends, dropped) /\ owned' = Forgotten(owned, dropped)
  /\ UNCHANGED <<thread, tombs, generations>>

RecordedNewest(t, needs) == Range(Newest(needs))    \* faulty: what the lineage still holds
\* What the thread is recorded to depend on is not truncated.
Recorded(t, needs) == (IF Starts(t) THEN {} ELSE depends[t]) \cup Range(needs)

BeginThread(t, own, k) ==
  LET needs == Dependencies(t, own, k)
      kept == RowsWithout(IF Starts(t) THEN {t} ELSE {}) IN
  /\ IF Starts(t) THEN NewGeneration ELSE UNCHANGED generations
  /\ thread' = [thread EXCEPT
       ![t].gen = IF Starts(t) THEN generations' ELSE @, ![t].live = TRUE,
       ![t].clear = @ \/ (Starts(t) /\ thread[t].gen # 0),
       ![t].lineage = Newest(needs)]
  /\ depends' = [depends EXCEPT ![t] = Recorded(t, needs)]
  /\ owned' = [owned EXCEPT ![t] = (IF Starts(t) THEN {} ELSE @) \cup {own}]
  /\ rows' = IF kept[own] # NoRow THEN kept
             ELSE [kept EXCEPT ![own] = [thread |-> t, gen |-> thread'[t].gen, public |-> FALSE,
                                         lineage |-> Newest(needs)]]
  /\ UNCHANGED tombs

\* isCurrent
IsCurrent(t, gen, sources) ==
  thread[t].gen = gen /\ thread[t].live /\ sources \cap tombs = {}

\* recordReply: the reply inherits the lineage its thread has now.
RecordReply(t, gen, sources, reply, public) ==
  IF ~IsCurrent(t, gen, sources) THEN UNCHANGED quoteVars
  ELSE /\ depends' = [depends EXCEPT ![t] = @ \cup {reply}]
       /\ owned' = [owned EXCEPT ![t] = @ \cup {reply}]
       /\ rows' = IF rows[reply] # NoRow THEN rows
                  ELSE [rows EXCEPT ![reply] = [thread |-> t, gen |-> gen, public |-> public,
                                                lineage |-> thread[t].lineage]]
       /\ UNCHANGED <<thread, tombs, generations>>

AcknowledgeClear(t, gen) ==
  thread' = IF thread[t].gen = gen THEN [thread EXCEPT ![t].clear = FALSE, ![t].by = None]
            ELSE thread

\* reset
ResetThread(t) ==
  /\ NewGeneration
  /\ thread' = [thread EXCEPT ![t] = [gen |-> generations', live |-> TRUE, clear |-> TRUE,
                                      by |-> None, lineage |-> <<>>]]
  /\ rows' = RowsWithout({t})
  /\ depends' = Forgotten(depends, {t}) /\ owned' = Forgotten(owned, {t})
  /\ UNCHANGED tombs

\* The threads an unsent message has reached: those that depend on it (or that an earlier delivery
\* of the same event has marked), and those that depend on a message such a thread owns.
Direct(k) ==
  {t \in Threads : \/ k \in depends[t]
                   \/ thread[t].clear /\ thread[t].by = k}
Closed(ts) == \A t \in ts, child \in Threads : depends[child] \cap owned[t] # {} => child \in ts
AffectedDirectly(k) == Direct(k)         \* faulty: does not follow the replies
Affected(k) ==
  {t \in Threads : \A ts \in SUBSET Threads : Direct(k) \subseteq ts /\ Closed(ts) => t \in ts}

\* unsend
UnsendMessage(k) ==
  LET hit == Affected(k) IN
  /\ tombs' = tombs \cup {k}
  /\ IF hit = {} THEN UNCHANGED generations ELSE NewGeneration
  /\ thread' = [t \in Threads |->
       IF t \in hit THEN [thread[t] EXCEPT !.gen = generations', !.lineage = <<>>,
                                           !.clear = TRUE, !.by = k]
       ELSE thread[t]]
  /\ rows' = RowsWithout(hit)
  /\ depends' = Forgotten(depends, hit) /\ owned' = Forgotten(owned, hit)

\* The fifteen minutes of a thread pass; its texts were stored no later.
ThreadExpires(t) ==
  /\ thread[t].live /\ thread' = [thread EXCEPT ![t].live = FALSE]
  /\ UNCHANGED <<depends, owned, rows, tombs, generations>>

=============================================================================
