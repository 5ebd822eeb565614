---------------------------- MODULE GroupHistory ----------------------------
(***************************************************************************)
(* The shared history of registered groups (src/history/postgres.ts):      *)
(* messages and unsends pass a bounded queue of each process into          *)
(* PostgreSQL, under the configuration the process was started with; the   *)
(* oldest rows are evicted, obsolete rows are purged, and an answer built  *)
(* on history, whose text may become an anchor of later answers, is        *)
(* validated again before it is sent.  Times are numbers, one for each     *)
(* event; texts are abstracted to the messages they derive from, sizes in  *)
(* bytes to numbers of rows.                                               *)
(***************************************************************************)
EXTENDS Naturals, Sequences, FiniteSets, SequencesExt

CONSTANTS
  Processes,        \* the processes that serve the webhook
  Groups,           \* the groups with a policy
  Messages,         \* \subseteq Nat: messages, ordered by the time they were sent
  Answers,          \* answers built on history
  GroupOf,          \* the group of a message or answer
  Configs,          \* the configurations, in the order of their generations
  Reaches,          \* the messages whose events are delivered to a process
  MaxQueue,         \* bound of the collector's queue
  Batch,            \* rows an eviction deletes
  None

Policy == [revision : Nat, since : Nat, on : BOOLEAN, groupCap : Nat, totalCap : Nat]
Keys == Messages \cup Answers

ASSUME HistoryAssumption ==
  /\ Messages \subseteq Nat /\ Messages \cap Answers = {} /\ None \notin Keys
  /\ \E m \in Messages : \A n \in Messages : n <= m
  /\ GroupOf \in [Keys -> Groups] /\ Reaches \in [Processes -> SUBSET Messages]
  /\ Configs \in Seq(Policy) /\ Configs # <<>>
  /\ MaxQueue \in Nat \ {0} /\ Batch \in Nat \ {0}

\* Message m was sent at 2m and unsent right after it; answers are given after all messages.
SentAt(m) == 2 * m
UnsentAt(m) == 2 * m + 1
Latest(times) == CHOOSE t \in times : \A u \in times : u <= t
Now == 2 * Latest(Messages) + 2

Event == [kind : {"message", "unsend"}, of : Messages]
AtOf(e) == IF e.kind = "unsend" THEN UnsentAt(e.of) ELSE SentAt(e.of)

VARIABLES
  config, queue,    \* the configuration and the collector's queue of each process; configuration
                    \* 0 is that of a process that does not run
  control,          \* group_history_control.generation
  policy,           \* group_history_policy: the configuration in force and the floors
  rows,             \* group_history_message
  horizon,          \* what was sent before it is older than the retention
  answer,           \* the answers in progress
  gone              \* messages whose withdrawal was stored, or that were evicted

vars == <<config, queue, control, policy, rows, horizon, answer, gone>>

Row == [revision : Nat, at : Nat, withdrawn : BOOLEAN, text : BOOLEAN, human : BOOLEAN,
        sources : SUBSET Keys, basis : SUBSET Messages]
NoRow == [revision |-> 0, at |-> 0, withdrawn |-> FALSE, text |-> FALSE, human |-> FALSE,
          sources |-> {}, basis |-> {}]
PolicyRow == [revision : Nat, on : BOOLEAN, floor : [Groups -> Nat]]
AnswerState ==
  [step : {"idle", "answered", "sent", "vouched", "done"}, by : Processes \cup {None}, revision : Nat,
   sources : SUBSET Keys, basis : SUBSET Messages]
NoAnswer == [step |-> "idle", by |-> None, revision |-> 0, sources |-> {}, basis |-> {}]

HistoryTypeOK ==
  /\ config \in [Processes -> 0..Len(Configs)]
  /\ queue \in [Processes -> Seq(Event)] /\ \A p \in Processes : Len(queue[p]) <= MaxQueue
  /\ control \in 1..Len(Configs)
  /\ policy \in PolicyRow
  /\ rows \in [Keys -> Row]
  /\ horizon \in Nat
  /\ answer \in [Answers -> AnswerState]
  /\ gone \subseteq Messages

\* The first configuration has been synchronized by the processes that run; some answers are never
\* asked for.
HistoryInit ==
  /\ config \in [Processes -> {0, 1}] /\ queue = [p \in Processes |-> <<>>]
  /\ control = 1
  /\ policy = [revision |-> Configs[1].revision, on |-> Configs[1].on,
               floor |-> [g \in Groups |-> 0]]
  /\ rows = [k \in Keys |-> NoRow]
  /\ horizon = 0
  /\ answer \in [Answers -> {NoAnswer, [NoAnswer EXCEPT !.step = "done"]}]
  /\ gone = {}

-----------------------------------------------------------------------------
(* Configuration *)

\* synchronize, when p is started with configuration c: an older one changes nothing.  What p had
\* queued or was answering is lost with its old process.
Synchronize(p, c) ==
  /\ config[p] \notin {0, c}
  /\ config' = [config EXCEPT ![p] = c]
  /\ queue' = [queue EXCEPT ![p] = <<>>]
  /\ answer' = [a \in Answers |->
       IF answer[a].by = p /\ answer[a].step # "done" THEN [answer[a] EXCEPT !.step = "done"]
       ELSE answer[a]]
  /\ IF c < control THEN UNCHANGED <<control, policy>>
     ELSE /\ control' = c
          /\ policy' = [policy EXCEPT
               !.revision = IF Configs[c].on THEN Configs[c].revision ELSE @,
               !.on = Configs[c].on]
  /\ UNCHANGED <<rows, horizon, gone>>

\* What p knows is what is in force.
InForce(p) ==
  /\ config[p] = control
  /\ policy.on /\ policy.revision = Configs[config[p]].revision

-----------------------------------------------------------------------------
(* Collection *)

\* The webhook handler of p collects every delivery of an event, duplicates included, before
\* anything else; a full queue drops it.
Collect(p, e) ==
  /\ e.of \in Reaches[p]
  /\ config[p] # 0 /\ Configs[config[p]].on
  /\ Len(queue[p]) < MaxQueue
  /\ queue' = [queue EXCEPT ![p] = Append(@, e)]
  /\ UNCHANGED <<config, control, policy, rows, horizon, answer, gone>>

\* A conflict keeps the stored text unless it is withdrawn, and the marker of a withdrawal.
Merged(old, new) ==
  [old EXCEPT !.withdrawn = @ \/ new.withdrawn, !.text = @ /\ ~new.withdrawn]
Upserted(k, new) ==
  [rows EXCEPT ![k] = IF rows[k] = NoRow THEN new ELSE Merged(rows[k], new)]

Stored(table, ks) == {k \in ks : table[k] # NoRow}
KeysOf(g) == {k \in Keys : GroupOf[k] = g}

Over(table, g, c) ==
  \/ Cardinality(Stored(table, KeysOf(g))) > Configs[c].groupCap
  \/ Cardinality(Stored(table, Keys)) > Configs[c].totalCap
\* A group over its own bound loses its own rows, else the oldest of all groups go.
Candidates(table, g, c) ==
  Stored(table, IF Cardinality(Stored(table, KeysOf(g))) > Configs[c].groupCap
                THEN KeysOf(g) ELSE Keys)
Oldest(table, g, c) ==
  IF ~Over(table, g, c) THEN {{}}
  ELSE {ks \in SUBSET Candidates(table, g, c) :
          /\ Cardinality(ks) = IF Cardinality(Candidates(table, g, c)) < Batch
                               THEN Cardinality(Candidates(table, g, c)) ELSE Batch
          /\ \A k \in ks, other \in Candidates(table, g, c) \ ks : table[k].at <= table[other].at}
Without(table, ks) == [k \in Keys |-> IF k \in ks THEN NoRow ELSE table[k]]

RaisedOnlyOwn(table, ks, g) ==           \* faulty: only the group of the message
  [h \in Groups |->
     IF h = g THEN Latest({table[k].at + 1 : k \in ks \cap KeysOf(h)} \cup {policy.floor[h]})
     ELSE policy.floor[h]]

\* The floor of each group that lost rows moves past the newest of them.
Raised(table, ks, g) ==
  [h \in Groups |-> Latest({table[k].at + 1 : k \in ks \cap KeysOf(h)} \cup {policy.floor[h]})]

\* ingest of key k by p.  It has no effect under a configuration that is not in force, below the
\* floor, or if one eviction does not make enough room (the transaction is rolled back).
Accepts(p, k, at) ==
  /\ at >= Configs[config[p]].since /\ at >= horizon
  /\ InForce(p) /\ at >= policy.floor[GroupOf[k]]
Ingest(p, k, new) ==
  LET table == Upserted(k, new) IN
  IF ~Accepts(p, k, new.at) THEN UNCHANGED <<policy, rows, gone>>
  ELSE \E ks \in Oldest(table, GroupOf[k], config[p]) :
         IF Over(Without(table, ks), GroupOf[k], config[p]) THEN UNCHANGED <<policy, rows, gone>>
         ELSE /\ rows' = Without(table, ks)
              /\ policy' = [policy EXCEPT !.floor = Raised(table, ks, GroupOf[k])]
              /\ gone' = gone \cup (ks \cap Messages) \cup (IF new.withdrawn THEN {k} ELSE {})

\* The collector takes the next event of its queue.
Drain(p) ==
  /\ queue[p] # <<>>
  /\ queue' = [queue EXCEPT ![p] = Tail(@)]
  /\ LET e == Head(queue[p]) IN
     Ingest(p, e.of, [revision |-> Configs[config[p]].revision, at |-> AtOf(e),
                      withdrawn |-> e.kind = "unsend", text |-> e.kind = "message",
                      human |-> TRUE, sources |-> {},
                      basis |-> IF e.kind = "message" THEN {e.of} ELSE {}])
  /\ UNCHANGED <<config, control, horizon, answer>>

\* An event that meets a failing authorization or a lock or statement timeout is not repeated.
Lose(p) ==
  /\ queue[p] # <<>>
  /\ queue' = [queue EXCEPT ![p] = Tail(@)]
  /\ UNCHANGED <<config, control, policy, rows, horizon, answer, gone>>

\* purge: expired rows and those of a policy that is not in force
Obsolete(k) ==
  /\ rows[k] # NoRow
  /\ rows[k].at < horizon \/ ~policy.on \/ rows[k].revision # policy.revision
Purge ==
  /\ \E ks \in SUBSET {k \in Keys : Obsolete(k)} : ks # {} /\ rows' = Without(rows, ks)
  /\ UNCHANGED <<config, queue, control, policy, horizon, answer, gone>>

\* The retention moves on past the oldest message.
GrowOld ==
  /\ horizon < Now /\ horizon' = horizon + 2
  /\ UNCHANGED <<config, queue, control, policy, rows, answer, gone>>

-----------------------------------------------------------------------------
(* Answers *)

\* The rows that a process with the policy in force may use.
Live(k) ==
  /\ rows[k].text /\ ~rows[k].withdrawn
  /\ rows[k].revision = policy.revision
  /\ rows[k].at >= policy.floor[GroupOf[k]] /\ rows[k].at >= horizon
Humans(g) == {k \in KeysOf(g) : Live(k) /\ rows[k].human}

\* validate: every source is still a live row
Valid(p, revision, sources) ==
  /\ InForce(p) /\ revision = Configs[config[p]].revision
  /\ \A k \in sources : Live(k)

Anchors(p, g) ==
  {k \in KeysOf(g) : Live(k) /\ ~rows[k].human /\ Valid(p, policy.revision, rows[k].sources)}

SourcesShown(ks) == ks                   \* faulty: forgets what the anchors depend on

\* The sources of an answer are the rows it shows and what its anchors depend on.
Sources(ks) == ks \cup UNION {rows[k].sources : k \in ks}

\* search: some of the human rows, and anchors among the replies they quote
Search(p, a) ==
  /\ answer[a].step = "idle"
  /\ InForce(p)
  /\ \E hits \in SUBSET Humans(GroupOf[a]), quoted \in SUBSET Anchors(p, GroupOf[a]) :
       /\ hits # {}
       /\ answer' = [answer EXCEPT ![a] =
            [step |-> "answered", by |-> p, revision |-> policy.revision,
             sources |-> Sources(hits \cup quoted),
             basis |-> UNION {rows[k].basis : k \in hits \cup quoted}]]
  /\ UNCHANGED <<config, queue, control, policy, rows, horizon, gone>>

\* replyText sends the answer if every source is still valid; it did so once before, after the run.
Send(a) ==
  /\ answer[a].step = "answered"
  /\ answer' = [answer EXCEPT ![a].step =
       IF Valid(answer[a].by, answer[a].revision, answer[a].sources) THEN "sent" ELSE "done"]
  /\ UNCHANGED <<config, queue, control, policy, rows, horizon, gone>>

\* recordReply: the sources are validated once more, and then the answer becomes an anchor that
\* depends on them; a failure of either is ignored.
Vouch(a) ==
  /\ answer[a].step = "sent"
  /\ \E step \in {"vouched", "done"} :
       /\ step = "vouched" => Valid(answer[a].by, answer[a].revision, answer[a].sources)
       /\ answer' = [answer EXCEPT ![a].step = step]
  /\ UNCHANGED <<config, queue, control, policy, rows, horizon, gone>>
RecordAnswer(a) ==
  /\ answer[a].step = "vouched"
  /\ answer' = [answer EXCEPT ![a].step = "done"]
  /\ LET p == answer[a].by IN
     \/ Ingest(p, a, [revision |-> Configs[config[p]].revision, at |-> Now,
                      withdrawn |-> FALSE, text |-> TRUE, human |-> FALSE,
                      sources |-> answer[a].sources, basis |-> answer[a].basis])
     \/ UNCHANGED <<policy, rows, gone>>
  /\ UNCHANGED <<config, queue, control, horizon>>

HistoryNext ==
  \/ \E p \in Processes :
       \/ \E c \in 1..Len(Configs) : Synchronize(p, c)
       \/ \E e \in Event : Collect(p, e)
       \/ Drain(p) \/ Lose(p)
       \/ \E a \in Answers : Search(p, a)
  \/ \E a \in Answers : Send(a) \/ Vouch(a) \/ RecordAnswer(a)
  \/ Purge \/ GrowOld

HistorySpec == HistoryInit /\ [][HistoryNext]_vars

-----------------------------------------------------------------------------
\* An answer is sent only if every message it was derived from, through anchors as well, may still
\* be read under the policy in force (quote-context.ts 54-61, postgres.ts 418-440).
SentAnswersAreLive ==
  [][\A a \in Answers : answer[a].step = "answered" /\ answer'[a].step = "sent"
       => answer[a].basis \subseteq Humans(GroupOf[a])]_vars

\* The group's policy has one revision, and once it is removed it does not come back.
OnePolicy ==
  \A c, d \in DOMAIN Configs : /\ Configs[c].revision = Configs[d].revision
                               /\ c <= d /\ Configs[d].on => Configs[c].on

\* What was withdrawn or evicted is never read again, however late and however often its message
\* is delivered (docs/runbooks/group-history.md:22-23).
LateMessagesStayGone == policy.on => \A k \in gone : ~Live(k)
=============================================================================
