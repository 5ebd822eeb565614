------------------------- MODULE ConversationContext -------------------------
(***************************************************************************)
(* The conversation context of the helper: a turn opens the quote index    *)
(* (transport/line/quote-context.ts), runs the agent over the checkpoint   *)
(* of its thread under the thread lock (helper-agent/state.ts), answers    *)
(* only if its token is still current, and records the delivered reply.    *)
(* Meanwhile messages are unsent, threads are reset and expire, and        *)
(* processes die.  A checkpoint is abstracted to the messages whose text   *)
(* it holds or was derived from.                                           *)
(***************************************************************************)
EXTENDS QuoteStore

CONSTANTS
  Home,             \* the thread of each message
  Resets,           \* the messages that are /reset
  Public,           \* the messages answered by a public read
  After,            \* the turns whose end the requester waits for before the message
  Unsendable,       \* the messages that may be unsent
  MaxFaults         \* bounds the failures

ASSUME ContextAssumption ==
  /\ Home \in [Messages -> Threads]
  /\ After \in [Messages -> SUBSET Messages]
  /\ Resets \subseteq Messages /\ Public \subseteq Messages
  /\ Unsendable \subseteq Messages /\ MaxFaults \in Nat

VARIABLES
  lock,             \* lock[t]: the turn that holds the thread lock
  meta,             \* agent_sdk_threads: generation of the policy key (0: no row)
  checkpoint,       \* the messages the checkpoint of t holds or derives from
  evidence,         \* the turn whose history evidence the checkpoint holds
  pc, token,        \* the turn of each message and its quote token
  basis,            \* what the reply to a message is derived from
  clearing,         \* the threads the handler of an unsend has still to clear
  again,            \* unsends whose handler failed, delivered again by LINE
  cut,              \* history: what was Unnamed(t) when t lost its dependencies
  faults

contextVars == <<lock, meta, checkpoint, evidence>>
turnVars == <<pc, token, basis>>
unsendVars == <<clearing, again>>
vars == <<quoteVars, contextVars, turnVars, unsendVars, cut, faults>>

Meta == [gen : Nat, live : BOOLEAN, dirty : BOOLEAN]
NoMeta == [gen |-> 0, live |-> FALSE, dirty |-> FALSE]
Token == [gen : Nat, sources : SUBSET Keys]
NoToken == [gen |-> 0, sources |-> {}]
Steps == {"new", "begin", "clear", "acknowledge", "enter", "run", "searched", "ran", "threw",
          "fence", "sent", "deliver", "delivered", "done"}

ContextTypeOK ==
  /\ QuoteTypeOK
  /\ lock \in [Threads -> Messages \cup {None}]
  /\ meta \in [Threads -> Meta]
  /\ checkpoint \in [Threads -> SUBSET Messages]
  /\ evidence \in [Threads -> Messages \cup {None}]
  /\ pc \in [Messages -> Steps] /\ token \in [Messages -> Token]
  /\ basis \in [Messages -> SUBSET Messages]
  /\ clearing \in [Messages -> SUBSET Threads] /\ again \subseteq Messages
  /\ cut \subseteq Messages
  /\ faults \in Nat

\* Some of the messages never come, and some of the failures do not happen.
ContextInit ==
  /\ QuoteInit
  /\ lock = [t \in Threads |-> None] /\ meta = [t \in Threads |-> NoMeta]
  /\ checkpoint = [t \in Threads |-> {}] /\ evidence = [t \in Threads |-> None]
  /\ pc \in [Messages -> {"new", "done"}] /\ token = [m \in Messages |-> NoToken]
  /\ basis = [m \in Messages |-> {}]
  /\ clearing = [m \in Messages |-> {}] /\ again = {} /\ cut = {}
  /\ faults \in 0..MaxFaults

\* The token is forgotten with the turn.
Goto(m, step) ==
  /\ pc' = [pc EXCEPT ![m] = step]
  /\ token' = IF step = "done" THEN [token EXCEPT ![m] = NoToken] ELSE token
Fault == faults < MaxFaults /\ faults' = faults + 1
Current(m) == IsCurrent(Home[m], token[m].gen, token[m].sources)

DeleteCheckpoint(t) ==
  /\ checkpoint' = [checkpoint EXCEPT ![t] = {}]
  /\ evidence' = [evidence EXCEPT ![t] = None]

\* state.reset, under the thread lock: checkpoint and metadata
ClearThread(t) ==
  /\ lock[t] = None
  /\ DeleteCheckpoint(t)
  /\ meta' = [meta EXCEPT ![t] = NoMeta]
  /\ UNCHANGED lock

-----------------------------------------------------------------------------
(* The turn of message m *)

Comes(m) == pc[m] = "new" /\ \A n \in After[m] : pc[n] = "done"

\* What the text of k derives from.
TextOf(k) == IF k.bot THEN basis[k.of] ELSE {k.of}

\* What a reply of t derives from and its row, shortened to MaxLineage keys, does not name: whoever
\* quotes the reply is told of its unsend only as long as t is.
Unnamed(t) ==
  {n \in Messages : \E k \in Keys : /\ k.bot /\ rows[k].thread = t
                                  /\ n \in TextOf(k) /\ User(n) \notin Range(rows[k].lineage)}

\* A /reset resets the thread before it begins.
ResetFirst(m) ==
  /\ Comes(m) /\ m \in Resets
  /\ ResetThread(Home[m]) /\ Goto(m, "begin")
  /\ cut' = cut \cup Unnamed(Home[m])
  /\ UNCHANGED <<contextVars, basis, unsendVars, faults>>

\* A /reset is answered without the agent, from no text.
Answering(m) == IF m \in Resets THEN "fence" ELSE "enter"

\* prepareQuoteContext: begin, quoting nothing or any message there is
Begin(m) ==
  /\ IF m \in Resets THEN pc[m] = "begin" ELSE Comes(m)
  /\ \E k \in {None} \cup {q \in Keys : rows[q] # NoRow} :
       IF Refuses(Home[m], User(m), k)
       THEN RefusedBegin(Home[m], User(m)) /\ Goto(m, "done") /\ UNCHANGED basis
       ELSE /\ BeginThread(Home[m], User(m), k)
            /\ token' = [token EXCEPT ![m] = [gen |-> thread'[Home[m]].gen,
                                              sources |-> Range(thread'[Home[m]].lineage)]]
            /\ basis' = [basis EXCEPT ![m] =
                 IF m \in Resets THEN {}
                 ELSE {m} \cup (IF QuoteOf(Home[m], k) = "resolved" THEN TextOf(k) ELSE {})]
            /\ pc' = [pc EXCEPT ![m] = IF thread'[Home[m]].clear THEN "clear" ELSE Answering(m)]
  /\ cut' = IF Starts(Home[m]) /\ User(m) \notin tombs THEN cut \cup Unnamed(Home[m]) ELSE cut
  /\ UNCHANGED <<contextVars, unsendVars, faults>>

\* A thread that was reset, withdrawn from or left alone loses its checkpoint first.
Clear(m) ==
  /\ pc[m] = "clear"
  /\ ClearThread(Home[m]) /\ Goto(m, "acknowledge")
  /\ UNCHANGED <<quoteVars, basis, unsendVars, cut, faults>>

Acknowledge(m) ==
  /\ pc[m] = "acknowledge"
  /\ AcknowledgeClear(Home[m], token[m].gen)
  /\ Goto(m, Answering(m))
  /\ UNCHANGED <<depends, owned, rows, tombs, generations, contextVars, basis,
                 unsendVars, cut, faults>>

DroppedUnlessDirty(m, t) ==              \* faulty: keeps what a dead turn left
  meta[t].gen # 0 /\ (~meta[t].live \/ (~meta[t].dirty /\ meta[t].gen # token[m].gen))

\* run: take the lock, look at the token, drop a checkpoint of another generation, one left by a
\* turn that died with history in it, or one idle too long
Dropped(m, t) == meta[t].gen # 0 /\ (~meta[t].live \/ meta[t].dirty \/ meta[t].gen # token[m].gen)

Enter(m) ==
  /\ pc[m] = "enter" /\ lock[Home[m]] = None
  /\ IF Current(m)
     THEN /\ lock' = [lock EXCEPT ![Home[m]] = m] /\ Goto(m, "run")
          /\ IF Dropped(m, Home[m]) THEN DeleteCheckpoint(Home[m])
             ELSE UNCHANGED <<checkpoint, evidence>>
          /\ meta' = IF Dropped(m, Home[m]) \/ meta[Home[m]].gen = 0
                     THEN [meta EXCEPT ![Home[m]] = [gen |-> token[m].gen, live |-> TRUE,
                                                     dirty |-> FALSE]]
                     ELSE meta
     ELSE Goto(m, "done") /\ UNCHANGED contextVars
  /\ UNCHANGED <<quoteVars, basis, unsendVars, cut, faults>>

\* The agent searches the group history: the context is marked before evidence enters it.
SearchHistory(m) ==
  /\ pc[m] = "run"
  /\ meta' = [meta EXCEPT ![Home[m]].dirty = meta[Home[m]].gen # 0]
  /\ evidence' = [evidence EXCEPT ![Home[m]] = m]
  /\ Goto(m, "searched")
  /\ UNCHANGED <<quoteVars, lock, checkpoint, basis, unsendVars, cut, faults>>

\* The agent has the checkpoint, the text and the quote before it, and saves them.
Remember(m) ==
  checkpoint' = [checkpoint EXCEPT ![Home[m]] = @ \cup basis[m]]

\* After a search everything but the question is removed again, and then the mark.
WithoutEvidence(m) ==
  /\ evidence' = [evidence EXCEPT ![Home[m]] = IF pc[m] = "searched" THEN None ELSE @]
  /\ meta' = [meta EXCEPT ![Home[m]].dirty = @ /\ pc[m] # "searched"]

Answer(m) ==
  /\ pc[m] \in {"run", "searched"}
  /\ Remember(m) /\ WithoutEvidence(m)
  /\ basis' = [basis EXCEPT ![m] = @ \cup checkpoint[Home[m]]]
  /\ Goto(m, "ran")
  /\ UNCHANGED <<quoteVars, lock, unsendVars, cut, faults>>

\* The run throws; the cleanup of its evidence may throw too.
AnswerFails(m) ==
  /\ pc[m] \in {"run", "searched"} /\ Fault
  /\ Remember(m)
  /\ WithoutEvidence(m) \/ UNCHANGED <<evidence, meta>>
  /\ basis' = [basis EXCEPT ![m] = {}]
  /\ Goto(m, "threw")
  /\ UNCHANGED <<quoteVars, lock, unsendVars, cut>>

\* guardedTask looks at the token once more; a run that succeeded renews the metadata.
Leave(m) ==
  /\ pc[m] \in {"ran", "threw"}
  /\ lock' = [lock EXCEPT ![Home[m]] = None]
  /\ IF Current(m)
     THEN /\ Goto(m, "fence") /\ UNCHANGED <<checkpoint, evidence>>
          /\ meta' = IF pc[m] = "threw" THEN meta
                     ELSE [meta EXCEPT ![Home[m]] = [gen |-> token[m].gen, live |-> TRUE,
                                                     dirty |-> FALSE]]
     ELSE Goto(m, "done") /\ DeleteCheckpoint(Home[m]) /\ UNCHANGED meta
  /\ UNCHANGED <<quoteVars, basis, unsendVars, cut, faults>>

\* replyText answers only if the token is current.
Fence(m) ==
  /\ pc[m] = "fence"
  /\ Goto(m, IF Current(m) THEN "sent" ELSE "done")
  /\ UNCHANGED <<quoteVars, contextVars, basis, unsendVars, cut, faults>>

\* The reply becomes quotable; a failure of the index is ignored.
Record(m) ==
  /\ pc[m] = "sent" /\ Goto(m, "deliver")
  /\ \/ /\ RecordReply(Home[m], token[m].gen, token[m].sources, Bot(m), m \in Public)
        /\ UNCHANGED faults
     \/ Fault /\ UNCHANGED quoteVars
  /\ UNCHANGED <<contextVars, basis, unsendVars, cut>>

\* recordDeliveredReply, after the answer and perhaps behind another turn
Deliver(m) ==
  /\ pc[m] = "deliver" /\ lock[Home[m]] = None
  /\ IF meta[Home[m]].live /\ Current(m)
     THEN /\ lock' = [lock EXCEPT ![Home[m]] = m] /\ Goto(m, "delivered") /\ Remember(m)
     ELSE Goto(m, "done") /\ UNCHANGED <<lock, checkpoint>>
  /\ UNCHANGED <<quoteVars, meta, evidence, basis, unsendVars, cut, faults>>

LeaveDelivery(m) ==
  /\ pc[m] = "delivered" /\ Goto(m, "done")
  /\ lock' = [lock EXCEPT ![Home[m]] = None]
  /\ IF Current(m) THEN UNCHANGED <<checkpoint, evidence>> ELSE DeleteCheckpoint(Home[m])
  /\ UNCHANGED <<quoteVars, meta, basis, unsendVars, cut, faults>>

\* The process of the turn dies; the lock goes with its connection.  The event may come again
\* if no answer was sent.
Die(m) ==
  /\ pc[m] \notin {"new", "done"} /\ Fault
  /\ lock' = [lock EXCEPT ![Home[m]] = IF @ = m THEN None ELSE @]
  /\ \/ Goto(m, "done") /\ UNCHANGED basis
     \/ /\ pc[m] \notin {"sent", "deliver", "delivered"}
        /\ Goto(m, "new") /\ basis' = [basis EXCEPT ![m] = {}]
  /\ UNCHANGED <<quoteVars, meta, checkpoint, evidence, unsendVars, cut>>

Turn(m) ==
  \/ ResetFirst(m) \/ Begin(m) \/ Clear(m) \/ Acknowledge(m) \/ Enter(m)
  \/ Answer(m) \/ Leave(m) \/ Fence(m) \/ Record(m) \/ Deliver(m) \/ LeaveDelivery(m)

-----------------------------------------------------------------------------
(* Unsent messages and time *)

\* The handler of an unsend withdraws m and then clears the threads it has reached, one by one.
Unsend(m) ==
  /\ m \in Unsendable /\ (User(m) \notin tombs \/ m \in again)
  /\ UnsendMessage(User(m))
  /\ clearing' = [clearing EXCEPT ![m] = Affected(User(m))]
  /\ again' = again \ {m}
  /\ UNCHANGED <<contextVars, turnVars, cut, faults>>

ClearAffected(m, t) ==
  /\ t \in clearing[m]
  /\ ClearThread(t)
  /\ clearing' = [clearing EXCEPT ![m] = @ \ {t}]
  /\ UNCHANGED <<quoteVars, turnVars, again, cut, faults>>

\* It fails or its process dies: LINE gets no success and may deliver the event again.
UnsendFails(m) ==
  /\ clearing[m] # {} /\ Fault
  /\ clearing' = [clearing EXCEPT ![m] = {}]
  /\ again' = again \cup {m}
  /\ UNCHANGED <<quoteVars, contextVars, turnVars, cut>>

Expire(t) ==
  ThreadExpires(t) /\ UNCHANGED <<contextVars, turnVars, unsendVars, cut, faults>>

\* A checkpoint that was not used for as long as a thread lives expires and is cleaned up.
Idle(t) ==
  /\ meta[t].gen # 0 /\ meta[t].live
  /\ meta' = [meta EXCEPT ![t].live = FALSE]
  /\ UNCHANGED <<quoteVars, lock, checkpoint, evidence, turnVars, unsendVars, cut, faults>>

Cleanup(t) ==
  /\ meta[t].gen # 0 /\ ~meta[t].live
  /\ ClearThread(t)
  /\ UNCHANGED <<quoteVars, turnVars, unsendVars, cut, faults>>

ContextNext ==
  \/ \E m \in Messages : \/ Turn(m) \/ SearchHistory(m) \/ AnswerFails(m) \/ Die(m)
                         \/ Unsend(m) \/ UnsendFails(m)
                         \/ \E t \in Threads : ClearAffected(m, t)
  \/ \E t \in Threads : Expire(t) \/ Idle(t) \/ Cleanup(t)

ContextSpec == ContextInit /\ [][ContextNext]_vars

-----------------------------------------------------------------------------
Withdrawn == {m \in Messages : User(m) \in tombs}

\* An answer passes the fence only if nothing it was derived from, in this turn, in an earlier
\* one or in a quoted reply of another requester, has been unsent (quote-context.ts 54-61), except
\* what was cut.
NothingWithdrawnIsAnswered ==
  [][\A m \in Messages :
       pc[m] = "fence" /\ pc'[m] = "sent" => basis[m] \cap Withdrawn \subseteq cut]_vars

\* A checkpoint that the next run would go on with holds no message that is unsent, and only
\* messages whose unsend would reach its thread, through quoted replies too, except what was cut: a
\* row names the newest MaxLineage keys only, and what the quoted thread depended on is deleted
\* when it starts again (quotes/postgres-store.ts 119-126, 196).  A checkpoint without metadata, which neither a run nor the cleanup would look at, is empty (helper-agent/state.ts
\* 141-186, quotes/postgres-store.ts 357-373).
ContextIsTracked ==
  \A t \in Threads :
    /\ meta[t].gen = 0 => checkpoint[t] = {}
    /\ /\ lock[t] = None /\ meta[t].gen = thread[t].gen
       /\ meta[t].live /\ ~meta[t].dirty /\ thread[t].live
       => \A m \in checkpoint[t] \ cut : m \notin Withdrawn /\ t \in Affected(User(m))

\* History evidence is seen by the turn that looked it up and by no other, whatever dies
\* (runtime.ts 626-640, 800-822).
EvidenceStaysInItsTurn ==
  \A m \in Messages : pc[m] \in {"run", "ran"} => evidence[Home[m]] = None

=============================================================================
