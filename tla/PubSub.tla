------------------------------- MODULE PubSub -------------------------------
(***************************************************************************)
(* bus/mod.rs: subscribe, unsubscribe and publish of InMemoryBus, and what *)
(* micro_agent.rs does with them.  After each reply a micro agent saves    *)
(* its output in private memory and in every partition it may write, then  *)
(* publishes it; the handler of its own subscriptions saves the events.    *)
(* Handlers run in tasks of their own, under the delivery policy.          *)
(***************************************************************************)
EXTENDS AgentMemory

CONSTANTS
    Topics,
    Sources,      \* agents that publish
    Me,           \* the source that is the micro agent
    MayPublish,   \* bus_config.publish of a source, as in its profile; {} allows all
    MaySubscribe, \* bus_config.subscribe
    Attempts,     \* 1 at most once, AT_LEAST_ONCE_PUBLISH_ATTEMPTS at least once
    MaxEvents,    \* bound: events published
    MaxSpawns,    \* bound: subscriptions when a micro agent is spawned
    MaxSubs       \* bound: subscriptions of all

ASSUME PubSubAssumption ==
    /\ Attempts \in Nat \ {0} /\ Me \in Sources
    /\ MaxEvents \in Nat /\ MaxSubs \in Nat

VARIABLES
    registered,   \* sources in the bus's table
    subs,         \* topic -> sequence of [sub, stores]; stores: saves the event
    nextSub,
    nextEvent,
    checked,      \* publish calls between their two locks: [event, topic]
    tasks,        \* deliveries: [event, sub, stores, attempt]
    owed,         \* history: <<event, sub>> spawned
    runs,         \* history: handler runs of an <<event, sub>>
    handled,      \* history: the ones that succeeded
    sqlite,       \* the micro agents use SqliteMemory, not InMemoryMemory
    loop          \* what a micro agent has still to do after its reply

busVars    == <<registered, subs, nextSub, nextEvent, checked, tasks, owed, runs, handled,
                sqlite>>
pubSubVars == <<memoryVars, busVars, loop>>

PubSubInit ==
    /\ MemoryInit
    /\ registered = Sources
    /\ subs = [t \in Topics |-> <<>>]
    /\ nextSub = 1
    /\ nextEvent = 1
    /\ checked = {}
    /\ tasks = {}
    /\ owed = {}
    /\ runs = [x \in (1..MaxEvents) \X (1..MaxSubs) |-> 0]
    /\ handled = {}
    /\ sqlite \in BOOLEAN
    /\ loop = <<>>

----------------------------------------------------------------------------
(* The bus *)

\* A list that is empty, or of an agent that is not registered, allows all.
Allowed(list, agent, topic) == agent \in registered /\ list[agent] # {} => topic \in list[agent]

Deregister(a) ==
    /\ a \in registered
    /\ registered' = registered \ {a}
    /\ UNCHANGED <<memoryVars, subs, nextSub, nextEvent, checked, tasks, owed, runs, handled, sqlite, loop>>

\* A caller without an id is not checked; nothing stops a second
\* subscription of the same agent.
Subscribe(t, stores) ==
    /\ nextSub <= MaxSubs
    /\ subs' = [subs EXCEPT ![t] = Append(@, [sub |-> nextSub, stores |-> stores])]
    /\ nextSub' = nextSub + 1
    /\ UNCHANGED <<memoryVars, registered, nextEvent, checked, tasks, owed, runs, handled, sqlite, loop>>

\* spawn subscribes to the topics of the profile, unchecked.
SpawnSubscribes(t) ==
    /\ t \in MaySubscribe[Me] /\ nextSub <= MaxSpawns
    /\ Subscribe(t, TRUE)

SubscribeAs(a, t) == Allowed(MaySubscribe, a, t) /\ Subscribe(t, FALSE)

\* Every handler of the topic goes, whoever subscribed it.
Unsubscribe(t) ==
    /\ subs[t] # <<>>
    /\ subs' = [subs EXCEPT ![t] = <<>>]
    /\ UNCHANGED <<memoryVars, registered, nextSub, nextEvent, checked, tasks, owed, runs,
                   handled, sqlite, loop>>

\* publish, up to the release of the agents' lock.
CheckPublish(a, t) ==
    /\ nextEvent <= MaxEvents
    /\ Allowed(MayPublish, a, t)
    /\ checked' = checked \cup {[event |-> nextEvent, topic |-> t]}
    /\ nextEvent' = nextEvent + 1
    /\ UNCHANGED <<registered, subs, nextSub, tasks, owed, runs, handled, sqlite>>

Publish(a, t) == CheckPublish(a, t) /\ UNCHANGED <<memoryVars, loop>>

\* publish, with the subscribers of that moment.
FanOut(p) ==
    /\ p \in checked
    /\ checked' = checked \ {p}
    /\ tasks' = tasks \cup {[event |-> p.event, sub |-> s.sub, stores |-> s.stores, attempt |-> 1] :
                              s \in ToSet(subs[p.topic])}
    /\ owed' = owed \cup {<<p.event, s.sub>> : s \in ToSet(subs[p.topic])}
    /\ UNCHANGED <<memoryVars, registered, subs, nextSub, nextEvent, runs, handled, sqlite, loop>>

----------------------------------------------------------------------------
(* Delivery tasks *)

Key(t) == <<t.event, t.sub>>

HandlerOk(t) ==
    /\ tasks' = tasks \ {t}
    /\ runs' = [runs EXCEPT ![Key(t)] = @ + 1]
    /\ handled' = handled \cup {Key(t)}
    /\ UNCHANGED <<registered, subs, nextSub, nextEvent, checked, owed, sqlite, loop>>

\* Mutant of HandlerFails: one attempt too many.
HandlerFailsLate(t) ==
    /\ tasks' = (tasks \ {t}) \cup
                (IF t.attempt > Attempts THEN {} ELSE {[t EXCEPT !.attempt = @ + 1]})
    /\ runs' = [runs EXCEPT ![Key(t)] = @ + 1]
    /\ UNCHANGED <<registered, subs, nextSub, nextEvent, checked, owed, handled, sqlite, loop>>

\* A handler that failed runs again after a pause, up to the last attempt.
HandlerFails(t) ==
    /\ tasks' = (tasks \ {t}) \cup
                (IF t.attempt = Attempts THEN {} ELSE {[t EXCEPT !.attempt = @ + 1]})
    /\ runs' = [runs EXCEPT ![Key(t)] = @ + 1]
    /\ UNCHANGED <<registered, subs, nextSub, nextEvent, checked, owed, handled, sqlite, loop>>

\* A caller's own handler succeeds or fails.
RunHandler(t) ==
    /\ t \in tasks /\ ~t.stores
    /\ HandlerOk(t) \/ HandlerFails(t)
    /\ UNCHANGED memoryVars

\* The handler of a micro agent saves the event and always succeeds.
StoreEvent(t, c) ==
    /\ t \in tasks /\ t.stores
    /\ IF sqlite THEN BeginSave(c, [what |-> "event", ms |-> now], t.event, Private)
       ELSE SaveInMemory([what |-> "event", ms |-> now], t.event)
    /\ HandlerOk(t)

----------------------------------------------------------------------------
(* micro_agent_loop after a reply: save, share, publish, in this order *)

Replied ==
    /\ loop = <<>> /\ nextEvent <= MaxEvents
    /\ loop' = <<Private>> \o SetToSeq(Access.write) \o SetToSeq(MayPublish[Me])
    /\ UNCHANGED <<memoryVars, busVars>>

\* save_shared, which only SqliteMemory has, refuses a partition without
\* write access.  The word of an output is the first event it will be
\* published as.
SaveOutput(c) ==
    /\ loop # <<>> /\ Head(loop) \notin Topics
    /\ LET id == [what |-> IF Head(loop) = Private THEN "output" ELSE "shared", ms |-> now]
       IN \/ /\ sqlite /\ (Head(loop) = Private \/ CanWrite(Head(loop)))
             /\ BeginSave(c, id, nextEvent, Head(loop))
          \/ ~sqlite /\ Head(loop) = Private /\ SaveInMemory(id, nextEvent)
          \/ ~sqlite /\ Head(loop) # Private /\ UNCHANGED memoryVars
    /\ loop' = Tail(loop)
    /\ UNCHANGED busVars

PublishOutput ==
    /\ loop # <<>> /\ Head(loop) \in Topics
    /\ CheckPublish(Me, Head(loop))
    /\ loop' = Tail(loop)
    /\ UNCHANGED memoryVars

----------------------------------------------------------------------------
MemoryStep ==
    /\ \/ Tick
       \/ \E c \in Conns : ReplaceRow(c) \/ IndexRow(c) \/ StatementFails(c)
    /\ UNCHANGED <<busVars, loop>>

\* A spawned micro agent and its memory, with the subscription of its own.
LoopStep ==
    \/ MemoryStep
    \/ \E t \in Topics : SpawnSubscribes(t)
    \/ Replied
    \/ \E c \in Conns : SaveOutput(c)
    \/ PublishOutput
    \/ \E p \in checked : FanOut(p)
    \/ \E t \in tasks, c \in Conns : StoreEvent(t, c)

\* Other callers of the bus.
BusStep ==
    \/ \E a \in Sources : Deregister(a)
    \/ \E t \in Topics : Unsubscribe(t)
    \/ \E a \in Sources, t \in Topics : SubscribeAs(a, t) \/ Publish(a, t)
    \/ \E p \in checked : FanOut(p)
    \/ \E t \in tasks : RunHandler(t)

PubSubNext == LoopStep \/ BusStep

----------------------------------------------------------------------------
\* Every delivery that was spawned runs its handler at most Attempts times,
\* never again after a success, and is given up only after the last attempt;
\* a handler that was not subscribed when publish read the list never runs.
DeliveryIsExact ==
    \A x \in DOMAIN runs :
      /\ runs[x] <= IF x \in owed THEN Attempts ELSE 0
      /\ x \in handled => \A t \in tasks : Key(t) # x
      /\ x \in owed \ handled => runs[x] = Attempts \/ \E t \in tasks : Key(t) = x /\ t.attempt = runs[x] + 1
=============================================================================
