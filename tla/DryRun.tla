------------------------------- MODULE DryRun -------------------------------
(***************************************************************************)
(* Pipeline::dry_run: a breadth-first walk over every route of the handoff *)
(* graph, then a depth-first search for cycles from each agent found.      *)
(* The walk is one step for each name taken from its queue.                *)
(***************************************************************************)
EXTENDS HandoffGraph, FiniteSets

CONSTANT MaxChain   \* agents a chain may have before dry_run objects (100)

VARIABLES
    registry,   \* Pipeline.registry
    start,      \* the agent the dry run, and then the pipeline, starts from
    visited,
    todo,       \* the queue of the walk
    report      \* DryRunReport, with issues as a set

dryVars == <<registry, start, visited, todo, report>>

Issues == {"missing", "rule_target", "fallback_target", "circular", "too_long"} \X Agents

DryTypeOK ==
    /\ registry \in Registries
    /\ start \in Agents
    /\ visited \subseteq Agents
    /\ todo \in Seq(Agents)
    /\ report \in [chain : Seq(Agents), issues : SUBSET Issues, reachable_end : BOOLEAN,
                   circular : BOOLEAN, valid : BOOLEAN, done : BOOLEAN]

DryInit ==
    /\ registry \in Registries
    /\ start \in Agents
    /\ visited = {}
    /\ todo = <<start>>
    /\ report = [chain |-> <<>>, issues |-> {}, reachable_end |-> FALSE,
                 circular |-> FALSE, valid |-> FALSE, done |-> FALSE]

Unregistered(names) == names \ DOMAIN registry

\* Mutant of Enqueue: names of the fallback are not followed.
EnqueueRulesOnly(a) ==
    \E next \in SetToSeqs((RuleNames(registry[a]) \cap DOMAIN registry) \ (visited \cup {a})) :
        todo' = Tail(todo) \o next

\* Registered names not visited yet join the queue.  The order in which one
\* agent's names join it is left open, and a name it lists twice joins once.
Enqueue(a) ==
    \E next \in SetToSeqs((OutNames(registry[a]) \cap DOMAIN registry) \ (visited \cup {a})) :
        todo' = Tail(todo) \o next

\* Mutant of Visit: a fallback is taken to be registered.
VisitTrustsFallback(a) ==
    LET p == registry[a] IN
    /\ Enqueue(a)
    /\ report' = [report EXCEPT
          !.chain  = Append(@, a),
          !.issues = @ \cup ({"rule_target"} \X Unregistered(RuleNames(p))),
          !.reachable_end = @ \/ ~HasOutgoing(p)]

\* What the walk does with a registered agent: every name its rules and its
\* fallback route to is an issue, if it is not registered, or is queued.
Visit(a) ==
    LET p == registry[a] IN
    /\ Enqueue(a)
    /\ report' = [report EXCEPT
          !.chain  = Append(@, a),
          !.issues = @ \cup ({"rule_target"} \X Unregistered(RuleNames(p)))
                       \cup ({"fallback_target"} \X Unregistered(Names(p.fallback))),
          !.reachable_end = @ \/ ~HasOutgoing(p)]

\* A name taken from the queue: visited before, unknown, or walked.
Walk ==
    /\ ~report.done
    /\ todo # <<>>
    /\ LET name == Head(todo) IN
       /\ visited' = visited \cup {name}
       /\ \/ /\ name \in visited
             /\ todo' = Tail(todo)
             /\ UNCHANGED report
          \/ /\ name \notin visited \cup DOMAIN registry
             /\ todo' = Tail(todo)
             /\ report' = [report EXCEPT !.issues = @ \cup {<<"missing", name>>}]
          \/ /\ name \in DOMAIN registry \ visited
             /\ Visit(name)
    /\ UNCHANGED <<registry, start>>

\* Mutant of CanReachSelf: it forgets what is on its path.
CanReachSelfDirectly(a) == a \in DOMAIN registry /\ a \in OutNames(registry[a])

\* can_reach_self: does a path from a come back to a name that is on it?
\* search[path] holds the names from which the search finds one.
CanReachSelf(a) ==
    LET search[path \in SUBSET Agents] ==
            {b \in Agents :
                \/ b \in path
                \/ /\ b \in DOMAIN registry
                   /\ \E next \in OutNames(registry[b]) : next \in search[path \cup {b}]}
    IN  a \in search[{}]

\* The queue is empty: look for cycles and conclude.
Conclude ==
    /\ ~report.done
    /\ todo = <<>>
    /\ LET cyclic == {a \in ToSet(report.chain) : CanReachSelf(a)}
           found  == ({"circular"} \X cyclic)
                     \cup (IF Len(report.chain) >= MaxChain
                           THEN {<<"too_long", start>>} ELSE {})
           issues == report.issues \cup found
       IN  report' = [report EXCEPT
              !.issues   = issues,
              !.circular = cyclic # {},
              !.valid    = issues = {} /\ report.reachable_end /\ cyclic = {},
              !.done     = TRUE]
    /\ UNCHANGED <<registry, start, visited, todo>>

DryNext == Walk \/ Conclude

----------------------------------------------------------------------------
(* What must hold *)

Successors(a) ==
    IF a \in DOMAIN registry THEN OutNames(registry[a]) \cap DOMAIN registry ELSE {}

\* The registered agents that some route leads to: the least set that holds
\* the start and all that its members route to.
Reachable ==
    LET Closed == {S \in SUBSET DOMAIN registry :
                      /\ start \in DOMAIN registry => start \in S
                      /\ \A a \in S : Successors(a) \subseteq S}
    IN  {a \in DOMAIN registry : \A S \in Closed : a \in S}

\* The walk finds every reachable agent, names each once, and reports a cycle
\* when and only when some reachable agents route among themselves for ever.
DryRunIsExact ==
    /\ Len(report.chain) <= Cardinality(Reachable)
    /\ report.done =>
        /\ ToSet(report.chain) = Reachable
        /\ report.circular <=>
              \E C \in SUBSET Reachable : C # {} /\ \A a \in C : Successors(a) \cap C # {}
============================================================================
