------------------------------ MODULE PluginDag -----------------------------
(***************************************************************************)
(* plugin/dag_runner.rs and plugin/erased_runner.rs: a walk through the    *)
(* plugin slots of an agent, while the watcher may change the registry the *)
(* slots are looked up in.  A slot runs run_plugin_loop: call the agent,   *)
(* parse its answer, let the behavior decide.  What an answer is worth and *)
(* whether an edge's condition holds is up to the model: each call has     *)
(* every outcome.                                                          *)
(***************************************************************************)
EXTENDS PluginReload, Sequences, SequencesExt

CONSTANTS
    Slots,            \* slot names
    Entry,            \* the entry slot
    PluginOf,         \* the plugin of a slot
    Behavior,         \* of a slot: its mode, max_retries and escalate_to
    SlotTurns,        \* max_turns of a slot
    Edges,            \* sequence of [from, target, always]
    Fork,             \* the target of an edge that forks
    NoTarget,         \* the target of an edge that ends the walk
    MaxTransitions    \* MAX_DAG_SLOT_TRANSITIONS

ASSUME DagAssumption ==
    /\ Entry \in Slots
    /\ PluginOf \in [Slots -> Plugins]
    /\ Behavior \in [Slots -> [mode : {"strict", "yolo"}, retries : Nat, escalates : BOOLEAN]]
    /\ SlotTurns \in [Slots -> Nat]
    /\ MaxTransitions \in Nat \ {0}

VARIABLE dag  \* the run: where it is, the slot, counters and what it left

dagVars == <<pluginVars, dag>>

NoRun == [pc |-> "idle", slot |-> Entry, transitions |-> 0, bundle |-> NoPlugin,
          attempt |-> 0, turns |-> 0, calls |-> 0,
          visited |-> <<>>, result |-> "none"]

DagInit == dag = NoRun

\* The run ends with a result; the registry is not touched.
Ends(result) == dag' = [dag EXCEPT !.pc = "ended", !.result = result]

----------------------------------------------------------------------------
(* PluginDagRunner::run *)

Start == dag.pc = "idle" /\ dag' = [dag EXCEPT !.pc = "slot"]

TooManyTransitions ==
    /\ dag.pc = "slot" /\ dag.transitions >= MaxTransitions
    /\ Ends("MaxSlotTransitionsExceeded")

SlotReady == dag.pc = "slot" /\ dag.transitions < MaxTransitions

SlotNotFound == SlotReady /\ dag.slot \notin Slots /\ Ends("SlotNotFound")

PluginNotFound ==
    /\ SlotReady /\ dag.slot \in Slots
    /\ plugins[PluginOf[dag.slot]] = NoPlugin
    /\ Ends("PluginNotFound")

\* The model does not resolve, or the executor or the prompt cannot be built.
SetupFails ==
    /\ SlotReady /\ dag.slot \in Slots
    /\ plugins[PluginOf[dag.slot]] # NoPlugin
    /\ Ends("SetupFailed")

\* The run keeps the bundle it found: a later reload does not reach it.
EnterSlot ==
    /\ SlotReady /\ dag.slot \in Slots
    /\ plugins[PluginOf[dag.slot]] # NoPlugin
    /\ dag' = [dag EXCEPT !.pc = "call", !.bundle = plugins[PluginOf[dag.slot]],
                          !.attempt = 0, !.turns = 0, !.calls = 0]

\* find_edge: the first edge of the slot whose condition holds.  A condition
\* that is there may hold or not.
EdgesOf(s) == SelectSeq(Edges, LAMBDA e : e.from = s)
Matches(s, i) == i \in DOMAIN EdgesOf(s) /\ \A j \in 1..i-1 : ~EdgesOf(s)[j].always
MatchesNone(s) == \A i \in DOMAIN EdgesOf(s) : ~EdgesOf(s)[i].always

FollowEdge(i) ==
    /\ dag.pc = "route" /\ Matches(dag.slot, i)
    /\ EdgesOf(dag.slot)[i].target \notin {Fork, NoTarget}
    /\ dag' = [dag EXCEPT !.pc = "slot", !.slot = EdgesOf(@)[i].target,
                          !.transitions = @ + 1]

ForkInDag(i) ==
    /\ dag.pc = "route" /\ Matches(dag.slot, i)
    /\ EdgesOf(dag.slot)[i].target = Fork
    /\ Ends("ForkNotSupportedInDag")

Endpoint ==
    /\ dag.pc = "route"
    /\ \/ MatchesNone(dag.slot)
       \/ \E i \in DOMAIN EdgesOf(dag.slot) :
            Matches(dag.slot, i) /\ EdgesOf(dag.slot)[i].target = NoTarget
    /\ Ends("ok")

----------------------------------------------------------------------------
(* run_plugin_loop *)

TurnsExceeded ==
    /\ dag.pc = "call" /\ dag.attempt >= SlotTurns[dag.slot]
    /\ Ends("MaxTurnsExceeded")

Calls == dag.pc = "call" /\ dag.attempt < SlotTurns[dag.slot]
Called == [dag EXCEPT !.calls = @ + 1]

\* The call times out or the agent fails: no retry at this level.
CallFails ==
    /\ Calls
    /\ dag' = [Called EXCEPT !.pc = "ended", !.result = "Other"]

\* Strict retries an answer of low confidence until the turns run out.
LowConfidence ==
    /\ Calls /\ Behavior[dag.slot].mode = "strict"
    /\ dag' = [Called EXCEPT !.attempt = @ + 1]

OutputTooLarge ==
    /\ Calls
    /\ dag' = [Called EXCEPT !.pc = "ended", !.result = "OutputTooLarge"]

\* Mutant of Accepted: turns counts the retries only.
AcceptedMiscounts ==
    /\ Calls
    /\ dag' = [Called EXCEPT !.pc = "route", !.turns = dag.attempt,
                             !.visited = Append(@, dag.slot)]

\* The answer is taken; its output joins the context and the memory.
Accepted ==
    /\ Calls
    /\ dag' = [Called EXCEPT !.pc = "route", !.turns = dag.attempt + 1,
                             !.visited = Append(@, dag.slot)]

MayRetry == Behavior[dag.slot].mode = "strict" /\ dag.attempt < Behavior[dag.slot].retries

\* An answer that does not parse is retried with a hint that stays in the
\* prompt; low-confidence answers used up retries as well.
ParseRetries ==
    /\ Calls /\ MayRetry
    /\ dag' = [Called EXCEPT !.attempt = @ + 1]

\* The hint quotes the start of a long answer or schema: cut inside a
\* character, the slice panics.
HintPanics ==
    /\ Calls /\ MayRetry
    /\ dag' = [Called EXCEPT !.pc = "ended", !.result = "panicked"]

ParseFails ==
    /\ Calls /\ ~MayRetry
    /\ dag' = [Called EXCEPT !.pc = "ended",
                 !.result = IF Behavior[dag.slot].mode = "strict" /\ Behavior[dag.slot].escalates
                            THEN "Escalated" ELSE "Aborted"]

----------------------------------------------------------------------------
DagStep ==
    \/ TooManyTransitions
    \/ SlotNotFound
    \/ PluginNotFound
    \/ SetupFails
    \/ EnterSlot
    \/ \E i \in DOMAIN Edges : FollowEdge(i) \/ ForkInDag(i)
    \/ Endpoint
    \/ TurnsExceeded
    \/ CallFails
    \/ LowConfidence
    \/ OutputTooLarge
    \/ Accepted
    \/ ParseRetries
    \/ HintPanics
    \/ ParseFails

DagNext == Start \/ DagStep

----------------------------------------------------------------------------
(* Properties *)

\* A run's result says what happened in it: the turns it reports are the
\* calls it made, an error names a limit only when the limit was reached and
\* never earlier or later, however parse errors, low confidence and slots
\* follow each other.
DagAccount ==
    LET slot == dag.slot IN
    /\ dag.pc \in {"call", "route"} => dag.calls <= SlotTurns[slot]
    /\ Len(dag.visited) <= MaxTransitions
    /\ dag.pc = "route" => dag.turns = dag.calls
    /\ dag.result = "MaxTurnsExceeded" => dag.calls = SlotTurns[slot]
    /\ dag.result = "MaxSlotTransitionsExceeded" => Len(dag.visited) = MaxTransitions
    /\ dag.result = "Escalated" => dag.calls > Behavior[slot].retries
    /\ dag.result = "ok" => dag.visited # <<>> /\ Last(dag.visited) = slot

\* Every run of a DAG ends, on cyclic edges too.
DagEnds == (dag.pc # "idle") ~> (dag.pc = "ended")
=============================================================================
