---------------------------- MODULE HandoffGraph ----------------------------
(***************************************************************************)
(* What bus/pipeline.rs reads of an agent registry: for each registered    *)
(* agent the targets of its handoff rules, in order, its fallback, whether *)
(* its failures may be skipped and whether it runs a plugin DAG.           *)
(*                                                                         *)
(* Which rule matches depends on what a language model answered, so any    *)
(* may.  A registry is fixed while a Pipeline exists (an Arc of a map that *)
(* is never written).                                                      *)
(***************************************************************************)
EXTENDS Integers, Sequences, FiniteSets, SequencesExt

CONSTANTS
    Agents,       \* agent names that profiles mention
    Registries    \* the registries to consider: agent name -> profile

\* HandoffTarget, with End for a rule or fallback that names no target.
Single(a) == [fork |-> FALSE, names |-> <<a>>]
Fork(as)  == [fork |-> TRUE, names |-> as]
End       == [fork |-> FALSE, names |-> <<>>]

Targets == [fork : BOOLEAN, names : Seq(Agents)]
Profiles == [rules : Seq(Targets), fallback : Targets,
             skippable : BOOLEAN, plugins : BOOLEAN]

ASSUME HandoffAssumption ==
    /\ IsFiniteSet(Agents)
    /\ \A r \in Registries :
          /\ DOMAIN r \subseteq Agents
          /\ \A a \in DOMAIN r : r[a] \in Profiles

\* eval_rules, or the fallback where there are no rules: any rule may be the
\* first to match, and none may.
Decisions(p) ==
    IF p.rules = <<>> THEN {p.fallback} ELSE ToSet(p.rules) \cup {End}

\* The names a target lists, those the rules of a profile lead to, and those
\* the profile may route to.
Names(t) == ToSet(t.names)
RuleNames(p) == UNION {Names(t) : t \in ToSet(p.rules)}
OutNames(p) == RuleNames(p) \cup Names(p.fallback)

\* An end of the pipeline: no rule and no fallback leads anywhere.
HasOutgoing(p) == \E t \in ToSet(p.rules) \cup {p.fallback} : t # End

\* handle_fallback: the first name of the fallback, if it is registered.
FallbackName(registry, p) ==
    {a \in DOMAIN registry : p.fallback.names # <<>> /\ a = Head(p.fallback.names)}
=============================================================================
