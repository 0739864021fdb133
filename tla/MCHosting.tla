----------------------------- MODULE MCHosting ------------------------------
(***************************************************************************)
(* Small instances of what hosts agents: the profile registry and its      *)
(* reload, plugin DAGs over a registry that is reloaded, and the agent     *)
(* runner.  The three share no state, so a behaviour exercises one of them *)
(* (`part') and leaves the others at their start.                          *)
(***************************************************************************)
EXTENDS ProfileReload, PluginDag, AgentRunner, TLC

CONSTANTS d1, d2, n1, n2, p, q, f1, f2, s1, s2, s3

VARIABLE part

MCDirs       == {d1, d2}
MCAgentNames == {n1, n2}
MCPlugins    == {p, q}
MCBuiltins   == {p}
MCManifests  == {f1, f2}
MCSlots      == {s1, s2}
MCPluginOf   == s1 :> p @@ s2 :> q
MCBehavior   == s1 :> [mode |-> "strict", retries |-> 1, escalates |-> TRUE]
             @@ s2 :> [mode |-> "yolo", retries |-> 0, escalates |-> FALSE]
MCSlotTurns  == s1 :> 2 @@ s2 :> 1
\* A cycle, a slot nobody declared, an edge that ends the walk, and a fork.
MCEdges      == <<[from |-> s1, target |-> s2, always |-> FALSE],
                  [from |-> s2, target |-> s1, always |-> FALSE],
                  [from |-> s1, target |-> s3, always |-> FALSE],
                  [from |-> s2, target |-> NoTarget, always |-> FALSE],
                  [from |-> s2, target |-> Fork, always |-> TRUE]>>

hostVars == <<profileVars, dagVars, runnerVars, part>>

HostInit ==
    /\ part \in {"profiles", "plugins", "runner"}
    /\ ProfileInit
    /\ PluginInit
    /\ DagInit
    /\ RunnerInit
    \* the parts that do not run start in one way only
    /\ part # "profiles" => \A d \in Dirs : toml[d] = Absent
    /\ part # "plugins" => ~builtins /\ \A f \in Manifests : files[f] = Missing
    /\ part # "runner" => schema = "none"

\* What a part leaves alone.
Profiles == part = "profiles" /\ UNCHANGED <<dagVars, runnerVars, part>>
DagPart  == part = "plugins" /\ UNCHANGED <<profileVars, pluginVars, runnerVars, part>>
Registry == part = "plugins" /\ UNCHANGED <<profileVars, dag, runnerVars, part>>
Runner   == part = "runner" /\ UNCHANGED <<profileVars, dagVars, part>>

HostNext ==
    \/ ProfileNext /\ Profiles
    \/ DagNext /\ DagPart
    \/ PluginNext /\ Registry
    \/ RunnerNext /\ Runner

\* The two watcher threads and the task of a DAG run as long as they can.
HostSpec ==
    /\ HostInit
    /\ [][HostNext]_hostVars
    /\ WF_hostVars(Reload /\ Profiles)
    /\ WF_hostVars(Watcher /\ Registry)
    /\ WF_hostVars(DagStep /\ DagPart)

\* Everything that is started settles: both registries become what is on the
\* disk and DAG runs end.
HostingSettles == ProfilesConverge /\ PluginsConverge /\ DagEnds
=============================================================================
