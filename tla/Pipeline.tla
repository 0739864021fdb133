------------------------------ MODULE Pipeline ------------------------------
(***************************************************************************)
(* bus/pipeline.rs: a Pipeline may be dry-run (DryRun.tla) and then run,   *)
(* more than once, from its start agent.  A run is a chain of agents, each *)
(* chosen by the one before it; a fork runs its branches as tasks of their *)
(* own and collects them in the order they were spawned.                   *)
(*                                                                         *)
(* What a model, a tool or a plugin DAG answers, and whether they fail, is *)
(* the environment's choice; so is the size of an output.                  *)
(***************************************************************************)
EXTENDS DryRun

CONSTANTS
    MaxIterations,    \* max_pipeline_iterations
    MaxMemoryEntries, \* max_memory_entries
    MaxMemoryBytes,   \* max_memory_bytes
    OutputSizes,      \* sizes of an output, in bytes
    HasPlugins,       \* with_plugin_registry was called
    MaxForkTargets,   \* MAX_FORK_TARGETS of core/handoff.rs
    MaxRuns           \* bound: runs of one Pipeline

ASSUME PipelineAssumption ==
    /\ MaxIterations \in Nat /\ MaxMemoryEntries \in Nat /\ MaxMemoryBytes \in Nat
    /\ OutputSizes \subseteq Nat
    /\ HasPlugins \in BOOLEAN
    /\ MaxForkTargets \in Nat /\ MaxRuns \in Nat
    /\ \A r \in Registries : \A a \in DOMAIN r :
          \A t \in ToSet(r[a].rules) \cup {r[a].fallback} : Len(t.names) <= MaxForkTargets

VARIABLES
    phase,      \* where Pipeline::run is
    runs,       \* runs started
    turn,       \* iterations of the loop that are over
    agent,      \* current_agent
    results,    \* agents whose output is in PipelineRun.results
    errors,     \* PipelineRun.errors
    skipped,    \* PipelineRun.skipped
    completed,  \* PipelineRun.completed
    branches,   \* the tasks of the current fork
    collected,  \* how many of them were awaited
    gathered,   \* fork_results
    entries,    \* memory_entry_count
    bytes,      \* memory_entry_bytes
    saved       \* entries saved in this run

memoryVars == <<entries, bytes, saved>>
forkVars   == <<branches, collected, gathered>>
runVars    == <<runs, turn, agent, results, errors, skipped, completed>>
pipelineVars == <<dryVars, phase, runVars, forkVars, memoryVars>>

\* An error is recorded with the part of run that pushed it.
Error(a, part, skip) == [agent |-> a, part |-> part, skippable |-> skip]
TaskError == "fork-async-task-error"
Errors == [agent : Agents \cup {TaskError},
           part : {"not_found", "no_plugins", "agent", "branch", "fork", "empty_fork"},
           skippable : BOOLEAN]

BranchStates == {"running", "ok", "failed", "missing", "timeout", "panicked"}
Branches == [agent : Agents, state : BranchStates, next : Targets]
Gathered == [agent : Agents, next : Targets]

PipelineTypeOK ==
    /\ DryTypeOK
    /\ phase \in {"ready", "turn", "running", "forked", "over"}
    /\ runs \in 0 .. MaxRuns
    /\ turn \in 0 .. MaxIterations
    /\ agent \in Agents
    /\ results \in Seq(Agents)
    /\ errors \in Seq(Errors)
    /\ skipped \in Seq(Agents)
    /\ completed \in BOOLEAN
    /\ branches \in Seq(Branches)
    /\ collected \in 0 .. Len(branches)
    /\ gathered \in Seq(Gathered)
    /\ entries \in Nat /\ bytes \in Nat /\ saved \in Nat

PipelineInit ==
    /\ DryInit
    /\ phase = "ready"
    /\ runs = 0 /\ turn = 0
    /\ agent = start
    /\ results = <<>> /\ errors = <<>> /\ skipped = <<>>
    /\ completed = FALSE
    /\ branches = <<>> /\ collected = 0 /\ gathered = <<>>
    /\ entries = 0 /\ bytes = 0 /\ saved = 0

----------------------------------------------------------------------------
(* How a turn may end *)

Halt == phase' = "over" /\ UNCHANGED <<turn, agent, completed>>

ChainEnd == phase' = "over" /\ completed' = TRUE /\ UNCHANGED <<turn, agent>>

Advance(next) ==
    /\ phase' = "turn"
    /\ turn'  = turn + 1
    /\ agent' = next
    /\ UNCHANGED completed

----------------------------------------------------------------------------
(* run *)

\* The counters of the memory are not touched here.
StartRun ==
    /\ phase \in {"ready", "over"}
    /\ report.done
    /\ runs < MaxRuns
    /\ phase' = "turn" /\ runs' = runs + 1 /\ turn' = 0 /\ agent' = start
    /\ results' = <<>> /\ errors' = <<>> /\ skipped' = <<>> /\ completed' = FALSE
    /\ saved' = 0
    /\ UNCHANGED <<dryVars, forkVars, entries, bytes>>

\* The loop ran out of iterations: no error, and not completed.
OutOfTurns ==
    /\ phase = "turn"
    /\ turn = MaxIterations
    /\ Halt
    /\ UNCHANGED <<dryVars, runs, results, errors, skipped, forkVars, memoryVars>>

\* Mutant of TurnStarts: one iteration more.
TurnStartsLate == phase = "turn" /\ turn <= MaxIterations

TurnStarts == phase = "turn" /\ turn < MaxIterations

AgentNotFound ==
    /\ TurnStarts
    /\ agent \notin DOMAIN registry
    /\ errors' = Append(errors, Error(agent, "not_found", FALSE))
    /\ Halt
    /\ UNCHANGED <<dryVars, runs, results, skipped, forkVars, memoryVars>>

\* Mutants of HandleError: a skipped agent is not recorded as such, and a
\* fallback is taken whether or not the failure may be skipped.
HandleErrorQuietly(p) ==
    /\ errors' = Append(errors, Error(agent, "agent", p.skippable))
    /\ \/ p.skippable /\ \E next \in FallbackName(registry, p) : Advance(next)
       \/ (~p.skippable \/ FallbackName(registry, p) = {}) /\ Halt
    /\ UNCHANGED <<dryVars, runs, results, skipped, forkVars, memoryVars>>

HandleErrorOnward(p) ==
    /\ errors' = Append(errors, Error(agent, "agent", p.skippable))
    /\ skipped' = IF p.skippable THEN Append(skipped, agent) ELSE skipped
    /\ \/ \E next \in FallbackName(registry, p) : Advance(next)
       \/ FallbackName(registry, p) = {} /\ Halt
    /\ UNCHANGED <<dryVars, runs, results, forkVars, memoryVars>>

\* handle_error: a skippable agent hands its own input to its fallback, if
\* that is registered; any other failure ends the run.
HandleError(p) ==
    /\ errors' = Append(errors, Error(agent, "agent", p.skippable))
    /\ \/ /\ p.skippable
          /\ skipped' = Append(skipped, agent)
          /\ \/ \E next \in FallbackName(registry, p) : Advance(next)
             \/ FallbackName(registry, p) = {} /\ Halt
       \/ /\ ~p.skippable
          /\ Halt
          /\ UNCHANGED skipped
    /\ UNCHANGED <<dryVars, runs, results, forkVars, memoryVars>>

ResolveFails ==
    /\ TurnStarts
    /\ agent \in DOMAIN registry
    /\ HandleError(registry[agent])

PluginsUnavailable ==
    /\ TurnStarts
    /\ agent \in DOMAIN registry
    /\ registry[agent].plugins /\ ~HasPlugins
    /\ errors' = Append(errors, Error(agent, "no_plugins", FALSE))
    /\ Halt
    /\ UNCHANGED <<dryVars, runs, results, skipped, forkVars, memoryVars>>

\* The agent, or its plugin DAG, is being run.
RunAgent ==
    /\ TurnStarts
    /\ agent \in DOMAIN registry
    /\ registry[agent].plugins => HasPlugins
    /\ phase' = "running"
    /\ UNCHANGED <<dryVars, runVars, forkVars, memoryVars>>

AgentFails ==
    /\ phase = "running"
    /\ HandleError(registry[agent])

\* Mutant of SaveMemoryEntry: one entry more than allowed.
SaveOneMore(size) ==
    IF entries <= MaxMemoryEntries /\ bytes + size <= MaxMemoryBytes
    THEN /\ entries' = entries + 1 /\ bytes' = bytes + size /\ saved' = saved + 1
    ELSE UNCHANGED memoryVars

\* save_memory_entry: skipped when a limit would be exceeded.
SaveMemoryEntry(size) ==
    IF entries < MaxMemoryEntries /\ bytes + size <= MaxMemoryBytes
    THEN /\ entries' = entries + 1 /\ bytes' = bytes + size /\ saved' = saved + 1
    ELSE UNCHANGED memoryVars

Spawned(names) ==
    [i \in DOMAIN names |-> [agent |-> names[i], state |-> "running", next |-> End]]

\* route_after_success: the output is stored, the agent is in the results,
\* and its decision ends the chain, names the next agent, or forks.
AgentSucceeds ==
    /\ phase = "running"
    /\ \E size \in OutputSizes : SaveMemoryEntry(size)
    /\ results' = Append(results, agent)
    /\ \E next \in Decisions(registry[agent]) :
          \/ /\ next = End
             /\ ChainEnd
             /\ UNCHANGED <<errors, forkVars>>
          \/ /\ next # End /\ ~next.fork
             /\ Advance(Head(next.names))
             /\ UNCHANGED <<errors, forkVars>>
          \/ /\ next.fork /\ next.names # <<>>
             /\ phase' = "forked"
             /\ branches' = Spawned(next.names) /\ collected' = 0 /\ gathered' = <<>>
             /\ UNCHANGED <<turn, agent, completed, errors>>
          \/ /\ next.fork /\ next.names = <<>>
             /\ errors' = Append(errors, Error(agent, "fork", registry[agent].skippable))
             /\ ChainEnd
             /\ UNCHANGED forkVars
    /\ UNCHANGED <<dryVars, runs, skipped>>

----------------------------------------------------------------------------
(* run_fork_async *)

BranchBecomes(i, end, next) ==
    /\ branches' = [branches EXCEPT ![i].state = end, ![i].next = next]
    /\ UNCHANGED <<dryVars, phase, runVars, collected, gathered, memoryVars>>

IsRunning(i) == phase = "forked" /\ branches[i].state = "running"

BranchSucceeds(i) ==
    /\ IsRunning(i)
    /\ branches[i].agent \in DOMAIN registry
    /\ \E next \in Decisions(registry[branches[i].agent]) : BranchBecomes(i, "ok", next)

\* Resolving, assembling or running the agent fails ...
BranchFails(i) ==
    /\ IsRunning(i)
    /\ branches[i].agent \in DOMAIN registry
    /\ BranchBecomes(i, "failed", End)

\* ... there is no such agent ...
BranchIsMissing(i) ==
    /\ IsRunning(i)
    /\ branches[i].agent \notin DOMAIN registry
    /\ BranchBecomes(i, "missing", End)

\* Mutant of BranchTimesOut: only branches that matter are timed.
FatalBranchTimesOut(i) ==
    /\ IsRunning(i)
    /\ branches[i].agent \in DOMAIN registry
    /\ ~registry[branches[i].agent].skippable
    /\ BranchBecomes(i, "timeout", End)

\* ... DEFAULT_FORK_TIMEOUT_SECS pass, or the task panics.
BranchTimesOut(i) ==
    /\ IsRunning(i)
    /\ branches[i].agent \in DOMAIN registry
    /\ BranchBecomes(i, "timeout", End)

BranchPanics(i) ==
    /\ IsRunning(i)
    /\ branches[i].agent \in DOMAIN registry
    /\ BranchBecomes(i, "panicked", End)

IsSkippable(b) == b.state = "failed" /\ registry[b.agent].skippable
IsFatal(b) ==
    \/ b.state \in {"missing", "timeout", "panicked"}
    \/ b.state = "failed" /\ ~registry[b.agent].skippable

\* A panic is reported under a name that is no agent's.
BranchError(b) ==
    CASE b.state = "missing"  -> Error(b.agent, "not_found", FALSE)
      [] b.state = "panicked" -> Error(TaskError, "branch", FALSE)
      [] OTHER                -> Error(b.agent, "branch", IsSkippable(b))

\* The first branch that names a target decides; else the forking agent's
\* fallback does.
Decides(got, i) == got[i].next # End /\ \A j \in 1 .. i - 1 : got[j].next = End
ForkDecision(got) ==
    IF \E i \in DOMAIN got : Decides(got, i)
    THEN got[CHOOSE i \in DOMAIN got : Decides(got, i)].next
    ELSE registry[agent].fallback

\* The fork is over, with the outputs got: no output ends the chain, as
\* completed; otherwise the merged outputs go where ForkDecision says.
JoinFork(got, errs) ==
    /\ branches' = <<>> /\ collected' = 0 /\ gathered' = got
    /\ \/ /\ got = <<>>
          /\ errors' = Append(errs, Error(agent, "fork", registry[agent].skippable))
          /\ ChainEnd
       \/ /\ got # <<>>
          /\ LET next == ForkDecision(got) IN
             \/ next = End /\ ChainEnd /\ errors' = errs
             \/ next.names # <<>> /\ Advance(Head(next.names)) /\ errors' = errs
             \/ /\ next.fork /\ next.names = <<>>
                /\ ChainEnd
                /\ errors' = Append(errs, Error(agent, "empty_fork", FALSE))

\* Mutant of NextHandle: whichever task is done.
AnyHandle ==
    IF \E i \in DOMAIN branches : branches[i].state # "running"
    THEN CHOOSE i \in DOMAIN branches : branches[i].state # "running"
    ELSE collected + 1

\* The handles are awaited in the order of the fork's names.
NextHandle == collected + 1

\* The next handle is awaited.  After a failure that may not be skipped the
\* tasks not yet awaited are aborted, whatever they have done.
Collect ==
    /\ phase = "forked"
    /\ branches[NextHandle].state # "running"
    /\ LET branch == branches[NextHandle]
           got  == IF branch.state = "ok"
                   THEN Append(gathered, [agent |-> branch.agent, next |-> branch.next])
                   ELSE gathered
           errs == IF branch.state = "ok" THEN errors ELSE Append(errors, BranchError(branch))
       IN  /\ skipped' = IF IsSkippable(branch) THEN Append(skipped, branch.agent) ELSE skipped
           /\ \/ /\ ~IsFatal(branch) /\ NextHandle < Len(branches)
                 /\ collected' = NextHandle /\ gathered' = got /\ errors' = errs
                 /\ UNCHANGED <<branches, phase, turn, agent, completed>>
              \/ /\ IsFatal(branch) \/ NextHandle = Len(branches)
                 /\ JoinFork(got, errs)
    /\ UNCHANGED <<dryVars, runs, results, memoryVars>>

----------------------------------------------------------------------------
\* dry_run before the first run.
DryRunFirst == DryNext /\ UNCHANGED <<phase, runVars, forkVars, memoryVars>>

BranchStep(i) ==
    \/ BranchSucceeds(i) \/ BranchFails(i) \/ BranchIsMissing(i)
    \/ BranchTimesOut(i) \/ BranchPanics(i)

PipelineNext ==
    \/ DryRunFirst
    \/ StartRun \/ OutOfTurns \/ AgentNotFound \/ ResolveFails \/ PluginsUnavailable
    \/ RunAgent \/ AgentFails \/ AgentSucceeds
    \/ \E i \in DOMAIN branches : BranchStep(i)
    \/ Collect

PipelineSpec == PipelineInit /\ [][PipelineNext]_pipelineVars

\* A branch is stopped by its timeout if by nothing else, and run keeps
\* awaiting handles.  Nothing bounds an agent of the chain itself.
ForkFairness ==
    /\ \A i \in 1 .. MaxForkTargets :
          WF_pipelineVars(i \in DOMAIN branches /\ (BranchTimesOut(i) \/ BranchIsMissing(i)))
    /\ WF_pipelineVars(Collect)

FairPipelineSpec == PipelineSpec /\ ForkFairness

----------------------------------------------------------------------------
(* What must hold *)

\* Neither limit of the memory is ever exceeded, by one entry or by one byte,
\* over all runs of a Pipeline.
MemoryWithinLimits == entries <= MaxMemoryEntries /\ bytes <= MaxMemoryBytes

\* The elements of s at the positions in P, in their order.
AppendIf(keep, t, e) == IF keep THEN Append(t, e) ELSE t
Selected(s, P) ==
    LET upto[i \in 0 .. Len(s)] ==
            IF i = 0 THEN <<>> ELSE AppendIf(i \in P, upto[i - 1], s[i])
    IN  upto[Len(s)]

\* fork_results are the outputs of the branches awaited so far, in the order
\* they were spawned, however they finished; none of those awaited was fatal.
ForkCollectsInOrder ==
    phase = "forked" =>
        LET awaited == SubSeq(branches, 1, collected)
            oks     == Selected(awaited, {i \in DOMAIN awaited : awaited[i].state = "ok"})
        IN  /\ collected < Len(branches)
            /\ \A i \in DOMAIN awaited : awaited[i].state # "running" /\ ~IsFatal(awaited[i])
            /\ gathered = [i \in DOMAIN oks |-> [agent |-> oks[i].agent, next |-> oks[i].next]]

\* The agents skipped are those whose own failure was skippable, each time it
\* failed and in that order, on the chain and in forks alike.
SkippedAreTheSkippable ==
    LET skippable == Selected(errors, {i \in DOMAIN errors :
                        errors[i].part \in {"agent", "branch"} /\ errors[i].skippable})
    IN  skipped = [i \in DOMAIN skippable |-> skippable[i].agent]

\* A failure on the chain that may not be skipped is the last thing a run
\* reports, and such a run is not completed.
FatalErrorsHalt ==
    \A i \in DOMAIN errors :
        errors[i].part \in {"agent", "no_plugins"} /\ ~errors[i].skippable =>
            phase = "over" /\ ~completed /\ i = Len(errors)

\* What dry_run calls valid misses nobody: every agent a run comes to, on the
\* chain, by a fallback or in a fork, is registered.
ValidPipelinesMissNobody ==
    report.valid =>
        /\ \A i \in DOMAIN errors : errors[i].part # "not_found"
        /\ \A i \in DOMAIN branches : branches[i].state # "missing"
        /\ agent \in DOMAIN registry

\* What dry_run calls valid runs to its end: no agent comes twice in the chain,
\* so max_pipeline_iterations as large as the chain is never reached.
ValidPipelinesEnd == report.valid => turn < Len(report.chain)

\* A fork comes to an end although a branch's agent may never answer.
ForksEnd == phase = "forked" ~> phase # "forked"

\* "If multiple branches disagree on the next target, the first non-error
\* result's decision is used": also when that decision is to end.
FirstBranchDecides ==
    [][phase = "forked" /\ phase' # "forked"
          /\ (\E i, j \in DOMAIN gathered' : gathered'[i].next # gathered'[j].next)
       => LET first == gathered'[1].next
          IN  IF first.names = <<>> THEN phase' = "over"
              ELSE phase' = "turn" /\ agent' = Head(first.names)]_pipelineVars

\* "Maximum number of memory entries to store per pipeline run": an output is
\* not dropped while the run has stored fewer than that.
EntriesAreCountedPerRun ==
    [][Len(results') > Len(results) /\ saved < MaxMemoryEntries
          /\ (\A size \in OutputSizes : bytes + size <= MaxMemoryBytes)
       => saved' = saved + 1]_pipelineVars
=============================================================================
