--------------------------- MODULE PipelineProofs ---------------------------
(***************************************************************************)
(* Proofs about Pipeline for every registry, every limit and every fork.   *)
(*                                                                         *)
(* RunInv is inductive.  Beside the types and the properties proved, it    *)
(* says what each phase of a run may rely on (PhaseShape), and that        *)
(* whatever a run holds on to - its agent, its branches, their decisions - *)
(* was visited by the dry run that called the registry valid (Predicted).  *)
(*                                                                         *)
(* Beside RunInv stand four invariants with a property each: what the dry  *)
(* run has found (ExactInv), the route a run has come by (TrailInv), who   *)
(* was skipped (SkipInv) and what a fork has gathered (ForkInv).           *)
(***************************************************************************)
EXTENDS Pipeline, DryRunProofs

----------------------------------------------------------------------------
(* The inductive invariant *)

PhaseShape ==
    /\ phase # "over" => ~completed
    /\ phase \in {"running", "forked"} => agent \in DOMAIN registry /\ turn < MaxIterations
    /\ phase = "forked" => collected < Len(branches)
    /\ phase # "forked" => branches = <<>>
    /\ \A i \in DOMAIN branches :
          branches[i].state = "failed" => branches[i].agent \in DOMAIN registry

Predicted ==
    /\ ~report.done => phase = "ready" /\ agent = start /\ errors = <<>> /\ gathered = <<>>
    /\ report.valid =>
          /\ agent \in visited
          /\ \A i \in DOMAIN errors : errors[i].part # "not_found"
          /\ \A i \in DOMAIN branches :
                /\ branches[i].agent \in visited
                /\ branches[i].state # "missing"
                /\ Names(branches[i].next) \subseteq visited
          /\ \A i \in DOMAIN gathered : Names(gathered[i].next) \subseteq visited

RunInv ==
    /\ WalkInv
    /\ PipelineTypeOK
    /\ PhaseShape
    /\ MemoryWithinLimits
    /\ FatalErrorsHalt
    /\ Predicted

----------------------------------------------------------------------------
(* Errors *)

Fatal(e) == e.part \in {"agent", "no_plugins"} /\ ~e.skippable
NoFatal(errs) == \A i \in DOMAIN errs : ~Fatal(errs[i])
NoMissing(errs) == \A i \in DOMAIN errs : errs[i].part # "not_found"

\* Errors are only ever added at the end.
LEMMA ErrorAppended ==
    ASSUME NEW errs \in Seq(Errors), NEW e \in Errors
    PROVE  /\ Append(errs, e) \in Seq(Errors)
           /\ NoFatal(errs) /\ ~Fatal(e) => NoFatal(Append(errs, e))
           /\ NoMissing(errs) /\ e.part # "not_found" => NoMissing(Append(errs, e))
           /\ NoFatal(errs) => \A i \in DOMAIN Append(errs, e) :
                                  Fatal(Append(errs, e)[i]) => i = Len(Append(errs, e))
  <1> DEFINE new == Append(errs, e)
  <1>1. /\ new \in Seq(Errors) /\ Len(errs) \in Nat
        /\ DOMAIN errs = 1 .. Len(errs) /\ DOMAIN new = 1 .. Len(errs) + 1
        /\ Len(new) = Len(errs) + 1 /\ new[Len(errs) + 1] = e
        /\ \A i \in 1 .. Len(errs) : new[i] = errs[i]
    OBVIOUS
  <1> HIDE DEF new
  <1>2. \A i \in DOMAIN new : i \in DOMAIN errs \/ i = Len(errs) + 1
    BY <1>1
  <1>3. NoFatal(errs) /\ ~Fatal(e) => NoFatal(new)
    BY <1>1, <1>2 DEF NoFatal
  <1>4. NoMissing(errs) /\ e.part # "not_found" => NoMissing(new)
    BY <1>1, <1>2 DEF NoMissing
  <1>5. NoFatal(errs) => \A i \in DOMAIN new : Fatal(new[i]) => i = Len(new)
    BY <1>1, <1>2 DEF NoFatal
  <1> QED
    BY <1>1, <1>3, <1>4, <1>5 DEF new

\* The errors run can make are well formed.
LEMMA ErrorsAreErrors ==
    /\ \A a \in Agents, skip \in BOOLEAN,
          part \in {"not_found", "no_plugins", "agent", "branch", "fork", "empty_fork"} :
          Error(a, part, skip) \in Errors
    /\ Error(TaskError, "branch", FALSE) \in Errors
  BY DEF Error, Errors

----------------------------------------------------------------------------
(* Facts about a state of a run *)

\* The agent of a turn has a profile, and before the end nothing was fatal.
LEMMA TurnFacts ==
    ASSUME RunInv
    PROVE  /\ DOMAIN registry \subseteq Agents
           /\ \A a \in DOMAIN registry :
                 /\ registry[a] \in Profiles /\ registry[a].skippable \in BOOLEAN
                 /\ registry[a].fallback \in Targets
           /\ phase # "over" => NoFatal(errors)
           /\ report.valid =>
                 /\ NoMissing(errors) /\ start \in visited
                 /\ \A a \in visited : /\ a \in DOMAIN registry
                                       /\ OutNames(registry[a]) \subseteq visited
  <1>1. registry \in Registries
    BY DEF RunInv, WalkInv, DryTypeOK
  <1>2. DOMAIN registry \subseteq Agents /\ \A a \in DOMAIN registry : registry[a] \in Profiles
    BY <1>1, RegisteredKnown
  <1>3. phase # "over" => NoFatal(errors)
    BY DEF RunInv, FatalErrorsHalt, NoFatal, Fatal
  <1>4. Foreseen
    BY WalkForesees DEF RunInv
  <1>5. report.valid => NoMissing(errors)
    BY DEF RunInv, Predicted, NoMissing
  <1>6. \A p \in Profiles : p.skippable \in BOOLEAN /\ p.fallback \in Targets
    BY DEF Profiles
  <1> QED
    BY <1>2, <1>3, <1>4, <1>5, <1>6 DEF Foreseen

\* A target that is not End and is no fork names its agent; the names of a
\* target are agents.
LEMMA TargetNames ==
    ASSUME NEW t \in Targets
    PROVE  /\ t.names \in Seq(Agents) /\ t.fork \in BOOLEAN
           /\ t # End /\ ~t.fork => t.names # <<>>
           /\ t.names # <<>> => Head(t.names) \in Agents /\ Head(t.names) \in Names(t)
           /\ \A i \in DOMAIN t.names : t.names[i] \in Names(t)
  <1>1. t.names \in Seq(Agents) /\ t.fork \in BOOLEAN
    BY DEF Targets
  <1>2. t # End /\ ~t.fork => t.names # <<>>
    BY DEF Targets, End
  <1>3. ASSUME t.names # <<>> PROVE Head(t.names) \in Agents /\ Head(t.names) \in Names(t)
    <2>1. /\ Head(t.names) = t.names[1] /\ Head(t.names) \in Agents
          /\ Len(t.names) \in Nat \ {0} /\ DOMAIN t.names = 1 .. Len(t.names)
      BY <1>1, <1>3
    <2> QED
      BY <2>1 DEF Names, ToSet
  <1> QED
    BY <1>1, <1>2, <1>3 DEF Names, ToSet

\* End names nobody.
LEMMA EndNames == End \in Targets /\ Names(End) = {}
  BY DEF End, Targets, Names, ToSet

----------------------------------------------------------------------------
(* What is left to show of a step of a run, once its new errors, branches  *)
(* and outputs are known.                                                  *)

LEMMA RunStepKeeps ==
    ASSUME RunInv, UNCHANGED dryVars, report.done, PipelineTypeOK',
           PhaseShape', MemoryWithinLimits', FatalErrorsHalt',
           report.valid =>
              /\ agent' \in visited
              /\ NoMissing(errors')
              /\ \A i \in DOMAIN branches' :
                    /\ branches'[i].agent \in visited
                    /\ branches'[i].state # "missing"
                    /\ Names(branches'[i].next) \subseteq visited
              /\ \A i \in DOMAIN gathered' : Names(gathered'[i].next) \subseteq visited
    PROVE  RunInv'
  <1>1. WalkInv'
    BY DryStutterKeeps DEF RunInv
  <1>2. Predicted'
    BY DEF dryVars, Predicted, NoMissing, Names
  <1> QED
    BY <1>1, <1>2 DEF RunInv

\* A step outside forks: the errors grow by at most one, which may be fatal
\* only if the run is over; the agent stays or is one the old one leads to.
LEMMA ChainStepKeeps ==
    ASSUME RunInv, phase \in {"turn", "running"},
           UNCHANGED <<dryVars, runs, forkVars>>,
           results' \in Seq(Agents), skipped' \in Seq(Agents), completed' \in BOOLEAN,
           entries' \in Nat, bytes' \in Nat, saved' \in Nat, MemoryWithinLimits',
           errors' \in Seq(Errors),
           phase' \in {"turn", "running", "over"},
           turn' \in 0 .. MaxIterations, agent' \in Agents,
           phase' # "over" => ~completed' /\ NoFatal(errors'),
           phase' = "running" => agent' \in DOMAIN registry /\ turn' < MaxIterations,
           \/ NoFatal(errors')
           \/ /\ ~completed'
              /\ \A i \in DOMAIN errors' : Fatal(errors'[i]) => i = Len(errors'),
           report.valid => agent' \in visited /\ NoMissing(errors')
    PROVE  RunInv'
  <1>1. report.done /\ branches = <<>> /\ collected = 0
    BY DEF RunInv, Predicted, PhaseShape, PipelineTypeOK
  <1>2. PipelineTypeOK'
    <2>1. DryTypeOK'
      BY DEF RunInv, WalkInv, dryVars, DryTypeOK
    <2> QED
      BY <2>1 DEF RunInv, PipelineTypeOK, forkVars
  <1>3. PhaseShape'
    BY <1>1 DEF PhaseShape, forkVars, dryVars
  <1>4. FatalErrorsHalt'
    <2>1. CASE NoFatal(errors')
      BY <2>1 DEF NoFatal, Fatal, FatalErrorsHalt
    <2>2. CASE /\ ~completed'
               /\ \A i \in DOMAIN errors' : Fatal(errors'[i]) => i = Len(errors')
      <3>1. CASE phase' = "over"
        BY <2>2, <3>1 DEF Fatal, FatalErrorsHalt
      <3>2. CASE phase' # "over"
        BY <3>2, <2>1
      <3> QED
        BY <3>1, <3>2
    <2> QED
      BY <2>1, <2>2
  <1>5. report.valid => \A i \in DOMAIN gathered' : Names(gathered'[i].next) \subseteq visited
    BY DEF RunInv, Predicted, forkVars
  <1>6. \A i \in DOMAIN branches' : FALSE
    BY <1>1 DEF forkVars
  <1> QED
    BY <1>1, <1>2, <1>3, <1>4, <1>5, <1>6, RunStepKeeps DEF dryVars

----------------------------------------------------------------------------
(* The actions of the chain *)

\* What RunInv says of the variables a step of the chain changes.
LEMMA ChainTypes ==
    ASSUME RunInv
    PROVE  /\ results \in Seq(Agents) /\ errors \in Seq(Errors) /\ skipped \in Seq(Agents)
           /\ entries \in Nat /\ bytes \in Nat /\ saved \in Nat
           /\ turn \in 0 .. MaxIterations /\ MaxIterations \in Nat
           /\ agent \in Agents /\ completed \in BOOLEAN
           /\ branches \in Seq(Branches) /\ collected \in 0 .. Len(branches)
           /\ gathered \in Seq(Gathered)
           /\ phase # "over" => ~completed
           /\ MemoryWithinLimits
           /\ report.valid => agent \in visited
  BY PipelineAssumption DEF RunInv, PipelineTypeOK, PhaseShape, Predicted

\* Where the counters of the memory do not move, its limits hold on.
LEMMA MemoryStays ==
    ASSUME RunInv, UNCHANGED memoryVars
    PROVE  entries' \in Nat /\ bytes' \in Nat /\ saved' \in Nat /\ MemoryWithinLimits'
  BY ChainTypes DEF memoryVars, MemoryWithinLimits

\* An output is saved only within the limits.
LEMMA SaveKeeps ==
    ASSUME RunInv, NEW size \in OutputSizes, SaveMemoryEntry(size)
    PROVE  entries' \in Nat /\ bytes' \in Nat /\ saved' \in Nat /\ MemoryWithinLimits'
  <1>1. size \in Nat /\ MaxMemoryEntries \in Nat /\ MaxMemoryBytes \in Nat
    BY PipelineAssumption
  <1>2. entries \in Nat /\ bytes \in Nat /\ saved \in Nat /\ MemoryWithinLimits
    BY ChainTypes
  <1>3. CASE entries < MaxMemoryEntries /\ bytes + size <= MaxMemoryBytes
    BY <1>1, <1>2, <1>3 DEF SaveMemoryEntry, MemoryWithinLimits
  <1>4. CASE ~(entries < MaxMemoryEntries /\ bytes + size <= MaxMemoryBytes)
    BY <1>4, MemoryStays DEF SaveMemoryEntry
  <1> QED
    BY <1>3, <1>4

\* A run begins with nothing to report, at an agent the dry run visited.
LEMMA StartKeeps == ASSUME RunInv, StartRun PROVE RunInv'
  <1>1. branches = <<>> /\ report.done
    BY DEF StartRun, RunInv, PhaseShape
  <1>2. start \in Agents /\ DryTypeOK'
    BY DEF StartRun, RunInv, PipelineTypeOK, DryTypeOK, dryVars
  <1>3. runs' \in 0 .. MaxRuns
    BY PipelineAssumption DEF StartRun, RunInv, PipelineTypeOK
  <1>4. PipelineTypeOK'
    <2>1. /\ results' = <<>> /\ errors' = <<>> /\ skipped' = <<>>
          /\ phase' = "turn" /\ turn' = 0 /\ completed' = FALSE /\ saved' = 0 /\ agent' = start
          /\ branches' = branches /\ collected' = collected /\ gathered' = gathered
          /\ entries' = entries /\ bytes' = bytes
      BY DEF StartRun, forkVars
    <2>2. results' \in Seq(Agents) /\ errors' \in Seq(Errors) /\ skipped' \in Seq(Agents)
      BY <2>1
    <2>3. turn' \in 0 .. MaxIterations
      BY <2>1, ChainTypes
    <2> QED
      BY <1>2, <1>3, <2>1, <2>2, <2>3, ChainTypes DEF PipelineTypeOK
  <1>5. PhaseShape'
    BY <1>1 DEF StartRun, PhaseShape, forkVars
  <1>6. FatalErrorsHalt' /\ NoMissing(errors')
    BY DEF StartRun, FatalErrorsHalt, NoMissing
  <1>7. MemoryWithinLimits'
    BY DEF StartRun, RunInv, MemoryWithinLimits
  <1>8. report.valid => agent' \in visited
    BY TurnFacts DEF StartRun
  <1>9. \A i \in DOMAIN branches' : FALSE
    BY <1>1 DEF StartRun, forkVars
  <1>10. report.valid => \A i \in DOMAIN gathered' : Names(gathered'[i].next) \subseteq visited
    BY DEF StartRun, forkVars, RunInv, Predicted
  <1> QED
    BY <1>1, <1>4, <1>5, <1>6, <1>7, <1>8, <1>9, <1>10, RunStepKeeps DEF StartRun, dryVars

LEMMA OutOfTurnsKeeps == ASSUME RunInv, OutOfTurns PROVE RunInv'
  <1>1. NoFatal(errors) /\ (report.valid => NoMissing(errors))
    BY TurnFacts DEF OutOfTurns
  <1> QED
    BY <1>1, ChainTypes, MemoryStays, ChainStepKeeps DEF OutOfTurns, Halt

LEMMA RunAgentKeeps == ASSUME RunInv, RunAgent PROVE RunInv'
  <1>1. NoFatal(errors) /\ (report.valid => NoMissing(errors))
    BY TurnFacts DEF RunAgent, TurnStarts
  <1> QED
    BY <1>1, ChainTypes, MemoryStays, ChainStepKeeps DEF RunAgent, TurnStarts, runVars

\* An agent that is not registered was not foreseen by a valid dry run.
LEMMA NotFoundKeeps == ASSUME RunInv, AgentNotFound PROVE RunInv'
  <1> DEFINE e == Error(agent, "not_found", FALSE)
  <1>1. NoFatal(errors) /\ ~report.valid
    BY TurnFacts, ChainTypes DEF AgentNotFound, TurnStarts
  <1>2. e \in Errors /\ ~Fatal(e)
    BY ChainTypes, ErrorsAreErrors DEF Fatal, Error
  <1>3. errors' \in Seq(Errors) /\ NoFatal(errors')
    BY <1>1, <1>2, ChainTypes, ErrorAppended DEF AgentNotFound
  <1> QED
    BY <1>1, <1>3, ChainTypes, MemoryStays, ChainStepKeeps DEF AgentNotFound, TurnStarts, Halt

LEMMA PluginsUnavailableKeeps == ASSUME RunInv, PluginsUnavailable PROVE RunInv'
  <1> DEFINE e == Error(agent, "no_plugins", FALSE)
  <1>1. NoFatal(errors) /\ (report.valid => NoMissing(errors))
    BY TurnFacts DEF PluginsUnavailable, TurnStarts
  <1>2. e \in Errors /\ e.part # "not_found"
    BY ChainTypes, ErrorsAreErrors DEF Error
  <1>3. /\ errors' \in Seq(Errors)
        /\ report.valid => NoMissing(errors')
        /\ \A i \in DOMAIN errors' : Fatal(errors'[i]) => i = Len(errors')
    BY <1>1, <1>2, ChainTypes, ErrorAppended DEF PluginsUnavailable
  <1> QED
    BY <1>3, ChainTypes, MemoryStays, ChainStepKeeps DEF PluginsUnavailable, TurnStarts, Halt

\* A failure is the last error of a run that halts, or may be skipped.
LEMMA HandleErrorKeeps ==
    ASSUME RunInv, phase \in {"turn", "running"}, agent \in DOMAIN registry,
           turn < MaxIterations, HandleError(registry[agent])
    PROVE  RunInv'
  <1> DEFINE p == registry[agent]
             e == Error(agent, "agent", p.skippable)
  <1>1. NoFatal(errors) /\ (report.valid => NoMissing(errors)) /\ p.skippable \in BOOLEAN
    BY TurnFacts
  <1>2. e \in Errors /\ e.part # "not_found" /\ e.skippable = p.skippable
    BY <1>1, ChainTypes, ErrorsAreErrors DEF Error
  <1>3. /\ errors' \in Seq(Errors)
        /\ report.valid => NoMissing(errors')
        /\ p.skippable => NoFatal(errors')
        /\ \A i \in DOMAIN errors' : Fatal(errors'[i]) => i = Len(errors')
    BY <1>1, <1>2, ChainTypes, ErrorAppended DEF HandleError, Fatal
  <1>4. UNCHANGED <<dryVars, runs, results, forkVars, memoryVars>>
    BY DEF HandleError
  <1>5. CASE p.skippable /\ skipped' = Append(skipped, agent)
             /\ \E next \in FallbackName(registry, p) : Advance(next)
    <2>1. PICK next \in FallbackName(registry, p) : Advance(next)
      BY <1>5
    <2>2. next \in Agents /\ p \in Profiles /\ p.fallback.names # <<>> /\ next = Head(p.fallback.names)
      BY <2>1, TurnFacts DEF FallbackName
    <2>3. next \in OutNames(p)
      BY <2>2, TurnFacts, TargetNames, ProfileNames
    <2>4. report.valid => next \in visited
      BY <2>3, TurnFacts, ChainTypes
    <2>5. skipped' \in Seq(Agents) /\ turn' \in 0 .. MaxIterations
      BY <1>5, <2>1, ChainTypes DEF Advance
    <2>6. phase' = "turn" /\ agent' = next /\ completed' = completed
      BY <2>1 DEF Advance
    <2> QED
      BY <1>3, <1>4, <1>5, <2>2, <2>4, <2>5, <2>6, ChainTypes, MemoryStays, ChainStepKeeps
  <1>6. CASE p.skippable /\ skipped' = Append(skipped, agent) /\ Halt
    <2>1. skipped' \in Seq(Agents)
      BY <1>6, ChainTypes
    <2> QED
      BY <1>3, <1>4, <1>6, <2>1, ChainTypes, MemoryStays, ChainStepKeeps DEF Halt
  <1>7. CASE ~p.skippable /\ Halt /\ UNCHANGED skipped
    BY <1>3, <1>4, <1>7, ChainTypes, MemoryStays, ChainStepKeeps DEF Halt
  <1> QED
    BY <1>5, <1>6, <1>7 DEF HandleError

LEMMA AgentFailsKeeps == ASSUME RunInv, AgentFails PROVE RunInv'
  BY HandleErrorKeeps DEF AgentFails, RunInv, PhaseShape

LEMMA ResolveFailsKeeps == ASSUME RunInv, ResolveFails PROVE RunInv'
  BY HandleErrorKeeps DEF ResolveFails, TurnStarts

\* An output goes where a rule or the fallback of its agent says, which is
\* where the dry run looked.
LEMMA AgentSucceedsKeeps == ASSUME RunInv, AgentSucceeds PROVE RunInv'
  <1> DEFINE p == registry[agent]
  <1>1. /\ phase = "running" /\ UNCHANGED <<dryVars, runs, skipped>>
        /\ results' = Append(results, agent)
    BY DEF AgentSucceeds
  <1>2. agent \in DOMAIN registry /\ turn < MaxIterations /\ p \in Profiles
    BY <1>1, TurnFacts DEF RunInv, PhaseShape
  <1>3. entries' \in Nat /\ bytes' \in Nat /\ saved' \in Nat /\ MemoryWithinLimits'
    BY SaveKeeps DEF AgentSucceeds
  <1>4. results' \in Seq(Agents)
    BY <1>1, ChainTypes
  <1>5. NoFatal(errors) /\ (report.valid => NoMissing(errors)) /\ p.skippable \in BOOLEAN
    BY <1>1, <1>2, TurnFacts
  <1>6. PICK next \in Decisions(p) :
          \/ /\ next = End
             /\ ChainEnd
             /\ UNCHANGED <<errors, forkVars>>
          \/ /\ next # End /\ ~next.fork
             /\ Advance(Head(next.names))
             /\ UNCHANGED <<errors, forkVars>>
          \/ /\ next.fork /\ next.names # <<>>
             /\ phase' = "forked"
             /\ branches' = Spawned(next.names) /\ collected' = 0 /\ gathered' = <<>>
             /\ UNCHANGED <<turn, agent, completed, errors>>
          \/ /\ next.fork /\ next.names = <<>>
             /\ errors' = Append(errors, Error(agent, "fork", p.skippable))
             /\ ChainEnd
             /\ UNCHANGED forkVars
    BY DEF AgentSucceeds
  <1>7. next \in Targets /\ (report.valid => Names(next) \subseteq visited)
    BY <1>2, <1>6, ProfileNames, TurnFacts, ChainTypes
  <1>8. CASE next = End /\ ChainEnd /\ UNCHANGED <<errors, forkVars>>
    BY <1>1, <1>3, <1>4, <1>5, <1>8, ChainTypes, ChainStepKeeps DEF ChainEnd
  <1>9. CASE /\ next # End /\ ~next.fork /\ Advance(Head(next.names))
             /\ UNCHANGED <<errors, forkVars>>
    <2>1. Head(next.names) \in Agents /\ Head(next.names) \in Names(next)
      BY <1>7, <1>9, TargetNames
    <2>2. /\ phase' = "turn" /\ turn' \in 0 .. MaxIterations /\ agent' = Head(next.names)
          /\ completed' = completed
      BY <1>2, <1>9, ChainTypes DEF Advance
    <2> QED
      BY <1>1, <1>3, <1>4, <1>5, <1>7, <1>9, <2>1, <2>2, ChainTypes, ChainStepKeeps
  <1>10. CASE /\ next.fork /\ next.names # <<>>
              /\ phase' = "forked"
              /\ branches' = Spawned(next.names) /\ collected' = 0 /\ gathered' = <<>>
              /\ UNCHANGED <<turn, agent, completed, errors>>
    <2>1. /\ next.names \in Seq(Agents) /\ Len(next.names) \in Nat \ {0}
          /\ DOMAIN next.names = 1 .. Len(next.names)
      BY <1>7, <1>10, TargetNames
    <2>2. /\ branches' \in Seq(Branches) /\ Len(branches') = Len(next.names)
          /\ DOMAIN branches' = DOMAIN next.names
          /\ \A i \in DOMAIN branches' :
                /\ branches'[i].agent = next.names[i] /\ branches'[i].state = "running"
                /\ branches'[i].next = End
      <3>1. \A i \in DOMAIN next.names :
               [agent |-> next.names[i], state |-> "running", next |-> End] \in Branches
        BY <2>1, EndNames DEF Branches, BranchStates
      <3> QED
        BY <1>10, <2>1, <3>1 DEF Spawned
    <2>3. gathered' \in Seq(Gathered) /\ DOMAIN gathered' = {} /\ collected' \in 0 .. Len(branches')
      BY <1>10, <2>1, <2>2
    <2>4. DryTypeOK'
      BY <1>1 DEF RunInv, PipelineTypeOK, DryTypeOK, dryVars
    <2>5. PipelineTypeOK'
      BY <1>1, <1>3, <1>4, <1>10, <2>2, <2>3, <2>4, ChainTypes DEF RunInv, PipelineTypeOK
    <2>6. PhaseShape'
      BY <1>1, <1>2, <1>10, <2>1, <2>2, ChainTypes DEF PhaseShape, dryVars
    <2>7. FatalErrorsHalt'
      BY <1>5, <1>10 DEF FatalErrorsHalt, NoFatal, Fatal
    <2>8. report.valid => \A i \in DOMAIN branches' :
                            /\ branches'[i].agent \in visited
                            /\ branches'[i].state # "missing"
                            /\ Names(branches'[i].next) \subseteq visited
      BY <1>7, <2>2, TargetNames, EndNames
    <2>9. report.done
      BY <1>1 DEF RunInv, Predicted
    <2> QED
      BY <1>1, <1>3, <1>5, <1>10, <2>3, <2>5, <2>6, <2>7, <2>8, <2>9, ChainTypes, RunStepKeeps
  <1>11. CASE /\ next.fork /\ next.names = <<>>
              /\ errors' = Append(errors, Error(agent, "fork", p.skippable))
              /\ ChainEnd /\ UNCHANGED forkVars
    <2> DEFINE e == Error(agent, "fork", p.skippable)
    <2>1. e \in Errors /\ ~Fatal(e) /\ e.part # "not_found"
      BY <1>5, ChainTypes, ErrorsAreErrors DEF Fatal, Error
    <2>2. /\ errors' \in Seq(Errors) /\ NoFatal(errors')
          /\ report.valid => NoMissing(errors')
      BY <1>5, <1>11, <2>1, ChainTypes, ErrorAppended
    <2> QED
      BY <1>1, <1>3, <1>4, <1>11, <2>2, ChainTypes, ChainStepKeeps DEF ChainEnd
  <1> QED
    BY <1>6, <1>8, <1>9, <1>10, <1>11

----------------------------------------------------------------------------
(* Forks *)

\* A branch ends by itself, and nothing else changes.
LEMMA BranchBecomesKeeps ==
    ASSUME RunInv, phase = "forked", NEW i \in DOMAIN branches,
           NEW end \in BranchStates, NEW next \in Targets,
           BranchBecomes(i, end, next),
           end = "failed" => branches[i].agent \in DOMAIN registry,
           report.valid => end # "missing" /\ Names(next) \subseteq visited
    PROVE  RunInv'
  <1>1. /\ branches' = [branches EXCEPT ![i].state = end, ![i].next = next]
        /\ UNCHANGED <<dryVars, phase, runVars, collected, gathered, memoryVars>>
    BY DEF BranchBecomes
  <1>2. /\ branches \in Seq(Branches) /\ DOMAIN branches = 1 .. Len(branches)
        /\ Len(branches) \in Nat /\ \A j \in DOMAIN branches : branches[j] \in Branches
    BY ChainTypes
  <1> DEFINE b == [branches[i] EXCEPT !.state = end, !.next = next]
  <1>3. /\ b \in Branches /\ b.agent = branches[i].agent /\ b.state = end /\ b.next = next
    BY <1>2 DEF Branches
  <1>4. branches' = [branches EXCEPT ![i] = b]
    BY <1>1, <1>2
  <1> HIDE DEF b
  <1>5. /\ branches' \in Seq(Branches) /\ Len(branches') = Len(branches)
        /\ DOMAIN branches' = DOMAIN branches /\ branches'[i] = b
        /\ \A j \in DOMAIN branches \ {i} : branches'[j] = branches[j]
    BY <1>2, <1>3, <1>4
  <1>6. DryTypeOK'
    BY <1>1 DEF RunInv, PipelineTypeOK, DryTypeOK, dryVars
  <1>7. PipelineTypeOK'
    BY <1>1, <1>5, <1>6 DEF RunInv, PipelineTypeOK, runVars, memoryVars
  <1>8. PhaseShape'
    <2>1. \A j \in DOMAIN branches' :
             branches'[j].state = "failed" => branches'[j].agent \in DOMAIN registry'
      BY <1>1, <1>3, <1>5 DEF RunInv, PhaseShape, dryVars
    <2> QED
      BY <1>1, <1>5, <2>1 DEF RunInv, PhaseShape, dryVars, runVars
  <1>9. MemoryWithinLimits' /\ FatalErrorsHalt'
    BY <1>1 DEF RunInv, MemoryWithinLimits, FatalErrorsHalt, runVars, memoryVars
  <1>10. report.valid => \A j \in DOMAIN branches' :
                            /\ branches'[j].agent \in visited
                            /\ branches'[j].state # "missing"
                            /\ Names(branches'[j].next) \subseteq visited
    BY <1>3, <1>5 DEF RunInv, Predicted
  <1>11. report.done
    BY DEF RunInv, Predicted
  <1>12. report.valid => /\ agent' \in visited /\ NoMissing(errors')
                         /\ \A j \in DOMAIN gathered' : Names(gathered'[j].next) \subseteq visited
    BY <1>1, TurnFacts DEF RunInv, Predicted, runVars
  <1> QED
    BY <1>1, <1>7, <1>8, <1>9, <1>10, <1>11, <1>12, RunStepKeeps

LEMMA BranchStepKeeps == ASSUME RunInv, NEW i \in DOMAIN branches, BranchStep(i) PROVE RunInv'
  <1> DEFINE a == branches[i].agent
  <1>1. End \in Targets /\ Names(End) = {}
    BY EndNames
  <1>2. report.valid => a \in visited /\ a \in DOMAIN registry
    BY TurnFacts DEF RunInv, Predicted
  <1>3. CASE BranchSucceeds(i)
    <2>1. PICK next \in Decisions(registry[a]) : BranchBecomes(i, "ok", next)
      BY <1>3 DEF BranchSucceeds
    <2>2. next \in Targets /\ (report.valid => Names(next) \subseteq visited)
      BY <1>2, <1>3, TurnFacts, ProfileNames DEF BranchSucceeds
    <2> QED
      BY <1>3, <2>1, <2>2, BranchBecomesKeeps DEF BranchSucceeds, IsRunning, BranchStates
  <1>4. CASE BranchFails(i)
    BY <1>1, <1>4, BranchBecomesKeeps DEF BranchFails, IsRunning, BranchStates
  <1>5. CASE BranchIsMissing(i)
    BY <1>1, <1>2, <1>5, BranchBecomesKeeps DEF BranchIsMissing, IsRunning, BranchStates
  <1>6. CASE BranchTimesOut(i)
    BY <1>1, <1>6, BranchBecomesKeeps DEF BranchTimesOut, IsRunning, BranchStates
  <1>7. CASE BranchPanics(i)
    BY <1>1, <1>7, BranchBecomesKeeps DEF BranchPanics, IsRunning, BranchStates
  <1> QED
    BY <1>3, <1>4, <1>5, <1>6, <1>7 DEF BranchStep

\* A list of outputs, all of branches the dry run foresaw.
Outputs(got) ==
    /\ got \in Seq(Gathered)
    /\ report.valid => \A i \in DOMAIN got : Names(got[i].next) \subseteq visited

\* The merged outputs of a fork go where one of its branches decided, or to
\* the fallback of the agent that forked.
LEMMA ForkDecisionForeseen ==
    ASSUME RunInv, agent \in DOMAIN registry, NEW got, Outputs(got)
    PROVE  /\ ForkDecision(got) \in Targets
           /\ report.valid => Names(ForkDecision(got)) \subseteq visited
  <1>1. CASE \E i \in DOMAIN got : Decides(got, i)
    <2> DEFINE i == CHOOSE i \in DOMAIN got : Decides(got, i)
    <2>1. i \in DOMAIN got /\ ForkDecision(got) = got[i].next
      BY <1>1 DEF ForkDecision
    <2>2. \A j \in DOMAIN got : got[j] \in Gathered
      BY DEF Outputs
    <2> HIDE DEF i
    <2> QED
      BY <2>1, <2>2 DEF Outputs, Gathered
  <1>2. CASE ~\E i \in DOMAIN got : Decides(got, i)
    <2>1. ForkDecision(got) = registry[agent].fallback
      BY <1>2 DEF ForkDecision
    <2>2. registry[agent] \in Profiles /\ registry[agent].fallback \in Targets
      BY TurnFacts
    <2>3. report.valid => Names(registry[agent].fallback) \subseteq visited
      BY <2>2, TurnFacts, ChainTypes, ProfileNames
    <2> QED
      BY <2>1, <2>2, <2>3
  <1> QED
    BY <1>1, <1>2

\* The end of a fork leaves no branches behind, and no fatal error.
LEMMA JoinKeeps ==
    ASSUME RunInv, phase = "forked", NEW got, Outputs(got),
           NEW errs \in Seq(Errors), NoFatal(errs), report.valid => NoMissing(errs),
           skipped' \in Seq(Agents), UNCHANGED <<dryVars, runs, results, memoryVars>>,
           JoinFork(got, errs)
    PROVE  RunInv'
  <1>1. agent \in DOMAIN registry /\ turn < MaxIterations /\ report.done
    BY DEF RunInv, PhaseShape, Predicted
  <1>2. registry[agent].skippable \in BOOLEAN
    BY <1>1, TurnFacts
  <1> DEFINE e == Error(agent, "fork", registry[agent].skippable)
             f == Error(agent, "empty_fork", FALSE)
             next == ForkDecision(got)
  <1>3. /\ e \in Errors /\ ~Fatal(e) /\ e.part # "not_found"
        /\ f \in Errors /\ ~Fatal(f) /\ f.part # "not_found"
    BY <1>2, ChainTypes, ErrorsAreErrors DEF Fatal, Error
  <1>4. /\ errors' \in Seq(Errors) /\ NoFatal(errors') /\ (report.valid => NoMissing(errors'))
    <2>1. errors' \in {errs, Append(errs, e), Append(errs, f)}
      BY DEF JoinFork
    <2> HIDE DEF e, f
    <2> QED
      BY <1>3, <2>1, ErrorAppended
  <1>5. next \in Targets /\ (report.valid => Names(next) \subseteq visited)
    BY <1>1, ForkDecisionForeseen
  <1>6. /\ phase' \in {"turn", "over"} /\ turn' \in 0 .. MaxIterations
        /\ agent' \in Agents /\ completed' \in BOOLEAN
        /\ phase' # "over" => ~completed'
        /\ report.valid => agent' \in visited
    <2>1. CASE ChainEnd
      BY <2>1, ChainTypes DEF ChainEnd
    <2>2. CASE next.names # <<>> /\ Advance(Head(next.names))
      <3>1. Head(next.names) \in Agents /\ Head(next.names) \in Names(next)
        BY <1>5, <2>2, TargetNames
      <3> HIDE DEF next
      <3> QED
        BY <1>1, <1>5, <2>2, <3>1, ChainTypes DEF Advance
    <2> QED
      BY <2>1, <2>2 DEF JoinFork
  <1>7. branches' = <<>> /\ collected' = 0 /\ gathered' = got
    BY DEF JoinFork
  <1>8. branches' \in Seq(Branches) /\ collected' \in 0 .. Len(branches')
    BY <1>7
  <1>9. DryTypeOK'
    BY DEF RunInv, PipelineTypeOK, DryTypeOK, dryVars
  <1>10. PipelineTypeOK'
    BY <1>4, <1>6, <1>7, <1>8, <1>9 DEF RunInv, PipelineTypeOK, memoryVars, Outputs
  <1>11. PhaseShape'
    BY <1>6, <1>7 DEF PhaseShape
  <1>12. MemoryWithinLimits' /\ FatalErrorsHalt'
    BY <1>4, MemoryStays DEF FatalErrorsHalt, NoFatal, Fatal
  <1>13. \A i \in DOMAIN branches' : FALSE
    BY <1>7
  <1> QED
    BY <1>1, <1>4, <1>6, <1>7, <1>10, <1>11, <1>12, <1>13, RunStepKeeps DEF Outputs

\* Awaiting a branch adds its output, or an error that halts no chain.
LEMMA CollectKeeps == ASSUME RunInv, Collect PROVE RunInv'
  <1> DEFINE branch == branches[NextHandle]
             got  == IF branch.state = "ok"
                     THEN Append(gathered, [agent |-> branch.agent, next |-> branch.next])
                     ELSE gathered
             errs == IF branch.state = "ok" THEN errors ELSE Append(errors, BranchError(branch))
  <1>1. /\ phase = "forked" /\ UNCHANGED <<dryVars, runs, results, memoryVars>>
        /\ skipped' = IF IsSkippable(branch) THEN Append(skipped, branch.agent) ELSE skipped
        /\ \/ /\ ~IsFatal(branch) /\ NextHandle < Len(branches)
              /\ collected' = NextHandle /\ gathered' = got /\ errors' = errs
              /\ UNCHANGED <<branches, phase, turn, agent, completed>>
           \/ /\ IsFatal(branch) \/ NextHandle = Len(branches)
              /\ JoinFork(got, errs)
    BY DEF Collect
  <1>2. /\ NextHandle \in DOMAIN branches /\ NextHandle \in Nat /\ branch \in Branches
    BY <1>1, ChainTypes DEF NextHandle, RunInv, PhaseShape
  <1>3. /\ branch.agent \in Agents /\ branch.next \in Targets /\ branch.state \in BranchStates
    BY <1>2 DEF Branches
  <1>4. /\ branch.state = "failed" => registry[branch.agent].skippable \in BOOLEAN
        /\ report.valid => branch.state # "missing" /\ Names(branch.next) \subseteq visited
    BY <1>2, TurnFacts DEF RunInv, PhaseShape, Predicted
  <1>5. IsSkippable(branch) \in BOOLEAN
    BY DEF IsSkippable
  <1>6. /\ BranchError(branch) \in Errors
        /\ BranchError(branch).part \in {"not_found", "branch"}
        /\ branch.state # "missing" => BranchError(branch).part = "branch"
    <2>1. CASE branch.state = "missing"
      BY <1>3, <2>1, ErrorsAreErrors DEF BranchError, Error
    <2>2. CASE branch.state = "panicked"
      BY <1>3, <2>2, ErrorsAreErrors DEF BranchError, Error
    <2>3. CASE branch.state \notin {"missing", "panicked"}
      <3> DEFINE e == Error(branch.agent, "branch", IsSkippable(branch))
      <3>1. BranchError(branch) = e
        BY <2>3 DEF BranchError
      <3>2. e \in Errors
        BY <1>3, <1>5, ErrorsAreErrors
      <3>3. e.part = "branch"
        BY DEF Error
      <3> HIDE DEF e, branch
      <3> QED
        BY <3>1, <3>2, <3>3
    <2> QED
      BY <2>1, <2>2, <2>3
  <1>7. Outputs(got)
    <2>1. gathered \in Seq(Gathered)
          /\ (report.valid => \A i \in DOMAIN gathered : Names(gathered[i].next) \subseteq visited)
      BY ChainTypes DEF RunInv, Predicted
    <2> DEFINE g == [agent |-> branch.agent, next |-> branch.next]
    <2>2. g \in Gathered /\ g.next = branch.next
      BY <1>3 DEF Gathered
    <2>3. /\ Append(gathered, g) \in Seq(Gathered)
          /\ \A i \in DOMAIN Append(gathered, g) :
                Append(gathered, g)[i] = g \/ (i \in DOMAIN gathered /\ Append(gathered, g)[i] = gathered[i])
      <3> HIDE DEF g
      <3> QED
        BY <2>1, <2>2
    <2>4. CASE branch.state = "ok"
      <3>1. got = Append(gathered, g)
        BY <2>4
      <3>2. report.valid => \A i \in DOMAIN Append(gathered, g) :
                               Names(Append(gathered, g)[i].next) \subseteq visited
        BY <1>4, <2>1, <2>2, <2>3
      <3> HIDE DEF g, got
      <3> QED
        BY <2>3, <3>1, <3>2 DEF Outputs
    <2>5. CASE branch.state # "ok"
      BY <2>1, <2>5 DEF Outputs
    <2> QED
      BY <2>4, <2>5
  <1>8. errs \in Seq(Errors) /\ NoFatal(errs) /\ (report.valid => NoMissing(errs))
    <2>1. errors \in Seq(Errors) /\ NoFatal(errors) /\ (report.valid => NoMissing(errors))
      BY <1>1, ChainTypes, TurnFacts
    <2>2. ~Fatal(BranchError(branch)) /\ (report.valid => BranchError(branch).part # "not_found")
      BY <1>4, <1>6 DEF Fatal
    <2> QED
      BY <1>6, <2>1, <2>2, ErrorAppended
  <1>9. skipped' \in Seq(Agents)
    BY <1>1, <1>3, ChainTypes
  <1>10. CASE JoinFork(got, errs)
    <2> HIDE DEF got, errs
    <2> QED
      BY <1>1, <1>7, <1>8, <1>9, <1>10, JoinKeeps
  <1>11. CASE /\ NextHandle < Len(branches)
              /\ collected' = NextHandle /\ gathered' = got /\ errors' = errs
              /\ UNCHANGED <<branches, phase, turn, agent, completed>>
    <2> HIDE DEF got, errs
    <2>1. collected' \in 0 .. Len(branches') /\ collected' < Len(branches')
      BY <1>2, <1>11, ChainTypes
    <2>2. DryTypeOK'
      BY <1>1 DEF RunInv, PipelineTypeOK, DryTypeOK, dryVars
    <2>3. PipelineTypeOK'
      BY <1>1, <1>7, <1>8, <1>9, <1>11, <2>1, <2>2 DEF RunInv, PipelineTypeOK, memoryVars, Outputs
    <2>4. PhaseShape'
      BY <1>1, <1>11, <2>1 DEF RunInv, PhaseShape, dryVars
    <2>5. MemoryWithinLimits' /\ FatalErrorsHalt'
      BY <1>1, <1>8, <1>11, MemoryStays DEF FatalErrorsHalt, NoFatal, Fatal
    <2>6. report.done
      BY <1>1 DEF RunInv, Predicted
    <2>7. report.valid => \A i \in DOMAIN branches' :
                            /\ branches'[i].agent \in visited
                            /\ branches'[i].state # "missing"
                            /\ Names(branches'[i].next) \subseteq visited
      BY <1>11 DEF RunInv, Predicted
    <2> QED
      BY <1>1, <1>7, <1>8, <1>11, <2>3, <2>4, <2>5, <2>6, <2>7, ChainTypes, RunStepKeeps DEF Outputs
  <1> QED
    BY <1>1, <1>10, <1>11

----------------------------------------------------------------------------
(* The theorems *)

\* What a dry run foresees when it is done, it foresees in the next state.
LEMMA WalkForeseesNext == WalkInv' => Foreseen'
  <1>1. WalkInv => Foreseen
    BY WalkForesees
  <1> QED
    BY <1>1, PTL

\* The dry run moves nothing of the run, which waits at its start.
LEMMA DryRunKeeps == ASSUME RunInv, DryRunFirst PROVE RunInv'
  <1>1. /\ ~report.done /\ DryNext /\ UNCHANGED <<phase, runVars, forkVars, memoryVars>>
        /\ start' = start /\ registry' = registry
    BY DEF DryRunFirst, DryNext, Walk, Conclude
  <1>2. WalkInv' /\ Foreseen'
    BY <1>1, DryStepKeeps, WalkForeseesNext DEF RunInv
  <1>3. phase = "ready" /\ agent = start /\ errors = <<>> /\ gathered = <<>> /\ branches = <<>>
    BY <1>1 DEF RunInv, Predicted, PhaseShape
  <1>4. DryTypeOK'
    BY <1>2 DEF WalkInv
  <1>5. PipelineTypeOK'
    BY <1>1, <1>4 DEF RunInv, PipelineTypeOK, runVars, forkVars, memoryVars
  <1>6. PhaseShape' /\ MemoryWithinLimits' /\ FatalErrorsHalt'
    BY <1>1, <1>3 DEF RunInv, PhaseShape, MemoryWithinLimits, FatalErrorsHalt,
                      runVars, forkVars, memoryVars
  <1>7. Predicted'
    BY <1>1, <1>2, <1>3 DEF Predicted, Foreseen, runVars, forkVars
  <1> QED
    BY <1>2, <1>5, <1>6, <1>7 DEF RunInv

LEMMA RunInitially == ASSUME PipelineInit PROVE RunInv
  <1>1. WalkInv
    BY WalkInitially DEF PipelineInit
  <1>2. /\ results \in Seq(Agents) /\ errors \in Seq(Errors) /\ skipped \in Seq(Agents)
        /\ branches \in Seq(Branches) /\ gathered \in Seq(Gathered)
        /\ Len(branches) = 0
    BY DEF PipelineInit
  <1>3. PipelineTypeOK
    <2>1. DryTypeOK /\ start \in Agents
      BY <1>1 DEF WalkInv, DryTypeOK
    <2>2. /\ phase = "ready" /\ runs = 0 /\ turn = 0 /\ agent = start /\ completed = FALSE
          /\ collected = 0 /\ entries = 0 /\ bytes = 0 /\ saved = 0
      BY DEF PipelineInit
    <2>3. /\ runs \in 0 .. MaxRuns /\ turn \in 0 .. MaxIterations
          /\ collected \in 0 .. Len(branches)
          /\ entries \in Nat /\ bytes \in Nat /\ saved \in Nat
      BY <1>2, <2>2, PipelineAssumption
    <2> QED
      BY <1>2, <2>1, <2>2, <2>3 DEF PipelineTypeOK
  <1>4. PhaseShape /\ MemoryWithinLimits /\ FatalErrorsHalt
    BY PipelineAssumption DEF PipelineInit, PhaseShape, MemoryWithinLimits, FatalErrorsHalt
  <1>5. Predicted
    BY DEF PipelineInit, DryInit, Predicted
  <1> QED
    BY <1>1, <1>3, <1>4, <1>5 DEF RunInv

LEMMA RunStutterKeeps == ASSUME RunInv, UNCHANGED pipelineVars PROVE RunInv'
  <1>1. WalkInv'
    BY DryStutterKeeps DEF RunInv, pipelineVars
  <1> QED
    BY <1>1 DEF RunInv, pipelineVars, dryVars, runVars, forkVars, memoryVars, PipelineTypeOK,
                DryTypeOK, PhaseShape, MemoryWithinLimits, FatalErrorsHalt, Predicted

\* The invariant of a pipeline, its dry run and its forks.
THEOREM RunInvariant == PipelineSpec => []RunInv
  <1>1. PipelineInit => RunInv
    BY RunInitially
  <1>2. RunInv /\ [PipelineNext]_pipelineVars => RunInv'
    <2> SUFFICES ASSUME RunInv, PipelineNext \/ UNCHANGED pipelineVars PROVE RunInv'
      OBVIOUS
    <2>1. CASE DryRunFirst            BY <2>1, DryRunKeeps
    <2>2. CASE StartRun               BY <2>2, StartKeeps
    <2>3. CASE OutOfTurns             BY <2>3, OutOfTurnsKeeps
    <2>4. CASE AgentNotFound          BY <2>4, NotFoundKeeps
    <2>5. CASE ResolveFails           BY <2>5, ResolveFailsKeeps
    <2>6. CASE PluginsUnavailable     BY <2>6, PluginsUnavailableKeeps
    <2>7. CASE RunAgent               BY <2>7, RunAgentKeeps
    <2>8. CASE AgentFails             BY <2>8, AgentFailsKeeps
    <2>9. CASE AgentSucceeds          BY <2>9, AgentSucceedsKeeps
    <2>10. CASE \E i \in DOMAIN branches : BranchStep(i)
      BY <2>10, BranchStepKeeps
    <2>11. CASE Collect               BY <2>11, CollectKeeps
    <2>12. CASE UNCHANGED pipelineVars BY <2>12, RunStutterKeeps
    <2> QED
      BY <2>1, <2>2, <2>3, <2>4, <2>5, <2>6, <2>7, <2>8, <2>9, <2>10, <2>11, <2>12
         DEF PipelineNext
  <1> QED
    BY <1>1, <1>2, PTL DEF PipelineSpec

\* The variables of a run, of a fork and of the dry run keep their types.
THEOREM PipelineTypes == PipelineSpec => []PipelineTypeOK
  <1>1. RunInv => PipelineTypeOK
    BY DEF RunInv
  <1> QED
    BY <1>1, RunInvariant, PTL

\* The memory of a pipeline never holds more entries or bytes than allowed,
\* over any number of runs.
THEOREM MemoryIsLimited == PipelineSpec => []MemoryWithinLimits
  <1>1. RunInv => MemoryWithinLimits
    BY DEF RunInv
  <1> QED
    BY <1>1, RunInvariant, PTL

\* Only the last error of a run that is over and not completed is a failure of
\* the chain that may not be skipped.
THEOREM FatalErrorsAreLast == PipelineSpec => []FatalErrorsHalt
  <1>1. RunInv => FatalErrorsHalt
    BY DEF RunInv
  <1> QED
    BY <1>1, RunInvariant, PTL

\* dry_run is sound: in a pipeline it calls valid, no run comes to an agent
\* that is not registered.
THEOREM DryRunIsSound == PipelineSpec => []ValidPipelinesMissNobody
  <1>1. RunInv => ValidPipelinesMissNobody
    <2> SUFFICES ASSUME RunInv, report.valid PROVE ValidPipelinesMissNobody
      BY DEF ValidPipelinesMissNobody
    <2>1. agent \in DOMAIN registry
      BY TurnFacts, ChainTypes
    <2> QED
      BY <2>1 DEF ValidPipelinesMissNobody, RunInv, Predicted
  <1> QED
    BY <1>1, RunInvariant, PTL

----------------------------------------------------------------------------
(* What the dry run finds *)

\* Only dry_run moves the state of the dry run.
LEMMA OnlyDryRunMoves == ASSUME PipelineNext \/ UNCHANGED pipelineVars
                         PROVE  DryNext \/ UNCHANGED dryVars
  BY DEF PipelineNext, pipelineVars, DryRunFirst, StartRun, OutOfTurns, AgentNotFound, ResolveFails,
         PluginsUnavailable, RunAgent, AgentFails, HandleError, AgentSucceeds, BranchStep,
         BranchSucceeds, BranchFails, BranchIsMissing, BranchTimesOut, BranchPanics, BranchBecomes,
         Collect

\* So what it has found stays true while the pipeline runs.
LEMMA ExactKeeps == ASSUME RunInv, ExactInv, PipelineNext \/ UNCHANGED pipelineVars
                    PROVE  ExactInv'
  BY OnlyDryRunMoves, ExactStepKeeps, ExactStutterKeeps DEF RunInv

\* What the walk of dry_run has found is true in every state of a pipeline.
THEOREM ExactInvariant == PipelineSpec => []ExactInv
  <1>1. PipelineInit => ExactInv
    BY ExactInitially DEF PipelineInit
  <1>2. RunInv /\ ExactInv /\ [PipelineNext]_pipelineVars => ExactInv'
    BY ExactKeeps
  <1> QED
    BY <1>1, <1>2, RunInvariant, PTL DEF PipelineSpec

\* dry_run is exact, in every registry: its chain lists what can be reached,
\* each agent once, and it reports a cycle when and only when there is one.
THEOREM DryRunTheorem == PipelineSpec => []DryRunIsExact
  <1>1. RunInv /\ ExactInv => DryRunIsExact
    BY WalkIsExact DEF RunInv
  <1> QED
    BY <1>1, RunInvariant, ExactInvariant, PTL

----------------------------------------------------------------------------
(* The way a run has come.  A run of a valid pipeline follows the routes   *)
(* the dry run followed, one or - through a fork - two for each turn.      *)

\* A list of n agents, each of which may route to the next.
IsRoute(p, n) ==
    /\ n \in Nat /\ p \in [1 .. n -> visited]
    /\ \A i \in 1 .. n - 1 : p[i + 1] \in OutNames(registry[p[i]])

\* A route of more than k agents ends in a.
Arrived(a, k) == \E n, p : IsRoute(p, n) /\ n > k /\ p[n] = a

\* A branch of the agent's fork, and where it decided to go on.
Routed(b) ==
    /\ b.agent \in OutNames(registry[agent])
    /\ Names(b.next) \subseteq OutNames(registry[b.agent])

TrailInv ==
    /\ ~report.done => turn = 0
    /\ report.valid =>
          /\ Arrived(agent, turn)
          /\ phase = "forked" =>
                /\ \A i \in DOMAIN branches : Routed(branches[i])
                /\ \A i \in DOMAIN gathered : Routed(gathered[i])

\* A route goes on wherever its last agent may route to.
LEMMA RouteGoesOn ==
    ASSUME RunInv, report.valid, NEW k \in Nat, NEW a, Arrived(a, k), NEW b \in OutNames(registry[a])
    PROVE  Arrived(b, k + 1) /\ Arrived(b, k)
  <1>1. PICK n, p : IsRoute(p, n) /\ n > k /\ p[n] = a
    BY DEF Arrived
  <1>2. n \in Nat /\ n > k /\ p \in [1 .. n -> visited] /\ n \in 1 .. n
    BY <1>1 DEF IsRoute
  <1>3. b \in visited
    BY <1>1, <1>2, TurnFacts
  <1> DEFINE q == [i \in 1 .. n + 1 |-> IF i = n + 1 THEN b ELSE p[i]]
  <1>4. /\ q \in [1 .. n + 1 -> visited] /\ q[n + 1] = b
        /\ \A i \in 1 .. n : q[i] = p[i]
    BY <1>2, <1>3
  <1> HIDE DEF q
  <1>5. \A i \in 1 .. (n + 1) - 1 : q[i + 1] \in OutNames(registry[q[i]])
    <2> SUFFICES ASSUME NEW i \in 1 .. n PROVE q[i + 1] \in OutNames(registry[q[i]])
      BY <1>2
    <2>1. CASE i = n
      BY <1>1, <1>2, <1>4, <2>1
    <2>2. CASE i # n
      <3>1. i \in 1 .. n - 1 /\ i + 1 \in 1 .. n
        BY <1>2, <2>2
      <3>2. QED
        BY <1>1, <1>4, <3>1 DEF IsRoute
    <2> QED
      BY <2>1, <2>2
  <1>6. IsRoute(q, n + 1) /\ n + 1 > k + 1 /\ n + 1 > k
    BY <1>2, <1>4, <1>5 DEF IsRoute
  <1> QED
    BY <1>4, <1>6 DEF Arrived

\* No agent comes twice on a route: those between would route among themselves.
LEMMA RoutesDoNotTurnBack ==
    ASSUME RunInv, ExactInv, report.valid, NEW n, NEW p, IsRoute(p, n)
    PROVE  \A i, j \in 1 .. n : p[i] = p[j] => i = j
  <1>1. ASSUME NEW i \in 1 .. n, NEW j \in 1 .. n, i < j, p[i] = p[j] PROVE FALSE
    <2> DEFINE C == {p[k] : k \in i .. j - 1}
    <2>1. DryRunIsExact /\ report.done /\ ~report.circular
      BY WalkIsExact DEF RunInv, WalkInv, ExactInv
    <2>2. n \in Nat /\ \A k \in i .. j - 1 : k \in 1 .. n - 1 /\ k \in 1 .. n /\ k + 1 \in i .. j
      BY DEF IsRoute
    <2>3. visited \subseteq DOMAIN registry /\ visited \subseteq Reachable
      BY <2>1, TurnFacts DEF DryRunIsExact, ExactInv
    <2>4. \A k \in i .. j - 1 : p[k] \in visited /\ p[k + 1] \in visited /\ p[k + 1] \in OutNames(registry[p[k]])
      <3>1. p \in [1 .. n -> visited] /\ \A k \in 1 .. n - 1 : k + 1 \in 1 .. n
        BY <2>2 DEF IsRoute
      <3>2. QED
        BY <2>2, <3>1 DEF IsRoute
    <2>5. \A k \in i .. j - 1 : p[k + 1] \in C
      <3> SUFFICES ASSUME NEW k \in i .. j - 1 PROVE p[k + 1] \in C
        OBVIOUS
      <3>1. CASE k + 1 = j
        <4>1. i \in i .. j - 1 /\ p[k + 1] = p[i]
          BY <1>1, <2>2, <3>1
        <4>2. QED
          BY <4>1
      <3>2. CASE k + 1 # j
        <4>1. k + 1 \in i .. j - 1
          BY <2>2, <3>2
        <4>2. QED
          BY <4>1
      <3>3. QED
        BY <3>1, <3>2
    <2>6. C \in SUBSET Reachable /\ C # {}
      <3>1. i \in i .. j - 1
        BY <1>1
      <3>2. QED
        BY <2>3, <2>4, <3>1
    <2>7. \A a \in C : Successors(a) \cap C # {}
      <3> SUFFICES ASSUME NEW k \in i .. j - 1 PROVE Successors(p[k]) \cap C # {}
        OBVIOUS
      <3>1. p[k + 1] \in Successors(p[k])
        BY <2>3, <2>4 DEF Successors
      <3>2. QED
        BY <2>5, <3>1
    <2> HIDE DEF C
    <2>8. QED
      BY <2>1, <2>6, <2>7 DEF DryRunIsExact
  <1>2. n \in Nat
    BY DEF IsRoute
  <1>3. \A i, j \in 1 .. n : i = j \/ i < j \/ j < i
    BY <1>2
  <1> QED
    BY <1>1, <1>3

\* So a run has taken fewer turns than there are agents in the chain.
LEMMA TrailEnds == ASSUME RunInv, ExactInv, TrailInv PROVE ValidPipelinesEnd
  <1> SUFFICES ASSUME report.valid PROVE turn < Len(report.chain)
    BY DEF ValidPipelinesEnd
  <1>1. PICK n, p : IsRoute(p, n) /\ n > turn
    BY DEF TrailInv, Arrived
  <1>2. n \in Nat /\ p \in [1 .. n -> visited]
    BY <1>1 DEF IsRoute
  <1> DEFINE U == ToSet(report.chain)
  <1>3. visited \subseteq Agents /\ report.chain \in Seq(Agents) /\ IsFiniteSet(Agents)
    BY HandoffAssumption DEF RunInv, WalkInv, DryTypeOK
  <1>4. U = visited
    BY TurnFacts DEF ExactInv
  <1>5. IsFiniteSet(visited)
    BY <1>3, FS_Subset
  <1>6. Len(report.chain) = Cardinality(U)
    BY <1>3, OnceEach DEF ExactInv
  <1>7. p \in Seq(visited) /\ Len(p) = n /\ DOMAIN p = 1 .. n /\ ToSet(p) \subseteq visited
    BY <1>2 DEF ToSet
  <1>8. \A i, j \in DOMAIN p : p[i] = p[j] => i = j
    BY <1>1, <1>7, RoutesDoNotTurnBack
  <1>9. Len(p) <= Cardinality(visited)
    BY <1>5, <1>7, <1>8, OnceEach
  <1>10. turn \in Nat /\ Len(report.chain) \in Nat
    BY <1>3, ChainTypes
  <1> HIDE DEF U
  <1> QED
    BY <1>1, <1>2, <1>4, <1>6, <1>7, <1>9, <1>10

\* Nobody runs before the dry run is done, and then it is not done again.
LEMMA TrailStepKeeps ==
    ASSUME RunInv, TrailInv, UNCHANGED dryVars, report.done,
           report.valid =>
              /\ Arrived(agent', turn')
              /\ phase' = "forked" =>
                    /\ agent' = agent
                    /\ \A i \in DOMAIN branches' : Routed(branches'[i])
                    /\ \A i \in DOMAIN gathered' : Routed(gathered'[i])
    PROVE  TrailInv'
  BY DEF TrailInv, dryVars, Arrived, IsRoute, Routed

\* A run begins at the start of all routes.
LEMMA StartArrives == ASSUME RunInv, report.valid PROVE Arrived(start, 0)
  <1> DEFINE p == [i \in 1 .. 1 |-> start]
  <1>1. p \in [1 .. 1 -> visited] /\ p[1] = start
    BY TurnFacts
  <1>2. IsRoute(p, 1) /\ 1 > 0
    <2> HIDE DEF p
    <2> QED
      BY <1>1 DEF IsRoute
  <1> QED
    BY <1>1, <1>2 DEF Arrived

\* Where the chain stands still, or takes one step along a route.
LEMMA ChainStepFollows ==
    ASSUME RunInv, TrailInv, UNCHANGED dryVars, report.done, phase' # "forked",
           turn' = turn, agent' = agent
    PROVE  TrailInv'
  BY TrailStepKeeps DEF TrailInv

\* The chain goes on to an agent that its agent may route to.
LEMMA AdvanceFollows ==
    ASSUME RunInv, TrailInv, UNCHANGED dryVars, report.done,
           NEW next, Advance(next), report.valid => next \in OutNames(registry[agent])
    PROVE  TrailInv'
  <1>1. turn \in Nat /\ phase' # "forked" /\ turn' = turn + 1 /\ agent' = next
    BY ChainTypes DEF Advance
  <1>2. report.valid => Arrived(next, turn + 1)
    BY <1>1, RouteGoesOn DEF TrailInv
  <1> QED
    BY <1>1, <1>2, TrailStepKeeps

\* A fallback lies on a route as well.
LEMMA HandleErrorFollows ==
    ASSUME RunInv, TrailInv, phase \in {"turn", "running"}, agent \in DOMAIN registry,
           HandleError(registry[agent])
    PROVE  TrailInv'
  <1> DEFINE p == registry[agent]
  <1>1. UNCHANGED dryVars /\ report.done
    BY DEF HandleError, RunInv, Predicted
  <1>2. CASE Halt
    BY <1>1, <1>2, ChainStepFollows DEF Halt
  <1>3. ASSUME NEW next \in FallbackName(registry, p), Advance(next)
        PROVE  TrailInv'
    <2>1. p \in Profiles /\ p.fallback \in Targets /\ p.fallback.names # <<>> /\ next = Head(p.fallback.names)
      BY <1>3, TurnFacts DEF FallbackName
    <2>2. next \in OutNames(p)
      BY <2>1, TargetNames, ProfileNames
    <2> HIDE DEF p
    <2>3. QED
      BY <1>1, <1>3, <2>2, AdvanceFollows DEF p
  <1> QED
    BY <1>2, <1>3 DEF HandleError

\* A decision leads along a route, and a fork's branches begin on one.
LEMMA AgentSucceedsFollows == ASSUME RunInv, TrailInv, AgentSucceeds PROVE TrailInv'
  <1> DEFINE p == registry[agent]
  <1>1. UNCHANGED dryVars /\ report.done /\ p \in Profiles
    BY TurnFacts DEF AgentSucceeds, RunInv, Predicted, PhaseShape
  <1>2. PICK next \in Decisions(p) :
          \/ ChainEnd
          \/ next # End /\ ~next.fork /\ Advance(Head(next.names))
          \/ /\ next.fork /\ next.names # <<>>
             /\ phase' = "forked"
             /\ branches' = Spawned(next.names) /\ collected' = 0 /\ gathered' = <<>>
             /\ UNCHANGED <<turn, agent, completed, errors>>
    BY DEF AgentSucceeds
  <1>3. next \in Targets /\ Names(next) \subseteq OutNames(p)
    BY <1>1, <1>2, ProfileNames
  <1>4. CASE ChainEnd
    BY <1>1, <1>4, ChainStepFollows DEF ChainEnd
  <1>5. CASE next # End /\ ~next.fork /\ Advance(Head(next.names))
    <2>1. Head(next.names) \in OutNames(p)
      BY <1>3, <1>5, TargetNames
    <2>2. QED
      BY <1>1, <1>5, <2>1, AdvanceFollows
  <1>6. CASE /\ phase' = "forked"
             /\ branches' = Spawned(next.names) /\ collected' = 0 /\ gathered' = <<>>
             /\ UNCHANGED <<turn, agent, completed, errors>>
    <2>1. \A i \in DOMAIN branches' : Routed(branches'[i])
      <3> SUFFICES ASSUME NEW i \in DOMAIN next.names
                   PROVE  Routed([agent |-> next.names[i], state |-> "running", next |-> End])
        BY <1>6 DEF Spawned
      <3>1. next.names[i] \in OutNames(p)
        BY <1>3, TargetNames
      <3>2. QED
        BY <3>1, EndNames DEF Routed
    <2>2. \A i \in DOMAIN gathered' : Routed(gathered'[i])
      BY <1>6
    <2>3. report.valid => Arrived(agent, turn)
      BY DEF TrailInv
    <2>4. agent' = agent /\ turn' = turn
      BY <1>6
    <2> QED
      BY <1>1, <2>1, <2>2, <2>3, <2>4, TrailStepKeeps
  <1> QED
    BY <1>2, <1>4, <1>5, <1>6

\* A branch decides as its own agent may.
LEMMA BranchStepFollows == ASSUME RunInv, TrailInv, NEW i \in DOMAIN branches, BranchStep(i)
                           PROVE  TrailInv'
  <1>1. PICK end, next :
           /\ BranchBecomes(i, end, next)
           /\ report.valid => Names(next) \subseteq OutNames(registry[branches[i].agent])
    <2>1. CASE BranchSucceeds(i)
      <3>1. PICK next \in Decisions(registry[branches[i].agent]) : BranchBecomes(i, "ok", next)
        BY <2>1 DEF BranchSucceeds
      <3>2. Names(next) \subseteq OutNames(registry[branches[i].agent])
        BY <2>1, TurnFacts, ProfileNames DEF BranchSucceeds
      <3>3. QED
        BY <3>1, <3>2 DEF BranchStates
    <2>2. CASE BranchFails(i) \/ BranchIsMissing(i) \/ BranchTimesOut(i) \/ BranchPanics(i)
      <3>1. \E end \in BranchStates : BranchBecomes(i, end, End)
        BY <2>2 DEF BranchFails, BranchIsMissing, BranchTimesOut, BranchPanics, BranchStates
      <3>2. QED
        BY <3>1, EndNames
    <2>3. QED
      BY <2>1, <2>2 DEF BranchStep
  <1>2. phase = "forked"
    BY DEF BranchStep, BranchSucceeds, BranchFails, BranchIsMissing, BranchTimesOut, BranchPanics, IsRunning
  <1>3. UNCHANGED <<dryVars, phase, turn, agent, gathered>> /\ report.done
    BY <1>1, <1>2 DEF BranchBecomes, runVars, RunInv, Predicted
  <1>4. branches \in Seq(Branches) /\ \A j \in DOMAIN branches : branches[j] \in Branches
    BY ChainTypes
  <1>5. /\ DOMAIN branches' = DOMAIN branches
        /\ branches'[i].agent = branches[i].agent /\ branches'[i].next = next
        /\ \A j \in DOMAIN branches \ {i} : branches'[j] = branches[j]
    <2> DEFINE b == [branches[i] EXCEPT !.state = end, !.next = next]
    <2>1. b.agent = branches[i].agent /\ b.next = next
      BY <1>4 DEF Branches
    <2>2. branches' = [branches EXCEPT ![i] = b]
      BY <1>1, <1>4 DEF BranchBecomes
    <2> HIDE DEF b
    <2>3. QED
      BY <1>4, <2>1, <2>2
  <1>6. ASSUME report.valid
        PROVE  /\ Arrived(agent, turn)
               /\ \A j \in DOMAIN branches' : Routed(branches'[j])
               /\ \A j \in DOMAIN gathered' : Routed(gathered'[j])
    <2>1. /\ Arrived(agent, turn)
          /\ \A j \in DOMAIN branches : Routed(branches[j])
          /\ \A j \in DOMAIN gathered : Routed(gathered[j])
      BY <1>2, <1>6 DEF TrailInv
    <2>2. Routed(branches'[i])
      BY <1>1, <1>5, <1>6, <2>1 DEF Routed
    <2>3. QED
      BY <1>3, <1>5, <2>1, <2>2
  <1> QED
    BY <1>3, <1>6, TrailStepKeeps

\* The merged outputs of a fork go where one of its branches may go on, or
\* where the agent that forked may.
LEMMA JoinFollows ==
    ASSUME RunInv, TrailInv, phase = "forked", UNCHANGED dryVars,
           NEW got \in Seq(Gathered), report.valid => \A i \in DOMAIN got : Routed(got[i]),
           NEW errs, JoinFork(got, errs)
    PROVE  TrailInv'
  <1> DEFINE next == ForkDecision(got)
  <1>1. report.done /\ agent \in DOMAIN registry
    BY DEF RunInv, Predicted, PhaseShape
  <1>2. CASE ChainEnd
    BY <1>1, <1>2, ChainStepFollows DEF ChainEnd
  <1>3. CASE next.names # <<>> /\ Advance(Head(next.names))
    <2>1. CASE \E i \in DOMAIN got : Decides(got, i)
      <3> DEFINE i == CHOOSE i \in DOMAIN got : Decides(got, i)
                 b == got[i]
                 target == Head(next.names)
      <3>1. i \in DOMAIN got /\ next = b.next /\ b \in Gathered
        BY <2>1 DEF ForkDecision
      <3>2. b.next \in Targets
        BY <3>1 DEF Gathered
      <3>3. target \in Names(b.next)
        BY <1>3, <3>1, <3>2, TargetNames
      <3>4. turn \in Nat /\ phase' = "turn" /\ turn' = turn + 1 /\ agent' = target
        BY <1>3, ChainTypes DEF Advance
      <3> HIDE DEF target, b, i
      <3>5. ASSUME report.valid PROVE Arrived(target, turn + 1)
        <4>1. Routed(b)
          BY <3>1, <3>5 DEF b
        <4>2. Arrived(b.agent, turn)
          BY <3>4, <3>5, <4>1, RouteGoesOn DEF TrailInv, Routed
        <4>3. target \in OutNames(registry[b.agent])
          BY <3>3, <4>1 DEF Routed
        <4>4. QED
          BY <3>4, <3>5, <4>2, <4>3, RouteGoesOn
      <3>6. QED
        BY <1>1, <3>4, <3>5, TrailStepKeeps
    <2>2. CASE ~\E i \in DOMAIN got : Decides(got, i)
      <3>1. next = registry[agent].fallback
        BY <2>2 DEF ForkDecision
      <3>2. registry[agent] \in Profiles /\ next \in Targets
        BY <1>1, <3>1, TurnFacts
      <3>3. Head(next.names) \in OutNames(registry[agent])
        BY <1>3, <3>1, <3>2, TargetNames, ProfileNames
      <3> HIDE DEF next
      <3>4. QED
        BY <1>1, <1>3, <3>3, AdvanceFollows
    <2>3. QED
      BY <2>1, <2>2
  <1> QED
    BY <1>2, <1>3 DEF JoinFork

\* Awaiting a branch keeps its output, which is as routed as the branch was.
LEMMA CollectFollows == ASSUME RunInv, TrailInv, Collect PROVE TrailInv'
  <1> DEFINE b == branches[NextHandle]
             g == [agent |-> b.agent, next |-> b.next]
             got == IF b.state = "ok" THEN Append(gathered, g) ELSE gathered
             errs == IF b.state = "ok" THEN errors ELSE Append(errors, BranchError(b))
  <1>1. phase = "forked" /\ UNCHANGED dryVars /\ report.done
    BY DEF Collect, RunInv, Predicted
  <1>2. \/ collected' = NextHandle /\ gathered' = got /\ UNCHANGED <<branches, phase, turn, agent>>
        \/ JoinFork(got, errs)
    BY DEF Collect
  <1>3. NextHandle \in DOMAIN branches /\ b \in Branches /\ gathered \in Seq(Gathered)
    BY <1>1, ChainTypes DEF NextHandle, RunInv, PhaseShape
  <1>4. g \in Gathered /\ g.agent = b.agent /\ g.next = b.next
    BY <1>3 DEF Branches, Gathered
  <1>5. report.valid => Routed(g) /\ \A i \in DOMAIN gathered : Routed(gathered[i])
    BY <1>1, <1>3, <1>4 DEF TrailInv, Routed
  <1> HIDE DEF g
  <1>6. got \in Seq(Gathered) /\ (report.valid => \A i \in DOMAIN got : Routed(got[i]))
    <2>1. /\ Append(gathered, g) \in Seq(Gathered)
          /\ \A i \in DOMAIN Append(gathered, g) :
                Append(gathered, g)[i] = g \/ (i \in DOMAIN gathered /\ Append(gathered, g)[i] = gathered[i])
      BY <1>3, <1>4
    <2>2. report.valid => \A i \in DOMAIN Append(gathered, g) : Routed(Append(gathered, g)[i])
      BY <1>5, <2>1
    <2>3. QED
      BY <1>3, <1>5, <2>1, <2>2
  <1> HIDE DEF got, errs
  <1>7. CASE JoinFork(got, errs)
    BY <1>1, <1>6, <1>7, JoinFollows
  <1>8. CASE gathered' = got /\ UNCHANGED <<branches, phase, turn, agent>>
    BY <1>1, <1>6, <1>8, TrailStepKeeps DEF TrailInv
  <1> QED
    BY <1>2, <1>7, <1>8

\* The start is where all routes begin, also in the next state.
StartKnown == report.valid => Arrived(start, 0)

LEMMA StartKnownNext == RunInv' => StartKnown'
  <1>1. RunInv => StartKnown
    BY StartArrives DEF StartKnown
  <1> QED
    BY <1>1, PTL

\* Every step of a pipeline keeps to a route.
LEMMA TrailKeeps == ASSUME RunInv, TrailInv, PipelineNext \/ UNCHANGED pipelineVars
                    PROVE  TrailInv'
  <1>1. CASE DryRunFirst
    <2>1. /\ ~report.done /\ DryNext /\ UNCHANGED <<phase, turn, agent>> /\ start' = start
      BY <1>1 DEF DryRunFirst, DryNext, Walk, Conclude, runVars
    <2>2. phase = "ready" /\ agent = start /\ turn = 0
      BY <2>1 DEF RunInv, Predicted, TrailInv
    <2>3. RunInv'
      BY <1>1, DryRunKeeps
    <2>4. QED
      BY <2>1, <2>2, <2>3, StartKnownNext DEF TrailInv, StartKnown
  <1>2. CASE StartRun
    BY <1>2, StartArrives, TrailStepKeeps DEF StartRun
  <1>3. CASE OutOfTurns \/ AgentNotFound \/ PluginsUnavailable
    BY <1>3, ChainStepFollows DEF OutOfTurns, AgentNotFound, PluginsUnavailable, TurnStarts, Halt,
                                  RunInv, Predicted
  <1>4. CASE ResolveFails \/ AgentFails
    BY <1>4, HandleErrorFollows DEF ResolveFails, AgentFails, TurnStarts, RunInv, PhaseShape
  <1>5. CASE RunAgent
    BY <1>5, ChainStepFollows DEF RunAgent, TurnStarts, runVars, RunInv, Predicted
  <1>6. CASE AgentSucceeds
    BY <1>6, AgentSucceedsFollows
  <1>7. CASE \E i \in DOMAIN branches : BranchStep(i)
    BY <1>7, BranchStepFollows
  <1>8. CASE Collect
    BY <1>8, CollectFollows
  <1>9. CASE UNCHANGED pipelineVars
    BY <1>9 DEF pipelineVars, dryVars, runVars, forkVars, TrailInv, Arrived, IsRoute, Routed
  <1> QED
    BY <1>1, <1>2, <1>3, <1>4, <1>5, <1>6, <1>7, <1>8, <1>9 DEF PipelineNext

\* What dry_run calls valid runs to its end: max_pipeline_iterations as large
\* as its chain is never reached, in whatever way the agents decide or fail.
THEOREM DryRunBoundsRuns == PipelineSpec => []ValidPipelinesEnd
  <1>1. PipelineInit => TrailInv
    BY DEF PipelineInit, DryInit, TrailInv
  <1>2. RunInv /\ TrailInv /\ [PipelineNext]_pipelineVars => TrailInv'
    BY TrailKeeps
  <1>3. RunInv /\ ExactInv /\ TrailInv => ValidPipelinesEnd
    BY TrailEnds
  <1> QED
    BY <1>1, <1>2, <1>3, RunInvariant, ExactInvariant, PTL DEF PipelineSpec

----------------------------------------------------------------------------
(* Subsequences *)

\* The first i elements of s, those at the positions in P.
Picks(f, s, P) ==
    /\ f[0] = <<>>
    /\ \A i \in 1 .. Len(s) : f[i] = AppendIf(i \in P, f[i - 1], s[i])

\* Selected collects them one after the other.
LEMMA SelectedIs ==
    ASSUME NEW S, NEW s \in Seq(S), NEW P
    PROVE  \E f \in [0 .. Len(s) -> Seq(S)] : Picks(f, s, P) /\ Selected(s, P) = f[Len(s)]
  <1> DEFINE n == Len(s)
             G == [i \in 1 .. n |-> [t \in Seq(S) |-> AppendIf(i \in P, t, s[i])]]
             Step(f) == [i \in 0 .. n |->
                IF i = 0 THEN <<>> ELSE AppendIf(i \in P, f[i - 1], s[i])]
             c == CHOOSE f : f = Step(f)
  <1>1. n \in Nat /\ <<>> \in Seq(S) /\ \A i \in 1 .. n : s[i] \in S
    OBVIOUS
  <1>2. G \in [1 .. n -> [Seq(S) -> Seq(S)]]
    <2>1. \A i \in 1 .. n : \A t \in Seq(S) : AppendIf(i \in P, t, s[i]) \in Seq(S)
      BY <1>1 DEF AppendIf
    <2>2. QED
      BY <2>1
  <1>3. PICK f : Iterated(f, n, Seq(S), <<>>, G)
    <2> HIDE DEF G, n
    <2> DEFINE e == <<>> A == Seq(S)
    <2>1. e \in A
      BY <1>1
    <2> HIDE DEF e, A
    <2>2. \E f : Iterated(f, n, A, e, G)
      BY <1>1, <1>2, <2>1, Iterates DEF A
    <2>3. QED
      BY <2>2 DEF A, e
  <1>4. /\ f \in [0 .. n -> Seq(S)] /\ f[0] = <<>>
        /\ \A i \in 1 .. n : f[i] = AppendIf(i \in P, f[i - 1], s[i])
    <2>1. f \in [0 .. n -> Seq(S)] /\ f[0] = <<>> /\ \A i \in 1 .. n : f[i] = G[i][f[i - 1]]
      BY <1>3 DEF Iterated
    <2>2. \A i \in 1 .. n : i - 1 \in 0 .. n /\ f[i - 1] \in Seq(S)
      BY <1>1, <2>1
    <2>3. \A i \in 1 .. n : G[i][f[i - 1]] = AppendIf(i \in P, f[i - 1], s[i])
      BY <2>2
    <2> HIDE DEF G
    <2>4. QED
      BY <2>1, <2>3
  <1>5. f = Step(f)
    <2>1. f = [i \in 0 .. n |-> f[i]]
      BY <1>4
    <2>2. \A i \in 0 .. n : f[i] =
             IF i = 0 THEN <<>> ELSE AppendIf(i \in P, f[i - 1], s[i])
      <3>1. \A i \in 0 .. n : i = 0 \/ i \in 1 .. n
        BY <1>1
      <3>2. QED
        BY <1>4, <3>1
    <2>3. QED
      BY <2>1, <2>2
  <1>6. c = Step(c)
    <2> HIDE DEF Step
    <2>1. QED
      BY <1>5, Zenon
  <1>7. Selected(s, P) = c[n]
    BY Zenon DEF Selected
  <1> HIDE DEF c
  <1>8. Picks(c, s, P)
    <2>1. c[0] = <<>>
      BY <1>1, <1>6
    <2>2. \A i \in 1 .. n : c[i] = AppendIf(i \in P, c[i - 1], s[i])
      <3>1. \A i \in 1 .. n : i \in 0 .. n /\ i # 0
        BY <1>1
      <3>2. QED
        BY <1>6, <3>1
    <2>3. QED
      BY <2>1, <2>2 DEF Picks
  <1>9. c \in [0 .. n -> Seq(S)]
    <2> DEFINE T == {i \in 0 .. n : c[i] \in Seq(S)}
    <2>1. 0 \in T
      <3>1. c[0] = <<>> /\ 0 \in 0 .. n
        BY <1>1, <1>8 DEF Picks
      <3>2. c[0] \in Seq(S)
        BY <1>1, <3>1
      <3>3. QED
        BY <3>1, <3>2
    <2>2. ASSUME NEW i \in 1 .. n, i - 1 \in T
          PROVE  i \in T
      <3>1. c[i] = AppendIf(i \in P, c[i - 1], s[i])
        BY <1>8 DEF Picks
      <3>2. c[i] \in Seq(S)
        BY <1>1, <2>2, <3>1 DEF AppendIf
      <3>3. QED
        BY <3>2
    <2>3. 0 .. n \subseteq T
      <3> HIDE DEF T, n
      <3>1. QED
        BY <1>1, <2>1, <2>2, UpTo
    <2>4. c = [i \in 0 .. n |-> c[i]]
      BY <1>6
    <2>5. QED
      BY <2>3, <2>4
  <1>10. QED
    BY <1>7, <1>8, <1>9

\* Where two lists agree, as many of their elements are picked.
Agree(m, s, P, t, Q) ==
    /\ m \in Nat /\ m <= Len(s) /\ m <= Len(t)
    /\ \A i \in 1 .. m : s[i] = t[i] /\ (i \in P <=> i \in Q)

LEMMA PicksAgree ==
    ASSUME NEW S, NEW s \in Seq(S), NEW t \in Seq(S), NEW P, NEW Q, NEW f, NEW g, NEW m,
           Picks(f, s, P), Picks(g, t, Q), Agree(m, s, P, t, Q)
    PROVE  f[m] = g[m]
  <1> DEFINE T == {i \in 0 .. m : f[i] = g[i]}
  <1>1. m \in Nat /\ Len(s) \in Nat /\ Len(t) \in Nat /\ m <= Len(s) /\ m <= Len(t)
    BY DEF Agree
  <1>2. 0 \in T
    BY <1>1 DEF Picks
  <1>3. ASSUME NEW i \in 1 .. m, i - 1 \in T
        PROVE  i \in T
    <2>1. i \in 1 .. Len(s) /\ i \in 1 .. Len(t) /\ i \in 0 .. m
      BY <1>1
    <2>2. f[i] = AppendIf(i \in P, f[i - 1], s[i]) /\ g[i] = AppendIf(i \in Q, g[i - 1], t[i])
      BY <2>1 DEF Picks
    <2>3. s[i] = t[i] /\ (i \in P <=> i \in Q) /\ f[i - 1] = g[i - 1]
      BY <1>3 DEF Agree
    <2>4. f[i] = g[i]
      BY <2>2, <2>3 DEF AppendIf
    <2>5. QED
      BY <2>1, <2>4
  <1>4. 0 .. m \subseteq T
    <2> HIDE DEF T
    <2>1. QED
      BY <1>1, <1>2, <1>3, UpTo
  <1>5. QED
    BY <1>1, <1>4

\* What is picked of a list and one element more.
LEMMA SelectedAppend ==
    ASSUME NEW S, NEW s \in Seq(S), NEW x \in S, NEW P, NEW Q,
           \A i \in 1 .. Len(s) : i \in P <=> i \in Q
    PROVE  /\ Selected(s, P) \in Seq(S)
           /\ Selected(Append(s, x), Q) = AppendIf(Len(s) + 1 \in Q, Selected(s, P), x)
  <1> DEFINE n == Len(s)
             t == Append(s, x)
  <1>1. n \in Nat /\ t \in Seq(S) /\ Len(t) = n + 1 /\ t[n + 1] = x /\ \A i \in 1 .. n : t[i] = s[i]
    OBVIOUS
  <1> HIDE DEF t
  <1>2. PICK f \in [0 .. n -> Seq(S)] : Picks(f, s, P) /\ Selected(s, P) = f[n]
    BY SelectedIs
  <1>3. PICK g \in [0 .. Len(t) -> Seq(S)] : Picks(g, t, Q) /\ Selected(t, Q) = g[Len(t)]
    BY <1>1, SelectedIs
  <1>4. Agree(n, s, P, t, Q)
    BY <1>1 DEF Agree
  <1>5. f[n] = g[n]
    BY <1>1, <1>2, <1>3, <1>4, PicksAgree
  <1>6. g[n + 1] = AppendIf(n + 1 \in Q, g[n], x)
    <2>1. n + 1 \in 1 .. Len(t) /\ (n + 1) - 1 = n
      BY <1>1
    <2>2. QED
      BY <1>1, <1>3, <2>1 DEF Picks
  <1>7. Selected(s, P) \in Seq(S)
    BY <1>1, <1>2
  <1>8. QED
    BY <1>1, <1>2, <1>3, <1>5, <1>6, <1>7 DEF t

\* Nothing is picked of an empty list.
LEMMA SelectedNone == ASSUME NEW P PROVE Selected(<<>>, P) = <<>>
  <1> DEFINE e == <<>>
  <1>1. e \in Seq({}) /\ Len(e) = 0
    OBVIOUS
  <1> HIDE DEF e
  <1>2. PICK f \in [0 .. Len(e) -> Seq({})] : Picks(f, e, P) /\ Selected(e, P) = f[Len(e)]
    BY <1>1, SelectedIs
  <1>3. Selected(e, P) = <<>>
    BY <1>1, <1>2 DEF Picks
  <1>4. QED
    BY <1>3 DEF e

----------------------------------------------------------------------------
(* Failures that may be skipped *)

Counts(e) == e.part \in {"agent", "branch"} /\ e.skippable
Counted(errs) == {i \in DOMAIN errs : Counts(errs[i])}
AgentsOf(s) == [i \in DOMAIN s |-> s[i].agent]
SkippedOf(errs) == AgentsOf(Selected(errs, Counted(errs)))
SkipInv == skipped = SkippedOf(errors)

\* It is the property, in other words.
LEMMA SkipInvIs == SkipInv <=> SkippedAreTheSkippable
  BY DEF SkipInv, SkippedAreTheSkippable, SkippedOf, AgentsOf, Counted, Counts

\* The agents of a list and one element more.
LEMMA AgentsAppend ==
    ASSUME NEW s \in Seq(Errors), NEW e \in Errors
    PROVE  AgentsOf(Append(s, e)) = Append(AgentsOf(s), e.agent)
  <1> DEFINE n == Len(s)
             A == Agents \cup {TaskError}
             a == AgentsOf(Append(s, e))
             b == AgentsOf(s)
             c == Append(b, e.agent)
  <1>1. n \in Nat /\ DOMAIN s = 1 .. n /\ e.agent \in A /\ \A i \in 1 .. n : s[i].agent \in A
    <2>1. \A i \in DOMAIN s : s[i] \in Errors
      OBVIOUS
    <2>2. QED
      BY <2>1 DEF Errors
  <1>2. b \in [1 .. n -> A] /\ \A i \in 1 .. n : b[i] = s[i].agent
    BY <1>1 DEF AgentsOf
  <1>3. b \in Seq(A) /\ Len(b) = n
    BY <1>1, <1>2
  <1>4. a \in [1 .. n + 1 -> A] /\ a[n + 1] = e.agent /\ \A i \in 1 .. n : a[i] = s[i].agent
    <2> DEFINE t == Append(s, e)
    <2>1. DOMAIN t = 1 .. n + 1 /\ t[n + 1] = e /\ \A i \in 1 .. n : t[i] = s[i]
      BY <1>1
    <2> HIDE DEF t
    <2>2. \A i \in 1 .. n + 1 : i = n + 1 \/ i \in 1 .. n
      BY <1>1
    <2>3. \A i \in 1 .. n + 1 : t[i].agent \in A
      BY <1>1, <2>1, <2>2
    <2>4. AgentsOf(t) \in [1 .. n + 1 -> A] /\ \A i \in 1 .. n + 1 : AgentsOf(t)[i] = t[i].agent
      BY <2>1, <2>3 DEF AgentsOf
    <2>5. n + 1 \in 1 .. n + 1 /\ \A i \in 1 .. n : i \in 1 .. n + 1
      BY <1>1
    <2>6. QED
      BY <2>1, <2>4, <2>5 DEF t
  <1>5. c \in [1 .. n + 1 -> A] /\ c[n + 1] = e.agent /\ \A i \in 1 .. n : c[i] = b[i]
    <2> DEFINE x == e.agent
    <2>1. x \in A /\ c = Append(b, x)
      BY <1>1
    <2> HIDE DEF x, A, b, c
    <2>2. c \in Seq(A) /\ Len(c) = n + 1
      BY <1>3, <2>1
    <2>3. c[n + 1] = x /\ \A i \in 1 .. n : c[i] = b[i]
      BY <1>3, <2>1
    <2>4. QED
      BY <2>2, <2>3 DEF x
  <1> HIDE DEF a, b, c
  <1>6. \A i \in 1 .. n + 1 : a[i] = c[i]
    <2>1. \A i \in 1 .. n + 1 : i = n + 1 \/ i \in 1 .. n
      BY <1>1
    <2>2. QED
      BY <1>2, <1>4, <1>5, <2>1
  <1>7. a = [i \in 1 .. n + 1 |-> a[i]] /\ c = [i \in 1 .. n + 1 |-> c[i]]
    BY <1>4, <1>5
  <1>8. a = c
    BY <1>6, <1>7
  <1>9. QED
    BY <1>8 DEF a, b, c

\* One error more adds its agent, if it counts.
LEMMA SkippedAppend ==
    ASSUME NEW errs \in Seq(Errors), NEW e \in Errors
    PROVE  SkippedOf(Append(errs, e)) = AppendIf(Counts(e), SkippedOf(errs), e.agent)
  <1> DEFINE n == Len(errs)
             P == Counted(errs)
             t == Append(errs, e)
             Q == Counted(t)
  <1>1. /\ n \in Nat /\ DOMAIN errs = 1 .. n /\ DOMAIN t = 1 .. n + 1
        /\ t[n + 1] = e /\ \A i \in 1 .. n : t[i] = errs[i] /\ i \in 1 .. n + 1
    OBVIOUS
  <1> HIDE DEF t
  <1>2. \A i \in 1 .. n : i \in P <=> i \in Q
    BY <1>1 DEF Counted
  <1>3. n + 1 \in Q <=> Counts(e)
    BY <1>1 DEF Counted
  <1> HIDE DEF P, Q
  <1>4. Selected(errs, P) \in Seq(Errors)
        /\ Selected(Append(errs, e), Q) = AppendIf(n + 1 \in Q, Selected(errs, P), e)
    BY <1>2, SelectedAppend
  <1>5. CASE Counts(e)
    <2>1. Selected(t, Q) = Append(Selected(errs, P), e)
      BY <1>3, <1>4, <1>5 DEF AppendIf, t
    <2>2. AgentsOf(Selected(t, Q)) = Append(AgentsOf(Selected(errs, P)), e.agent)
      BY <1>4, <2>1, AgentsAppend
    <2>3. QED
      BY <1>5, <2>2 DEF AppendIf, SkippedOf, P, Q, t
  <1>6. CASE ~Counts(e)
    <2>1. Selected(t, Q) = Selected(errs, P)
      BY <1>3, <1>4, <1>6 DEF AppendIf, t
    <2>2. QED
      BY <1>6, <2>1 DEF AppendIf, SkippedOf, P, Q, t
  <1>7. QED
    BY <1>5, <1>6

\* Nothing failed, nobody was skipped.
LEMMA SkippedNone == SkippedOf(<<>>) = <<>>
  <1>1. Selected(<<>>, Counted(<<>>)) = <<>>
    BY SelectedNone
  <1>2. QED
    BY <1>1 DEF SkippedOf, AgentsOf

\* An error that does not count leaves the skipped as they are.
LEMMA UncountedSkips ==
    ASSUME NEW errs \in Seq(Errors), NEW e \in Errors, ~Counts(e)
    PROVE  SkippedOf(Append(errs, e)) = SkippedOf(errs)
  BY SkippedAppend DEF AppendIf

\* A failure on the chain counts when it may be skipped, and then its agent is.
LEMMA HandleErrorSkips ==
    ASSUME RunInv, SkipInv, agent \in DOMAIN registry, HandleError(registry[agent])
    PROVE  SkipInv'
  <1> DEFINE p == registry[agent]
             e == Error(agent, "agent", p.skippable)
  <1>1. errors' = Append(errors, e) /\ errors \in Seq(Errors) /\ p.skippable \in BOOLEAN
    BY TurnFacts, ChainTypes DEF HandleError
  <1>2. e \in Errors /\ e.agent = agent /\ (Counts(e) <=> p.skippable)
    BY <1>1, ChainTypes, ErrorsAreErrors DEF Error, Counts
  <1>3. skipped' = AppendIf(Counts(e), skipped, e.agent)
    <2> HIDE DEF e
    <2>1. skipped' = IF p.skippable THEN Append(skipped, agent) ELSE skipped
      BY DEF HandleError
    <2>2. QED
      BY <1>2, <2>1 DEF AppendIf
  <1> HIDE DEF e
  <1>4. SkippedOf(Append(errors, e)) = AppendIf(Counts(e), SkippedOf(errors), e.agent)
    BY <1>1, <1>2, SkippedAppend
  <1>5. QED
    BY <1>1, <1>3, <1>4 DEF SkipInv, SkippedOf

\* Errors of the other parts of run do not count.
LEMMA OtherErrorSkips ==
    ASSUME RunInv, SkipInv, UNCHANGED skipped, NEW skip \in BOOLEAN,
           NEW part \in {"not_found", "no_plugins", "fork", "empty_fork"},
           errors' = Append(errors, Error(agent, part, skip))
    PROVE  SkipInv'
  <1> DEFINE e == Error(agent, part, skip)
  <1>1. e \in Errors /\ ~Counts(e) /\ errors \in Seq(Errors)
    BY ChainTypes, ErrorsAreErrors DEF Error, Counts
  <1> HIDE DEF e
  <1>2. SkippedOf(Append(errors, e)) = SkippedOf(errors)
    BY <1>1, UncountedSkips
  <1>3. QED
    BY <1>2 DEF SkipInv, SkippedOf, e

\* An empty fork is an error that does not count.
LEMMA AgentSucceedsSkips == ASSUME RunInv, SkipInv, AgentSucceeds PROVE SkipInv'
  <1>1. skipped' = skipped /\ registry[agent].skippable \in BOOLEAN
    BY TurnFacts DEF AgentSucceeds, RunInv, PhaseShape
  <1>2. \/ errors' = errors
        \/ errors' = Append(errors, Error(agent, "fork", registry[agent].skippable))
    BY DEF AgentSucceeds
  <1>3. QED
    BY <1>1, <1>2, OtherErrorSkips DEF SkipInv, SkippedOf

\* The end of a fork adds no error that counts.
LEMMA JoinSkips ==
    ASSUME RunInv, phase = "forked", NEW got, NEW errs \in Seq(Errors),
           skipped' = SkippedOf(errs), JoinFork(got, errs)
    PROVE  SkipInv'
  <1> DEFINE e == Error(agent, "fork", registry[agent].skippable)
             f == Error(agent, "empty_fork", FALSE)
  <1>1. errors' \in {errs, Append(errs, e), Append(errs, f)}
    BY DEF JoinFork
  <1>2. registry[agent].skippable \in BOOLEAN
    BY TurnFacts DEF RunInv, PhaseShape
  <1>3. e \in Errors /\ ~Counts(e) /\ f \in Errors /\ ~Counts(f)
    BY <1>2, ChainTypes, ErrorsAreErrors DEF Error, Counts
  <1> HIDE DEF e, f
  <1>4. SkippedOf(Append(errs, e)) = SkippedOf(errs) /\ SkippedOf(Append(errs, f)) = SkippedOf(errs)
    BY <1>3, UncountedSkips
  <1>5. QED
    BY <1>1, <1>4 DEF SkipInv

\* What a branch that failed is reported as.
LEMMA BranchErrorIs ==
    ASSUME RunInv, NEW i \in DOMAIN branches
    PROVE  LET b == branches[i] IN
           /\ BranchError(b) \in Errors
           /\ Counts(BranchError(b)) <=> IsSkippable(b)
           /\ IsSkippable(b) => BranchError(b).agent = b.agent /\ b.state # "ok"
  <1> DEFINE b == branches[i]
  <1>1. b.agent \in Agents /\ b.state \in BranchStates
    <2>1. branches \in Seq(Branches)
      BY ChainTypes
    <2>2. b \in Branches
      BY <2>1
    <2>3. QED
      BY <2>2 DEF Branches
  <1>2. IsSkippable(b) \in BOOLEAN /\ (IsSkippable(b) => b.state = "failed")
    BY DEF IsSkippable
  <1> HIDE DEF b
  <1>3. CASE b.state = "missing"
    <2>1. BranchError(b) = Error(b.agent, "not_found", FALSE)
      BY <1>3 DEF BranchError
    <2>2. Error(b.agent, "not_found", FALSE) \in Errors
      BY <1>1, ErrorsAreErrors
    <2>3. QED
      BY <1>2, <1>3, <2>1, <2>2 DEF Counts, Error, b
  <1>4. CASE b.state = "panicked"
    <2>1. BranchError(b) = Error(TaskError, "branch", FALSE)
      BY <1>4 DEF BranchError
    <2>2. QED
      BY <1>2, <1>4, <2>1, ErrorsAreErrors DEF Counts, Error, b
  <1>5. CASE b.state \notin {"missing", "panicked"}
    <2> DEFINE skip == IsSkippable(b)
    <2>1. BranchError(b) = Error(b.agent, "branch", skip)
      BY <1>5 DEF BranchError
    <2>2. Error(b.agent, "branch", skip) \in Errors
      BY <1>1, <1>2, ErrorsAreErrors
    <2> HIDE DEF skip
    <2>3. Error(b.agent, "branch", skip).agent = b.agent /\ (Counts(Error(b.agent, "branch", skip)) <=> skip)
      BY DEF Counts, Error
    <2>4. QED
      BY <1>2, <2>1, <2>2, <2>3 DEF skip, b
  <1>6. QED
    BY <1>3, <1>4, <1>5

\* Awaiting a branch skips its agent when its failure may be skipped.
LEMMA CollectSkips == ASSUME RunInv, SkipInv, Collect PROVE SkipInv'
  <1> DEFINE b == branches[NextHandle]
             got == IF b.state = "ok"
                    THEN Append(gathered, [agent |-> b.agent, next |-> b.next]) ELSE gathered
             errs == IF b.state = "ok" THEN errors ELSE Append(errors, BranchError(b))
  <1>1. /\ phase = "forked"
        /\ skipped' = IF IsSkippable(b) THEN Append(skipped, b.agent) ELSE skipped
        /\ errors' = errs \/ JoinFork(got, errs)
    BY DEF Collect
  <1>2. NextHandle \in DOMAIN branches /\ errors \in Seq(Errors)
    BY <1>1, ChainTypes DEF NextHandle, RunInv, PhaseShape
  <1>3. /\ BranchError(b) \in Errors
        /\ Counts(BranchError(b)) <=> IsSkippable(b)
        /\ IsSkippable(b) => BranchError(b).agent = b.agent /\ b.state # "ok"
    BY <1>2, BranchErrorIs
  <1> HIDE DEF b
  <1>4. errs \in Seq(Errors) /\ skipped' = SkippedOf(errs)
    <2>1. CASE b.state = "ok"
      BY <1>1, <1>2, <1>3, <2>1 DEF SkipInv
    <2>2. CASE b.state # "ok"
      <3>1. errs = Append(errors, BranchError(b))
        BY <2>2
      <3>2. SkippedOf(Append(errors, BranchError(b)))
              = AppendIf(Counts(BranchError(b)), SkippedOf(errors), BranchError(b).agent)
        BY <1>2, <1>3, SkippedAppend
      <3>3. skipped' = AppendIf(Counts(BranchError(b)), skipped, BranchError(b).agent)
        BY <1>1, <1>3 DEF AppendIf
      <3>4. Append(errors, BranchError(b)) \in Seq(Errors)
        BY <1>2, <1>3
      <3> HIDE DEF errs
      <3>5. QED
        BY <3>1, <3>2, <3>3, <3>4 DEF SkipInv
    <2>3. QED
      BY <2>1, <2>2
  <1> HIDE DEF errs, got
  <1>5. CASE errors' = errs
    BY <1>4, <1>5 DEF SkipInv
  <1>6. CASE JoinFork(got, errs)
    BY <1>1, <1>4, <1>6, JoinSkips
  <1>7. QED
    BY <1>1, <1>5, <1>6

\* Every step of a pipeline.
LEMMA SkipKeeps == ASSUME RunInv, SkipInv, PipelineNext \/ UNCHANGED pipelineVars
                   PROVE  SkipInv'
  <1>1. CASE StartRun
    BY <1>1, SkippedNone DEF StartRun, SkipInv
  <1>2. CASE \/ DryRunFirst \/ OutOfTurns \/ RunAgent \/ UNCHANGED pipelineVars
             \/ \E i \in DOMAIN branches : BranchStep(i)
    <2>1. UNCHANGED <<skipped, errors>>
      BY <1>2 DEF DryRunFirst, OutOfTurns, RunAgent, pipelineVars, runVars, BranchStep, BranchSucceeds,
                  BranchFails, BranchIsMissing, BranchTimesOut, BranchPanics, BranchBecomes
    <2>2. QED
      BY <2>1 DEF SkipInv
  <1>3. CASE AgentNotFound \/ PluginsUnavailable
    BY <1>3, OtherErrorSkips DEF AgentNotFound, PluginsUnavailable
  <1>4. CASE ResolveFails \/ AgentFails
    BY <1>4, HandleErrorSkips DEF ResolveFails, AgentFails, RunInv, PhaseShape
  <1>5. CASE AgentSucceeds
    BY <1>5, AgentSucceedsSkips
  <1>6. CASE Collect
    BY <1>6, CollectSkips
  <1>7. QED
    BY <1>1, <1>2, <1>3, <1>4, <1>5, <1>6 DEF PipelineNext

\* The agents skipped are those that failed and may be skipped, each time and
\* in that order, on the chain and in forks alike.
THEOREM SkippedTheorem == PipelineSpec => []SkippedAreTheSkippable
  <1>1. PipelineInit => SkipInv
    BY SkippedNone DEF PipelineInit, SkipInv
  <1>2. RunInv /\ SkipInv /\ [PipelineNext]_pipelineVars => SkipInv'
    BY SkipKeeps
  <1>3. SkipInv => SkippedAreTheSkippable
    BY SkipInvIs
  <1>4. QED
    BY <1>1, <1>2, <1>3, RunInvariant, PTL DEF PipelineSpec

----------------------------------------------------------------------------
(* The outputs of a fork *)

Output(b) == [agent |-> b.agent, next |-> b.next]
Ended(bs) == {i \in DOMAIN bs : bs[i].state = "ok"}
OutputsOf(s) == [i \in DOMAIN s |-> Output(s[i])]
OutputsIn(bs) == OutputsOf(Selected(bs, Ended(bs)))
Awaited == SubSeq(branches, 1, collected)

ForkInv ==
    phase = "forked" =>
        /\ \A i \in 1 .. collected : branches[i].state # "running" /\ ~IsFatal(branches[i])
        /\ gathered = OutputsIn(Awaited)

\* The first elements of a list.
LEMMA FirstOnes ==
    ASSUME NEW S, NEW s \in Seq(S), NEW c \in 0 .. Len(s)
    PROVE  /\ SubSeq(s, 1, c) \in Seq(S)
           /\ Len(SubSeq(s, 1, c)) = c /\ DOMAIN SubSeq(s, 1, c) = 1 .. c
           /\ \A i \in 1 .. c : SubSeq(s, 1, c)[i] = s[i]
  <1>1. Len(s) \in Nat /\ c \in Nat /\ c <= Len(s)
    OBVIOUS
  <1>2. SubSeq(s, 1, c) = [i \in 1 .. c |-> s[i]]
    <2>1. SubSeq(s, 1, c) = [i \in 1 .. (1 + c - 1) |-> s[1 + i - 1]]
      BY <1>1
    <2>2. 1 + c - 1 = c /\ \A i \in 1 .. c : 1 + i - 1 = i
      BY <1>1
    <2>3. QED
      BY <2>1, <2>2
  <1>3. \A i \in 1 .. c : s[i] \in S
    BY <1>1
  <1>4. QED
    BY <1>1, <1>2, <1>3

\* Two lists of the same elements are the same.
LEMMA SameElements ==
    ASSUME NEW S, NEW s \in Seq(S), NEW t \in Seq(S), Len(s) = Len(t),
           \A i \in 1 .. Len(s) : s[i] = t[i]
    PROVE  s = t
  OBVIOUS

\* It is the property, in other words.
LEMMA ForkInvIs == ASSUME RunInv, ForkInv PROVE ForkCollectsInOrder
  <1> SUFFICES ASSUME phase = "forked" PROVE ForkCollectsInOrder
    BY DEF ForkCollectsInOrder
  <1>1. branches \in Seq(Branches) /\ collected \in 0 .. Len(branches) /\ collected < Len(branches)
    BY ChainTypes DEF RunInv, PhaseShape
  <1>2. DOMAIN Awaited = 1 .. collected /\ \A i \in 1 .. collected : Awaited[i] = branches[i]
    BY <1>1, FirstOnes DEF Awaited
  <1>3. \A i \in DOMAIN Awaited : Awaited[i].state # "running" /\ ~IsFatal(Awaited[i])
    BY <1>2 DEF ForkInv
  <1>4. gathered = OutputsIn(Awaited)
    BY DEF ForkInv
  <1>5. gathered = [i \in DOMAIN Selected(Awaited, {j \in DOMAIN Awaited : Awaited[j].state = "ok"}) |->
                      [agent |-> Selected(Awaited, {j \in DOMAIN Awaited : Awaited[j].state = "ok"})[i].agent,
                       next  |-> Selected(Awaited, {j \in DOMAIN Awaited : Awaited[j].state = "ok"})[i].next]]
    BY <1>4 DEF OutputsIn, OutputsOf, Output, Ended
  <1>6. QED
    BY <1>1, <1>3, <1>5 DEF ForkCollectsInOrder, Awaited

\* The outputs of a list of branches and one more.
LEMMA OutputsAppend ==
    ASSUME NEW s \in Seq(Branches), NEW b \in Branches
    PROVE  /\ OutputsOf(s) \in Seq(Gathered)
           /\ OutputsOf(Append(s, b)) = Append(OutputsOf(s), Output(b))
  <1> DEFINE n == Len(s)
             x == Output(b)
             t == Append(s, b)
             u == OutputsOf(s)
             v == OutputsOf(t)
             w == Append(u, x)
  <1>1. \A c \in Branches : Output(c) \in Gathered
    BY DEF Branches, Gathered, Output
  <1>2. n \in Nat /\ DOMAIN s = 1 .. n /\ x \in Gathered /\ \A i \in 1 .. n : s[i] \in Branches
    BY <1>1
  <1>3. /\ t \in Seq(Branches) /\ DOMAIN t = 1 .. n + 1 /\ t[n + 1] = b
        /\ \A i \in 1 .. n : t[i] = s[i] /\ i \in 1 .. n + 1
        /\ \A i \in 1 .. n + 1 : t[i] \in Branches /\ (i = n + 1 \/ i \in 1 .. n)
        /\ n + 1 \in 1 .. n + 1
    BY <1>2
  <1> HIDE DEF t, x
  <1>4. u \in [1 .. n -> Gathered] /\ \A i \in 1 .. n : u[i] = Output(s[i])
    BY <1>1, <1>2 DEF OutputsOf
  <1>5. v \in [1 .. n + 1 -> Gathered] /\ \A i \in 1 .. n + 1 : v[i] = Output(t[i])
    BY <1>1, <1>3 DEF OutputsOf
  <1> HIDE DEF u, v
  <1>6. u \in Seq(Gathered) /\ Len(u) = n /\ v \in Seq(Gathered) /\ Len(v) = n + 1
    BY <1>2, <1>4, <1>5
  <1>7. w \in Seq(Gathered) /\ Len(w) = n + 1 /\ w[n + 1] = x /\ \A i \in 1 .. n : w[i] = u[i]
    BY <1>2, <1>6
  <1> HIDE DEF w
  <1>8. \A i \in 1 .. n + 1 : v[i] = w[i]
    BY <1>3, <1>4, <1>5, <1>7 DEF x
  <1>9. v = w
    BY <1>6, <1>7, <1>8, SameElements
  <1>10. QED
    BY <1>6, <1>9 DEF t, u, v, w, x

\* One branch more adds its output, if it has one.
LEMMA OutputsInAppend ==
    ASSUME NEW s \in Seq(Branches), NEW b \in Branches
    PROVE  OutputsIn(Append(s, b)) = AppendIf(b.state = "ok", OutputsIn(s), Output(b))
  <1> DEFINE n == Len(s)
             P == Ended(s)
             t == Append(s, b)
             Q == Ended(t)
  <1>1. /\ n \in Nat /\ DOMAIN s = 1 .. n /\ DOMAIN t = 1 .. n + 1
        /\ t[n + 1] = b /\ \A i \in 1 .. n : t[i] = s[i] /\ i \in 1 .. n + 1
    OBVIOUS
  <1> HIDE DEF t
  <1>2. \A i \in 1 .. n : i \in P <=> i \in Q
    BY <1>1 DEF Ended
  <1>3. n + 1 \in Q <=> b.state = "ok"
    BY <1>1 DEF Ended
  <1> HIDE DEF P, Q
  <1>4. Selected(s, P) \in Seq(Branches)
        /\ Selected(Append(s, b), Q) = AppendIf(n + 1 \in Q, Selected(s, P), b)
    BY <1>2, SelectedAppend
  <1>5. CASE b.state = "ok"
    <2>1. Selected(t, Q) = Append(Selected(s, P), b)
      BY <1>3, <1>4, <1>5 DEF AppendIf, t
    <2>2. OutputsOf(Selected(t, Q)) = Append(OutputsOf(Selected(s, P)), Output(b))
      BY <1>4, <2>1, OutputsAppend
    <2>3. QED
      BY <1>5, <2>2 DEF AppendIf, OutputsIn, P, Q, t
  <1>6. CASE b.state # "ok"
    <2>1. Selected(t, Q) = Selected(s, P)
      BY <1>3, <1>4, <1>6 DEF AppendIf, t
    <2>2. QED
      BY <1>6, <2>1 DEF AppendIf, OutputsIn, P, Q, t
  <1>7. QED
    BY <1>5, <1>6

\* Nothing awaited, nothing gathered.
LEMMA OutputsNone == OutputsIn(<<>>) = <<>>
  <1>1. Selected(<<>>, Ended(<<>>)) = <<>>
    BY SelectedNone
  <1>2. QED
    BY <1>1 DEF OutputsIn, OutputsOf

----------------------------------------------------------------------------
(* The steps of a fork *)

\* A fork begins with nothing gathered.
LEMMA ForkBegins ==
    ASSUME RunInv, AgentSucceeds PROVE ForkInv'
  <1> SUFFICES ASSUME phase' = "forked" PROVE ForkInv'
    BY DEF ForkInv
  <1>1. PICK next \in Decisions(registry[agent]) :
           next.fork /\ branches' = Spawned(next.names) /\ collected' = 0 /\ gathered' = <<>>
    BY DEF AgentSucceeds, ChainEnd, Advance
  <1>2. SubSeq(branches', 1, 0) = <<>>
    OBVIOUS
  <1>3. OutputsIn(SubSeq(branches', 1, 0)) = <<>>
    BY <1>2, OutputsNone
  <1>4. QED
    BY <1>1, <1>3 DEF ForkInv, Awaited, OutputsIn, OutputsOf, Output, Ended

\* What was awaited does not run any more, so its branches do not change.
LEMMA ForkGoesOn ==
    ASSUME RunInv, ForkInv, NEW i \in DOMAIN branches, BranchStep(i) PROVE ForkInv'
  <1>1. phase = "forked" /\ branches[i].state = "running"
    BY DEF BranchStep, BranchSucceeds, BranchFails, BranchIsMissing, BranchTimesOut, BranchPanics, IsRunning
  <1>2. PICK end, next : BranchBecomes(i, end, next)
    BY DEF BranchStep, BranchSucceeds, BranchFails, BranchIsMissing, BranchTimesOut, BranchPanics
  <1>3. UNCHANGED <<registry, phase, collected, gathered>>
    BY <1>2 DEF BranchBecomes, dryVars
  <1>4. /\ branches \in Seq(Branches) /\ collected \in 0 .. Len(branches) /\ DOMAIN branches = 1 .. Len(branches)
        /\ Len(branches) \in Nat
    BY ChainTypes
  <1>5. branches' \in Seq(Branches) /\ Len(branches') = Len(branches)
    <2>1. RunInv'
      BY BranchStepKeeps
    <2>2. branches' \in Seq(Branches)
      BY <2>1 DEF RunInv, PipelineTypeOK
    <2>3. DOMAIN branches' = DOMAIN branches
      BY <1>2 DEF BranchBecomes
    <2>4. QED
      BY <1>4, <2>2, <2>3
  <1>6. \A j \in 1 .. collected : branches'[j] = branches[j]
    <2>1. \A j \in 1 .. collected : j # i /\ j \in DOMAIN branches
      BY <1>1, <1>4 DEF ForkInv
    <2>2. \A j \in DOMAIN branches \ {i} : branches'[j] = branches[j]
      BY <1>2 DEF BranchBecomes
    <2>3. QED
      BY <2>1, <2>2
  <1> DEFINE s == SubSeq(branches, 1, collected)
             t == SubSeq(branches', 1, collected)
  <1>7. /\ s \in Seq(Branches) /\ Len(s) = collected /\ \A j \in 1 .. collected : s[j] = branches[j]
        /\ t \in Seq(Branches) /\ Len(t) = collected /\ \A j \in 1 .. collected : t[j] = branches'[j]
    BY <1>4, <1>5, FirstOnes
  <1> HIDE DEF s, t
  <1>8. t = s
    BY <1>6, <1>7, SameElements
  <1>9. gathered' = OutputsIn(t)
    BY <1>1, <1>3, <1>8 DEF ForkInv, Awaited, s
  <1>10. \A j \in 1 .. collected : branches'[j].state # "running" /\ ~IsFatal(branches'[j])
    BY <1>1, <1>6 DEF ForkInv
  <1>11. QED
    BY <1>3, <1>9, <1>10 DEF ForkInv, Awaited, t, IsFatal, OutputsIn, OutputsOf, Output, Ended

\* Awaiting one more adds its output.
LEMMA ForkCollects == ASSUME RunInv, ForkInv, Collect PROVE ForkInv'
  <1> DEFINE b == branches[NextHandle]
             c == collected
             got == IF b.state = "ok" THEN Append(gathered, Output(b)) ELSE gathered
  <1> SUFFICES ASSUME phase' = "forked" PROVE ForkInv'
    BY DEF ForkInv
  <1>1. /\ phase = "forked" /\ b.state # "running" /\ ~IsFatal(b)
        /\ collected' = NextHandle /\ gathered' = got /\ branches' = branches /\ registry' = registry
    BY DEF Collect, JoinFork, ChainEnd, Advance, dryVars, Output
  <1>2. /\ branches \in Seq(Branches) /\ c \in 0 .. Len(branches) /\ c < Len(branches)
        /\ NextHandle = c + 1 /\ c + 1 \in 0 .. Len(branches) /\ c + 1 \in DOMAIN branches /\ c \in Nat
        /\ b \in Branches
    BY <1>1, ChainTypes DEF NextHandle, RunInv, PhaseShape
  <1> DEFINE s == SubSeq(branches, 1, c)
             t == SubSeq(branches, 1, c + 1)
             u == Append(s, b)
  <1>3. /\ s \in Seq(Branches) /\ Len(s) = c /\ \A j \in 1 .. c : s[j] = branches[j]
        /\ t \in Seq(Branches) /\ Len(t) = c + 1 /\ \A j \in 1 .. c + 1 : t[j] = branches[j]
    BY <1>2, FirstOnes
  <1>4. b = branches[c + 1]
    BY <1>2
  <1> HIDE DEF s, t, b
  <1>5. u \in Seq(Branches) /\ Len(u) = c + 1 /\ u[c + 1] = b /\ \A j \in 1 .. c : u[j] = s[j]
    BY <1>2, <1>3
  <1> HIDE DEF u
  <1>6. \A j \in 1 .. c + 1 : t[j] = u[j]
    <2>1. \A j \in 1 .. c + 1 : j = c + 1 \/ j \in 1 .. c
      BY <1>2
    <2>2. QED
      BY <1>3, <1>4, <1>5, <2>1
  <1>7. t = u
    BY <1>3, <1>5, <1>6, SameElements
  <1>8. OutputsIn(u) = AppendIf(b.state = "ok", OutputsIn(s), Output(b))
    BY <1>2, <1>3, OutputsInAppend DEF u
  <1>9. gathered = OutputsIn(s)
    BY <1>1 DEF ForkInv, Awaited, s
  <1>10. gathered' = OutputsIn(t)
    BY <1>1, <1>7, <1>8, <1>9 DEF AppendIf
  <1>11. \A j \in 1 .. c + 1 : branches[j].state # "running" /\ ~IsFatal(branches[j])
    <2>1. \A j \in 1 .. c + 1 : j = c + 1 \/ j \in 1 .. c
      BY <1>2
    <2>2. QED
      BY <1>1, <1>4, <2>1 DEF ForkInv
  <1>12. \A j \in 1 .. collected' : branches'[j].state # "running" /\ ~IsFatal(branches[j])'
    <2>1. collected' = c + 1 /\ branches' = branches /\ registry' = registry
      BY <1>1, <1>2
    <2>2. QED
      BY <1>11, <2>1 DEF IsFatal
  <1>13. gathered' = OutputsIn(Awaited)'
    BY <1>1, <1>2, <1>10 DEF Awaited, t, OutputsIn, OutputsOf, Output, Ended
  <1>14. QED
    BY <1>12, <1>13 DEF ForkInv

\* Every step of a pipeline.
LEMMA ForkKeeps == ASSUME RunInv, ForkInv, PipelineNext \/ UNCHANGED pipelineVars
                   PROVE  ForkInv'
  <1>1. CASE \/ StartRun \/ OutOfTurns \/ AgentNotFound \/ ResolveFails \/ PluginsUnavailable
             \/ RunAgent \/ AgentFails
    <2>1. phase' # "forked"
      BY <1>1 DEF StartRun, OutOfTurns, AgentNotFound, ResolveFails, PluginsUnavailable, RunAgent,
                  AgentFails, HandleError, Halt, Advance
    <2>2. QED
      BY <2>1 DEF ForkInv
  <1>2. CASE DryRunFirst
    <2>1. phase = "ready" /\ phase' = phase
      BY <1>2 DEF DryRunFirst, DryNext, Walk, Conclude, RunInv, Predicted
    <2>2. QED
      BY <2>1 DEF ForkInv
  <1>3. CASE UNCHANGED pipelineVars
    <2>1. UNCHANGED <<registry, phase, branches, collected, gathered>>
      BY <1>3 DEF pipelineVars, dryVars, forkVars
    <2>2. QED
      BY <2>1 DEF ForkInv, Awaited, IsFatal, OutputsIn, OutputsOf, Output, Ended
  <1>4. QED
    BY <1>1, <1>2, <1>3, ForkBegins, ForkGoesOn, ForkCollects DEF PipelineNext

\* What a fork has gathered are the outputs of the branches awaited, in the
\* order they were spawned in, whichever ended first.
THEOREM ForkTheorem == PipelineSpec => []ForkCollectsInOrder
  <1>1. PipelineInit => ForkInv
    BY DEF PipelineInit, ForkInv
  <1>2. RunInv /\ ForkInv /\ [PipelineNext]_pipelineVars => ForkInv'
    BY ForkKeeps
  <1>3. RunInv /\ ForkInv => ForkCollectsInOrder
    BY ForkInvIs
  <1>4. QED
    BY <1>1, <1>2, <1>3, RunInvariant, PTL DEF PipelineSpec
=============================================================================
