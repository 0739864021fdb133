----------------------------- MODULE MicroAgent -----------------------------
(***************************************************************************)
(* bus/micro_agent.rs on top of InMemoryBus: spawn registers first and     *)
(* prepares the agent afterwards; the loop takes one request at a time,    *)
(* answers it, stores its output and publishes it; a MicroAgentHandle      *)
(* aborts the task or watches it and deregisters the agent's id when it    *)
(* ends.  A life of an agent is named by the channel spawn registered.     *)
(***************************************************************************)
EXTENDS InMemoryBus

VARIABLES
    task,        \* the loop task of a life, from spawn to its end
    job,         \* the request the loop took last
    handle,      \* its MicroAgentHandle
    remembered,  \* requests whose output is in the private memory
    published    \* requests whose output was published

lifeVars  == <<task, job, handle, remembered, published>>
microVars == <<busVars, lifeVars>>

Tasks   == {"none", "starting", "idle", "running", "answered", "publishing",
            "failed", "exited", "panicked", "aborted"}
Handles == {"none", "held", "watched", "dropped", "released"}
Dead    == {"failed", "exited", "panicked", "aborted"}
Crashed == {"failed", "panicked", "aborted"}

MicroTypeOK ==
    /\ task       \in [Chans -> Tasks]
    /\ job        \in [Chans -> Calls \cup {None}]
    /\ handle     \in [Chans -> Handles]
    /\ remembered \subseteq Calls
    /\ published  \subseteq Calls

MicroInit ==
    /\ BusInit
    /\ task       = [c \in Chans |-> "none"]
    /\ job        = [c \in Chans |-> None]
    /\ handle     = [c \in Chans |-> "none"]
    /\ remembered = {}
    /\ published  = {}

Becomes(c, state) == task' = [task EXCEPT ![c] = state]

----------------------------------------------------------------------------
(* spawn *)

\* Mutant of SpawnRegisters: a registration that replaces an earlier one.
SpawnReplaces(a) ==
    /\ regs < MaxRegs
    /\ regs'   = regs + 1
    /\ entry'  = [entry EXCEPT ![a] = regs + 1]
    /\ owner'  = [owner EXCEPT ![regs + 1] = a]
    /\ rxOpen' = rxOpen \cup {regs + 1}
    /\ UNCHANGED <<queue, taken, callVars>>
    /\ Becomes(regs + 1, "starting")
    /\ UNCHANGED <<job, handle, remembered, published>>

\* bus.register comes first; AlreadyRegistered ends spawn with nothing done.
SpawnRegisters(a) ==
    /\ Register(a)
    /\ Becomes(regs + 1, "starting")
    /\ UNCHANGED <<job, handle, remembered, published>>

\* Resolving the model, assembling the agent or subscribing fails: spawn
\* returns the error and drops the receiver.  The registration stays.
SpawnFails(c) ==
    /\ task[c] = "starting"
    /\ CloseReceiver(c)
    /\ Becomes(c, "failed")
    /\ UNCHANGED <<job, handle, remembered, published>>

\* The loop task starts and the caller gets a handle.
SpawnCompletes(c) ==
    /\ task[c] = "starting"
    /\ Becomes(c, "idle")
    /\ handle' = [handle EXCEPT ![c] = "held"]
    /\ UNCHANGED <<busVars, job, remembered, published>>

----------------------------------------------------------------------------
(* micro_agent_loop *)

LoopReceives(c) ==
    /\ task[c] = "idle"
    /\ Recv(c)
    /\ job' = [job EXCEPT ![c] = Head(queue[c])]
    /\ Becomes(c, "running")
    /\ UNCHANGED <<handle, remembered, published>>

\* Mutants of LoopAnswers: the answer is never sent, and the loop forgets what
\* it answered before storing it.
LoopAnswersNobody(c) ==
    /\ task[c] = "running"
    /\ Becomes(c, "answered")
    /\ UNCHANGED <<busVars, job, handle, remembered, published>>
LoopForgetsJob(c) ==
    /\ task[c] = "running"
    /\ Answer(c, job[c])
    /\ job' = [job EXCEPT ![c] = None]
    /\ Becomes(c, "answered")
    /\ UNCHANGED <<handle, remembered, published>>

\* runner.run returns, with an output or an error: both are sent as answers.
LoopAnswers(c) ==
    /\ task[c] = "running"
    /\ Answer(c, job[c])
    /\ Becomes(c, "answered")
    /\ UNCHANGED <<job, handle, remembered, published>>

\* The output goes to the private memory.  Nothing is awaited between the
\* answer and this, so an abort cannot come between them.
LoopRemembers(c) ==
    /\ task[c] = "answered"
    /\ remembered' = remembered \cup {job[c]}
    /\ Becomes(c, "publishing")
    /\ UNCHANGED <<busVars, job, handle, published>>

\* The awaited part: shared partitions are written, topics are published to;
\* their errors are only logged.  Then the loop is back at recv.
LoopPublishes(c) ==
    /\ task[c] = "publishing"
    /\ published' = published \cup {job[c]}
    /\ Becomes(c, "idle")
    /\ UNCHANGED <<busVars, job, handle, remembered>>

\* Mutants of HasSender: only the registry's Sender counts, or only clones.
HasRegistration(c) == \E a \in Agents : entry[a] = c
HasCaller(c) == \E k \in Calls : chan[k] = c /\ InFlight(k)

\* Someone can still send: the registry's Sender, or a clone of a call.
HasSender(c) ==
    \/ \E a \in Agents : entry[a] = c
    \/ \E k \in Calls : chan[k] = c /\ InFlight(k)

\* recv yields None once the channel is empty and every Sender is gone.
LoopExits(c) ==
    /\ task[c] = "idle"
    /\ queue[c] = <<>>
    /\ ~HasSender(c)
    /\ CloseReceiver(c)
    /\ Becomes(c, "exited")
    /\ UNCHANGED <<job, handle, remembered, published>>

\* Inference panics; the task unwinds with its receiver and its request.
LoopPanics(c) ==
    /\ task[c] = "running"
    /\ CloseReceiver(c)
    /\ Becomes(c, "panicked")
    /\ UNCHANGED <<job, handle, remembered, published>>

----------------------------------------------------------------------------
(* MicroAgentHandle *)

\* Mutant of Abort: a task that can be stopped between answer and memory.
AbortAnywhere(c) ==
    /\ handle[c] = "held"
    /\ task[c] \in {"idle", "running", "answered", "publishing"}
    /\ CloseReceiver(c)
    /\ Becomes(c, "aborted")
    /\ UNCHANGED <<job, handle, remembered, published>>

\* abort takes effect where the task awaits.
Abort(c) ==
    /\ handle[c] = "held"
    /\ task[c] \in {"idle", "running", "publishing"}
    /\ CloseReceiver(c)
    /\ Becomes(c, "aborted")
    /\ UNCHANGED <<job, handle, remembered, published>>

\* watch_and_deregister consumes the handle; so does dropping it.
GiveHandle(c) ==
    /\ handle[c] = "held"
    /\ \E use \in {"watched", "dropped"} : handle' = [handle EXCEPT ![c] = use]
    /\ UNCHANGED <<busVars, task, job, remembered, published>>

\* Mutant of WatcherDeregisters: a watcher that only cleans up a normal exit.
WatcherIgnoresCrash(c) ==
    /\ handle[c] = "watched"
    /\ task[c] = "exited"
    /\ handle' = [handle EXCEPT ![c] = "released"]
    /\ \/ Deregister(owner[c])
       \/ entry[owner[c]] = None /\ UNCHANGED busVars
    /\ UNCHANGED <<task, job, remembered, published>>

\* The watcher sees the task end and deregisters the id, ignoring the result.
WatcherDeregisters(c) ==
    /\ handle[c] = "watched"
    /\ task[c] \in Dead
    /\ handle' = [handle EXCEPT ![c] = "released"]
    /\ \/ Deregister(owner[c])
       \/ entry[owner[c]] = None /\ UNCHANGED busVars
    /\ UNCHANGED <<task, job, remembered, published>>

----------------------------------------------------------------------------
\* Anyone with the bus may deregister an id or start a call.
ClientStep ==
    /\ \/ \E a \in Agents : Deregister(a)
       \/ CallerStep
    /\ UNCHANGED lifeVars

LoopStep(c) ==
    \/ LoopReceives(c) \/ LoopAnswers(c) \/ LoopRemembers(c)
    \/ LoopPublishes(c) \/ LoopExits(c) \/ LoopPanics(c)

LifeStep(c) ==
    \/ SpawnFails(c) \/ SpawnCompletes(c)
    \/ LoopStep(c)
    \/ Abort(c) \/ GiveHandle(c) \/ WatcherDeregisters(c)

MicroNext ==
    \/ \E a \in Agents : SpawnRegisters(a)
    \/ \E c \in Chans : LifeStep(c)
    \/ ClientStep

MicroSpec == MicroInit /\ [][MicroNext]_microVars

\* Spawned tasks that are ready are polled; inference need never end.
MicroFairness ==
    /\ \A k \in Calls :
          /\ WF_microVars(CallStep(k) /\ UNCHANGED lifeVars)
          /\ WF_microVars(Timeout(k) /\ UNCHANGED lifeVars)
    /\ \A c \in Chans :
          /\ WF_microVars(LoopReceives(c))
          /\ WF_microVars(LoopRemembers(c))
          /\ WF_microVars(LoopPublishes(c))
          /\ WF_microVars(LoopExits(c))
          /\ WF_microVars(WatcherDeregisters(c))

FairMicroSpec == MicroSpec /\ MicroFairness

----------------------------------------------------------------------------
(* What must hold *)

\* An agent that ends by itself fails nobody: a call gets ChannelClosed only
\* from a life whose spawn failed, that panicked or that was aborted.  (A life
\* exits only when recv yields None, and every caller's clone holds that off.)
ClosedOnlyByCrash ==
    \A k \in Calls : outcome[k] = "closed" => task[chan[k]] \in Crashed

\* A loop that exits normally is no longer registered: the registry's own
\* Sender keeps recv from yielding None.  (So the Ok branch of
\* watch_and_deregister has no registration of its own left to remove.)
ExitedIsUnregistered ==
    \A c \in Chans : task[c] = "exited" => entry[owner[c]] # c

\* The loop serves one request at a time, and while inference runs the
\* request's reply_to is the one thing the loop holds.
OneRequestAtATime ==
    \A c \in Chans : taken[c] = IF task[c] = "running" THEN {job[c]} ELSE {}

\* A life runs, with its receiver open, from its registration to its end, and
\* the registry and the handles name lives that exist.
LivesAreKnown ==
    /\ \A c \in Chans :
          /\ c > regs <=> task[c] = "none"
          /\ c <= regs => owner[c] \in Agents
          /\ c \in rxOpen <=> task[c] \notin Dead \cup {"none"}
          /\ handle[c] # "none" => task[c] # "none"
          /\ task[c] \in {"running", "answered", "publishing"} => job[c] \in Calls
    /\ \A a \in Agents : entry[a] # None => entry[a] <= regs /\ owner[entry[a]] = a
    /\ \A k \in Calls : chan[k] # None => chan[k] <= regs

\* Nobody can send to a life that exited; a reply_to that was dropped was
\* dropped by a crash; a call told ChannelClosed is over and had a channel.
EndsAreClean ==
    /\ \A c \in Chans : task[c] = "exited" => ~HasSender(c)
    /\ \A k \in Calls :
          /\ phase[k] = "wait" /\ reply[k] = "dropped" => task[chan[k]] \in Crashed
          /\ outcome[k] = "closed" => phase[k] = "done" /\ chan[k] \in Chans

\* The inductive invariant of the lives, on top of that of the bus.
LifeInv ==
    /\ MicroTypeOK
    /\ LivesAreKnown
    /\ OneRequestAtATime
    /\ EndsAreClean
    /\ ClosedOnlyByCrash

\* What a caller was told, its agent remembers, even if it is aborted right
\* after the answer.
RepliesAreRemembered ==
    \A k \in Calls : outcome[k] = "replied" ~> k \in remembered

\* A crash that someone watches does not leave the dead agent registered.
WatchedCrashIsDeregistered ==
    \A c \in Chans :
        task[c] \in Crashed /\ handle[c] = "watched" ~> \A a \in Agents : entry[a] # c

\* The agent loop is an owner of receivers as InMemoryBus allows them.
ImplementsBus == BusSpec

\* "deregisters on exit": an agent that did not come up is not registered.
FailedSpawnIsUnregistered ==
    \A c \in Chans : task[c] = "failed" => entry[owner[c]] # c

\* The watcher of a life removes that life's registration and no other.
WatcherRemovesItsOwn ==
    [][\A c \in Chans :
         handle[c] = "watched" /\ handle'[c] = "released" =>
            \A a \in Agents : entry'[a] # entry[a] => entry[a] = c]_microVars
============================================================================
