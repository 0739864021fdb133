---------------------------- MODULE InMemoryBus ----------------------------
(***************************************************************************)
(* The RPC half of bus/mod.rs: the registry of agents, one bounded request *)
(* channel per registration, and call_with_timeout, which waits for a      *)
(* permit of rpc_limiter, for room in the target's channel and for the     *)
(* oneshot reply under a single timeout.                                   *)
(*                                                                         *)
(* A registration is a channel: registering the same agent again after it  *)
(* was removed creates a new one.  The owner of a receiver is the          *)
(* environment of this module; it takes requests, answers them in any      *)
(* order, and drops the receiver whenever it likes.  MicroAgent.tla puts   *)
(* the agent loop of bus/micro_agent.rs in its place.                      *)
(***************************************************************************)
EXTENDS Integers, Sequences, FiniteSets

CONSTANTS
    Agents,             \* AgentIds
    Calls,              \* calls of call_with_timeout, each made once
    Whitelist,          \* Whitelist[a]: bus_config.rpc in a's descriptor
    MaxConcurrentRpc,   \* BusConfig::max_concurrent_rpc
    ChannelBufferSize,  \* BusConfig::channel_buffer_size
    MaxRegs             \* bound: registrations in one behaviour

ASSUME BusAssumption ==
    /\ IsFiniteSet(Calls)
    /\ Whitelist \in [Agents -> SUBSET Agents]
    /\ MaxConcurrentRpc \in Nat
    /\ ChannelBufferSize \in Nat \ {0}
    /\ MaxRegs \in Nat

Chans == 1 .. MaxRegs
None  == 0   \* no channel, no agent

VARIABLES
    entry,    \* InMemoryBus.agents: the channel an agent is registered with
    regs,     \* how many registrations there have been
    owner,    \* the agent a channel was created for (history)
    rxOpen,   \* channels whose Receiver still exists
    queue,    \* requests buffered in a channel
    taken,    \* requests received from a channel whose reply_to is still held
    permits,  \* permits left in rpc_limiter
    phase,    \* where a call is in call_with_timeout
    chan,     \* the request_tx a call cloned
    reply,    \* a call's oneshot channel
    outcome   \* what a call returned

registryVars == <<entry, regs, owner>>
channelVars  == <<rxOpen, queue, taken>>
callVars     == <<permits, phase, chan, reply, outcome>>
busVars == <<entry, regs, owner, rxOpen, queue, taken,
             permits, phase, chan, reply, outcome>>

Phases   == {"idle", "acquire", "send", "wait", "done"}
Replies  == {"empty", "sent", "dropped"}
Refusals == {"caller_not_found", "unauthorized", "target_not_found"}
Outcomes == {"none", "replied", "timeout", "closed"} \cup Refusals

BusTypeOK ==
    /\ entry   \in [Agents -> Chans \cup {None}]
    /\ regs    \in 0 .. MaxRegs
    /\ owner   \in [Chans -> Agents \cup {None}]
    /\ rxOpen  \subseteq Chans
    /\ queue   \in [Chans -> Seq(Calls)]
    /\ taken   \in [Chans -> SUBSET Calls]
    /\ permits \in 0 .. MaxConcurrentRpc
    /\ phase   \in [Calls -> Phases]
    /\ chan    \in [Calls -> Chans \cup {None}]
    /\ reply   \in [Calls -> Replies]
    /\ outcome \in [Calls -> Outcomes]

BusInit ==
    /\ entry   = [a \in Agents |-> None]
    /\ regs    = 0
    /\ owner   = [c \in Chans |-> None]
    /\ rxOpen  = {}
    /\ queue   = [c \in Chans |-> <<>>]
    /\ taken   = [c \in Chans |-> {}]
    /\ permits = MaxConcurrentRpc
    /\ phase   = [k \in Calls |-> "idle"]
    /\ chan    = [k \in Calls |-> None]
    /\ reply   = [k \in Calls |-> "empty"]
    /\ outcome = [k \in Calls |-> "none"]

----------------------------------------------------------------------------
(* The registry *)

\* register: refused while the agent is in the map, else a fresh channel.
Register(a) ==
    /\ entry[a] = None
    /\ regs < MaxRegs
    /\ regs'   = regs + 1
    /\ entry'  = [entry EXCEPT ![a] = regs + 1]
    /\ owner'  = [owner EXCEPT ![regs + 1] = a]
    /\ rxOpen' = rxOpen \cup {regs + 1}
    /\ UNCHANGED <<queue, taken, callVars>>

\* deregister: by id, whatever registration the id has now; its Sender goes.
Deregister(a) ==
    /\ entry[a] # None
    /\ entry' = [entry EXCEPT ![a] = None]
    /\ UNCHANGED <<regs, owner, channelVars, callVars>>

----------------------------------------------------------------------------
(* The caller: call_with_timeout *)

\* The checks made under the read lock, in their order.
Refusal(a, b) ==
    IF entry[a] = None           THEN "caller_not_found"
    ELSE IF b \notin Whitelist[a] THEN "unauthorized"
    ELSE IF entry[b] = None      THEN "target_not_found"
    ELSE "none"

\* a calls b: refused, or holding a clone of b's request_tx.
StartCall(k, a, b) ==
    /\ phase[k] = "idle"
    /\ \/ /\ Refusal(a, b) = "none"
          /\ phase' = [phase EXCEPT ![k] = "acquire"]
          /\ chan'  = [chan EXCEPT ![k] = entry[b]]
          /\ UNCHANGED outcome
       \/ /\ Refusal(a, b) # "none"
          /\ phase'   = [phase EXCEPT ![k] = "done"]
          /\ outcome' = [outcome EXCEPT ![k] = Refusal(a, b)]
          /\ UNCHANGED chan
    /\ UNCHANGED <<registryVars, channelVars, permits, reply>>

\* limiter.acquire_owned()
Acquire(k) ==
    /\ phase[k] = "acquire"
    /\ permits > 0
    /\ permits' = permits - 1
    /\ phase' = [phase EXCEPT ![k] = "send"]
    /\ UNCHANGED <<registryVars, channelVars, chan, reply, outcome>>

HasRoom(c) == Len(queue[c]) < ChannelBufferSize

\* Mutant of Send: a sender that does not notice that the receiver is gone.
SendToClosed(k) ==
    /\ phase[k] = "send"
    /\ HasRoom(chan[k])
    /\ queue' = [queue EXCEPT ![chan[k]] = Append(@, k)]
    /\ phase' = [phase EXCEPT ![k] = "wait"]
    /\ UNCHANGED <<registryVars, rxOpen, taken, permits, chan, reply, outcome>>

\* request_tx.send(..) succeeds once the bounded channel has room.
Send(k) ==
    /\ phase[k] = "send"
    /\ chan[k] \in rxOpen
    /\ HasRoom(chan[k])
    /\ queue' = [queue EXCEPT ![chan[k]] = Append(@, k)]
    /\ phase' = [phase EXCEPT ![k] = "wait"]
    /\ UNCHANGED <<registryVars, rxOpen, taken, permits, chan, reply, outcome>>

HoldsPermit(k) == phase[k] \in {"send", "wait"}

\* Mutants of Finish: a permit released only by a call that got to the reply,
\* and one released by every call that ends.
FinishLeaks(k, result) ==
    /\ phase'   = [phase EXCEPT ![k] = "done"]
    /\ outcome' = [outcome EXCEPT ![k] = result]
    /\ permits' = IF phase[k] = "wait" THEN permits + 1 ELSE permits
    /\ UNCHANGED <<registryVars, channelVars, chan, reply>>
FinishMints(k, result) ==
    /\ phase'   = [phase EXCEPT ![k] = "done"]
    /\ outcome' = [outcome EXCEPT ![k] = result]
    /\ permits' = permits + 1
    /\ UNCHANGED <<registryVars, channelVars, chan, reply>>

\* The future ends, by returning or by being dropped: with it go _permit,
\* the clone of request_tx and the oneshot receiver.
Finish(k, result) ==
    /\ phase'   = [phase EXCEPT ![k] = "done"]
    /\ outcome' = [outcome EXCEPT ![k] = result]
    /\ permits' = IF HoldsPermit(k) THEN permits + 1 ELSE permits
    /\ UNCHANGED <<registryVars, channelVars, chan, reply>>

\* send() on a channel whose receiver is gone.
SendFails(k) ==
    /\ phase[k] = "send"
    /\ chan[k] \notin rxOpen
    /\ Finish(k, "closed")

\* reply_rx yields the answer ...
ReturnReply(k) ==
    /\ phase[k] = "wait"
    /\ reply[k] = "sent"
    /\ Finish(k, "replied")

\* ... or finds that reply_to was dropped unanswered.
ReplyLost(k) ==
    /\ phase[k] = "wait"
    /\ reply[k] = "dropped"
    /\ Finish(k, "closed")

InFlight(k) == phase[k] \in {"acquire", "send", "wait"}

\* Mutants of Timeout: a budget for the reply alone, and a clock that is
\* polled before the call.
TimeoutOfReplyOnly(k) == phase[k] = "wait" /\ reply[k] = "empty" /\ Finish(k, "timeout")
TimeoutBeforeReply(k) == InFlight(k) /\ Finish(k, "timeout")

\* One budget for permit, send and reply.  tokio's timeout polls the call
\* before the clock, so a result that is already there wins.
Timeout(k) ==
    /\ InFlight(k)
    /\ reply[k] = "empty"
    /\ Finish(k, "timeout")

----------------------------------------------------------------------------
(* The owner of a receiver *)

Recv(c) ==
    /\ c \in rxOpen
    /\ queue[c] # <<>>
    /\ taken' = [taken EXCEPT ![c] = @ \cup {Head(queue[c])}]
    /\ queue' = [queue EXCEPT ![c] = Tail(@)]
    /\ UNCHANGED <<registryVars, rxOpen, callVars>>

\* reply_to.send(..): the answer to a caller that has left goes nowhere.
Answer(c, k) ==
    /\ k \in taken[c]
    /\ taken' = [taken EXCEPT ![c] = @ \ {k}]
    /\ reply' = IF phase[k] = "wait" THEN [reply EXCEPT ![k] = "sent"] ELSE reply
    /\ UNCHANGED <<registryVars, rxOpen, queue, permits, phase, chan, outcome>>

Buffered(c) == {queue[c][i] : i \in DOMAIN queue[c]}
Pending(c)  == Buffered(c) \cup taken[c]

\* Mutant of CloseReceiver: buffered requests vanish without their reply_to.
CloseForgetsBuffered(c) ==
    /\ c \in rxOpen
    /\ rxOpen' = rxOpen \ {c}
    /\ queue'  = [queue EXCEPT ![c] = <<>>]
    /\ taken'  = [taken EXCEPT ![c] = {}]
    /\ reply'  = [k \in Calls |-> IF k \in taken[c] /\ phase[k] = "wait"
                                  THEN "dropped" ELSE reply[k]]
    /\ UNCHANGED <<registryVars, permits, phase, chan, outcome>>

\* The receiver is dropped, with every request in it or taken from it.
CloseReceiver(c) ==
    /\ c \in rxOpen
    /\ rxOpen' = rxOpen \ {c}
    /\ queue'  = [queue EXCEPT ![c] = <<>>]
    /\ taken'  = [taken EXCEPT ![c] = {}]
    /\ reply'  = [k \in Calls |-> IF k \in Pending(c) /\ phase[k] = "wait"
                                  THEN "dropped" ELSE reply[k]]
    /\ UNCHANGED <<registryVars, permits, phase, chan, outcome>>

----------------------------------------------------------------------------
CallStep(k) ==
    \/ Acquire(k) \/ Send(k) \/ SendFails(k)
    \/ ReturnReply(k) \/ ReplyLost(k) \/ Timeout(k)

RegistryStep == \E a \in Agents : Register(a) \/ Deregister(a)
CallerStep   == \E k \in Calls :
                   \/ CallStep(k)
                   \/ \E a, b \in Agents : StartCall(k, a, b)
ReceiverStep == \E c \in Chans :
                   \/ Recv(c)
                   \/ CloseReceiver(c)
                   \/ \E k \in taken[c] : Answer(c, k)

BusNext == RegistryStep \/ CallerStep \/ ReceiverStep

BusSpec == BusInit /\ [][BusNext]_busVars

\* A call that has started is polled until it returns, and its timer fires.
\* Nothing makes an agent take or answer a request.
CallFairness == \A k \in Calls : WF_busVars(CallStep(k)) /\ WF_busVars(Timeout(k))

FairBusSpec == BusSpec /\ CallFairness

----------------------------------------------------------------------------
(* What must hold *)

\* Permits are neither lost nor minted: each permit of rpc_limiter is free or
\* held by one call between acquire_owned and the end of its future, whether
\* that end is a reply, a closed channel or the timeout.
PermitAccounting ==
    permits + Cardinality({k \in Calls : HoldsPermit(k)}) = MaxConcurrentRpc

\* No caller waits on nobody: while a call has sent its request and its
\* oneshot is empty, the request is buffered in, or taken from, the channel
\* it cloned, so that an answer or a dropped reply_to can still reach it.
WaitedRequestIsPending ==
    \A k \in Calls :
        phase[k] = "wait" /\ reply[k] = "empty" => k \in Pending(chan[k])

\* A request is in one place, and unanswered while it is there: a channel
\* holds no request twice and only requests sent to it, a closed one holds
\* none, and no oneshot has been used while its request is still pending.
RequestsInOnePlace ==
    \A c \in Chans :
        /\ Buffered(c) \cap taken[c] = {}
        /\ \A i, j \in DOMAIN queue[c] : queue[c][i] = queue[c][j] => i = j
        /\ \A k \in Pending(c) :
              /\ chan[k] = c
              /\ phase[k] \in {"wait", "done"}
              /\ phase[k] = "wait" => reply[k] = "empty"
        /\ c \notin rxOpen => Pending(c) = {}

\* A call that has not sent its request has an unused oneshot, and one that
\* was let in holds the Sender of a channel.
CallShape ==
    \A k \in Calls :
        /\ phase[k] \in {"idle", "acquire", "send"} => reply[k] = "empty"
        /\ InFlight(k) => chan[k] \in Chans

\* The inductive invariant: the parts hold each other up.
BusInv ==
    /\ BusTypeOK
    /\ PermitAccounting
    /\ WaitedRequestIsPending
    /\ RequestsInOnePlace
    /\ CallShape

\* Whatever the target does, a call that was let in returns: a full channel
\* or a silent agent cannot hold it past its timeout.
EveryCallReturns == \A k \in Calls : InFlight(k) ~> phase[k] = "done"

\* How RpcService sees a call of this module.
CallStatus ==
    [k \in Calls |-> CASE phase[k] = "idle"    -> "new"
                       [] phase[k] = "acquire" -> "queued"
                       [] phase[k] = "done"    -> "over"
                       [] OTHER                -> "admitted"]
AnsweredCalls == {k \in Calls : reply[k] = "sent"}

Rpc == INSTANCE RpcService WITH
    Slots <- MaxConcurrentRpc, status <- CallStatus, answered <- AnsweredCalls,
    result <- outcome

\* The bus keeps the promise of RpcService: at most max_concurrent_rpc calls
\* are let in at a time, an answer reaches the caller that waits for it and
\* is then what the call returns, and a call returns once.
ImplementsRpc == Rpc!RpcSpec
============================================================================
