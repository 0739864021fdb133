----------------------------- MODULE BusProofs -----------------------------
(***************************************************************************)
(* Proofs about InMemoryBus and MicroAgent, for every set of agents and    *)
(* finite set of calls, every whitelist, channel capacity and number of    *)
(* permits.                                                                *)
(*                                                                         *)
(* BusInv is inductive.  The steps are proved in three groups: what they   *)
(* do to the types, to the permits, and to the places a request can be in. *)
(* The agents of bus/micro_agent.rs use the bus as InMemoryBus lets them,  *)
(* so all that is shown of the bus holds of them too; a call is told       *)
(* ChannelClosed only by a crash, and a loop that ended by itself is not   *)
(* registered.                                                             *)
(***************************************************************************)
EXTENDS MicroAgent, FiniteSetTheorems, TLAPS

----------------------------------------------------------------------------
(* Sequences *)

\* What a channel holds after send(): the old requests and the new one.
LEMMA AppendHolds ==
    ASSUME NEW S, NEW s \in Seq(S), NEW e \in S
    PROVE  /\ Append(s, e) \in Seq(S)
           /\ DOMAIN Append(s, e) = 1 .. Len(s) + 1
           /\ \A i \in 1 .. Len(s) : Append(s, e)[i] = s[i]
           /\ Append(s, e)[Len(s) + 1] = e
  OBVIOUS

\* What a channel holds after recv(): the same requests one place earlier.
LEMMA TailHolds ==
    ASSUME NEW S, NEW s \in Seq(S), s # <<>>
    PROVE  /\ Head(s) = s[1] /\ Head(s) \in S
           /\ Tail(s) \in Seq(S)
           /\ Len(s) \in Nat \ {0}
           /\ DOMAIN s = 1 .. Len(s)
           /\ DOMAIN Tail(s) = 1 .. Len(s) - 1
           /\ \A i \in 1 .. Len(s) - 1 : Tail(s)[i] = s[i + 1]
  OBVIOUS

----------------------------------------------------------------------------
(* Permits *)

Holders == {k \in Calls : HoldsPermit(k)}

\* The holders are finitely many, so they can be counted.
LEMMA HoldersFinite ==
    /\ IsFiniteSet(Holders)
    /\ Cardinality(Holders) \in Nat
    /\ \A k \in Calls : /\ Cardinality(Holders \cup {k}) =
                              IF k \in Holders THEN Cardinality(Holders)
                                               ELSE Cardinality(Holders) + 1
                        /\ Cardinality(Holders \ {k}) =
                              IF k \in Holders THEN Cardinality(Holders) - 1
                                               ELSE Cardinality(Holders)
  <1>1. IsFiniteSet(Holders)
    BY BusAssumption, FS_Subset DEF Holders
  <1>2. QED
    BY <1>1, FS_CardinalityType, FS_AddElement, FS_RemoveElement

\* Ending a call returns the permit it holds, if it holds one.
LEMMA FinishPermits ==
    ASSUME BusTypeOK, PermitAccounting, NEW k \in Calls, NEW result, Finish(k, result)
    PROVE  PermitAccounting' /\ permits' \in 0 .. MaxConcurrentRpc
  <1>1. permits \in Nat
    BY DEF BusTypeOK
  <1>2. Holders' = Holders \ {k}
    BY DEF Finish, BusTypeOK, Holders, HoldsPermit, Phases
  <1>3. permits' = IF k \in Holders THEN permits + 1 ELSE permits
    BY DEF Finish, Holders
  <1>4. permits + Cardinality(Holders) = MaxConcurrentRpc
    BY DEF PermitAccounting, Holders
  <1>5. Cardinality(Holders \ {k}) = IF k \in Holders THEN Cardinality(Holders) - 1
                                                     ELSE Cardinality(Holders)
    BY HoldersFinite
  <1>6. permits' + Cardinality(Holders') = MaxConcurrentRpc
    BY <1>1, <1>2, <1>3, <1>4, <1>5, HoldersFinite, BusAssumption
  <1>7. permits' \in Nat
    BY <1>1, <1>3
  <1>8. Cardinality(Holders') \in Nat
    BY <1>2, HoldersFinite, FS_RemoveElement, FS_CardinalityType
  <1>9. PermitAccounting'
    BY <1>6 DEF PermitAccounting, Holders
  <1>10. QED
    BY <1>6, <1>7, <1>8, <1>9, BusAssumption

\* A step that moves no call across acquire_owned or the end of its future
\* leaves the permits alone.
LEMMA SamePermits ==
    ASSUME BusTypeOK, PermitAccounting, UNCHANGED permits,
           \A k \in Calls : HoldsPermit(k)' <=> HoldsPermit(k)
    PROVE  PermitAccounting' /\ permits' \in 0 .. MaxConcurrentRpc
  <1>1. Holders' = Holders
    BY DEF Holders
  <1>2. QED
    BY <1>1 DEF PermitAccounting, Holders, BusTypeOK

\* Permits are conserved by every step.
LEMMA PermitStep ==
    BusTypeOK /\ PermitAccounting /\ [BusNext]_busVars
        => PermitAccounting' /\ permits' \in 0 .. MaxConcurrentRpc
  <1> SUFFICES ASSUME BusTypeOK, PermitAccounting, [BusNext]_busVars
               PROVE  PermitAccounting' /\ permits' \in 0 .. MaxConcurrentRpc
    OBVIOUS
  <1>1. CASE UNCHANGED <<permits, phase>>
    BY <1>1, SamePermits DEF HoldsPermit
  <1>2. ASSUME NEW k \in Calls, NEW a \in Agents, NEW b \in Agents, StartCall(k, a, b)
        PROVE  PermitAccounting' /\ permits' \in 0 .. MaxConcurrentRpc
    BY <1>2, SamePermits DEF StartCall, HoldsPermit, BusTypeOK, Phases
  <1>3. ASSUME NEW k \in Calls, Acquire(k)
        PROVE  PermitAccounting' /\ permits' \in 0 .. MaxConcurrentRpc
    <2>1. Holders' = Holders \cup {k} /\ k \notin Holders
      BY <1>3 DEF Acquire, BusTypeOK, Holders, HoldsPermit, Phases
    <2>2. permits' = permits - 1 /\ permits' \in Nat
      BY <1>3 DEF Acquire, BusTypeOK
    <2>3. permits + Cardinality(Holders) = MaxConcurrentRpc
      BY DEF PermitAccounting, Holders
    <2>4. permits' + Cardinality(Holders') = MaxConcurrentRpc
      BY <2>1, <2>2, <2>3, HoldersFinite, BusAssumption DEF BusTypeOK
    <2>5. QED
      BY <2>2, <2>4, BusAssumption DEF PermitAccounting, Holders, BusTypeOK
  <1>4. ASSUME NEW k \in Calls, Send(k)
        PROVE  PermitAccounting' /\ permits' \in 0 .. MaxConcurrentRpc
    BY <1>4, SamePermits DEF Send, HoldsPermit, BusTypeOK, Phases
  <1>5. ASSUME NEW k \in Calls,
               SendFails(k) \/ ReturnReply(k) \/ ReplyLost(k) \/ Timeout(k)
        PROVE  PermitAccounting' /\ permits' \in 0 .. MaxConcurrentRpc
    BY <1>5, FinishPermits DEF SendFails, ReturnReply, ReplyLost, Timeout
  <1>6. CASE RegistryStep
    BY <1>6, <1>1 DEF RegistryStep, Register, Deregister, callVars
  <1>7. CASE ReceiverStep
    BY <1>7, <1>1 DEF ReceiverStep, Recv, Answer, CloseReceiver, callVars
  <1>8. CASE CallerStep
    BY <1>8, <1>2, <1>3, <1>4, <1>5 DEF CallerStep, CallStep
  <1>9. CASE UNCHANGED busVars
    BY <1>9, <1>1 DEF busVars
  <1>10. QED
    BY <1>6, <1>7, <1>8, <1>9 DEF BusNext

----------------------------------------------------------------------------
(* Types *)

\* Every variable of the bus keeps its type, whoever steps.
LEMMA TypeStep ==
    BusTypeOK /\ PermitAccounting /\ [BusNext]_busVars => BusTypeOK'
  <1> SUFFICES ASSUME BusTypeOK, PermitAccounting, [BusNext]_busVars PROVE BusTypeOK'
    OBVIOUS
  <1>0. permits' \in 0 .. MaxConcurrentRpc
    BY PermitStep
  <1> USE BusAssumption DEF BusTypeOK, Chans, None, Phases, Replies, Outcomes,
                            Refusals, registryVars, channelVars, callVars
  <1>1. ASSUME NEW a \in Agents, Register(a) PROVE BusTypeOK'
    <2>1. regs' = regs + 1 /\ regs' \in 0 .. MaxRegs /\ regs' \in Chans
      BY <1>1 DEF Register
    <2>2. entry' \in [Agents -> Chans \cup {None}]
      BY <1>1, <2>1 DEF Register
    <2>3. owner' \in [Chans -> Agents \cup {None}]
      BY <1>1, <2>1 DEF Register
    <2>4. rxOpen' \subseteq Chans
      BY <1>1, <2>1 DEF Register
    <2>5. UNCHANGED <<queue, taken, callVars>>
      BY <1>1 DEF Register
    <2>6. QED
      BY <2>1, <2>2, <2>3, <2>4, <2>5
  <1>2. ASSUME NEW a \in Agents, Deregister(a) PROVE BusTypeOK'
    BY <1>2 DEF Deregister
  <1>3. ASSUME NEW k \in Calls, NEW a \in Agents, NEW b \in Agents,
               StartCall(k, a, b) PROVE BusTypeOK'
    BY <1>3 DEF StartCall, Refusal
  <1>4. ASSUME NEW k \in Calls, Acquire(k) PROVE BusTypeOK'
    BY <1>4 DEF Acquire
  <1>5. ASSUME NEW k \in Calls, Send(k) PROVE BusTypeOK'
    BY <1>5, AppendHolds DEF Send
  <1>6. ASSUME NEW k \in Calls,
               SendFails(k) \/ ReturnReply(k) \/ ReplyLost(k) \/ Timeout(k)
        PROVE  BusTypeOK'
    <2>1. PICK result \in Outcomes : Finish(k, result)
      BY <1>6 DEF SendFails, ReturnReply, ReplyLost, Timeout
    <2>2. QED
      BY <1>0, <2>1 DEF Finish
  <1>7. ASSUME NEW c \in Chans, Recv(c) PROVE BusTypeOK'
    BY <1>7, TailHolds DEF Recv
  <1>8. ASSUME NEW c \in Chans, NEW k \in taken[c], Answer(c, k) PROVE BusTypeOK'
    BY <1>8 DEF Answer
  <1>9. ASSUME NEW c \in Chans, CloseReceiver(c) PROVE BusTypeOK'
    BY <1>9 DEF CloseReceiver
  <1>10. CASE UNCHANGED busVars
    BY <1>10 DEF busVars
  <1>11. QED
    BY <1>1, <1>2, <1>3, <1>4, <1>5, <1>6, <1>7, <1>8, <1>9, <1>10
       DEF BusNext, RegistryStep, CallerStep, CallStep, ReceiverStep

----------------------------------------------------------------------------
(* Where requests are *)

PlacesInv == WaitedRequestIsPending /\ RequestsInOnePlace /\ CallShape

\* What send() puts in a channel.
LEMMA SendBuffers ==
    ASSUME BusTypeOK, NEW k \in Calls, Send(k), CallShape
    PROVE  /\ chan[k] \in Chans
           /\ Buffered(chan[k])' = Buffered(chan[k]) \cup {k}
           /\ \A c \in Chans \ {chan[k]} : queue'[c] = queue[c]
           /\ queue' \in [Chans -> Seq(Calls)]
  <1>1. chan[k] \in Chans
    BY DEF Send, CallShape, InFlight
  <1>2. queue[chan[k]] \in Seq(Calls)
    BY <1>1 DEF BusTypeOK
  <1>3. queue'[chan[k]] = Append(queue[chan[k]], k)
    BY <1>1 DEF Send, BusTypeOK
  <1>4. /\ DOMAIN queue'[chan[k]] = 1 .. Len(queue[chan[k]]) + 1
        /\ \A i \in 1 .. Len(queue[chan[k]]) : queue'[chan[k]][i] = queue[chan[k]][i]
        /\ queue'[chan[k]][Len(queue[chan[k]]) + 1] = k
        /\ DOMAIN queue[chan[k]] = 1 .. Len(queue[chan[k]])
        /\ Len(queue[chan[k]]) \in Nat
    BY <1>2, <1>3, AppendHolds
  <1>5. chan' = chan
    BY DEF Send
  <1>6. Buffered(chan[k])' = Buffered(chan[k]) \cup {k}
    <2>1. Buffered(chan[k])' = {queue'[chan[k]][i] : i \in 1 .. Len(queue[chan[k]]) + 1}
      BY <1>4, <1>5 DEF Buffered
    <2>2. Buffered(chan[k]) = {queue[chan[k]][i] : i \in 1 .. Len(queue[chan[k]])}
      BY <1>4 DEF Buffered
    <2>3. \A i \in 1 .. Len(queue[chan[k]]) : queue'[chan[k]][i] = queue[chan[k]][i]
      BY <1>4
    <2> DEFINE n == Len(queue[chan[k]])
               s == queue[chan[k]]
               t == queue'[chan[k]]
    <2>4. n \in Nat /\ t[n + 1] = k
      BY <1>4
    <2> HIDE DEF n, s, t
    <2>5. ASSUME \A i \in 1 .. n : t[i] = s[i]
          PROVE  {t[i] : i \in 1 .. n + 1} = {s[i] : i \in 1 .. n} \cup {k}
      <3>1. ASSUME NEW i \in 1 .. n + 1 PROVE t[i] \in {s[j] : j \in 1 .. n} \cup {k}
        <4>1. i \in 1 .. n \/ i = n + 1
          BY <2>4
        <4> QED
          BY <2>4, <2>5, <4>1
      <3>2. ASSUME NEW i \in 1 .. n PROVE s[i] \in {t[j] : j \in 1 .. n + 1}
        <4>1. i \in 1 .. n + 1 /\ t[i] = s[i]
          BY <2>4, <2>5
        <4> QED
          BY <4>1
      <3>3. k \in {t[j] : j \in 1 .. n + 1}
        <4>1. n + 1 \in 1 .. n + 1
          BY <2>4
        <4> QED
          BY <2>4, <4>1
      <3> QED
        BY <3>1, <3>2, <3>3
    <2> QED
      BY <2>1, <2>2, <2>3, <2>5 DEF n, s, t
  <1>7. QED
    BY <1>1, <1>2, <1>3, <1>6, AppendHolds DEF Send, BusTypeOK

\* What recv() takes out of a channel that holds no request twice.
LEMMA RecvBuffers ==
    ASSUME BusTypeOK, RequestsInOnePlace, NEW c \in Chans, Recv(c)
    PROVE  /\ Head(queue[c]) \in Buffered(c)
           /\ Buffered(c)' = Buffered(c) \ {Head(queue[c])}
           /\ Pending(c)' = Pending(c)
           /\ \A i, j \in DOMAIN queue'[c] : queue'[c][i] = queue'[c][j] => i = j
           /\ \A d \in Chans \ {c} : queue'[d] = queue[d] /\ taken'[d] = taken[d]
           /\ taken'[c] = taken[c] \cup {Head(queue[c])}
  <1>1. queue[c] \in Seq(Calls) /\ queue[c] # <<>>
    BY DEF Recv, BusTypeOK
  <1>2. queue'[c] = Tail(queue[c]) /\ taken'[c] = taken[c] \cup {Head(queue[c])}
    BY DEF Recv, BusTypeOK
  <1>3. /\ Head(queue[c]) = queue[c][1]
        /\ DOMAIN queue[c] = 1 .. Len(queue[c])
        /\ Len(queue[c]) \in Nat \ {0}
        /\ DOMAIN queue'[c] = 1 .. Len(queue[c]) - 1
        /\ \A i \in 1 .. Len(queue[c]) - 1 : queue'[c][i] = queue[c][i + 1]
    BY <1>1, <1>2, TailHolds
  <1>4. \A i, j \in DOMAIN queue[c] : queue[c][i] = queue[c][j] => i = j
    BY DEF RequestsInOnePlace
  <1>5. Head(queue[c]) \in Buffered(c)
    BY <1>3 DEF Buffered
  <1>6. Buffered(c)' \subseteq Buffered(c) \ {Head(queue[c])}
    <2>1. SUFFICES ASSUME NEW i \in DOMAIN queue'[c]
                   PROVE  /\ \E j \in DOMAIN queue[c] : queue[c][j] = queue'[c][i]
                          /\ queue'[c][i] # queue[c][1]
      BY <1>3 DEF Buffered
    <2>2. i + 1 \in DOMAIN queue[c] /\ 1 \in DOMAIN queue[c] /\ i + 1 # 1
      BY <1>3, <2>1
    <2>3. queue'[c][i] = queue[c][i + 1]
      BY <1>3, <2>1
    <2>4. QED
      BY <1>4, <2>2, <2>3
  <1>7. Buffered(c) \ {Head(queue[c])} \subseteq Buffered(c)'
    <2>1. SUFFICES ASSUME NEW i \in DOMAIN queue[c], queue[c][i] # queue[c][1]
                   PROVE  \E j \in DOMAIN queue'[c] : queue'[c][j] = queue[c][i]
      BY <1>3 DEF Buffered
    <2>2. i - 1 \in DOMAIN queue'[c] /\ queue'[c][i - 1] = queue[c][i]
      BY <1>3, <2>1
    <2>3. QED
      BY <2>2
  <1>8. Buffered(c)' = Buffered(c) \ {Head(queue[c])}
    BY <1>6, <1>7
  <1>9. \A i, j \in DOMAIN queue'[c] : queue'[c][i] = queue'[c][j] => i = j
    <2>1. SUFFICES ASSUME NEW i \in DOMAIN queue'[c], NEW j \in DOMAIN queue'[c],
                          queue'[c][i] = queue'[c][j]
                   PROVE  i = j
      OBVIOUS
    <2>2. /\ i + 1 \in DOMAIN queue[c] /\ j + 1 \in DOMAIN queue[c]
          /\ queue[c][i + 1] = queue[c][j + 1]
          /\ i \in Int /\ j \in Int
      BY <1>3, <2>1
    <2>3. i + 1 = j + 1
      BY <1>4, <2>2
    <2>4. QED
      BY <2>2, <2>3
  <1>10. QED
    BY <1>2, <1>5, <1>8, <1>9 DEF Pending, Recv, BusTypeOK

\* What is pending are calls.
LEMMA PendingAreCalls == BusTypeOK => \A c \in Chans : Pending(c) \subseteq Calls
  BY DEF BusTypeOK, Pending, Buffered

\* Every step keeps requests where their callers can be found.
LEMMA PlacesStep ==
    BusTypeOK /\ PlacesInv /\ [BusNext]_busVars => PlacesInv'
  <1> SUFFICES ASSUME BusTypeOK, PlacesInv, [BusNext]_busVars PROVE PlacesInv'
    OBVIOUS
  <1> USE DEF PlacesInv
  <1>0. \A c \in Chans : Pending(c) \subseteq Calls
    BY PendingAreCalls
  <1>1. CASE UNCHANGED <<channelVars, callVars>>
    BY <1>1 DEF channelVars, callVars, WaitedRequestIsPending, RequestsInOnePlace,
                CallShape, Pending, Buffered, InFlight
  <1>2. ASSUME NEW a \in Agents, Register(a) PROVE PlacesInv'
    BY <1>2 DEF Register, callVars, WaitedRequestIsPending, RequestsInOnePlace,
                CallShape, Pending, Buffered, InFlight
  <1>3. ASSUME NEW k \in Calls, NEW a \in Agents, NEW b \in Agents, StartCall(k, a, b)
        PROVE  PlacesInv'
    <2>1. \A c \in Chans : Pending(c)' = Pending(c) /\ k \notin Pending(c)
      BY <1>3 DEF StartCall, channelVars, Pending, Buffered, RequestsInOnePlace
    <2>2. phase[k] = "idle" /\ reply' = reply /\ queue' = queue /\ taken' = taken
          /\ rxOpen' = rxOpen
      BY <1>3 DEF StartCall, channelVars
    <2>3. \A j \in Calls \ {k} : phase'[j] = phase[j] /\ chan'[j] = chan[j]
      BY <1>3 DEF StartCall, BusTypeOK
    <2>4. \/ phase'[k] = "acquire" /\ chan'[k] \in Chans
          \/ phase'[k] = "done"
      BY <1>3 DEF StartCall, Refusal, BusTypeOK
    <2>5. WaitedRequestIsPending'
      BY <2>1, <2>2, <2>3, <2>4 DEF WaitedRequestIsPending, InFlight, CallShape
    <2>6. RequestsInOnePlace'
      <3>1. \A c \in Chans : Buffered(c)' = Buffered(c)
        BY <2>2 DEF Buffered
      <3>2. QED
        BY <1>0, <2>1, <2>2, <2>3, <3>1 DEF RequestsInOnePlace
    <2>7. CallShape'
      BY <2>2, <2>3, <2>4 DEF CallShape, InFlight
    <2>8. QED
      BY <2>5, <2>6, <2>7
  <1>4. ASSUME NEW k \in Calls, Acquire(k) PROVE PlacesInv'
    <2>1. /\ phase[k] = "acquire" /\ phase'[k] = "send"
          /\ \A j \in Calls \ {k} : phase'[j] = phase[j]
          /\ UNCHANGED <<rxOpen, queue, taken, chan, reply>>
      BY <1>4 DEF Acquire, BusTypeOK, channelVars
    <2>2. \A c \in Chans : Pending(c)' = Pending(c) /\ k \notin Pending(c)
      BY <2>1 DEF Pending, Buffered, RequestsInOnePlace
    <2>3. WaitedRequestIsPending'
      BY <2>1, <2>2 DEF WaitedRequestIsPending, CallShape, InFlight
    <2>4. RequestsInOnePlace'
      <3>1. \A c \in Chans : Buffered(c)' = Buffered(c)
        BY <2>1 DEF Buffered
      <3>2. QED
        BY <1>0, <2>1, <2>2, <3>1 DEF RequestsInOnePlace
    <2>5. CallShape'
      BY <2>1 DEF CallShape, InFlight
    <2>6. QED
      BY <2>3, <2>4, <2>5
  <1>5. ASSUME NEW k \in Calls, Send(k) PROVE PlacesInv'
    <2>1. /\ phase[k] = "send" /\ phase'[k] = "wait"
          /\ \A j \in Calls \ {k} : phase'[j] = phase[j]
          /\ UNCHANGED <<rxOpen, taken, chan, reply>>
          /\ chan[k] \in rxOpen /\ reply[k] = "empty"
      BY <1>5 DEF Send, BusTypeOK, CallShape
    <2>2. /\ chan[k] \in Chans
          /\ Buffered(chan[k])' = Buffered(chan[k]) \cup {k}
          /\ \A c \in Chans \ {chan[k]} : queue'[c] = queue[c]
      BY <1>5, SendBuffers
    <2>3. \A c \in Chans : k \notin Pending(c)
      BY <2>1 DEF RequestsInOnePlace
    <2>4. /\ Pending(chan[k])' = Pending(chan[k]) \cup {k}
          /\ \A c \in Chans \ {chan[k]} : Pending(c)' = Pending(c) /\ Buffered(c)' = Buffered(c)
      BY <2>1, <2>2 DEF Pending, Buffered
    <2>5. \A i, j \in DOMAIN queue'[chan[k]] :
             queue'[chan[k]][i] = queue'[chan[k]][j] => i = j
      <3>1. /\ queue[chan[k]] \in Seq(Calls)
            /\ queue'[chan[k]] = Append(queue[chan[k]], k)
        BY <1>5, <2>2 DEF Send, BusTypeOK
      <3>2. \A i \in DOMAIN queue[chan[k]] : queue[chan[k]][i] # k
        BY <2>2, <2>3 DEF Pending, Buffered
      <3>3. \A i, j \in DOMAIN queue[chan[k]] :
               queue[chan[k]][i] = queue[chan[k]][j] => i = j
        BY <2>2 DEF RequestsInOnePlace
      <3>4. QED
        BY <3>1, <3>2, <3>3, AppendHolds
    <2>6. WaitedRequestIsPending'
      BY <2>1, <2>2, <2>4 DEF WaitedRequestIsPending, CallShape, InFlight
    <2>7. RequestsInOnePlace'
      <3>1. SUFFICES ASSUME NEW c \in Chans
                     PROVE  /\ Buffered(c)' \cap taken'[c] = {}
                            /\ \A i, j \in DOMAIN queue'[c] :
                                  queue'[c][i] = queue'[c][j] => i = j
                            /\ \A j \in Pending(c)' :
                                  /\ chan'[j] = c
                                  /\ phase'[j] \in {"wait", "done"}
                                  /\ phase'[j] = "wait" => reply'[j] = "empty"
                            /\ c \notin rxOpen' => Pending(c)' = {}
        BY DEF RequestsInOnePlace
      <3>2. CASE c = chan[k]
        <4>1. Buffered(c) \cap taken[c] = {} /\ k \notin taken[c]
          BY <2>3 DEF RequestsInOnePlace, Pending
        <4>2. \A j \in Pending(c) : /\ chan[j] = c
                                    /\ phase[j] \in {"wait", "done"}
                                    /\ phase[j] = "wait" => reply[j] = "empty"
          BY DEF RequestsInOnePlace
        <4>3. QED
          BY <1>0, <3>2, <2>1, <2>2, <2>3, <2>4, <2>5, <4>1, <4>2
      <3>3. CASE c # chan[k]
        <4>1. /\ Buffered(c)' = Buffered(c) /\ Pending(c)' = Pending(c)
              /\ taken'[c] = taken[c] /\ queue'[c] = queue[c]
          BY <3>3, <2>1, <2>2, <2>4
        <4>2. QED
          BY <1>0, <2>1, <2>3, <4>1 DEF RequestsInOnePlace
      <3>4. QED
        BY <3>2, <3>3
    <2>8. CallShape'
      BY <2>1, <2>2 DEF CallShape, InFlight
    <2>9. QED
      BY <2>6, <2>7, <2>8
  <1>6. ASSUME NEW k \in Calls,
               SendFails(k) \/ ReturnReply(k) \/ ReplyLost(k) \/ Timeout(k)
        PROVE  PlacesInv'
    <2>1. /\ phase'[k] = "done"
          /\ \A j \in Calls \ {k} : phase'[j] = phase[j]
          /\ UNCHANGED <<rxOpen, queue, taken, chan, reply>>
      BY <1>6 DEF SendFails, ReturnReply, ReplyLost, Timeout, Finish, channelVars, BusTypeOK
    <2>2. \A c \in Chans : Pending(c)' = Pending(c) /\ Buffered(c)' = Buffered(c)
      BY <2>1 DEF Pending, Buffered
    <2>3. WaitedRequestIsPending'
      BY <2>1, <2>2 DEF WaitedRequestIsPending, CallShape, InFlight
    <2>4. RequestsInOnePlace'
      BY <1>0, <2>1, <2>2 DEF RequestsInOnePlace
    <2>5. CallShape'
      BY <2>1 DEF CallShape, InFlight
    <2>6. QED
      BY <2>3, <2>4, <2>5
  <1>7. ASSUME NEW c \in Chans, Recv(c) PROVE PlacesInv'
    <2>1. /\ UNCHANGED <<rxOpen, phase, chan, reply>>
          /\ c \in rxOpen
      BY <1>7 DEF Recv, callVars
    <2>2. /\ Head(queue[c]) \in Buffered(c)
          /\ Buffered(c)' = Buffered(c) \ {Head(queue[c])}
          /\ Pending(c)' = Pending(c)
          /\ \A i, j \in DOMAIN queue'[c] : queue'[c][i] = queue'[c][j] => i = j
          /\ \A d \in Chans \ {c} : queue'[d] = queue[d] /\ taken'[d] = taken[d]
          /\ taken'[c] = taken[c] \cup {Head(queue[c])}
      BY <1>7, RecvBuffers
    <2>3. \A d \in Chans \ {c} : Pending(d)' = Pending(d) /\ Buffered(d)' = Buffered(d)
      BY <2>2 DEF Pending, Buffered
    <2>4. WaitedRequestIsPending'
      BY <2>1, <2>2, <2>3 DEF WaitedRequestIsPending, CallShape, InFlight
    <2>5. RequestsInOnePlace'
      BY <2>1, <2>2, <2>3 DEF RequestsInOnePlace
    <2>6. CallShape'
      BY <2>1 DEF CallShape, InFlight
    <2>7. QED
      BY <2>4, <2>5, <2>6
  <1>8. ASSUME NEW c \in Chans, NEW k \in taken[c], Answer(c, k) PROVE PlacesInv'
    <2>1. /\ UNCHANGED <<rxOpen, queue, phase, chan>>
          /\ k \in Calls
          /\ taken'[c] = taken[c] \ {k}
          /\ \A d \in Chans \ {c} : taken'[d] = taken[d]
          /\ \A j \in Calls \ {k} : reply'[j] = reply[j]
          /\ phase[k] = "wait" => reply'[k] = "sent"
          /\ phase[k] # "wait" => reply'[k] = reply[k]
      BY <1>8 DEF Answer, BusTypeOK
    <2>2. \A d \in Chans : Buffered(d)' = Buffered(d)
      BY <2>1 DEF Buffered
    <2>3. Pending(c)' = Pending(c) \ {k} /\ \A d \in Chans \ {c} : Pending(d)' = Pending(d)
      BY <2>1, <2>2 DEF Pending, RequestsInOnePlace
    <2>4. chan[k] = c /\ phase[k] \in {"wait", "done"} /\ \A d \in Chans \ {c} : k \notin Pending(d)
      BY <1>8 DEF RequestsInOnePlace, Pending
    <2>5. WaitedRequestIsPending'
      <3>1. SUFFICES ASSUME NEW j \in Calls, phase[j] = "wait", reply'[j] = "empty"
                     PROVE  j \in Pending(chan[j])'
        BY <2>1 DEF WaitedRequestIsPending
      <3>2. j # k
        BY <2>1, <3>1
      <3>3. j \in Pending(chan[j]) /\ chan[j] \in Chans
        BY <2>1, <3>1, <3>2 DEF WaitedRequestIsPending, CallShape, InFlight
      <3>4. QED
        BY <2>1, <2>3, <3>2, <3>3
    <2>6. RequestsInOnePlace'
      <3>1. \A d \in Chans : taken'[d] \subseteq taken[d]
        BY <2>1
      <3>2. \A d \in Chans : k \notin Pending(d)'
        BY <2>3, <2>4
      <3>3. QED
        BY <1>0, <2>1, <2>2, <2>3, <3>1, <3>2 DEF RequestsInOnePlace
    <2>7. CallShape'
      BY <2>1, <2>4 DEF CallShape, InFlight
    <2>8. QED
      BY <2>5, <2>6, <2>7
  <1>9. ASSUME NEW c \in Chans, CloseReceiver(c) PROVE PlacesInv'
    <2>1. /\ UNCHANGED <<phase, chan>>
          /\ queue'[c] = <<>> /\ taken'[c] = {}
          /\ \A d \in Chans \ {c} : queue'[d] = queue[d] /\ taken'[d] = taken[d]
          /\ rxOpen' = rxOpen \ {c}
          /\ reply' = [k \in Calls |-> IF k \in Pending(c) /\ phase[k] = "wait"
                                       THEN "dropped" ELSE reply[k]]
      BY <1>9 DEF CloseReceiver, BusTypeOK
    <2>2. Pending(c)' = {} /\ \A d \in Chans \ {c} : Pending(d)' = Pending(d)
      BY <2>1 DEF Pending, Buffered
    <2>3. \A d \in Chans \ {c} : Pending(d) \cap Pending(c) = {}
      BY DEF RequestsInOnePlace
    <2>4. WaitedRequestIsPending'
      BY <2>1, <2>2 DEF WaitedRequestIsPending, CallShape, InFlight
    <2>5. RequestsInOnePlace'
      <3>1. \A d \in Chans : Pending(d) \subseteq Calls
        BY DEF Pending, Buffered, BusTypeOK
      <3>2. \A d \in Chans \ {c} : \A k \in Pending(d) : reply'[k] = reply[k]
        BY <2>1, <2>3, <3>1
      <3>3. Buffered(c)' = {} /\ \A d \in Chans \ {c} : Buffered(d)' = Buffered(d)
        BY <2>1 DEF Buffered
      <3>4. QED
        BY <2>1, <2>2, <3>2, <3>3 DEF RequestsInOnePlace
    <2>6. CallShape'
      BY <2>1 DEF CallShape, InFlight, RequestsInOnePlace
    <2>7. QED
      BY <2>4, <2>5, <2>6
  <1>10. CASE RegistryStep
    BY <1>10, <1>1, <1>2 DEF RegistryStep, Deregister
  <1>11. CASE CallerStep
    BY <1>11, <1>3, <1>4, <1>5, <1>6 DEF CallerStep, CallStep
  <1>12. CASE ReceiverStep
    BY <1>12, <1>7, <1>8, <1>9 DEF ReceiverStep
  <1>13. CASE UNCHANGED busVars
    BY <1>13, <1>1 DEF busVars, channelVars, callVars
  <1>14. QED
    BY <1>10, <1>11, <1>12, <1>13 DEF BusNext

----------------------------------------------------------------------------
(* The invariant *)

\* The bus starts in a state that satisfies the invariant.
LEMMA BusInvInit == BusInit => BusInv
  <1> SUFFICES ASSUME BusInit PROVE BusInv
    OBVIOUS
  <1>1. BusTypeOK
    BY BusAssumption DEF BusInit, BusTypeOK, Chans, None, Phases, Replies, Outcomes
  <1>2. PermitAccounting
    <2>1. Holders = {}
      BY DEF BusInit, Holders, HoldsPermit
    <2>2. Cardinality(Holders) = 0
      BY <2>1, FS_EmptySet
    <2>3. permits = MaxConcurrentRpc /\ MaxConcurrentRpc \in Nat
      BY BusAssumption DEF BusInit
    <2>4. permits + Cardinality(Holders) = MaxConcurrentRpc
      BY <2>2, <2>3
    <2>5. QED
      BY <2>4 DEF PermitAccounting, Holders
  <1>3. PlacesInv
    BY DEF BusInit, PlacesInv, WaitedRequestIsPending, RequestsInOnePlace, CallShape,
           Pending, Buffered, InFlight
  <1>4. QED
    BY <1>1, <1>2, <1>3 DEF BusInv, PlacesInv

\* Every step of the bus preserves the invariant.
LEMMA BusInvStep == BusInv /\ [BusNext]_busVars => BusInv'
  BY PermitStep, TypeStep, PlacesStep DEF BusInv, PlacesInv

\* The inductive invariant holds in every reachable state of the bus.
THEOREM BusInvariant == BusSpec => []BusInv
  BY BusInvInit, BusInvStep, PTL DEF BusSpec

\* No step of the bus takes a variable out of its type: the registry maps to
\* channels that exist, permits stay between 0 and max_concurrent_rpc.
THEOREM BusTypes == BusSpec => []BusTypeOK
  BY BusInvariant, PTL DEF BusInv

\* rpc_limiter neither loses nor mints a permit, however a call ends.
THEOREM PermitsAreConserved == BusSpec => []PermitAccounting
  BY BusInvariant, PTL DEF BusInv

\* A caller whose oneshot is empty has its request in the channel it cloned
\* or in the hands of that channel's owner.
THEOREM NoOrphanedCaller == BusSpec => []WaitedRequestIsPending
  BY BusInvariant, PTL DEF BusInv

\* A request is never in two places, and never pending after its answer.
THEOREM OnePlacePerRequest == BusSpec => []RequestsInOnePlace
  BY BusInvariant, PTL DEF BusInv

----------------------------------------------------------------------------
(* The bus implements RpcService *)

\* A step of the bus is a step of RpcService, or invisible to callers.
LEMMA RpcStep == BusInv /\ [BusNext]_busVars => [Rpc!RpcNext]_(Rpc!rpcVars)
  <1> SUFFICES ASSUME BusInv, [BusNext]_busVars PROVE [Rpc!RpcNext]_(Rpc!rpcVars)
    OBVIOUS
  <1> USE DEF BusInv
  <1>1. CASE UNCHANGED <<phase, reply, outcome>>
    BY <1>1 DEF Rpc!rpcVars, CallStatus, AnsweredCalls
  <1>2. ASSUME NEW k \in Calls, NEW a \in Agents, NEW b \in Agents, StartCall(k, a, b)
        PROVE  Rpc!RpcNext
    <2>1. AnsweredCalls' = AnsweredCalls /\ k \notin AnsweredCalls
      BY <1>2 DEF StartCall, AnsweredCalls, CallShape
    <2>2. CASE Refusal(a, b) = "none"
      <3>1. Rpc!Submit(k)
        BY <1>2, <2>1, <2>2 DEF StartCall, Rpc!Submit, CallStatus, BusTypeOK, Phases
      <3>2. QED
        BY <3>1 DEF Rpc!RpcNext
    <2>3. CASE Refusal(a, b) # "none"
      <3>1. Rpc!Fail(k, Refusal(a, b))
        BY <1>2, <2>1, <2>3 DEF StartCall, Rpc!Fail, CallStatus, BusTypeOK, Phases
      <3>2. Refusal(a, b) \in Rpc!Errors
        BY <2>3 DEF Refusal, Rpc!Errors
      <3>3. QED
        BY <3>1, <3>2 DEF Rpc!RpcNext
    <2>4. QED
      BY <2>2, <2>3
  <1>3. ASSUME NEW k \in Calls, Acquire(k) PROVE Rpc!RpcNext
    <2>1. Rpc!Admitted = Holders
      BY DEF Rpc!Admitted, CallStatus, Holders, HoldsPermit, BusTypeOK, Phases
    <2>2. Cardinality(Holders) < MaxConcurrentRpc
      BY <1>3, HoldersFinite, BusAssumption
         DEF Acquire, PermitAccounting, Holders, BusTypeOK
    <2>3. AnsweredCalls' = AnsweredCalls
      BY <1>3 DEF Acquire, AnsweredCalls
    <2>4. Cardinality(Rpc!Admitted) < MaxConcurrentRpc
      BY <2>1, <2>2
    <2>5. /\ CallStatus[k] = "queued"
          /\ CallStatus' = [CallStatus EXCEPT ![k] = "admitted"]
          /\ outcome' = outcome
      BY <1>3 DEF Acquire, CallStatus, BusTypeOK, Phases
    <2>6. Rpc!Cardinality(Rpc!Admitted) = Cardinality(Rpc!Admitted)
      BY DEF Rpc!Cardinality, Cardinality
    <2>7. Rpc!Admit(k)
      BY <2>4, <2>6, <2>3, <2>5 DEF Rpc!Admit
    <2>8. QED
      BY <2>7 DEF Rpc!RpcNext
  <1>4. ASSUME NEW k \in Calls, Send(k) PROVE UNCHANGED Rpc!rpcVars
    BY <1>4 DEF Send, Rpc!rpcVars, CallStatus, AnsweredCalls, BusTypeOK, Phases
  <1>5. ASSUME NEW k \in Calls, ReturnReply(k) PROVE Rpc!RpcNext
    <2>1. Rpc!Return(k)
      BY <1>5 DEF ReturnReply, Finish, Rpc!Return, CallStatus, AnsweredCalls, BusTypeOK, Phases
    <2>2. QED
      BY <2>1 DEF Rpc!RpcNext
  <1>6. ASSUME NEW k \in Calls, SendFails(k) \/ ReplyLost(k) \/ Timeout(k)
        PROVE  Rpc!RpcNext
    <2>1. PICK error \in {"closed", "timeout"} : Finish(k, error)
      BY <1>6 DEF SendFails, ReplyLost, Timeout
    <2>2. k \notin AnsweredCalls /\ phase[k] # "done"
      BY <1>6 DEF SendFails, ReplyLost, Timeout, AnsweredCalls, CallShape, InFlight
    <2>3. Rpc!Fail(k, error)
      BY <2>1, <2>2 DEF Finish, Rpc!Fail, CallStatus, AnsweredCalls, BusTypeOK, Phases
    <2>4. QED
      BY <2>1, <2>3 DEF Rpc!RpcNext, Rpc!Errors
  <1>7. ASSUME NEW c \in Chans, NEW k \in taken[c], Answer(c, k)
        PROVE  [Rpc!RpcNext]_(Rpc!rpcVars)
    <2>1. k \in Calls
      BY DEF BusTypeOK
    <2>2. CASE phase[k] = "wait"
      <3>1. reply[k] = "empty"
        BY <1>7, <2>2 DEF RequestsInOnePlace, Pending
      <3>2. Rpc!Answered(k)
        BY <1>7, <2>1, <2>2, <3>1
           DEF Answer, Rpc!Answered, CallStatus, AnsweredCalls, BusTypeOK
      <3>3. QED
        BY <2>1, <3>2 DEF Rpc!RpcNext
    <2>3. CASE phase[k] # "wait"
      BY <1>1, <1>7, <2>3 DEF Answer
    <2>4. QED
      BY <2>2, <2>3
  <1>8. ASSUME NEW c \in Chans, CloseReceiver(c) PROVE UNCHANGED Rpc!rpcVars
    <2>1. \A k \in Calls : k \in Pending(c) /\ phase[k] = "wait" => reply[k] = "empty"
      BY DEF RequestsInOnePlace
    <2>2. AnsweredCalls' = AnsweredCalls
      BY <1>8, <2>1 DEF CloseReceiver, AnsweredCalls, BusTypeOK
    <2>3. QED
      BY <1>8, <2>2 DEF CloseReceiver, Rpc!rpcVars, CallStatus
  <1>9. CASE RegistryStep
    BY <1>1, <1>9 DEF RegistryStep, Register, Deregister, callVars
  <1>10. CASE CallerStep
    BY <1>10, <1>2, <1>3, <1>4, <1>5, <1>6 DEF CallerStep, CallStep
  <1>11. CASE ReceiverStep
    BY <1>1, <1>11, <1>7, <1>8 DEF ReceiverStep, Recv, callVars
  <1>12. CASE UNCHANGED busVars
    BY <1>1, <1>12 DEF busVars
  <1>13. QED
    BY <1>9, <1>10, <1>11, <1>12 DEF BusNext

\* Every behaviour of the bus keeps the promise of RpcService: at most
\* max_concurrent_rpc calls are admitted, a call that was answered returns its
\* answer and no error, and what a call returned is final.
THEOREM BusImplementsRpc == BusSpec => ImplementsRpc
  <1>1. BusInit => Rpc!RpcInit
    BY DEF BusInit, Rpc!RpcInit, CallStatus, AnsweredCalls
  <1>2. QED
    BY <1>1, RpcStep, BusInvariant, PTL DEF BusSpec, ImplementsRpc, Rpc!RpcSpec

----------------------------------------------------------------------------
(* The agents are clients of the bus *)

\* Every step of the agents and their callers is a step of the bus, or is
\* none of its business.
LEMMA MicroStepIsBusStep ==
    BusTypeOK /\ LivesAreKnown /\ [MicroNext]_microVars => [BusNext]_busVars
  <1> SUFFICES ASSUME BusTypeOK, LivesAreKnown, [MicroNext]_microVars
               PROVE  [BusNext]_busVars
    OBVIOUS
  <1>1. ASSUME NEW a \in Agents, SpawnRegisters(a) PROVE [BusNext]_busVars
    BY <1>1 DEF SpawnRegisters, BusNext, RegistryStep
  <1>2. ASSUME NEW c \in Chans, CloseReceiver(c) PROVE [BusNext]_busVars
    BY <1>2 DEF BusNext, ReceiverStep
  <1>3. ASSUME NEW c \in Chans, LoopReceives(c) PROVE [BusNext]_busVars
    BY <1>3 DEF LoopReceives, BusNext, ReceiverStep
  <1>4. ASSUME NEW c \in Chans, LoopAnswers(c) PROVE [BusNext]_busVars
    BY <1>4 DEF LoopAnswers, Answer, BusNext, ReceiverStep
  <1>5. ASSUME NEW c \in Chans, WatcherDeregisters(c) PROVE [BusNext]_busVars
    <2>1. owner[c] \in Agents
      BY <1>5 DEF WatcherDeregisters, LivesAreKnown, Dead, BusTypeOK, Chans
    <2>2. QED
      BY <1>5, <2>1 DEF WatcherDeregisters, BusNext, RegistryStep
  <1>6. CASE ClientStep
    BY <1>6 DEF ClientStep, BusNext, RegistryStep
  <1>7. ASSUME NEW c \in Chans, LifeStep(c) PROVE [BusNext]_busVars
    BY <1>2, <1>3, <1>4, <1>5, <1>7
       DEF LifeStep, LoopStep, SpawnFails, SpawnCompletes, LoopRemembers,
           LoopPublishes, LoopExits, LoopPanics, Abort, GiveHandle
  <1>8. CASE UNCHANGED microVars
    BY <1>8 DEF microVars
  <1>9. QED
    BY <1>1, <1>6, <1>7, <1>8 DEF MicroNext

----------------------------------------------------------------------------
(* The invariant of the lives *)

\* What an agent's variables may hold is kept by every step.
LEMMA MicroTypeStep ==
    BusTypeOK /\ MicroTypeOK /\ LivesAreKnown /\ [MicroNext]_microVars => MicroTypeOK'
  <1> SUFFICES ASSUME BusTypeOK, MicroTypeOK, LivesAreKnown, [MicroNext]_microVars
               PROVE  MicroTypeOK'
    OBVIOUS
  <1> USE DEF MicroTypeOK, Tasks, Handles, Becomes, None
  <1>1. ASSUME NEW a \in Agents, SpawnRegisters(a) PROVE MicroTypeOK'
    BY <1>1 DEF SpawnRegisters
  <1>2. ASSUME NEW c \in Chans, LoopReceives(c) PROVE MicroTypeOK'
    <2>1. Head(queue[c]) \in Calls
      BY <1>2, TailHolds DEF LoopReceives, Recv, BusTypeOK
    <2>2. QED
      BY <1>2, <2>1 DEF LoopReceives
  <1>3. ASSUME NEW c \in Chans, LoopRemembers(c) \/ LoopPublishes(c) PROVE MicroTypeOK'
    BY <1>3 DEF LoopRemembers, LoopPublishes, LivesAreKnown
  <1>4. ASSUME NEW c \in Chans,
               \/ SpawnFails(c) \/ SpawnCompletes(c) \/ LoopAnswers(c) \/ LoopExits(c)
               \/ LoopPanics(c) \/ Abort(c)
        PROVE  MicroTypeOK'
    BY <1>4 DEF SpawnFails, SpawnCompletes, LoopAnswers, LoopExits, LoopPanics, Abort
  <1>5. ASSUME NEW c \in Chans, GiveHandle(c) \/ WatcherDeregisters(c) PROVE MicroTypeOK'
    BY <1>5 DEF GiveHandle, WatcherDeregisters
  <1>6. CASE UNCHANGED lifeVars
    BY <1>6 DEF lifeVars
  <1>7. QED
    BY <1>1, <1>2, <1>3, <1>4, <1>5, <1>6
       DEF MicroNext, LifeStep, LoopStep, ClientStep, microVars

\* A call leaves the registry, the channels' receivers and everything taken
\* from them alone; only its start clones a Sender.
LEMMA CallerEffect ==
    ASSUME BusTypeOK, CallerStep
    PROVE  /\ UNCHANGED <<entry, regs, owner, rxOpen, taken>>
           /\ \A k \in Calls : chan'[k] = chan[k]
                               \/ /\ phase[k] = "idle"
                                  /\ \E b \in Agents : entry[b] # None /\ chan'[k] = entry[b]
  <1>1. ASSUME NEW k \in Calls, CallStep(k)
        PROVE  UNCHANGED <<entry, regs, owner, rxOpen, taken, chan>>
    BY <1>1 DEF CallStep, Acquire, Send, SendFails, ReturnReply, ReplyLost, Timeout,
                Finish, registryVars, channelVars
  <1>2. ASSUME NEW k \in Calls, NEW a \in Agents, NEW b \in Agents, StartCall(k, a, b)
        PROVE  /\ UNCHANGED <<entry, regs, owner, rxOpen, taken>>
               /\ \A j \in Calls : chan'[j] = chan[j]
                                   \/ /\ phase[j] = "idle"
                                      /\ entry[b] # None /\ chan'[j] = entry[b]
    BY <1>2 DEF StartCall, Refusal, registryVars, channelVars, BusTypeOK
  <1>3. QED
    BY <1>1, <1>2 DEF CallerStep

\* The registry, the handles and the callers name lives that exist.
LEMMA KnownStep ==
    BusTypeOK /\ MicroTypeOK /\ LivesAreKnown /\ [MicroNext]_microVars => LivesAreKnown'
  <1> SUFFICES ASSUME BusTypeOK, MicroTypeOK, LivesAreKnown, [MicroNext]_microVars
               PROVE  LivesAreKnown'
    OBVIOUS
  <1> USE DEF LivesAreKnown, BusTypeOK, MicroTypeOK, Chans, None, Dead, Becomes
  <1>1. ASSUME NEW a \in Agents, SpawnRegisters(a) PROVE LivesAreKnown'
    BY <1>1, BusAssumption DEF SpawnRegisters, Register, callVars
  <1>2. ASSUME NEW c \in Chans, NEW end \in Dead, task[c] \notin {"none"} \cup Dead,
               CloseReceiver(c), Becomes(c, end), UNCHANGED <<job, handle>>
        PROVE  LivesAreKnown'
    <2>1. UNCHANGED <<entry, regs, owner, chan, job, handle>>
      BY <1>2 DEF CloseReceiver, registryVars
    <2>2. rxOpen' = rxOpen \ {c}
      BY <1>2 DEF CloseReceiver
    <2>3. task'[c] = end /\ \A d \in Chans \ {c} : task'[d] = task[d]
      BY <1>2
    <2>4. end \in Dead /\ end \notin {"none", "running", "answered", "publishing"}
      BY <1>2
    <2>5. QED
      BY <1>2, <2>1, <2>2, <2>3, <2>4
  <1>3. ASSUME NEW c \in Chans, UNCHANGED <<entry, regs, owner, rxOpen, chan, job>>,
               NEW next \in Tasks \ Dead, next # "none", task[c] \notin Dead \cup {"none"},
               next \in {"running", "answered", "publishing"} => job[c] \in Calls,
               Becomes(c, next),
               \A d \in Chans : handle'[d] # handle[d] => d = c
        PROVE  LivesAreKnown'
    <2>1. task'[c] = next /\ \A d \in Chans \ {c} : task'[d] = task[d]
      BY <1>3
    <2>2. QED
      BY <1>3, <2>1
  <1>4. ASSUME NEW c \in Chans, LoopReceives(c) PROVE LivesAreKnown'
    <2>1. Head(queue[c]) \in Calls
      BY <1>4, TailHolds DEF LoopReceives, Recv
    <2>2. QED
      BY <1>4, <2>1 DEF LoopReceives, Recv, registryVars, callVars
  <1>5. ASSUME NEW c \in Chans, LoopAnswers(c) PROVE LivesAreKnown'
    BY <1>5 DEF LoopAnswers, Answer, registryVars
  <1>6. ASSUME NEW c \in Chans, GiveHandle(c) PROVE LivesAreKnown'
    BY <1>6 DEF GiveHandle, busVars
  <1>7. ASSUME NEW c \in Chans, WatcherDeregisters(c) PROVE LivesAreKnown'
    <2>1. UNCHANGED <<regs, owner, rxOpen, chan, task, job>>
      BY <1>7 DEF WatcherDeregisters, Deregister, channelVars, callVars, busVars
    <2>2. \A d \in Chans : handle'[d] # handle[d] => d = c
      BY <1>7 DEF WatcherDeregisters
    <2>3. task[c] # "none"
      BY <1>7 DEF WatcherDeregisters
    <2>4. \A a \in Agents : entry'[a] \in {entry[a], None}
      BY <1>7 DEF WatcherDeregisters, Deregister, busVars
    <2>5. QED
      BY <2>1, <2>2, <2>3, <2>4
  <1>8. ASSUME NEW a \in Agents, Deregister(a), UNCHANGED lifeVars PROVE LivesAreKnown'
    BY <1>8 DEF Deregister, channelVars, callVars, lifeVars
  <1>9. CASE CallerStep /\ UNCHANGED lifeVars
    <2>1. UNCHANGED <<entry, regs, owner, rxOpen, task, job, handle>>
      BY <1>9, CallerEffect DEF lifeVars
    <2>2. ASSUME NEW k \in Calls, chan'[k] # None PROVE chan'[k] <= regs
      <3>1. \/ chan'[k] = chan[k]
            \/ \E b \in Agents : entry[b] # None /\ chan'[k] = entry[b]
        BY <1>9, CallerEffect
      <3>2. QED
        BY <2>2, <3>1
    <2>3. QED
      BY <2>1, <2>2
  <1>10. CASE UNCHANGED microVars
    BY <1>10 DEF microVars, busVars, lifeVars
  <1>11. ASSUME NEW c \in Chans, LifeStep(c) PROVE LivesAreKnown'
    <2>1. CASE SpawnFails(c)
      BY <1>2, <2>1 DEF SpawnFails
    <2>2. CASE LoopExits(c)
      BY <1>2, <2>2 DEF LoopExits
    <2>3. CASE LoopPanics(c)
      BY <1>2, <2>3 DEF LoopPanics
    <2>4. CASE Abort(c)
      BY <1>2, <2>4 DEF Abort
    <2>5. CASE SpawnCompletes(c)
      <3>1. \A d \in Chans : handle'[d] # handle[d] => d = c
        BY <2>5 DEF SpawnCompletes
      <3>2. QED
        BY <1>3, <2>5, <3>1 DEF SpawnCompletes, busVars, Tasks
    <2>6. CASE LoopRemembers(c)
      BY <1>3, <2>6 DEF LoopRemembers, busVars, Tasks
    <2>7. CASE LoopPublishes(c)
      BY <1>3, <2>7 DEF LoopPublishes, busVars, Tasks
    <2>8. QED
      BY <1>4, <1>5, <1>6, <1>7, <1>11, <2>1, <2>2, <2>3, <2>4, <2>5, <2>6, <2>7
         DEF LifeStep, LoopStep
  <1>12. QED
    BY <1>1, <1>8, <1>9, <1>10, <1>11 DEF MicroNext, ClientStep

\* The loop holds one reply_to while inference runs, and none otherwise.
LEMMA ServingStep ==
    /\ BusTypeOK /\ MicroTypeOK /\ LivesAreKnown /\ OneRequestAtATime
    /\ [MicroNext]_microVars
    => OneRequestAtATime'
  <1> SUFFICES ASSUME BusTypeOK, MicroTypeOK, LivesAreKnown, OneRequestAtATime,
                      [MicroNext]_microVars
               PROVE  OneRequestAtATime'
    OBVIOUS
  <1> USE DEF OneRequestAtATime, BusTypeOK, MicroTypeOK, Becomes
  <1>1. ASSUME NEW a \in Agents, SpawnRegisters(a) PROVE OneRequestAtATime'
    BY <1>1 DEF SpawnRegisters, Register, LivesAreKnown, Chans
  <1>2. ASSUME NEW c \in Chans, SpawnFails(c) \/ LoopExits(c) \/ LoopPanics(c) \/ Abort(c)
        PROVE  OneRequestAtATime'
    BY <1>2 DEF SpawnFails, LoopExits, LoopPanics, Abort, CloseReceiver
  <1>3. ASSUME NEW c \in Chans, SpawnCompletes(c) \/ LoopRemembers(c) \/ LoopPublishes(c)
        PROVE  OneRequestAtATime'
    BY <1>3 DEF SpawnCompletes, LoopRemembers, LoopPublishes, busVars
  <1>4. ASSUME NEW c \in Chans, LoopReceives(c) PROVE OneRequestAtATime'
    BY <1>4 DEF LoopReceives, Recv
  <1>5. ASSUME NEW c \in Chans, LoopAnswers(c) PROVE OneRequestAtATime'
    BY <1>5 DEF LoopAnswers, Answer
  <1>6. ASSUME NEW c \in Chans, GiveHandle(c) \/ WatcherDeregisters(c)
        PROVE  OneRequestAtATime'
    BY <1>6 DEF GiveHandle, WatcherDeregisters, Deregister, channelVars, busVars
  <1>7. CASE ClientStep
    BY <1>7, CallerEffect DEF ClientStep, Deregister, channelVars, lifeVars
  <1>8. CASE UNCHANGED microVars
    BY <1>8 DEF microVars, busVars, lifeVars
  <1>9. QED
    BY <1>1, <1>2, <1>3, <1>4, <1>5, <1>6, <1>7, <1>8 DEF MicroNext, LifeStep, LoopStep

----------------------------------------------------------------------------
(* How lives and calls end *)

\* A task that ended stays as it ended, and exits only by LoopExits.
LEMMA DeadStayDead ==
    ASSUME BusTypeOK, MicroTypeOK, LivesAreKnown, [MicroNext]_microVars, NEW c \in Chans
    PROVE  /\ task[c] \in Dead => task'[c] = task[c]
           /\ task'[c] = "exited" => task[c] = "exited" \/ LoopExits(c)
  <1> USE DEF Becomes, Dead, MicroTypeOK
  <1>1. ASSUME NEW a \in Agents, SpawnRegisters(a)
        PROVE  task[regs + 1] = "none" /\ Becomes(regs + 1, "starting")
    BY <1>1, BusAssumption DEF SpawnRegisters, Register, LivesAreKnown, Chans, BusTypeOK
  <1>2. ASSUME NEW d \in Chans, LifeStep(d), ~LoopExits(d)
        PROVE  /\ task'[c] = "exited" => task[c] = "exited"
               /\ task[c] \in Dead => task'[c] = task[c]
    BY <1>2 DEF LifeStep, LoopStep, SpawnFails, SpawnCompletes, LoopReceives, LoopAnswers,
                LoopRemembers, LoopPublishes, LoopPanics, Abort, GiveHandle,
                WatcherDeregisters
  <1>3. ASSUME NEW d \in Chans, LoopExits(d)
        PROVE  /\ task'[c] = "exited" => task[c] = "exited" \/ LoopExits(c)
               /\ task[c] \in Dead => task'[c] = task[c]
    <2>1. task[d] = "idle" /\ Becomes(d, "exited")
      BY <1>3 DEF LoopExits
    <2>2. CASE c = d
      BY <1>3, <2>1, <2>2
    <2>3. CASE c # d
      BY <2>1, <2>3
    <2>4. QED
      BY <2>2, <2>3
  <1>4. CASE ClientStep \/ UNCHANGED microVars
    BY <1>4 DEF ClientStep, lifeVars, microVars
  <1>5. QED
    BY <1>1, <1>2, <1>3, <1>4 DEF MicroNext

\* Nobody gets a Sender of an old channel that nobody had a Sender of: calls
\* clone the registry's, and register makes a new channel.
LEMMA NoNewSender ==
    ASSUME BusTypeOK, [BusNext]_busVars, NEW c \in Chans, c <= regs, HasSender(c)'
    PROVE  HasSender(c)
  <1> USE DEF HasSender, InFlight, BusTypeOK, Chans, None
  <1>1. CASE RegistryStep
    BY <1>1, BusAssumption DEF RegistryStep, Register, Deregister, callVars
  <1>2. ASSUME NEW k \in Calls, NEW a \in Agents, NEW b \in Agents, StartCall(k, a, b)
        PROVE  HasSender(c)
    <2>1. CASE entry[b] = c
      BY <2>1
    <2>2. CASE entry[b] # c
      BY <1>2, <2>2 DEF StartCall, registryVars
    <2>3. QED
      BY <2>1, <2>2
  <1>3. ASSUME NEW k \in Calls, CallStep(k) PROVE HasSender(c)
    <2>1. entry' = entry /\ chan' = chan
      BY <1>3 DEF CallStep, Acquire, Send, SendFails, ReturnReply, ReplyLost, Timeout,
                  Finish, registryVars
    <2>2. \A j \in Calls : InFlight(j)' => InFlight(j)
      BY <1>3 DEF CallStep, Acquire, Send, SendFails, ReturnReply, ReplyLost, Timeout, Finish
    <2>3. QED
      BY <2>1, <2>2
  <1>4. CASE ReceiverStep \/ UNCHANGED busVars
    <2>1. entry' = entry /\ chan' = chan /\ phase' = phase
      BY <1>4 DEF ReceiverStep, Recv, Answer, CloseReceiver, registryVars, callVars, busVars
    <2>2. QED
      BY <2>1
  <1>5. QED
    BY <1>1, <1>2, <1>3, <1>4 DEF BusNext, CallerStep

\* A waiting call's reply_to is dropped only with the receiver of its channel.
LEMMA DroppedByClose ==
    ASSUME BusInv, [BusNext]_busVars, NEW k \in Calls, phase'[k] = "wait", reply'[k] = "dropped"
    PROVE  /\ chan'[k] = chan[k] /\ chan[k] \in Chans
           /\ \/ phase[k] = "wait" /\ reply[k] = "dropped"
              \/ CloseReceiver(chan[k]) /\ k \in Pending(chan[k])
  <1> USE DEF BusInv, BusTypeOK, CallShape, InFlight
  <1>1. CASE UNCHANGED <<phase, chan, reply>>
    BY <1>1
  <1>2. CASE CallerStep
    <2>1. ASSUME NEW j \in Calls, NEW a \in Agents, NEW b \in Agents, StartCall(j, a, b)
          PROVE  phase[k] = "wait" /\ reply[k] = "dropped" /\ chan'[k] = chan[k]
      BY <2>1 DEF StartCall
    <2>2. ASSUME NEW j \in Calls, CallStep(j)
          PROVE  phase[k] = "wait" /\ reply[k] = "dropped" /\ chan'[k] = chan[k]
      BY <2>2 DEF CallStep, Acquire, Send, SendFails, ReturnReply, ReplyLost, Timeout, Finish
    <2>3. QED
      BY <1>2, <2>1, <2>2 DEF CallerStep
  <1>3. ASSUME NEW c \in Chans, NEW j \in taken[c], Answer(c, j)
        PROVE  phase[k] = "wait" /\ reply[k] = "dropped" /\ chan'[k] = chan[k]
    BY <1>3 DEF Answer
  <1>4. ASSUME NEW c \in Chans, CloseReceiver(c)
        PROVE  /\ chan'[k] = chan[k]
               /\ \/ phase[k] = "wait" /\ reply[k] = "dropped"
                  \/ c = chan[k] /\ k \in Pending(c)
    BY <1>4 DEF CloseReceiver, RequestsInOnePlace
  <1>5. CASE RegistryStep \/ UNCHANGED busVars \/ \E c \in Chans : Recv(c)
    BY <1>1, <1>5 DEF RegistryStep, Register, Deregister, Recv, callVars, busVars
  <1>6. QED
    BY <1>2, <1>3, <1>4, <1>5 DEF BusNext, ReceiverStep

\* A call is told ChannelClosed when its send fails or its reply_to is dropped.
LEMMA ClosedByEnd ==
    ASSUME BusTypeOK, [BusNext]_busVars, NEW k \in Calls, outcome'[k] = "closed"
    PROVE  \/ outcome[k] = "closed" /\ (phase[k] = "done" => UNCHANGED <<phase[k], chan[k]>>)
           \/ /\ SendFails(k) \/ ReplyLost(k)
              /\ phase'[k] = "done" /\ chan'[k] = chan[k]
  <1> USE DEF BusTypeOK
  <1>1. CASE UNCHANGED <<phase, chan, outcome>>
    BY <1>1
  <1>2. ASSUME NEW j \in Calls, NEW a \in Agents, NEW b \in Agents, StartCall(j, a, b)
        PROVE  outcome[k] = "closed" /\ (phase[k] = "done" => UNCHANGED <<phase[k], chan[k]>>)
    BY <1>2 DEF StartCall, Refusal
  <1>3. ASSUME NEW j \in Calls, Acquire(j) \/ Send(j)
        PROVE  outcome[k] = "closed" /\ (phase[k] = "done" => UNCHANGED <<phase[k], chan[k]>>)
    BY <1>3 DEF Acquire, Send
  <1>4. ASSUME NEW j \in Calls, NEW result, Finish(j, result), j # k \/ result # "closed"
        PROVE  outcome[k] = "closed" /\ (phase[k] = "done" => UNCHANGED <<phase[k], chan[k]>>)
    BY <1>4 DEF Finish
  <1>5. ASSUME SendFails(k) \/ ReplyLost(k) PROVE phase'[k] = "done" /\ chan'[k] = chan[k]
    BY <1>5 DEF SendFails, ReplyLost, Finish
  <1>6. CASE CallerStep
    <2>1. ASSUME NEW j \in Calls, SendFails(j) \/ ReplyLost(j), j # k
          PROVE  outcome[k] = "closed" /\ (phase[k] = "done" => UNCHANGED <<phase[k], chan[k]>>)
      BY <1>4, <2>1 DEF SendFails, ReplyLost
    <2>2. ASSUME NEW j \in Calls, ReturnReply(j) \/ Timeout(j)
          PROVE  outcome[k] = "closed" /\ (phase[k] = "done" => UNCHANGED <<phase[k], chan[k]>>)
      BY <1>4, <2>2 DEF ReturnReply, Timeout
    <2>3. QED
      BY <1>2, <1>3, <1>5, <1>6, <2>1, <2>2 DEF CallerStep, CallStep
  <1>7. CASE RegistryStep \/ ReceiverStep \/ UNCHANGED busVars
    BY <1>1, <1>7 DEF RegistryStep, Register, Deregister, ReceiverStep, Recv, Answer,
                      CloseReceiver, callVars, busVars
  <1>8. QED
    BY <1>6, <1>7 DEF BusNext

\* Exits leave nobody behind, and whoever is left behind met a crash.
LEMMA EndsStep ==
    BusInv /\ LifeInv /\ [MicroNext]_microVars => EndsAreClean' /\ ClosedOnlyByCrash'
  <1> SUFFICES ASSUME BusInv, LifeInv, [MicroNext]_microVars
               PROVE  EndsAreClean' /\ ClosedOnlyByCrash'
    OBVIOUS
  <1> USE DEF LifeInv
  <1>0. BusTypeOK /\ [BusNext]_busVars /\ LivesAreKnown'
    BY MicroStepIsBusStep, KnownStep DEF BusInv
  <1>1. \A c \in Chans : task[c] \in Crashed => task'[c] \in Crashed
    BY <1>0, DeadStayDead DEF Crashed, Dead
  <1>2. ASSUME NEW c \in Chans, task'[c] = "exited", HasSender(c)' PROVE FALSE
    <2>1. CASE task[c] = "exited"
      <3>1. c <= regs
        BY <2>1, <1>0 DEF LivesAreKnown, BusTypeOK, Chans
      <3>2. QED
        BY <1>0, <1>2, <2>1, <3>1, NoNewSender DEF EndsAreClean
    <2>2. CASE LoopExits(c)
      BY <1>2, <2>2 DEF LoopExits, CloseReceiver, registryVars, HasSender, InFlight
    <2>3. QED
      BY <1>0, <1>2, <2>1, <2>2, DeadStayDead
  <1>3. ASSUME NEW k \in Calls, phase'[k] = "wait", reply'[k] = "dropped"
        PROVE  task'[chan'[k]] \in Crashed
    <2> DEFINE c == chan[k]
    <2>1. /\ chan'[k] = c /\ c \in Chans
          /\ \/ phase[k] = "wait" /\ reply[k] = "dropped"
             \/ CloseReceiver(c) /\ k \in Pending(c)
      BY <1>0, <1>3, DroppedByClose
    <2>2. CASE phase[k] = "wait" /\ reply[k] = "dropped"
      BY <1>1, <2>1, <2>2 DEF EndsAreClean
    <2>3. CASE CloseReceiver(c) /\ k \in Pending(c)
      <3>1. c \in rxOpen /\ c \notin rxOpen' /\ regs' = regs
        BY <2>3 DEF CloseReceiver, registryVars
      <3>2. task[c] \notin Dead \cup {"none"} /\ task'[c] \in Dead \cup {"none"}
        BY <1>0, <2>1, <3>1 DEF LivesAreKnown
      <3>3. task'[c] # "none"
        BY <1>0, <2>1, <3>1, <3>2 DEF LivesAreKnown
      <3>4. ~LoopExits(c)
        <4>1. SUFFICES ASSUME LoopExits(c) PROVE k \notin Pending(c)
          BY <2>3
        <4>2. taken[c] = {} /\ queue[c] = <<>>
          BY <2>1, <4>1 DEF LoopExits, OneRequestAtATime
        <4>3. DOMAIN queue[c] = {}
          BY <4>2
        <4>4. QED
          BY <4>2, <4>3 DEF Pending, Buffered
      <3>5. task'[c] # "exited"
        BY <1>0, <2>1, <3>2, <3>4, DeadStayDead DEF Dead
      <3>6. QED
        BY <2>1, <3>2, <3>3, <3>5 DEF Dead, Crashed
    <2>4. QED
      BY <2>1, <2>2, <2>3
  <1>4. ASSUME NEW k \in Calls, outcome'[k] = "closed"
        PROVE  /\ phase'[k] = "done" /\ chan'[k] \in Chans
               /\ task'[chan'[k]] \in Crashed
    <2>1. CASE outcome[k] = "closed" /\ (phase[k] = "done" => UNCHANGED <<phase[k], chan[k]>>)
      BY <1>1, <2>1 DEF EndsAreClean, ClosedOnlyByCrash
    <2>2. CASE SendFails(k) /\ phase'[k] = "done" /\ chan'[k] = chan[k]
      <3>1. InFlight(k) /\ chan[k] \in Chans /\ chan[k] \notin rxOpen
        BY <2>2 DEF SendFails, InFlight, BusInv, CallShape
      <3>2. task[chan[k]] # "exited"
        BY <3>1 DEF EndsAreClean, HasSender
      <3>3. task[chan[k]] \in Dead
        BY <1>0, <3>1 DEF LivesAreKnown, BusTypeOK, Chans, None
      <3>4. QED
        BY <1>1, <2>2, <3>1, <3>2, <3>3 DEF Dead, Crashed
    <2>3. CASE ReplyLost(k) /\ phase'[k] = "done" /\ chan'[k] = chan[k]
      <3>1. chan[k] \in Chans /\ task[chan[k]] \in Crashed
        BY <2>3 DEF ReplyLost, EndsAreClean, InFlight, BusInv, CallShape
      <3>2. QED
        BY <1>1, <2>3, <3>1
    <2>4. QED
      BY <1>0, <1>4, <2>1, <2>2, <2>3, ClosedByEnd
  <1>5. QED
    BY <1>2, <1>3, <1>4 DEF EndsAreClean, ClosedOnlyByCrash

----------------------------------------------------------------------------
(* The theorems *)

\* Before the first spawn there is no life.
LEMMA LifeInit == MicroInit => BusInv /\ LifeInv
  <1> SUFFICES ASSUME MicroInit PROVE BusInv /\ LifeInv
    OBVIOUS
  <1>1. BusInit /\ BusInv
    BY BusInvInit DEF MicroInit
  <1>2. MicroTypeOK
    BY DEF MicroInit, MicroTypeOK, Tasks, Handles, None
  <1>3. LivesAreKnown
    BY <1>1, BusAssumption DEF MicroInit, BusInit, LivesAreKnown, Dead, Chans, None
  <1>4. OneRequestAtATime /\ EndsAreClean /\ ClosedOnlyByCrash
    BY <1>1 DEF MicroInit, BusInit, OneRequestAtATime, EndsAreClean, ClosedOnlyByCrash
  <1>5. QED
    BY <1>1, <1>2, <1>3, <1>4 DEF LifeInv

\* The invariants of the bus and of the lives are inductive together.
LEMMA LifeStepKeeps ==
    BusInv /\ LifeInv /\ [MicroNext]_microVars => BusInv' /\ LifeInv'
  <1> SUFFICES ASSUME BusInv, LifeInv, [MicroNext]_microVars PROVE BusInv' /\ LifeInv'
    OBVIOUS
  <1>1. BusTypeOK /\ MicroTypeOK /\ LivesAreKnown /\ OneRequestAtATime
    BY DEF BusInv, LifeInv
  <1>2. BusInv'
    BY <1>1, MicroStepIsBusStep, BusInvStep
  <1>3. MicroTypeOK' /\ LivesAreKnown' /\ OneRequestAtATime'
    BY <1>1, MicroTypeStep, KnownStep, ServingStep
  <1>4. QED
    BY <1>2, <1>3, EndsStep DEF LifeInv

\* The inductive invariant holds in every reachable state of the agents.
THEOREM LifeInvariant == MicroSpec => [](BusInv /\ LifeInv)
  BY LifeInit, LifeStepKeeps, PTL DEF MicroSpec

\* spawn, micro_agent_loop and MicroAgentHandle use the bus only as it may be
\* used: every behaviour of the agents is a behaviour of InMemoryBus.
THEOREM AgentsImplementBus == MicroSpec => ImplementsBus
  <1>1. MicroInit => BusInit
    BY DEF MicroInit
  <1>2. BusInv /\ LifeInv /\ [MicroNext]_microVars => [BusNext]_busVars
    BY MicroStepIsBusStep DEF BusInv, LifeInv
  <1>3. QED
    BY <1>1, <1>2, LifeInvariant, PTL DEF MicroSpec, BusSpec, ImplementsBus

\* The task of a life, the request it serves and the handle its spawner holds
\* are what spawn, micro_agent_loop and MicroAgentHandle leave there.
THEOREM MicroTypes == MicroSpec => []MicroTypeOK
  BY LifeInvariant, PTL DEF LifeInv

\* micro_agent_loop serves one request at a time and holds on to no reply_to.
THEOREM LoopsServeOneRequest == MicroSpec => []OneRequestAtATime
  BY LifeInvariant, PTL DEF LifeInv

\* ChannelClosed is never the answer to an agent that ended by itself.
THEOREM ExitsFailNobody == MicroSpec => []ClosedOnlyByCrash
  BY LifeInvariant, PTL DEF LifeInv

\* A loop whose recv yielded None is not registered: the Ok branch of
\* watch_and_deregister has nothing of its own to remove.
THEOREM ExitsAreUnregistered == MicroSpec => []ExitedIsUnregistered
  <1>1. BusInv /\ LifeInv => ExitedIsUnregistered
    <2> SUFFICES ASSUME BusInv, LifeInv, NEW c \in Chans, task[c] = "exited",
                        entry[owner[c]] = c
                 PROVE  FALSE
      BY DEF ExitedIsUnregistered
    <2>1. ~HasSender(c)
      BY DEF LifeInv, EndsAreClean
    <2>2. owner[c] \in Agents
      BY DEF BusInv, BusTypeOK, LifeInv, LivesAreKnown, Chans
    <2>3. QED
      BY <2>1, <2>2 DEF HasSender
  <1>2. QED
    BY <1>1, LifeInvariant, PTL
============================================================================
