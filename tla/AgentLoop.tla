----------------------------- MODULE AgentLoop ------------------------------
(***************************************************************************)
(* agent/mod.rs: the loop of an Agent.  An invocation is run (stream       *)
(* errors are retried from a snapshot), run_streaming (they are not),      *)
(* send_message or submit_tools (one exchange, no prompt, no tools).  The  *)
(* model's stream is external: it calls tools, fails, ends, and says Done  *)
(* at most MaxDones times, with no tool call after a Done.  Text and       *)
(* reasoning tokens steer nothing and are left out.  A caller may drop the *)
(* future of an invocation at any await; the history stays as it is.       *)
(***************************************************************************)
EXTENDS AgentState

CONSTANTS
    Events,            \* bus events that can be injected into a prompt
    MaxTurns,          \* max_turns of run
    MaxStreamRetries,  \* MAX_STREAM_RETRIES
    MaxRetries,        \* RetryPolicy.max_retries
    MaxDones,          \* bound: Done events of a stream
    Seeds              \* histories a caller may seed, as <<role, calls>> of each message

\* A caller seeds a conversation: no two answers of the model without a
\* message of the user between them, and no results of tools.
ASSUME AgentAssumption ==
    /\ \A q \in Seeds :
         /\ q \in Seq({"system", "user", "assistant"} \X SUBSET CallIds)
         /\ \A i, j \in DOMAIN q : i < j /\ q[i][1] = "assistant" /\ q[j][1] = "assistant" =>
              \E k \in i + 1 .. j - 1 : q[k][1] = "user"
    /\ MaxTurns \in Nat \ {0}
    /\ MaxStreamRetries \in Nat /\ MaxRetries \in Nat /\ MaxDones \in Nat

VARIABLES
    state,     \* AgentState
    pending,   \* BusEventCollector.pending
    system,    \* whether the system prompt fits into the model's context
    executor,  \* whether the agent has a tool executor
    runs,      \* invocations so far
    pc,        \* where the current invocation is
    frame,     \* locals of run_with_observer
    chat       \* locals of chat_with_retry and run_chat_with_observer

agentVars == <<state, pending, system, executor, runs, pc, frame, chat>>
setup     == <<system, executor>>

NewFrame(mode) == [mode |-> mode, turn |-> 0, start |-> Len(state.messages),
                   snapshot |-> EmptyState, retry |-> 0, todo |-> <<>>]
NewChat == [attempt |-> 0, builders |-> {}, calls |-> <<>>, dones |-> 0,
            retryable |-> FALSE]

Running == frame.mode \in {"run", "streaming"}

States == [messages : Seq(Message), sources : Seq(Sources),
           names : SUBSET CallIds]

AgentTypeOK ==
    /\ state \in States
    /\ pending \subseteq Events
    /\ system \in BOOLEAN /\ executor \in BOOLEAN
    /\ runs \in 0..MaxInvocations
    /\ pc \in {"idle", "prompt", "chat", "stream", "attempted", "tools"}
    /\ frame \in [mode : {"none", "run", "streaming", "send", "submit"},
                  turn : 0..MaxTurns, start : Nat, snapshot : States,
                  retry : 0..MaxStreamRetries, todo : Seq(CallIds)]
    /\ chat \in [attempt : 0..MaxRetries, builders : SUBSET CallIds,
                 calls : Seq(CallIds), dones : 0..MaxDones,
                 retryable : BOOLEAN]

Init ==
    /\ state = EmptyState
    /\ pending = {}
    /\ system \in BOOLEAN
    /\ executor \in BOOLEAN
    /\ runs = 0
    /\ pc = "idle"
    /\ frame = NewFrame("none")
    /\ chat = NewChat

\* The locals of an invocation go with it.
Return ==
    /\ pc' = "idle"
    /\ frame' = [NewFrame("none") EXCEPT !.start = 0]
    /\ chat' = NewChat

----------------------------------------------------------------------------
(* Between invocations *)

\* Another prompt may be too long for compile, or short enough again.
SetSystemPrompt ==
    /\ pc = "idle" /\ runs < MaxInvocations
    /\ system' = ~system
    /\ UNCHANGED <<state, pending, executor, runs, pc, frame, chat>>

InjectBusEvents(e) ==
    /\ pc = "idle" /\ e \notin pending /\ runs < MaxInvocations
    /\ pending' = pending \cup {e}
    /\ UNCHANGED <<state, setup, runs, pc, frame, chat>>

Seed(history) ==
    /\ pc = "idle" /\ runs < MaxInvocations
    /\ state' = SeedMessages(state, [i \in DOMAIN history |->
                   [Plain(history[i][1], 0) EXCEPT !.calls = history[i][2]]])
    /\ UNCHANGED <<pending, setup, runs, pc, frame, chat>>

Begin(mode, at) ==
    /\ pc = "idle" /\ runs < MaxInvocations
    /\ runs' = runs + 1
    /\ pc' = at
    /\ frame' = NewFrame(mode)
    /\ UNCHANGED <<pending, setup, chat>>

Run          == Begin("run", "prompt") /\ UNCHANGED state
RunStreaming == Begin("streaming", "prompt") /\ UNCHANGED state

SendMessage ==
    /\ Begin("send", "chat")
    /\ state' = PushUser(state, runs + 1)

\* Calls of the last assistant message that no later message answers.
Answered(q, j) == {q[i].call : i \in j + 1 .. Len(q)}
LastAssistant(q) == SelectLastInSeq(q, LAMBDA m : m.role = "assistant")
Unanswered(q) ==
    LET j == LastAssistant(q)
    IN  IF j = 0 \/ \E i \in j + 1 .. Len(q) : q[i].role # "tool" THEN {}
        ELSE q[j].calls \ Answered(q, j)

\* The caller answers open calls of the model itself.
SubmitTools(calls, size) ==
    /\ calls # <<>>
    /\ Begin("submit", "chat")
    /\ state' = PushToolResults(state, runs + 1, calls, size)

----------------------------------------------------------------------------
(* run_with_observer *)

\* One turn starts: the collector is drained, the prompt compiled and put
\* into the history, the history trimmed and a snapshot taken.
Compile ==
    /\ pc = "prompt" /\ frame.turn < MaxTurns
    /\ LET with == IF system THEN PushSystem(state) ELSE state
       IN  \E sent \in Trim(UpsertUserFrom(with, frame.start, runs)) :
             /\ state' = sent
             /\ frame' = [frame EXCEPT !.snapshot = sent, !.retry = 0]
    /\ pending' = {}
    /\ pc' = "chat"
    /\ chat' = NewChat
    /\ UNCHANGED <<setup, runs>>

\* The error of compile, which collect's pairs of sections and budgets do
\* not provoke
CompileFails ==
    /\ pc = "prompt" /\ frame.turn < MaxTurns
    /\ pending' = {}
    /\ Return
    /\ UNCHANGED <<state, setup, runs>>

TurnsUsedUp ==
    /\ pc = "prompt" /\ frame.turn = MaxTurns
    /\ Return
    /\ UNCHANGED <<state, pending, setup, runs>>

\* Mutant of Retry: retries are not counted.
RetryUncounted ==
    /\ pc = "attempted" /\ frame.mode = "run"
    /\ chat.retryable /\ frame.retry < MaxStreamRetries
    /\ state' = frame.snapshot
    /\ chat' = NewChat
    /\ pc' = "chat"
    /\ UNCHANGED <<pending, setup, runs, frame>>

\* Mutant of Retry: the limit is not checked.
RetryUnlimited ==
    /\ pc = "attempted" /\ frame.mode = "run" /\ chat.retryable
    /\ state' = frame.snapshot
    /\ frame' = [frame EXCEPT !.retry = @ + 1]
    /\ chat' = NewChat
    /\ pc' = "chat"
    /\ UNCHANGED <<pending, setup, runs>>

\* Some event of the attempt was a retryable error: run starts it again from
\* the snapshot.
Retry ==
    /\ pc = "attempted" /\ frame.mode = "run"
    /\ chat.retryable /\ frame.retry < MaxStreamRetries
    /\ state' = frame.snapshot
    /\ frame' = [frame EXCEPT !.retry = @ + 1]
    /\ chat' = NewChat
    /\ pc' = "chat"
    /\ UNCHANGED <<pending, setup, runs>>

GivesUpRetrying ==
    ~(frame.mode = "run" /\ chat.retryable /\ frame.retry < MaxStreamRetries)

\* send_message and submit_tools return what one exchange gave; run returns
\* when the model asked for no tool or nobody can execute one.
Settle ==
    /\ pc = "attempted" /\ GivesUpRetrying
    /\ ~Running \/ chat.calls = <<>> \/ ~executor
    /\ Return
    /\ UNCHANGED <<state, pending, setup, runs>>

StartTools ==
    /\ pc = "attempted" /\ GivesUpRetrying
    /\ Running /\ chat.calls # <<>> /\ executor
    /\ frame' = [frame EXCEPT !.todo = chat.calls]
    /\ pc' = "tools"
    /\ UNCHANGED <<state, pending, setup, runs, chat>>

\* Mutant of ExecuteTool: the turn ends after the first tool.
ExecuteFirstTool(size) ==
    /\ pc = "tools"
    /\ state' = PushToolResult(state, runs, Head(frame.todo), size)
    /\ frame' = [frame EXCEPT !.todo = <<>>, !.turn = @ + 1]
    /\ pc' = "prompt"
    /\ UNCHANGED <<pending, setup, runs, chat>>

\* Tools run one after the other, each result pushed at once.
ExecuteTool(size) ==
    /\ pc = "tools"
    /\ state' = PushToolResult(state, runs, Head(frame.todo), size)
    /\ IF Len(frame.todo) > 1
       THEN /\ frame' = [frame EXCEPT !.todo = Tail(@)]
            /\ UNCHANGED pc
       ELSE /\ frame' = [frame EXCEPT !.todo = <<>>, !.turn = @ + 1]
            /\ pc' = "prompt"
    /\ UNCHANGED <<pending, setup, runs, chat>>

----------------------------------------------------------------------------
(* chat_with_retry and run_chat_with_observer *)

\* A retryable failure to open the stream: wait and try again.
ChatRetries ==
    /\ pc = "chat" /\ chat.attempt < MaxRetries
    /\ chat' = [chat EXCEPT !.attempt = @ + 1]
    /\ UNCHANGED <<state, pending, setup, runs, pc, frame>>

\* The failure is final; nothing is pushed, the only event is the error.
ChatFails(retryable) ==
    /\ pc = "chat"
    /\ retryable => chat.attempt = MaxRetries
    /\ chat' = [NewChat EXCEPT !.retryable = retryable]
    /\ pc' = "attempted"
    /\ UNCHANGED <<state, pending, setup, runs, frame>>

ChatOpens ==
    /\ pc = "chat"
    /\ chat' = NewChat
    /\ pc' = "stream"
    /\ UNCHANGED <<state, pending, setup, runs, frame>>

StreamToolCall(c) ==
    /\ pc = "stream" /\ chat.dones = 0 /\ c \notin chat.builders
    /\ chat' = [chat EXCEPT !.builders = @ \cup {c}]
    /\ UNCHANGED <<state, pending, setup, runs, pc, frame>>

\* Done gives, if tools were called, an event with all calls seen so far, in
\* the order of a HashMap.
StreamDone(calls) ==
    /\ pc = "stream" /\ chat.dones < MaxDones
    /\ chat' = [chat EXCEPT !.dones = @ + 1, !.calls = @ \o calls]
    /\ UNCHANGED <<state, pending, setup, runs, pc, frame>>

\* An error in the stream ends nothing; a retryable one is remembered.
StreamError ==
    /\ pc = "stream" /\ ~chat.retryable
    /\ chat' = [chat EXCEPT !.retryable = TRUE]
    /\ UNCHANGED <<state, pending, setup, runs, pc, frame>>

\* Mutant of StreamEnd: an answer with an error loses its calls.
StreamEndForgets ==
    /\ pc = "stream"
    /\ state' = PushAssistant(state, runs, IF chat.retryable THEN {} ELSE chat.builders)
    /\ chat' = [chat EXCEPT !.builders = {}]
    /\ pc' = "attempted"
    /\ UNCHANGED <<pending, setup, runs, frame>>

\* The stream ends, after a Done or without one: the answer is pushed with
\* every call that was started.
StreamEnd ==
    /\ pc = "stream"
    /\ state' = PushAssistant(state, runs, chat.builders)
    /\ chat' = [chat EXCEPT !.builders = {}]
    /\ pc' = "attempted"
    /\ UNCHANGED <<pending, setup, runs, frame>>

\* The caller's timeout or abort drops the future.
Cancel ==
    /\ pc # "idle"
    /\ Return
    /\ UNCHANGED <<state, pending, setup, runs>>

----------------------------------------------------------------------------
Idle ==
    \/ SetSystemPrompt
    \/ \E e \in Events : InjectBusEvents(e)
    \/ \E q \in Seeds : Seed(q)
    \/ Run
    \/ RunStreaming
    \/ SendMessage
    \/ \E S \in SUBSET Unanswered(state.messages), size \in ToolSizes :
         \E q \in SetToSeqs(S) : SubmitTools(q, size)

Step ==
    \/ Compile
    \/ CompileFails
    \/ TurnsUsedUp
    \/ Retry
    \/ Settle
    \/ StartTools
    \/ \E size \in ToolSizes : ExecuteTool(size)
    \/ ChatRetries
    \/ \E r \in BOOLEAN : ChatFails(r)
    \/ ChatOpens
    \/ \E c \in CallIds : StreamToolCall(c)
    \/ \E q \in SetToSeqs(chat.builders) : StreamDone(q)
    \/ StreamError
    \/ StreamEnd

Next == Idle \/ Step \/ Cancel

Spec == Init /\ [][Next]_agentVars

\* The runtime polls the future of an invocation until it completes; streams
\* end, since a client that stays silent for too long is timed out.
FairSpec == Spec /\ WF_agentVars(Step)
----------------------------------------------------------------------------
(* Properties *)

\* Every tool result answers a call of the assistant message that opened its
\* block of results, and knows its function's name unless that message was
\* seeded: no insertion, trim, retry or cancellation separates push_assistant
\* from push_tool_result.  Two answers of the model never follow each other:
\* an attempt that run retries leaves nothing behind.  And only a system
\* message is marked as an instruction in the source registry, although
\* seeding and trimming leave the two lists out of step.
ConversationIsSound ==
    LET q == state.messages
    IN  /\ \A i \in DOMAIN q :
             /\ q[i].role = "tool" =>
                  \E j \in 1..i-1 :
                    /\ q[j].role = "assistant" /\ q[i].call \in q[j].calls
                    /\ \A k \in j+1..i : q[k].role = "tool"
                    /\ q[i].named \/ q[j].of = 0
             /\ q[i].role = "assistant" /\ i > 1 => q[i-1].role # "assistant"
        /\ \A i \in DOMAIN state.sources : state.sources[i] = "SystemInstruction" =>
             i \in DOMAIN q /\ q[i].role = "system"

\* While tools run, the results pushed and the calls to do are the calls of
\* the last answer, each exactly once: nothing of an abandoned attempt runs
\* and no call runs twice.
ToolsRunOnce ==
    pc = "tools" =>
      LET q    == state.messages
          j    == LastAssistant(q)
          done == [i \in 1..Len(q) - j |-> q[j + i].call]
          all  == done \o frame.todo
      IN  /\ j # 0
          /\ ToSet(all) = q[j].calls
          /\ Len(all) = Cardinality(q[j].calls)

\* A request run sends fits the budget or has at most two messages besides
\* the system's: trimming does not stop early, and a retry sends no more.
\* From the second turn on every call of the last answer in it has a result.
RequestsAreSound ==
    LET q == state.messages
        j == LastAssistant(q)
    IN  pc \in {"chat", "stream"} /\ Running =>
          /\ \/ Tokens(q) <= Budget
             \/ Len(Sieve(q, FALSE)) <= 2
          /\ frame.turn > 0 /\ j # 0 => q[j].calls \subseteq Answered(q, j)

\* Every invocation ends: turns, retries of both kinds and tools are bounded.
InvocationsEnd == (pc # "idle") ~> (pc = "idle")
=============================================================================
