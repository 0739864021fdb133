----------------------------- MODULE AgentState -----------------------------
(***************************************************************************)
(* agent/state.rs and agent/message_source.rs: the conversation an agent   *)
(* keeps, as a record of its messages, the parallel list of their sources, *)
(* and the ids of the tool calls whose function name is known.  The text   *)
(* of a message is abstracted to the invocation it belongs to (0 for a     *)
(* seeded message) and to its estimated size in tokens; the counter of     *)
(* tokens used steers nothing and is left out.                             *)
(***************************************************************************)
EXTENDS Naturals, Sequences, SequencesExt, FiniteSets

CONSTANTS
    CallIds,        \* ids of tool calls; providers may use one again
    ToolSizes,      \* sizes a tool result can have, once it is truncated
    ContextLength,  \* context window of the model, in tokens
    MaxInvocations  \* bound: invocations of an agent

ASSUME StateAssumption ==
    /\ IsFiniteSet(CallIds) /\ ToolSizes \subseteq Nat
    /\ ContextLength \in Nat /\ MaxInvocations \in Nat

NoCall == "none"

Roles   == {"system", "user", "assistant", "tool"}
Sources == {"SystemInstruction", "UserInput", "AssistantOutput", "ToolOutput"}

Message == [role : Roles, of : 0..MaxInvocations, calls : SUBSET CallIds,
            call : CallIds \cup {NoCall}, named : BOOLEAN, size : Nat]

\* Every message but a tool result has size 1.
Plain(role, n) == [role |-> role, of |-> n, calls |-> {}, call |-> NoCall,
                   named |-> FALSE, size |-> 1]

EmptyState == [messages |-> <<>>, sources |-> <<>>, names |-> {}]

\* A message at the end, with its source: Vec::push on both lists.
Pushed(s, m, source) == [s EXCEPT !.messages = Append(@, m),
                                  !.sources  = Append(@, source)]

Has(q, role) == \E i \in DOMAIN q : q[i].role = role

----------------------------------------------------------------------------
(* The operations of AgentState, each from a state to a state *)

\* The first system message is rewritten in place, or a new one is inserted
\* in front of everything.
PushSystem(s) ==
    IF Has(s.messages, "system") THEN s
    ELSE [s EXCEPT !.messages = <<Plain("system", 0)>> \o @,
                   !.sources  = <<"SystemInstruction">> \o @]

PushUser(s, n) == Pushed(s, Plain("user", n), "UserInput")

\* The first user message after position start is rewritten; without one, a
\* user message is appended.
UpsertUserFrom(s, start, n) ==
    LET at == SelectInSubSeq(s.messages, start + 1, Len(s.messages),
                             LAMBDA m : m.role = "user")
    IN  IF at = 0 THEN PushUser(s, n)
        ELSE [s EXCEPT !.messages[at].of = n]

PushAssistant(s, n, calls) ==
    [Pushed(s, [Plain("assistant", n) EXCEPT !.calls = calls], "AssistantOutput")
        EXCEPT !.names = @ \cup calls]

ToolResult(s, n, c, size) == [Plain("tool", n) EXCEPT !.call = c, !.size = size,
                                                       !.named = c \in s.names]

PushToolResult(s, n, c, size) == Pushed(s, ToolResult(s, n, c, size), "ToolOutput")

\* One result after the other.
PushToolResults(s, n, calls, size) ==
    [s EXCEPT !.messages = @ \o [i \in DOMAIN calls |-> ToolResult(s, n, calls[i], size)],
              !.sources  = @ \o [i \in DOMAIN calls |-> "ToolOutput"]]

SeedMessages(s, messages) ==
    [s EXCEPT !.messages = messages, !.sources = <<>>, !.names = {}]

----------------------------------------------------------------------------
(* trim_messages *)

Tokens(q) ==
    LET sum[i \in 0..Len(q)] == IF i = 0 THEN 0 ELSE sum[i - 1] + q[i].size
    IN  sum[Len(q)]

\* 15 percent of the window is kept free.
Budget == (ContextLength * 85) \div 100

\* How many messages of q are gone once the tool results that follow its
\* first k messages are removed too.
PastTools(q, k) ==
    LET stop == SelectInSubSeq(q, k + 1, Len(q), LAMBDA m : m.role # "tool")
    IN  IF stop = 0 THEN Len(q) ELSE stop - 1

\* Mutant of Dropped: tool results outlive the call they answer.
DroppedOneByOne(q, fixed) ==
    LET drop[k \in 0..Len(q)] ==
          IF Len(q) - k <= 2 \/ Tokens(SubSeq(q, k + 1, Len(q))) + fixed <= Budget
          THEN k ELSE drop[k + 1]
    IN  drop[PastTools(q, 0)]

\* Number of messages removed from the front of q, the system messages
\* taking `fixed' tokens: leading tool results, then one message at a time,
\* a message with tool calls together with the results that follow it.
Dropped(q, fixed) ==
    LET drop[k \in 0..Len(q)] ==
          IF Len(q) - k <= 2 \/ Tokens(SubSeq(q, k + 1, Len(q))) + fixed <= Budget
          THEN k
          ELSE drop[IF q[k + 1].role = "assistant" /\ q[k + 1].calls # {}
                    THEN PastTools(q, k + 1) ELSE k + 1]
    IN  drop[PastTools(q, 0)]

\* The sources that are left: only the first is carried over.
TrimmedSources(s, n) ==
    [i \in 1..(IF n = 0 THEN 1 ELSE n) |->
        IF i = 1 /\ s.sources # <<>> THEN s.sources[1] ELSE "UserInput"]

\* The messages of q that are the system's, or those that are not.
Sieve(q, systems) ==
    LET sieved[i \in 0..Len(q)] ==
          IF i = 0 THEN <<>>
          ELSE IF (q[i].role = "system") = systems THEN Append(sieved[i - 1], q[i])
          ELSE sieved[i - 1]
    IN  sieved[Len(q)]

\* What is left of a state, its messages sieved into fixed and rest.
Trimmed(s, fixed, rest) ==
    LET gone == Dropped(rest, Tokens(fixed))
        kept == fixed \o SubSeq(rest, gone + 1, Len(rest))
    IN  IF Len(rest) <= 2 THEN s
        ELSE [s EXCEPT !.messages = kept, !.sources = TrimmedSources(s, Len(kept))]

\* The state that is left, as the one element of a set: so the two parts of
\* the list are computed once.
Trim(s) == {Trimmed(s, fixed, rest) :
              fixed \in {Sieve(s.messages, TRUE)}, rest \in {Sieve(s.messages, FALSE)}}
=============================================================================
