----------------------------- MODULE Transports -----------------------------
(***************************************************************************)
(* core/transport: from a conversation to the body of a request in each    *)
(* of three dialects, and from a whole response to a ChatResponse.  Text   *)
(* is abstracted to the number of the message it came from, 0 for a        *)
(* placeholder.  Tool definitions, temperature and the other fields of a   *)
(* body pass through and are left out.                                     *)
(***************************************************************************)
EXTENDS SseParsers

CONSTANTS
    ToolCalls,       \* ids of the tool calls in the messages
    CallLists,       \* sequences of them an assistant message may hold
    FunctionOf,      \* id -> the function it calls
    MaxMessages      \* bound: messages of a conversation

ASSUME TransportAssumption == MaxMessages \in Nat /\ CallLists \subseteq Seq(ToolCalls)

VARIABLE conversation    \* &[Message], what chat is given

NoCall == "none"

\* `text': the content is not empty.  A tool result has its function's name
\* when the agent knew the call.
Say(role, text, calls, call, named) ==
    /\ Len(conversation) < MaxMessages
    /\ conversation' = Append(conversation,
          [role |-> role, text |-> text, calls |-> calls, call |-> call, named |-> named])

TransportInit == conversation = <<>>

SystemSays(text)       == Say("system", text, <<>>, NoCall, FALSE)
UserSays(text)         == Say("user", text, <<>>, NoCall, FALSE)
AssistantSays(text, q) == Say("assistant", text, q, NoCall, FALSE)
ToolSays(c, named)     == Say("tool", TRUE, <<>>, c, named)

TransportNext ==
    \/ \E text \in BOOLEAN : SystemSays(text) \/ UserSays(text)
    \/ \E text \in BOOLEAN, q \in CallLists : AssistantSays(text, q)
    \/ \E c \in ToolCalls, named \in BOOLEAN : ToolSays(c, named)

----------------------------------------------------------------------------
(* normalize_request: a body is the system text and the turns, each a role *)
(* and blocks of text, calls and results                                   *)

EmptyBody == [system |-> <<>>, turns |-> <<>>]

Turn(b, role, blocks) == [b EXCEPT !.turns = Append(@, [role |-> role, blocks |-> blocks])]

TextBlock(m, i) == IF m.text THEN <<<<"text", i>>>> ELSE <<>>
CallBlocks(m)   == [j \in DOMAIN m.calls |-> <<"call", m.calls[j]>>]

\* Every message goes over as it is.
OpenAiMessage(b, m, i) ==
    Turn(b, m.role, IF m.role = "tool" THEN <<<<"result", m.call, i>>>>
                    ELSE TextBlock(m, i) \o CallBlocks(m))

OrPlaceholder(blocks) == IF blocks = <<>> THEN <<<<"text", 0>>>> ELSE blocks

\* Mutant of AnthropicMessage: every tool result is a turn of its own.
AnthropicMessageSplits(b, m, i) ==
    CASE m.role = "system" -> [b EXCEPT !.system = Append(@, i)]
      [] m.role = "tool" -> Turn(b, "user", <<<<"result", m.call, i>>>>)
      [] OTHER -> Turn(b, m.role, OrPlaceholder(TextBlock(m, i) \o CallBlocks(m)))

\* The results that follow each other share one user turn.
AnthropicMessage(b, m, i) ==
    LET n == Len(b.turns)
        result == <<"result", m.call, i>>
    IN  CASE m.role = "system" -> [b EXCEPT !.system = Append(@, i)]
          [] m.role = "tool" ->
                IF n > 0 /\ b.turns[n].role = "user" /\ b.turns[n].blocks[1][1] = "result"
                THEN [b EXCEPT !.turns[n].blocks = Append(@, result)]
                ELSE Turn(b, "user", <<result>>)
          [] OTHER -> Turn(b, m.role, OrPlaceholder(TextBlock(m, i) \o CallBlocks(m)))

\* Calls and results carry function names only, or the id of a result whose
\* name is not known; each result is a turn.
GeminiMessage(b, m, i) ==
    CASE m.role = "system" -> IF m.text THEN [b EXCEPT !.system = Append(@, i)] ELSE b
      [] m.role = "tool" ->
            Turn(b, "user", <<<<"result", IF m.named THEN FunctionOf[m.call] ELSE m.call, i>>>>)
      [] m.role = "user" -> Turn(b, "user", OrPlaceholder(TextBlock(m, i)))
      [] OTHER -> Turn(b, "model", OrPlaceholder(TextBlock(m, i) \o
                     [j \in DOMAIN m.calls |-> <<"call", FunctionOf[m.calls[j]]>>]))

Encoded(dialect, b, m, i) ==
    CASE dialect = "openai"    -> OpenAiMessage(b, m, i)
      [] dialect = "anthropic" -> AnthropicMessage(b, m, i)
      [] OTHER                 -> GeminiMessage(b, m, i)

normalize_request(dialect, messages) ==
    LET body[i \in 0 .. Len(messages)] ==
            IF i = 0 THEN EmptyBody ELSE Encoded(dialect, body[i - 1], messages[i], i)
    IN  body[Len(messages)]

----------------------------------------------------------------------------
(* denormalize_response: the answer is <<pieces, finish>>, a piece being   *)
(* text, reasoning, the start of a call or a part of its arguments         *)

Pieces(q) == [i \in DOMAIN q |-> <<q[i][3], q[i][4]>>]

Text(answer)      == Pieces(SelectSeq(answer[1], LAMBDA x : x[1] = "text"))
Thoughts(answer)  == Pieces(SelectSeq(answer[1], LAMBDA x : x[1] = "reason"))
Arguments(answer, c) ==
    Pieces(SelectSeq(answer[1], LAMBDA x : x[1] = "args" /\ x[2] = c))
Called(answer)    == {x[2] : x \in {y \in Range(answer[1]) : y[1] = "call"}}
Calls(answer)     == [id \in {CallId(c) : c \in Called(answer)} |-> Arguments(answer, id[2])]

\* What the provider calls the reason it stopped for.
Native(dialect, finish) ==
    CASE dialect = "openai" -> finish
      [] dialect = "anthropic" ->
            (CASE finish = "stop" -> "end_turn"
               [] finish = "tool_calls" -> "tool_use"
               [] OTHER -> "max_tokens")
      [] OTHER -> IF finish = "length" THEN "MAX_TOKENS" ELSE "STOP"

\* Only OpenAI keeps the reasoning, and only it refuses an answer that has
\* neither text nor calls.
OpenAiResponse(a) ==
    [ok |-> Text(a) # <<>> \/ Called(a) # {}, text |-> Text(a), reason |-> Thoughts(a),
     calls |-> Calls(a), finish |-> Native("openai", a[2])]

AnthropicResponse(a) ==
    [ok |-> TRUE, text |-> Text(a), reason |-> <<>>, calls |-> Calls(a),
     finish |-> map_stop_reason(Native("anthropic", a[2]))]

GeminiResponse(a) ==
    [ok |-> TRUE, text |-> Text(a), reason |-> <<>>, calls |-> Calls(a),
     finish |-> IF Called(a) # {} THEN "tool_calls"
                ELSE map_finish_reason(Native("gemini", a[2]))]

denormalize_response(dialect, a) ==
    CASE dialect = "openai"    -> OpenAiResponse(a)
      [] dialect = "anthropic" -> AnthropicResponse(a)
      [] OTHER                 -> GeminiResponse(a)

\* A whole response, as the events of a stream.
chat_response_to_stream(r) ==
    LET ids == SetToSortSeq(DOMAIN r.calls, LAMBDA a, b : a[2] < b[2])
    IN  (IF r.text # <<>> THEN <<<<"Token", r.text>>>> ELSE <<>>)
        \o FlattenSeq([i \in DOMAIN ids |-> <<<<"Start", ids[i]>>,
                          <<"Delta", ids[i], r.calls[ids[i]]>>, <<"End", ids[i]>>>>])
        \o <<<<"Done", r.finish>>>>

----------------------------------------------------------------------------
(* Properties *)

Turns(dialect) == normalize_request(dialect, conversation).turns

\* What a turn says: nothing if it is but a placeholder.
Said(turn) == IF turn.blocks = <<<<"text", 0>>>> THEN <<>> ELSE turn.blocks

Spoken(dialect) == LET turns == Turns(dialect)
                   IN  FlattenSeq([k \in DOMAIN turns |-> Said(turns[k])])

\* What message i says, and what a conversation says: system messages are
\* turns in one dialect only.
Meaning(dialect, m, i) ==
    LET N(c) == IF dialect = "gemini" THEN FunctionOf[c] ELSE c
    IN  CASE m.role = "system" -> IF dialect = "openai" THEN TextBlock(m, i) ELSE <<>>
          [] m.role = "tool" -> <<<<"result", IF m.named THEN N(m.call) ELSE m.call, i>>>>
          [] OTHER -> TextBlock(m, i) \o [j \in DOMAIN m.calls |-> <<"call", N(m.calls[j])>>]

Meant(dialect) ==
    FlattenSeq([i \in DOMAIN conversation |-> Meaning(dialect, conversation[i], i)])

\* Messages i and k, with nothing between them but system messages and
\* tool results.
SameRound(i, k) ==
    /\ i < k
    /\ conversation[i].role = "assistant"
    /\ \A j \in (i + 1)..k : conversation[j].role \in {"tool", "system"}

\* No dialect loses, repeats or reorders what a conversation says, and no
\* turn of a dialect that refuses empty turns is empty.  Anthropic gets all
\* the results of a round in the one turn after the calls, as its API asks
\* (normalize_messages of core/transport/anthropic.rs): a result is then
\* found in the turn behind the assistant's, whatever system messages were
\* mixed in.
TurnsSurvive ==
    /\ \A d \in {"openai", "anthropic", "gemini"} : Spoken(d) = Meant(d)
    /\ \A d \in {"anthropic", "gemini"} :
          LET turns == Turns(d) IN \A k \in DOMAIN turns : turns[k].blocks # <<>>
    /\ LET turns == Turns("anthropic")
       IN  \A i, k \in DOMAIN conversation :
              SameRound(i, k) /\ conversation[k].role = "tool" =>
                 LET at == Cardinality({j \in 1..i : conversation[j].role = "assistant"})
                     t  == CHOOSE n \in DOMAIN turns :
                              /\ turns[n].role = "assistant"
                              /\ Cardinality({j \in 1..n : turns[j].role = "assistant"}) = at
                 IN  \E b \in Range(turns[t + 1].blocks) : b[1] = "result" /\ b[3] = k
=============================================================================
