----------------------------- MODULE SseParsers -----------------------------
(***************************************************************************)
(* core/streaming: from the text of a response body to StreamEvents.       *)
(*                                                                         *)
(* Text is a sequence of pieces <<n, kind>>: piece n of the provider's     *)
(* answer, which is plain, holds a character of several bytes ("wide"), is *)
(* larger than an event may be ("big"), or so large that half of it fills  *)
(* the buffer ("huge").  A payload is <<type, index, text>>, the JSON of   *)
(* one event of a dialect; a finish or an error carries its reason as the  *)
(* kind of piece 0.  The body is a sequence of tokens: the event and data  *)
(* fields, the rest of a data line after the place where a chunk may cut   *)
(* it ("more", FALSE once a cut damaged it), and the ends of lines.        *)
(***************************************************************************)
EXTENDS Naturals, Sequences, SequencesExt, FiniteSets, TLC

Says(reason) == <<<<0, reason>>>>
Reason(p)    == p[3][1][2]

HasKind(p, kinds) == \E i \in DOMAIN p[3] : p[3][i][2] \in kinds
TwoParts(p) == HasKind(p, {"wide", "huge"})
TooBig(p)   == HasKind(p, {"big", "huge"})     \* over MAX_SSE_DATA_SIZE

\* A character cut by the end of a chunk becomes replacement characters.
Damaged(text) == [i \in DOMAIN text |->
    IF text[i][2] = "wide" THEN <<text[i][1], "damaged">> ELSE text[i]]

----------------------------------------------------------------------------
(* The three parsers: the ids of the open tool calls by their index, and   *)
(* one payload, give the ids and the events                                *)

NoIds     == <<>>
CallId(c) == <<"call", c>>

Out(ids, events) == [ids |-> ids, events |-> events]

Ends(ids) == [i \in 1..Cardinality(DOMAIN ids) |->
    <<"End", ids[SetToSortSeq(DOMAIN ids, LAMBDA a, b : a < b)[i]]>>]

\* OpenAI and Anthropic name the call only in its first payload; a fragment
\* of a call that is not known is dropped.
Started(ids, i) == Out((i :> CallId(i)) @@ ids, <<<<"Start", CallId(i)>>>>)
Fragment(ids, i, text) ==
    Out(ids, IF i \in DOMAIN ids THEN <<<<"Delta", ids[i], text>>>> ELSE <<>>)
Finished(ids, reason) == Out(NoIds, Ends(ids) \o <<<<"Done", reason>>>>)

\* Mutant of OpenAiChunk: a fragment goes to the call started last.
OpenAiChunkLatest(ids, p) ==
    CASE p[1] = "reasoning" -> Out(ids, <<<<"Reasoning", p[3]>>>>)
      [] p[1] = "content"   -> Out(ids, <<<<"Token", p[3]>>>>)
      [] p[1] = "tool_id"   -> Started(ids, p[2])
      [] p[1] = "tool_args" -> Fragment(ids, Cardinality(DOMAIN ids), p[3])
      [] p[1] = "finish"    -> Finished(ids, Reason(p))
      [] p[1] = "error"     -> Out(ids, <<<<"Error", Reason(p)>>>>)
      [] OTHER              -> Out(ids, <<>>)

OpenAiChunk(ids, p) ==
    CASE p[1] = "reasoning" -> Out(ids, <<<<"Reasoning", p[3]>>>>)
      [] p[1] = "content"   -> Out(ids, <<<<"Token", p[3]>>>>)
      [] p[1] = "tool_id"   -> Started(ids, p[2])
      [] p[1] = "tool_args" -> Fragment(ids, p[2], p[3])
      [] p[1] = "finish"    -> Finished(ids, Reason(p))
      [] p[1] = "error"     -> Out(ids, <<<<"Error", Reason(p)>>>>)
      [] OTHER              -> Out(ids, <<>>)          \* [DONE]

map_stop_reason(r) ==
    CASE r = "end_turn" -> "stop"
      [] r = "tool_use" -> "tool_calls"
      [] r = "max_tokens" -> "length"
      [] OTHER -> r

\* The SSE event name decides; the payload's own type only inside a block.
AnthropicChunk(ids, event, p) ==
    CASE event = "content_block_start" /\ p[1] = "tool_use" -> Started(ids, p[2])
      [] event = "content_block_delta" /\ p[1] = "text_delta" ->
            Out(ids, <<<<"Token", p[3]>>>>)
      [] event = "content_block_delta" /\ p[1] = "thinking_delta" ->
            Out(ids, <<<<"Reasoning", p[3]>>>>)
      [] event = "content_block_delta" /\ p[1] = "input_json_delta" ->
            Fragment(ids, p[2], p[3])
      [] event = "content_block_stop" ->
            IF p[2] \in DOMAIN ids
            THEN Out([j \in DOMAIN ids \ {p[2]} |-> ids[j]], <<<<"End", ids[p[2]]>>>>)
            ELSE Out(ids, <<>>)
      [] event = "message_delta" ->
            Out(ids, <<<<"Done", map_stop_reason(Reason(p))>>>>)
      [] event = "error" -> Out(ids, <<<<"Error", Reason(p)>>>>)
      [] OTHER -> Out(ids, <<>>)         \* message_start, message_stop, ping

map_finish_reason(r) ==
    CASE r = "STOP" -> "stop"
      [] r = "MAX_TOKENS" -> "length"
      [] OTHER -> "unknown"

\* A call comes whole, without an id: one is made from a counter.  Usage
\* without a finish reason is a Done of its own.
GeminiChunk(ids, p) ==
    CASE p[1] = "thought" -> Out(ids, <<<<"Reasoning", p[3]>>>>)
      [] p[1] = "text"    -> Out(ids, <<<<"Token", p[3]>>>>)
      [] p[1] = "functionCall" ->
            LET n == Cardinality(DOMAIN ids) + 1
            IN  Out((n :> CallId(n)) @@ ids,
                    <<<<"Start", CallId(n)>>, <<"Delta", CallId(n), p[3]>>>>)
      [] p[1] = "finishReason" ->
            Finished(ids, IF DOMAIN ids # {} THEN "tool_calls"
                          ELSE map_finish_reason(Reason(p)))
      [] p[1] = "usageMetadata" -> Out(ids, <<<<"Done", "stop">>>>)
      [] p[1] = "error" -> Out(ids, <<<<"Error", Reason(p)>>>>)
      [] OTHER -> Out(ids, <<>>)

\* The JSON of an event is whole when its one data line is.
parse_chunk(dialect, ids, raw) ==
    LET data == raw[2]
        p    == IF data[1][2] = "damaged"
                THEN <<data[1][1][1], data[1][1][2], Damaged(data[1][1][3])>>
                ELSE data[1][1]
    IN  IF data = <<>> /\ dialect # "openai" THEN Out(ids, <<>>)
        ELSE IF Len(data) # 1 \/ data[1][2] = "cut" THEN Out(ids, <<<<"Error", "other">>>>)
        ELSE CASE dialect = "openai"    -> OpenAiChunk(ids, p)
               [] dialect = "anthropic" -> AnthropicChunk(ids, raw[1], p)
               [] OTHER                 -> GeminiChunk(ids, p)

parse_all(dialect, ids, raws) ==
    FoldLeft(LAMBDA r, raw : LET o == parse_chunk(dialect, r.ids, raw)
                             IN  Out(o.ids, r.events \o o.events),
             Out(ids, <<>>), raws)

----------------------------------------------------------------------------
(* parse_raw_sse: events <<name, data lines>> of a text *)

Emitted(r) == [name |-> "", data |-> <<>>, at |-> "start",
               out  |-> IF r.name # "" \/ r.data # <<>>
                        THEN Append(r.out, <<r.name, r.data>>) ELSE r.out]

\* `at' is where the line is: at its start, in a data field that is kept, or
\* in anything else.  An oversized data line forgets the event so far.
RawStep(r, t) ==
    CASE t[1] = "lf" -> IF r.at = "start" THEN Emitted(r) ELSE [r EXCEPT !.at = "start"]
      [] t[1] = "event" -> [r EXCEPT !.name = t[2], !.at = "other"]
      [] t[1] = "data" /\ TooBig(t[2]) ->
            [r EXCEPT !.name = "", !.data = <<>>, !.at = "other"]
      [] t[1] = "data" /\ ~TooBig(t[2]) ->
            [r EXCEPT !.data = Append(@, <<t[2], IF TwoParts(t[2]) THEN "cut" ELSE "whole">>),
                      !.at = "data"]
      [] t[1] = "more" /\ r.at = "data" ->
            [r EXCEPT !.data = Append(Front(@),
                <<Last(@)[1], IF t[3] THEN "whole" ELSE "damaged">>)]
      [] t[1] = "more" /\ r.at # "data" -> [r EXCEPT !.at = "other"]
      [] OTHER -> r                                          \* cr

parse_raw_sse(text) ==
    Emitted(FoldLeft(RawStep, [name |-> "", data |-> <<>>, at |-> "start", out |-> <<>>],
                     text)).out

=============================================================================
