----------------------------- MODULE Invocation -----------------------------
(***************************************************************************)
(* core/invocation.rs, the framing of core/streaming/mod.rs and            *)
(* core/errors.rs: one request, from chat to what chat_complete returns.   *)
(* The provider's answer reaches the parser in chunks that end anywhere;   *)
(* the body may stop early or fail.                                        *)
(***************************************************************************)
EXTENDS Transports

CONSTANTS
    Protocols,     \* openai, anthropic, gemini, gemini_sse, or another
    Answers,       \* sequence of what providers answer
    MaxHuge        \* MAX_SSE_BUFFER_SIZE, in halves of a huge piece

VARIABLES
    protocol,      \* api_protocol of the resolved model
    answer,        \* number of the provider's answer
    stage,         \* "start", "open", "ended"
    wire,          \* tokens of the body that are not read yet
    buf,           \* tokens read and not parsed
    ids,           \* state of the parser
    acc            \* what chat_complete has collected, and its result

invocationVars == <<protocol, answer, stage, wire, buf, ids, acc>>

Nothing == [text |-> <<>>, reason |-> <<>>, calls |-> <<>>, finish |-> "unknown",
            result |-> "none"]

InvocationInit ==
    /\ protocol \in Protocols
    /\ answer \in DOMAIN Answers
    /\ stage = "start"
    /\ wire = <<>>
    /\ buf = <<>>
    /\ ids = NoIds
    /\ acc = Nothing

Ended(a) == /\ stage' = "ended"
            /\ wire' = <<>>
            /\ buf' = <<>>
            /\ ids' = NoIds
            /\ acc' = a
            /\ UNCHANGED <<protocol, answer>>

----------------------------------------------------------------------------
(* What the provider sends: the payloads of its answer, framed as events   *)

Failures == {"ended", "net", "other"}

Finish(d, finish) ==
    IF finish \in Failures THEN <<<<"error", 0, Says(finish)>>>>
    ELSE CASE d = "openai" -> <<<<"finish", 0, Says(finish)>>, <<"[DONE]", 0, <<>>>>>>
           [] d = "anthropic" -> <<<<"message_delta", 0, Says(Native(d, finish))>>,
                                   <<"message_stop", 0, <<>>>>>>
           [] OTHER -> <<<<"usageMetadata", 0, <<>>>>,
                         <<"finishReason", 0, Says(Native(d, finish))>>>>

PayloadType(d, kind) ==
    CASE d = "openai" -> [text |-> "content", reason |-> "reasoning",
                          call |-> "tool_id", args |-> "tool_args"][kind]
      [] d = "anthropic" -> [text |-> "text_delta", reason |-> "thinking_delta",
                             call |-> "tool_use", args |-> "input_json_delta"][kind]
      [] OTHER -> [text |-> "text", reason |-> "thought", call |-> "functionCall",
                   args |-> "none"][kind]

\* A block of Anthropic is closed after its last piece; Gemini sends a call
\* whole.
Payloads(d, a) ==
    LET Piece(i) ==
            LET x == a[1][i]
                body == CASE x[1] = "call" /\ d = "gemini_sse" -> Arguments(a, x[2])
                          [] x[1] = "call" /\ d # "gemini_sse" -> <<>>
                          [] OTHER -> <<<<x[3], x[4]>>>>
                last == x[2] # 0 /\ \A j \in (i + 1)..Len(a[1]) : a[1][j][2] # x[2]
            IN  (IF d = "gemini_sse" /\ x[1] = "args" THEN <<>>
                 ELSE <<<<PayloadType(d, x[1]), x[2], body>>>>)
                \o (IF d = "anthropic" /\ last THEN <<<<"content_block_stop", x[2], <<>>>>>>
                    ELSE <<>>)
    IN  FlattenSeq([i \in DOMAIN a[1] |-> Piece(i)]) \o Finish(d, a[2])

EventName(p) == CASE p[1] = "tool_use" -> "content_block_start"
                  [] p[1] \in {"text_delta", "thinking_delta", "input_json_delta"} ->
                        "content_block_delta"
                  [] OTHER -> p[1]

\* The end of a field is one token whatever it is, for a CR there is trimmed
\* with the field; a blank line of CRLF can be cut in two.
Body(d, a, crlf) ==
    LET Frame(p) == (IF d = "anthropic" THEN <<<<"event", EventName(p)>>, <<"lf">>>> ELSE <<>>)
                    \o <<<<"data", p>>>>
                    \o (IF TwoParts(p) THEN <<<<"more", p, TRUE>>>> ELSE <<>>)
                    \o <<<<"lf">>>> \o (IF crlf THEN <<<<"cr">>>> ELSE <<>>) \o <<<<"lf">>>>
        ps == Payloads(d, a)
    IN  FlattenSeq([i \in DOMAIN ps |-> Frame(ps[i])])

----------------------------------------------------------------------------
(* chat_complete: an event of the stream, added to what was collected *)

Consume(a, e) ==
    LET content == a.text # <<>> \/ DOMAIN a.calls # {}
    IN  IF a.result # "none" THEN a
        ELSE CASE e[1] = "Token" -> [a EXCEPT !.text = @ \o e[2]]
               [] e[1] = "Reasoning" -> [a EXCEPT !.reason = @ \o e[2]]
               [] e[1] = "Start" -> [a EXCEPT !.calls = (e[2] :> <<>>) @@ @]
               [] e[1] = "Delta" /\ e[2] \in DOMAIN a.calls ->
                     [a EXCEPT !.calls[e[2]] = @ \o e[3]]
               [] e[1] = "Done" -> [a EXCEPT !.finish = e[2]]
               [] e[1] = "Error" /\ content /\ e[2] = "ended" -> [a EXCEPT !.result = "ok"]
               [] e[1] = "Error" /\ content /\ e[2] # "ended" ->
                     [a EXCEPT !.result = "ok",
                               !.finish = IF @ = "unknown" THEN "stream_lost" ELSE @]
               [] e[1] = "Error" /\ ~content ->
                     [a EXCEPT !.result = IF e[2] = "other" THEN "Streaming"
                                          ELSE "ProviderUnavailable"]
               [] OTHER -> a

ConsumeAll(a, events) == FoldLeft(Consume, a, events)

----------------------------------------------------------------------------
(* chat_with_effort and the request *)

\* Statuses, and for 400 what the body speaks of.
Statuses == {"429", "401", "403", "404", "408", "500", "400 context", "400 overloaded",
             "400 rate", "400", "422"}

classify(status) ==
    CASE status \in {"429", "400 rate"} -> "RateLimit"
      [] status \in {"401", "403"} -> "Authentication"
      [] status = "404" -> "ModelNotFound"
      [] status \in {"408", "500", "400 overloaded"} -> "ProviderUnavailable"
      [] status = "400 context" -> "ContextWindowExceeded"
      [] OTHER -> "Network"

Errs(e) == stage = "start" /\ Ended([Nothing EXCEPT !.result = e])

\* A protocol without a transport, a header that may not be injected or a
\* custom endpoint on a private host.
Refused == Errs("Config")

SendFails == protocol \in {"openai", "anthropic", "gemini", "gemini_sse"} /\ Errs("Network")

BadStatus(status) ==
    /\ protocol \in {"openai", "anthropic", "gemini", "gemini_sse"}
    /\ Errs(classify(status))

\* send_streaming_request, and send_gemini_streaming_request for the Gemini
\* dialect of it, which chat does not use.
SendStreaming(crlf) ==
    /\ stage = "start"
    /\ protocol \in {"openai", "anthropic", "gemini_sse"}
    /\ stage' = "open"
    /\ wire' = Body(protocol, Answers[answer], crlf)
    /\ UNCHANGED <<protocol, answer, buf, ids, acc>>

\* send_gemini_nonstreaming_request: the response arrives whole.
SendGemini ==
    /\ stage = "start"
    /\ protocol = "gemini"
    /\ Answers[answer][2] \notin Failures
    /\ LET r == denormalize_response(protocol, Answers[answer])
       IN  Ended([ConsumeAll(Nothing, chat_response_to_stream(r)) EXCEPT !.result = "ok"])

GeminiGarbled == protocol = "gemini" /\ Errs("Streaming")

----------------------------------------------------------------------------
(* sse_from_bytes_stream *)

\* from_utf8_lossy and the replacement of CRLF, both of one chunk alone.
Decoded(chunk) ==
    FlattenSeq([i \in DOMAIN chunk |->
        CASE chunk[i][1] = "cr" /\ i < Len(chunk) -> <<>>
          [] chunk[i][1] = "more" /\ i = 1 -> <<<<"more", chunk[i][2], FALSE>>>>
          [] OTHER -> <<chunk[i]>>])

\* Where the last blank line of a text is, 0 for none.  Parsing the text in
\* front of it at once is parsing its events one after the other.
LastBlank(text) ==
    LET at == {i \in 1..(Len(text) - 1) : text[i][1] = "lf" /\ text[i + 1][1] = "lf"}
    IN  IF at = {} THEN 0 ELSE CHOOSE i \in at : \A j \in at : j <= i

Oversized(text) ==
    Cardinality({i \in DOMAIN text : text[i][1] \in {"data", "more"}
                                     /\ HasKind(text[i][2], {"huge"})}) > MaxHuge

\* The next n tokens are a chunk.
Receive(n) ==
    LET text   == buf \o Decoded(SubSeq(wire, 1, n))
        at     == LastBlank(text)
        forced == at = 0 /\ Oversized(text)
        rest   == IF at = 0 THEN text ELSE SubSeq(text, at + 2, Len(text))
        lost   == Oversized(rest)
        r      == parse_all(protocol, ids,
                            parse_raw_sse(IF forced THEN text ELSE SubSeq(text, 1, at - 1)))
        a      == ConsumeAll(acc, r.events \o (IF lost THEN <<<<"Error", "other">>>> ELSE <<>>))
    IN  /\ stage = "open"
        /\ IF a.result # "none" THEN Ended(a)
           ELSE /\ wire' = SubSeq(wire, n + 1, Len(wire))
                /\ buf' = rest
                /\ ids' = r.ids
                /\ acc' = a
                /\ UNCHANGED <<protocol, answer, stage>>

\* The body ends, early or not: what is left is parsed as the last event.
EndOfBody ==
    /\ stage = "open"
    /\ LET r == parse_all(protocol, ids, parse_raw_sse(buf))
           a == ConsumeAll(acc, r.events)
       IN  Ended([a EXCEPT !.result = IF @ = "none" THEN "ok" ELSE @])

BodyFails(m) ==
    /\ stage = "open"
    /\ Ended(Consume(acc, <<"Error", m>>))

InvocationNext ==
    \/ Refused
    \/ SendFails
    \/ \E status \in Statuses : BadStatus(status)
    \/ \E crlf \in BOOLEAN : SendStreaming(crlf)
    \/ SendGemini
    \/ GeminiGarbled
    \/ \E n \in 1..Len(wire) : Receive(n)
    \/ EndOfBody
    \/ \E m \in {"net", "other"} : BodyFails(m)

----------------------------------------------------------------------------
(* Properties *)

\* Text as it was before a chunk cut one of its characters.
Whole(text) == [i \in DOMAIN text |->
    IF text[i][2] = "damaged" THEN <<text[i][1], "wide">> ELSE text[i]]

\* The pieces of a response that may be in an event.
Kept(text) == SelectSeq(text, LAMBDA x : x[2] \notin {"big", "huge"})

\* However the body is cut into chunks, whatever line ends the server uses
\* and wherever the body stops or fails, chat_complete returns nothing but
\* what the provider said, in its order and each argument at its own call;
\* and once it has a finish reason it has all of it, the same response that
\* denormalize_response makes of the whole answer.  Two kinds of text do
\* not survive: an event over MAX_SSE_DATA_SIZE is left out, and a
\* character on the border of two chunks is damaged.  The streaming parser
\* for Gemini, which reports a finish with every usage count, is only held
\* to the first half.
StreamIsFaithful ==
    stage = "ended" /\ acc.result = "ok" =>
        LET r == denormalize_response(protocol, Answers[answer])
            S(q) == IF protocol = "gemini" THEN q ELSE Kept(q)
        IN  /\ IsPrefix(Whole(acc.text), S(r.text))
            /\ IsPrefix(Whole(acc.reason), Kept(Thoughts(Answers[answer])))
            /\ \A id \in DOMAIN acc.calls :
                  /\ id \in DOMAIN r.calls
                  /\ IsPrefix(Whole(acc.calls[id]), S(r.calls[id]))
            /\ acc.finish \notin {"unknown", "stream_lost"} /\ protocol # "gemini_sse" =>
                  /\ Whole(acc.text) = S(r.text)
                  /\ DOMAIN acc.calls = DOMAIN r.calls
                  /\ \A id \in DOMAIN acc.calls : Whole(acc.calls[id]) = S(r.calls[id])
                  /\ acc.finish = r.finish
=============================================================================
