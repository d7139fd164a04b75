------------------------------ MODULE Adapters ------------------------------
(***************************************************************************)
(* What the three provider adapters make of a reply (llm/providers): each  *)
(* knows the spellings of its own provider, and hands the runner either a  *)
(* classified failure or an answer.                                        *)
(*                                                                         *)
(* A native reply is a record of what the adapters look at.  The text of   *)
(* an answer is what it would parse to.                                    *)
(***************************************************************************)
EXTENDS Naturals

Adapter == {"openai", "gemini", "anthropic"}

\* types.py.
RetryableCodes == {"TIMEOUT", "RATE_LIMITED", "SERVER_ERROR", "TRANSPORT_ERROR", "TRUNCATED_OUTPUT"}

Failure(code) == [kind |-> "failure", code |-> code, retryable |-> code \in RetryableCodes]

\* Nothing an adapter foresees: the exception is not an LlmProviderError.
Unforeseen == [kind |-> "unforeseen", code |-> "none", retryable |-> FALSE]

\* A response; its payload is "object" or "none".
Response(payload) == [kind |-> "response", code |-> payload, retryable |-> FALSE]

\* A reply: how the request went, the HTTP status, the shape of the body, the
\* status an error object carries, why generation stopped and what was said.  The
\* parts of an answer are of the types the provider documents: a choices[0] that
\* is no object, say, raises, and comes to what "other_json" comes to.
Reply ==
    [wire : {"timeout", "unreachable", "answered"},
     status : {200, 400, 401, 403, 404, 429, 500, 503, 529},
     body : {"object", "other_json", "no_json"},
     error : {"absent", "object", "text"},
     named : {"none", "RESOURCE_EXHAUSTED", "UNAVAILABLE", "INTERNAL", "DEADLINE_EXCEEDED"},
     stop : {"end", "limit", "filter", "refusal"},
     said : {"nothing", "prose", "other_json", "object", "fenced_object", "half_object"}]

-----------------------------------------------------------------------------
(* Slips: variants of definitions below, each with one mistake the code    *)
(* could have made.  No specification uses them.                           *)

\* A forced tool call that is looked at before the reason it stopped for.
ReadAnthropicPayloadFirst(r) ==
    IF r.said \in {"object", "fenced_object", "half_object"} THEN Response("object")
    ELSE IF r.stop = "limit" THEN Failure("TRUNCATED_OUTPUT")
    ELSE IF r.stop = "refusal" THEN Failure("CONTENT_BLOCKED")
    ELSE Failure("UNPARSEABLE_RESPONSE")

-----------------------------------------------------------------------------
(* http.py. *)

\* HttpLlmProvider.classify.
ClassifyStatus(status) ==
    IF status \in {401, 403} THEN Failure("AUTH_FAILED")
    ELSE IF status = 404 THEN Failure("MODEL_UNAVAILABLE")
    ELSE IF status = 429 THEN Failure("RATE_LIMITED")
    ELSE IF status >= 500 THEN Failure("SERVER_ERROR")
    ELSE Failure("BAD_REQUEST")

\* BODY_STATUS_CODES.
NamedByGemini ==
    [RESOURCE_EXHAUSTED |-> "RATE_LIMITED", UNAVAILABLE |-> "SERVER_ERROR",
     INTERNAL |-> "SERVER_ERROR", DEADLINE_EXCEEDED |-> "SERVER_ERROR"]

\* GeminiProvider.classify reads the body first, and takes its error for an
\* object; AnthropicProvider.classify names 529, which is a server error anyway.
Classify(adapter, r) ==
    IF adapter # "gemini" \/ r.body # "object" THEN ClassifyStatus(r.status)
    ELSE IF r.error = "text" THEN Unforeseen
    ELSE IF r.error = "object" /\ r.named # "none" THEN Failure(NamedByGemini[r.named])
    ELSE ClassifyStatus(r.status)

-----------------------------------------------------------------------------
(* What a body that arrived says. *)

\* _parse of OpenAI tolerates a code fence, Gemini's does not.
Parsed(r, fence) == IF r.said = "object" \/ (fence /\ r.said = "fenced_object") THEN "object" ELSE "none"

\* Cut off, blocked and empty are told apart before anything is parsed.
ReadOpenAi(r) ==
    IF r.stop = "limit" THEN Failure("TRUNCATED_OUTPUT")
    ELSE IF r.stop \in {"filter", "refusal"} THEN Failure("CONTENT_BLOCKED")
    ELSE IF r.said = "nothing" THEN Failure("UNPARSEABLE_RESPONSE")
    ELSE Response(Parsed(r, TRUE))

\* A prompt or a candidate that was blocked.
ReadGemini(r) ==
    IF r.stop = "limit" THEN Failure("TRUNCATED_OUTPUT")
    ELSE IF r.stop \in {"filter", "refusal"} THEN Failure("CONTENT_BLOCKED")
    ELSE IF r.said = "nothing" THEN Failure("UNPARSEABLE_RESPONSE")
    ELSE Response(Parsed(r, FALSE))

\* A forced tool call: its input is an object already, and an answer without one
\* is not offered for repair.
ReadAnthropic(r) ==
    IF r.stop = "limit" THEN Failure("TRUNCATED_OUTPUT")
    ELSE IF r.stop = "refusal" THEN Failure("CONTENT_BLOCKED")
    ELSE IF r.said = "object" THEN Response("object")
    ELSE Failure("UNPARSEABLE_RESPONSE")

Read(adapter, r) ==
    IF r.body = "other_json" THEN Unforeseen
    ELSE IF adapter = "openai" THEN ReadOpenAi(r)
    ELSE IF adapter = "gemini" THEN ReadGemini(r)
    ELSE ReadAnthropic(r)

\* post, then _read: what `complete` returns or raises.
Complete(adapter, r) ==
    IF r.wire = "timeout" THEN Failure("TIMEOUT")
    ELSE IF r.wire = "unreachable" THEN Failure("TRANSPORT_ERROR")
    ELSE IF r.status >= 400 THEN Classify(adapter, r)
    ELSE IF r.body = "no_json" THEN Failure("SERVER_ERROR")
    ELSE Read(adapter, r)
=============================================================================
