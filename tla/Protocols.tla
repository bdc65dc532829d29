------------------------------- MODULE Protocols -------------------------------
(***************************************************************************)
(* The four wire formats of model requests (provider/openai_chat.rs,       *)
(* openai_responses.rs, anthropic.rs, gemini.rs): which optional fields a  *)
(* request carries after what it gave up so far, and what an answer means: *)
(* a reply, an error, or the same request again without a field that the   *)
(* provider refused.                                                       *)
(*                                                                         *)
(* A route is a record: its protocol, whether prompts are cached, and the  *)
(* reasoning effort asked for ("none", "some", or "above" high).  Left out *)
(* are the transcript and the tools that every request carries, budgets in *)
(* tokens, and Gemini's models that take no thinking field.                *)
(***************************************************************************)

RouteKinds == [protocol : {"chat", "responses", "anthropic", "gemini"},
               cache : BOOLEAN, effort : {"none", "some", "above"}]

\* What a request can give up: the old name of the token limit, the temperature,
\* the cache hint, the thinking mode, effort above high, and reasoning itself.
Fields == {"tokens", "temperature", "cache", "mode", "effort", "reasoning"}

-------------------------------------------------------------------------------
(* Requests.                                                               *)

Cached(route, given) == IF route.cache THEN {"cache"} \ given ELSE {}
Reasons(route, given) == route.effort # "none" /\ "reasoning" \notin given

ChatSends(route, given) ==
    Cached(route, given) \cup ({"tokens", "temperature"} \ given)
        \cup (IF Reasons(route, given) THEN {"reasoning"} ELSE {})

ResponsesSends(route, given) ==
    Cached(route, given) \cup ({"temperature"} \ given)
        \cup (IF Reasons(route, given) THEN {"reasoning"} ELSE {})

\* Temperature only goes with a request that does not think.
AnthropicSends(route, given) ==
    Cached(route, given)
        \cup (IF Reasons(route, given) THEN {"mode", "reasoning"} ELSE {"temperature"} \ given)

\* Without effort the thinking field is sent as well, to turn thinking off.
GeminiSends(route, given) == {"temperature", "reasoning"} \ given

Sends(route, given) ==
    CASE route.protocol = "chat"      -> ChatSends(route, given)
      [] route.protocol = "responses" -> ResponsesSends(route, given)
      [] route.protocol = "anthropic" -> AnthropicSends(route, given)
      [] route.protocol = "gemini"    -> GeminiSends(route, given)

-------------------------------------------------------------------------------
(* Answers.                                                                *)

\* A 400 names the field it refuses, or none; the body of a success is a message
\* with text or calls, or silent, or cut off before either, or malformed.
Replies == [status : {"ok"}, field : {"none"}, body : {"message", "silent", "cut", "malformed"}]
             \cup [status : {"400"}, field : Fields \cup {"none"}, body : {"none"}]
             \cup [status : {"denied", "unknown", "other"}, field : {"none"}, body : {"none"}]

Message              == [is |-> "message", given |-> {}]
Silent               == [is |-> "silent", given |-> {}]
Error                == [is |-> "error", given |-> {}]
RetrySameSlot(given) == [is |-> "again", given |-> given]

\* detect_400_fallback: less effort, then no reasoning; no temperature.
Fallback(route, given, reply) ==
    CASE reply.field \in {"reasoning", "mode"} /\ "reasoning" \notin given ->
            RetrySameSlot(given \cup {IF route.effort = "above" /\ "effort" \notin given
                              THEN "effort" ELSE "reasoning"})
      [] reply.field = "temperature" /\ "temperature" \notin given ->
            RetrySameSlot(given \cup {"temperature"})
      [] OTHER -> Error

\* A field of its own that a protocol gives up before anything else.
GivesUp(field, given, reply) == reply.field = field /\ field \notin given

ChatParse(route, given, reply) ==
    CASE reply.status = "400" /\ route.cache /\ GivesUp("cache", given, reply) ->
            RetrySameSlot(given \cup {"cache"})
      [] reply.status = "400" /\ GivesUp("tokens", given, reply) ->
            RetrySameSlot(given \cup {"tokens"})
      [] reply.status = "ok" /\ reply.body = "message" -> Message
      [] reply.status = "ok" /\ reply.body = "silent"  -> Silent
      [] reply.status = "400" /\ reply.field \notin {"cache", "tokens"} ->
            Fallback(route, given, reply)
      [] OTHER -> Error

ResponsesParse(route, given, reply) ==
    CASE reply.status = "400" /\ route.cache /\ GivesUp("cache", given, reply) ->
            RetrySameSlot(given \cup {"cache"})
      [] reply.status = "400" /\ reply.field # "cache" -> Fallback(route, given, reply)
      [] reply.status = "ok" /\ reply.body = "message" -> Message
      [] OTHER -> Error

\* The other thinking mode is tried once, before any effort is given up.
AnthropicParse(route, given, reply) ==
    CASE /\ reply.status = "400"
         /\ Reasons(route, given) /\ GivesUp("mode", given, reply) -> RetrySameSlot(given \cup {"mode"})
      [] /\ reply.status = "400"
         /\ route.cache /\ GivesUp("cache", given, reply) -> RetrySameSlot(given \cup {"cache"})
      [] /\ reply.status = "400"
         /\ reply.field # "cache"
         /\ ~(Reasons(route, given) /\ GivesUp("mode", given, reply)) ->
            Fallback(route, given, reply)
      [] reply.status = "ok" /\ reply.body = "message" -> Message
      [] reply.status = "ok" /\ reply.body = "silent"  -> Silent
      [] OTHER -> Error

GeminiParse(route, given, reply) ==
    CASE reply.status = "400" -> Fallback(route, given, reply)
      [] reply.status = "ok" /\ reply.body = "message" -> Message
      [] OTHER -> Error

Parse(route, given, reply) ==
    CASE route.protocol = "chat"      -> ChatParse(route, given, reply)
      [] route.protocol = "responses" -> ResponsesParse(route, given, reply)
      [] route.protocol = "anthropic" -> AnthropicParse(route, given, reply)
      [] route.protocol = "gemini"    -> GeminiParse(route, given, reply)
===============================================================================
