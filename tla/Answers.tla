------------------------------ MODULE Answers ------------------------------
(***************************************************************************)
(* Whole answers: decodeResponse of the provider translators and           *)
(* encodeResponse of the client translators (open-sse/translator/index.ts).*)
(*                                                                         *)
(* A provider's answer is [blocks, stop, usage] in its own format: the     *)
(* blocks carry its own ids, or none, stop is its own word for the end     *)
(* ("" where it has none), usage its own token counts.  The pivot answer   *)
(* is [message, finish, usage], a client's answer [blocks, stop, usage].   *)
(***************************************************************************)
EXTENDS RequestDecoders

NoFinish == "null"
NoUsage  == [prompt |-> 0, completion |-> 0]

-----------------------------------------------------------------------------
(* Reasons *)

anthropicStopToOpenAI(stop) ==
  CASE stop \in {"max_tokens", "model_context_window_exceeded"} -> "length"
    [] stop = "tool_use"                                        -> "tool_calls"
    [] stop = "refusal"                                         -> "content_filter"
    [] stop \in {"end_turn", "stop_sequence"}                   -> "stop"
    [] OTHER                                                    -> NoFinish

openAIFinishToAnthropic(finish) ==
  CASE finish = "length"     -> "max_tokens"
    [] finish = "tool_calls" -> "tool_use"
    [] finish = "stop"       -> "end_turn"
    [] OTHER                 -> NoFinish

\* A call ends with STOP too.
geminiFinishToOpenAI(reason) ==
  CASE reason = "MAX_TOKENS"              -> "length"
    [] reason \in {"SAFETY", "RECITATION", "BLOCKLIST", "PROHIBITED_CONTENT"} -> "content_filter"
    [] reason = ""                        -> NoFinish
    [] OTHER                              -> "stop"

\* Defect: the reason goes out as it came.
FinishUnmapped(finish) == finish

openAIFinishToGemini(finish) ==
  CASE finish = "length"         -> "MAX_TOKENS"
    [] finish = "content_filter" -> "SAFETY"
    [] OTHER                     -> "STOP"

\* The reason of an answer that names none.
FinishOfContent(message) == IF message.calls # <<>> THEN "tool_calls" ELSE "stop"

Given(finish, message) == IF finish # NoFinish THEN finish ELSE FinishOfContent(message)

-----------------------------------------------------------------------------
(* Token counts *)

\* Anthropic counts what it read from its cache and wrote to it apart.
mapUsage(provider, usage) ==
  CASE provider = "claude" -> [prompt     |-> usage.input + usage.cacheRead + usage.cacheCreate,
                               completion |-> usage.output]
    [] provider \in {"openai", "responses", "gemini", "ollama"} ->
         [prompt |-> usage.input, completion |-> usage.output]
    [] OTHER -> NoUsage

-----------------------------------------------------------------------------
(* decodeResponse *)

\* The first answer of a Gemini response: calls get the id call_<name>.
GeminiMessage(blocks) == geminiPartsToResponseFields(blocks)

\* Ollama: calls are numbered anew in every answer; it reports no thinking.
mapToolCalls(calls) == [i \in DOMAIN calls |-> [calls[i] EXCEPT !.id = "call_" \o ToString(i - 1)]]

OllamaMessage(blocks) ==
  [Assembled(blocks) EXCEPT !.reasoning = <<>>, !.calls = mapToolCalls(@)]

\* Kiro and Cursor: text and calls.
Aggregate(blocks) == [Assembled(blocks) EXCEPT !.reasoning = <<>>]

\* The web front ends: text only.
WebMessage(blocks) == [Aggregate(blocks) EXCEPT !.calls = <<>>]

MessageOf(provider, blocks) ==
  CASE provider \in {"openai", "responses", "claude"} -> Assembled(blocks)
    [] provider = "gemini"                            -> GeminiMessage(blocks)
    [] provider = "ollama"                            -> OllamaMessage(blocks)
    [] provider \in {"kiro", "cursor"}                -> Aggregate(blocks)
    [] provider = "web"                               -> WebMessage(blocks)

FinishOf(provider, stop, message) ==
  CASE provider = "openai" -> stop
    [] provider = "claude" -> Given(anthropicStopToOpenAI(stop), message)
    [] provider = "gemini" -> Given(geminiFinishToOpenAI(stop), message)
    [] OTHER               -> FinishOfContent(message)

decodeResponse(provider, body) ==
  LET message == MessageOf(provider, body.blocks)
  IN  [message |-> message,
       finish  |-> FinishOf(provider, body.stop, message),
       usage   |-> mapUsage(provider, body.usage)]

-----------------------------------------------------------------------------
(* encodeResponse *)

Thoughts(message) == One(Thinking(message.reasoning), message.reasoning # <<>>)

\* Defect: the text is taken for the answer whenever there is some.
TextOrCalls(message) ==
  Thoughts(message) \o (IF message.content # <<>> THEN message.content ELSE Map(message.calls, AsObject))

responseMessageToAnthropicContent(message) ==
  Thoughts(message) \o message.content \o Map(message.calls, AsObject)

responseMessageToGeminiParts(message) ==
  Thoughts(message) \o message.content \o Map(message.calls, LAMBDA c : [AsObject(c) EXCEPT !.id = ""])

\* OpenAI, and a client of the Responses API all the same: the pivot itself.
PivotBlocks(message) == Thoughts(message) \o message.content \o message.calls

encodeResponse(client, answer) ==
  CASE client = "claude" -> [blocks |-> responseMessageToAnthropicContent(answer.message),
                             stop   |-> openAIFinishToAnthropic(answer.finish),
                             usage  |-> answer.usage]
    [] client = "gemini" -> [blocks |-> responseMessageToGeminiParts(answer.message),
                             stop   |-> openAIFinishToGemini(answer.finish),
                             usage  |-> answer.usage]
    [] OTHER             -> [blocks |-> PivotBlocks(answer.message),
                             stop   |-> answer.finish,
                             usage  |-> answer.usage]
=============================================================================
