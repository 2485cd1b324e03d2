-------------------------- MODULE RequestDecoders --------------------------
(***************************************************************************)
(* Client requests into the pivot: decodeRequest of the client             *)
(* translators (open-sse/translator/index.ts), for OpenAI (normalizeRequest*)
(* of helpers/openaiHelper.ts), Claude, Gemini and the Responses API.      *)
(***************************************************************************)
EXTENDS Turns

Clients == {"openai", "claude", "gemini", "responses"}

-----------------------------------------------------------------------------
(* OpenAI *)

normalizeMessage(turn) ==
  LET results == Of(turn.blocks, {"result"})
  IN  [Message EXCEPT
         !.role      = IF turn.role \in {"system", "developer", "user", "assistant", "tool"}
                       THEN turn.role ELSE "user",
         !.content   = Of(turn.blocks, {"text", "image", "audio"}) \o Said(Words(results)),
         !.reasoning = Words(Of(turn.blocks, {"thinking"})),
         !.calls     = Of(turn.blocks, {"call"}),
         !.id        = IF results = <<>> THEN "" ELSE results[1].id,
         !.name      = IF results = <<>> THEN "" ELSE results[1].name]

-----------------------------------------------------------------------------
(* Claude: results lie in a user turn and become messages of their own; what *)
(* else the turn holds follows them, its text first                          *)

ToolMessage(id, name, words) ==
  [Message EXCEPT !.role = "tool", !.id = id, !.name = name, !.content = Said(words)]

UserMessage(blocks) ==
  LET content == Said(Words(Of(blocks, {"text"}))) \o Of(blocks, {"image"})
  IN  One([Message EXCEPT !.content = content], content # <<>>)

\* Defect: the text of a turn goes before the results it holds.
TextFirst(blocks) ==
  UserMessage(blocks) \o Map(Of(blocks, {"result"}), LAMBDA b : ToolMessage(b.id, b.name, b.text))

splitUserTurn(blocks) ==
  Map(Of(blocks, {"result"}), LAMBDA b : ToolMessage(b.id, b.name, b.text)) \o UserMessage(blocks)

\* anthropicContentToResponseMessage, geminiPartsToResponseMessage
Assembled(blocks) ==
  [Message EXCEPT
     !.role      = "assistant",
     !.content   = Said(Words(Of(blocks, {"text"}))),
     !.reasoning = Words(Of(blocks, {"thinking"})),
     !.calls     = Of(blocks, {"call"})]

SystemMessage(words) == One([Message EXCEPT !.role = "system", !.content = Said(words)], words # <<>>)

anthropicToOpenAI(request) ==
  LET decoded(turn) ==
        IF turn.role = "assistant" THEN <<Assembled(turn.blocks)>> ELSE splitUserTurn(turn.blocks)
  IN  SystemMessage(request.system) \o FlattenSeq(Map(request.turns, decoded))

-----------------------------------------------------------------------------
(* Gemini: a call has no id, and its result bears the function's name *)

CallId(name) == IF name = "" THEN "" ELSE "call_" \o name

\* Defect: the id of the call lacks the prefix that the result's has.
NameAsId(part) == [part EXCEPT !.id = part.name]
geminiFunctionCallToOpenAI(part) == [part EXCEPT !.id = CallId(part.name)]

geminiPartsToResponseFields(parts) ==
  [Assembled(parts) EXCEPT !.calls = Map(@, geminiFunctionCallToOpenAI)]

FromFunctionResponse(part) == [part EXCEPT !.id = CallId(part.name), !.text = stringify(@)]

geminiToOpenAI(request) ==
  LET seen(b) == IF b.type = "result" THEN FromFunctionResponse(b) ELSE b
      decoded(turn) ==
        IF turn.role = "model" THEN <<geminiPartsToResponseFields(turn.blocks)>>
        ELSE splitUserTurn(Map(turn.blocks, seen))
  IN  SystemMessage(request.system) \o FlattenSeq(Map(request.turns, decoded))

-----------------------------------------------------------------------------
(* Responses: every item is a message of its own, reasoning items are skipped *)

fromItem(item) ==
  LET b == item.blocks[1]
  IN  CASE item.role = "reasoning" -> <<>>
        [] b.type = "call"   -> <<[Message EXCEPT !.role = "assistant", !.calls = <<b>>]>>
        [] b.type = "result" -> <<ToolMessage(b.id, "", b.text)>>
        [] OTHER -> <<[Message EXCEPT !.role    = IF item.role \in {"assistant", "system"} THEN item.role ELSE "user",
                                      !.content = Of(item.blocks, {"text", "image"})]>>

responsesToOpenAI(request) ==
  SystemMessage(request.system) \o FlattenSeq(Map(request.turns, fromItem))

-----------------------------------------------------------------------------
decodeRequest(client, request) ==
  CASE client = "openai"    -> Map(request.turns, normalizeMessage)
    [] client = "claude"    -> anthropicToOpenAI(request)
    [] client = "gemini"    -> geminiToOpenAI(request)
    [] client = "responses" -> responsesToOpenAI(request)
=============================================================================
