--------------------------- MODULE StreamDecoders ---------------------------
(***************************************************************************)
(* The provider-to-pivot stream transformers of                            *)
(* open-sse/translator/response: what push returns for one event of a      *)
(* provider, what end returns when the provider's stream is over, and the  *)
(* state a transformer keeps in between.                                   *)
(*                                                                         *)
(* The role that precedes the first delta is left out.                     *)
(***************************************************************************)
EXTENDS Pivot

\* toolIndex: block index, item id or tool-use id -> index in the pivot.
Decoder == [toolIndex |-> <<>>, next |-> 0, usage |-> NoUsage]

Emit(d, chunks) == [state |-> d, chunks |-> chunks]
Quiet(d)        == Emit(d, <<>>)

OneCall(call) == <<CallsChunk(<<call>>)>>

\* A new call under its own key, at the next index.
NewCall(d, key, id, name) ==
  Emit([d EXCEPT !.toolIndex = Put(@, key, d.next), !.next = @ + 1],
       OneCall(Call(d.next, id, name, <<>>)))

CallsOrStop(d) == IF d.next > 0 THEN "tool_calls" ELSE "stop"

IfAny(fragments, chunk) == IF fragments = <<>> THEN <<>> ELSE <<chunk>>
-----------------------------------------------------------------------------
(* claude-to-openai.ts *)

anthropicStopToOpenAI(stop) ==
  CASE stop \in {"max_tokens", "model_context_window_exceeded"} -> "length"
    [] stop = "tool_use"                                        -> "tool_calls"
    [] stop = "refusal"                                         -> "content_filter"
    [] stop \in {"end_turn", "stop_sequence"}                   -> "stop"
    [] OTHER                                                    -> NoFinish

OrStop(finish) == IF finish = NoFinish THEN "stop" ELSE finish

\* Defect: the usage of message_delta replaces that of message_start.
LastUsage(atStart, atEnd) == atEnd

\* message_start has the prompt tokens, message_delta the completion tokens.
MergeUsage(atStart, atEnd) ==
  CASE atEnd = NoUsage   -> atStart
    [] atStart = NoUsage -> atEnd
    [] OTHER             -> [atStart EXCEPT !.completion = atEnd.completion]

\* Defect: block indices are taken for tool-call indices.
ClaudeDecodeByBlock(d, e) ==
  CASE e.type = "message_start"       -> Quiet([d EXCEPT !.usage = e.usage])
    [] e.type = "tool_use_start"      ->
         Emit([d EXCEPT !.next = @ + 1], OneCall(Call(d.next, e.id, e.name, <<>>)))
    [] e.type = "text_delta"          -> Emit(d, <<TextChunk(e.delta)>>)
    [] e.type = "thinking_delta"      -> Emit(d, <<ReasoningChunk(e.delta)>>)
    [] e.type = "input_json_delta"    -> Emit(d, OneCall(ArgsOf(e.index, e.delta)))
    [] e.type = "message_delta"       ->
         LET used == MergeUsage(d.usage, e.usage)
         IN  Emit([d EXCEPT !.usage = used],
                  <<FinishChunk(OrStop(anthropicStopToOpenAI(e.stop)), used)>>)
    [] OTHER                          -> Quiet(d)

ClaudeDecode(d, e) ==
  CASE e.type = "message_start"       -> Quiet([d EXCEPT !.usage = e.usage])
    [] e.type = "tool_use_start"      -> NewCall(d, e.index, e.id, e.name)
    [] e.type = "text_delta"          -> Emit(d, <<TextChunk(e.delta)>>)
    [] e.type = "thinking_delta"      -> Emit(d, <<ReasoningChunk(e.delta)>>)
    [] e.type = "input_json_delta"    ->
         Emit(d, OneCall(ArgsOf(Get(d.toolIndex, e.index, 0), e.delta)))
    [] e.type = "message_delta"       ->
         LET used == MergeUsage(d.usage, e.usage)
         IN  Emit([d EXCEPT !.usage = used],
                  <<FinishChunk(OrStop(anthropicStopToOpenAI(e.stop)), used)>>)
    [] OTHER                          -> Quiet(d)
-----------------------------------------------------------------------------
(* openai-responses.ts *)

ResponsesDecode(d, e) ==
  CASE e.type = "output_text.delta"             -> Emit(d, <<TextChunk(e.delta)>>)
    [] e.type = "reasoning_text.delta"          -> Emit(d, <<ReasoningChunk(e.delta)>>)
    [] e.type = "function_call.added"           -> NewCall(d, e.item, e.id, e.name)
    [] e.type = "function_call_arguments.delta" ->
         Emit(d, OneCall(ArgsOf(Get(d.toolIndex, e.item, 0), e.delta)))
    [] e.type \in {"completed", "incomplete"}   ->
         Emit(d, <<FinishChunk(CallsOrStop(d), e.usage)>>)
    [] OTHER                                    -> Quiet(d)
-----------------------------------------------------------------------------
(* kiro-to-openai.ts: no event ends the answer, only the end of the stream *)

KiroToolUse(d, e) ==
  LET opened == IF e.id \in DOMAIN d.toolIndex THEN Quiet(d) ELSE NewCall(d, e.id, e.id, e.name)
      index  == opened.state.toolIndex[e.id]
  IN  Emit(opened.state,
           opened.chunks \o IfAny(e.input, CallsChunk(<<ArgsOf(index, e.input)>>)))

KiroDecode(d, e) ==
  CASE e.type = "assistantResponseEvent" -> Emit(d, IfAny(e.content, TextChunk(e.content)))
    [] e.type = "toolUseEvent"           -> KiroToolUse(d, e)
    [] OTHER                             -> Quiet(d)
-----------------------------------------------------------------------------
(* ollama-to-openai.ts: whole calls, several per event; ids are made up *)

\* Defect: every event numbers its calls from zero.
mapToolCallsFromZero(calls, startIndex) ==
  [i \in DOMAIN calls |-> Call(i - 1, i, calls[i].name, calls[i].args)]

\* Defect: indices start at one.
mapToolCallsFromOne(calls, startIndex) ==
  [i \in DOMAIN calls |-> Call(startIndex + i, startIndex + i, calls[i].name, calls[i].args)]

mapToolCalls(calls, startIndex) ==
  [i \in DOMAIN calls |->
     Call(startIndex + i - 1, startIndex + i, calls[i].name, calls[i].args)]

OllamaDecode(d, e) ==
  LET counted == [d EXCEPT !.next = @ + Len(e.calls)]
  IN  Emit(counted,
           IfAny(e.calls, CallsChunk(mapToolCalls(e.calls, d.next)))
             \o IfAny(e.text, TextChunk(e.text))
             \o IF e.done = "yes" THEN <<FinishChunk(CallsOrStop(counted), e.usage)>> ELSE <<>>)
-----------------------------------------------------------------------------
(* cursor-to-openai.ts: one whole call per event *)

CursorDecode(d, e) ==
  LET counted == [d EXCEPT !.next = @ + Len(e.calls)]
  IN  Emit(counted,
           IfAny(e.text, TextChunk(e.text))
             \o [i \in DOMAIN e.calls |->
                   CallsChunk(<<Call(d.next, e.calls[i].id, e.calls[i].name, e.calls[i].args)>>)]
             \o IF e.done = "yes" THEN <<FinishChunk(CallsOrStop(counted), NoUsage)>> ELSE <<>>)
-----------------------------------------------------------------------------
(* gemini-to-openai.ts (gemini-cli, vertex, and antigravity in its envelope):
   an event is a candidate's parts; a call's id is made from its name *)

geminiFinishToOpenAI(reason) ==
  CASE reason = "MAX_TOKENS"              -> "length"
    [] reason \in {"SAFETY", "RECITATION", "BLOCKLIST", "PROHIBITED_CONTENT"}
                                          -> "content_filter"
    [] OTHER                              -> "stop"

GeminiDecode(d, e) ==
  Emit([d EXCEPT !.next = @ + Len(e.calls)],
       [i \in DOMAIN e.calls |->
          CallsChunk(<<Call(d.next + i - 1, e.calls[i].name, e.calls[i].name, e.calls[i].args)>>)]
         \o IfAny(e.reasoning, ReasoningChunk(e.reasoning))
         \o IfAny(e.text, TextChunk(e.text))
         \o IF e.finishReason = NoFinish THEN <<>>
            ELSE <<FinishChunk(geminiFinishToOpenAI(e.finishReason), e.usage)>>)
-----------------------------------------------------------------------------
(* web-reverse.ts (perplexity-web, grok-web): text only.  grokToken takes the
   final message, when an event has no token, for a token. *)
WebDecode(d, e) ==
  LET text == IF e.token # <<>> THEN e.token ELSE e.message
  IN  Emit(d, IfAny(text, TextChunk(text)))
-----------------------------------------------------------------------------
(* The registry of open-sse/translator/index.ts; openai is its own pivot. *)

Formats == {"openai", "claude", "responses", "kiro", "ollama", "cursor", "gemini",
            "perplexity", "grok"}

Decode(format, d, e) ==
  CASE format = "openai"                   -> Emit(d, <<e>>)
    [] format = "claude"                   -> ClaudeDecode(d, e)
    [] format = "responses"                -> ResponsesDecode(d, e)
    [] format = "kiro"                     -> KiroDecode(d, e)
    [] format = "ollama"                   -> OllamaDecode(d, e)
    [] format = "cursor"                   -> CursorDecode(d, e)
    [] format = "gemini"                   -> GeminiDecode(d, e)
    [] format \in {"perplexity", "grok"}   -> WebDecode(d, e)

\* What end() adds once the provider's stream is over, however it ended.
DecodeEnd(format, d) ==
  CASE format = "kiro"                     -> <<FinishChunk(CallsOrStop(d), NoUsage)>>
    [] format \in {"perplexity", "grok"}   -> <<FinishChunk("stop", NoUsage)>>
    [] OTHER                               -> <<>>
=============================================================================
