----------------------------- MODULE Parameters -----------------------------
(***************************************************************************)
(* The parameters of a request beside its messages: the limit on output    *)
(* tokens, sampling, stop sequences, thinking, tools (translator/request,  *)
(* with maxTokensHelper.ts and claudeModelCaps.ts).  What is only passed   *)
(* on is present or absent; numbers are numbers, 0 for an absent one.      *)
(***************************************************************************)
EXTENDS Integers, FiniteSetsExt, Sequences

Absent == 0

(* What a client asks for, and the pivot's fields.  A choice is the name of *)
(* a function, or the format's word for "one of them must be called".       *)
Must == "must"

Ask == [limit |-> Absent, older |-> Absent, temperature |-> FALSE, stop |-> FALSE,
        thinking |-> FALSE, effort |-> "", tools |-> FALSE, choice |-> ""]

Efforts   == {"", "minimal", "low", "medium", "high", "xhigh", "max"}
Functions == {"read", "write"}

AskShape == [limit : Nat, older : Nat, temperature : BOOLEAN, stop : BOOLEAN, thinking : BOOLEAN,
             effort : Efforts, tools : BOOLEAN, choice : {"", Must} \cup Functions]

Fields == [max_completion_tokens |-> Absent, max_tokens |-> Absent, temperature |-> FALSE,
           stop |-> FALSE, thinking |-> FALSE, reasoning_effort |-> "", tools |-> FALSE,
           tool_choice |-> ""]

-----------------------------------------------------------------------------
(* Models: the patterns that occur in a model's name *)

Patterns ==
  [opus47   |-> {"claude", "claude-opus-4", "opus-4-7"},
   sonnet46 |-> {"claude", "claude-sonnet-4", "sonnet-4-6"},
   haiku45  |-> {"claude", "claude-haiku-4"},
   claude35 |-> {"claude", "claude-3-5"},
   fable5   |-> {"claude", "fable"},
   glm      |-> {"glm"}]

Models == DOMAIN Patterns

\* The first pattern of the table decides.
MODEL_MAX_OUTPUT ==
  <<<<"claude-opus-4", 32000>>, <<"claude-sonnet-4", 64000>>, <<"claude-haiku-4", 32000>>,
    <<"claude-3-5", 8192>>, <<"claude", 8192>>, <<"glm", 16384>>>>

getModelMaxOutput(model) ==
  LET hits == {i \in DOMAIN MODEL_MAX_OUTPUT : MODEL_MAX_OUTPUT[i][1] \in Patterns[model]}
  IN  IF hits = {} THEN 8192 ELSE MODEL_MAX_OUTPUT[Min(hits)][2]

classifyClaudeModel(model) ==
  LET has == Patterns[model]
  IN  CASE has \cap {"fable", "mythos", "opus-4-7", "opus-4-8"} # {} -> "adaptive-only"
        [] has \cap {"opus-4-6", "sonnet-4-6"} # {}                  -> "adaptive-pref"
        [] "claude" \in has                                          -> "legacy-budget"
        [] OTHER                                                     -> "other"

claudeSupportsSampling(model) == classifyClaudeModel(model) # "adaptive-only"
claudeSupportsAdaptive(model) == classifyClaudeModel(model) \in {"adaptive-only", "adaptive-pref"}

clampClaudeEffort(effort, model) ==
  CASE effort \in {"low", "medium", "high", "max"}                        -> effort
    [] effort = "xhigh" /\ classifyClaudeModel(model) = "adaptive-only"   -> "xhigh"
    [] OTHER                                                              -> "high"
-----------------------------------------------------------------------------
(* The limit on output tokens *)

\* Defect: the older field first.
ReadOlderFirst(f) == IF f.max_tokens > 0 THEN f.max_tokens ELSE f.max_completion_tokens

readMaxTokens(f) == IF f.max_completion_tokens > 0 THEN f.max_completion_tokens ELSE f.max_tokens

clampMaxTokens(n, model) == IF n < 1 THEN 1 ELSE Min({n, getModelMaxOutput(model)})

CLAUDE_DEFAULT_MAX_TOKENS == 4096

resolveMaxTokens(f, model) ==
  LET asked == readMaxTokens(f)
  IN  clampMaxTokens(IF asked > 0 THEN asked ELSE CLAUDE_DEFAULT_MAX_TOKENS, model)
-----------------------------------------------------------------------------
(* Clients *)

Common(ask) == [Fields EXCEPT !.temperature = ask.temperature, !.tools = ask.tools]

openAIAsked(ask) ==
  [Common(ask) EXCEPT !.max_completion_tokens = ask.limit, !.max_tokens = ask.older,
                      !.stop = ask.stop, !.thinking = ask.thinking,
                      !.reasoning_effort = ask.effort, !.tool_choice = ask.choice]

claudeAsked(ask) ==
  [Common(ask) EXCEPT !.max_tokens = ask.limit, !.stop = ask.stop, !.thinking = ask.thinking,
                      !.tool_choice = IF ask.choice = "any" THEN "required" ELSE ask.choice]

\* A Gemini client's toolConfig and thinkingConfig are not read,
geminiAsked(ask) == [Common(ask) EXCEPT !.max_tokens = ask.limit, !.stop = ask.stop]

\* nor the tool_choice of a Responses client.
responsesAsked(ask) ==
  [Common(ask) EXCEPT !.max_completion_tokens = ask.limit, !.reasoning_effort = ask.effort]

decodeParameters(client, ask) ==
  CASE client = "openai"    -> openAIAsked(ask)
    [] client = "claude"    -> claudeAsked(ask)
    [] client = "gemini"    -> geminiAsked(ask)
    [] client = "responses" -> responsesAsked(ask)
-----------------------------------------------------------------------------
(* Providers *)

Wire == [limit |-> Absent, temperature |-> FALSE, stop |-> FALSE, thinking |-> "",
         budget |-> Absent, effort |-> "", tools |-> FALSE, choice |-> ""]

wantsThinking(f) == f.thinking \/ f.reasoning_effort \in {"high", "max"}

thinkingBudget(limit) == Max({1024, limit \div 2})

applyThinking(wire, f, model) ==
  CASE claudeSupportsAdaptive(model) ->
         [wire EXCEPT !.thinking = IF wantsThinking(f) THEN "adaptive" ELSE "",
                      !.effort   = IF f.reasoning_effort = "" THEN ""
                                   ELSE clampClaudeEffort(f.reasoning_effort, model)]
    [] ~claudeSupportsAdaptive(model) /\ wantsThinking(f) ->
         [wire EXCEPT !.thinking = "enabled", !.budget = thinkingBudget(wire.limit)]
    [] OTHER -> wire

claudeParameters(f, model) ==
  applyThinking([Wire EXCEPT !.limit       = resolveMaxTokens(f, model),
                             !.temperature = f.temperature /\ claudeSupportsSampling(model),
                             !.stop        = f.stop,
                             !.tools       = f.tools,
                             !.choice      = IF f.tool_choice = "required" THEN "any" ELSE f.tool_choice],
                f, model)

mapFunctionCallingConfig(choice) ==
  CASE choice = "required" -> "ANY"
    [] choice = "auto"     -> "AUTO"
    [] choice = "none"     -> "NONE"
    [] OTHER               -> choice

geminiParameters(f) ==
  [Wire EXCEPT !.limit       = readMaxTokens(f),
               !.temperature = f.temperature,
               !.stop        = f.stop,
               !.thinking    = IF f.thinking \/ f.reasoning_effort # "" THEN "includeThoughts" ELSE "",
               !.tools       = f.tools,
               !.choice      = IF f.tools THEN mapFunctionCallingConfig(f.tool_choice) ELSE ""]

responsesParameters(f) ==
  [Wire EXCEPT !.limit       = readMaxTokens(f),
               !.temperature = f.temperature,
               !.effort      = f.reasoning_effort,
               !.tools       = f.tools]

ollamaParameters(f) ==
  [Wire EXCEPT !.limit       = readMaxTokens(f),
               !.temperature = f.temperature,
               !.stop        = f.stop,
               !.tools       = f.tools]

\* The request goes out as it is; an OpenAI provider reads its own fields.
openAIParameters(f) ==
  [ollamaParameters(f) EXCEPT !.thinking = IF f.thinking THEN "enabled" ELSE "",
                              !.effort   = f.reasoning_effort,
                              !.choice   = f.tool_choice]

\* buildToolSpecs, and Cursor's tools.
toolsOnly(f) == [Wire EXCEPT !.tools = f.tools]

encodeParameters(provider, f, model) ==
  CASE provider = "openai"             -> openAIParameters(f)
    [] provider = "responses"          -> responsesParameters(f)
    [] provider = "claude"             -> claudeParameters(f, model)
    [] provider = "gemini"             -> geminiParameters(f)
    [] provider = "ollama"             -> ollamaParameters(f)
    [] provider \in {"kiro", "cursor"} -> toolsOnly(f)
    [] provider = "web"                -> Wire
=============================================================================
