------------------------- MODULE ConversationProofs -------------------------
(***************************************************************************)
(* Proved for every set of requests a client may make (Asks), every bound  *)
(* on answers and every set of answers (Shapes):                           *)
(*                                                                         *)
(*   - what a client asks for is what a provider is told                   *)
(*     (ParametersHeard), and a Claude model is told what it can take,     *)
(*     where that is possible (ClaudeAccepts);                             *)
(*   - the types of the state (TypeOK);                                    *)
(*   - a client gets the whole of an answer (ClientGetsAnswer).            *)
(*                                                                         *)
(* Only Send makes a request, from what was asked alone; nothing changes   *)
(* one that is on its way.  So the invariant says where the parameters     *)
(* came from (RequestInv), and the rest is about the translators: what     *)
(* each client's leaves in the pivot, and what each provider's makes of    *)
(* it.                                                                     *)
(*                                                                         *)
(* An answer goes through two translators in one step, and both pick the   *)
(* blocks of a type from a sequence of blocks.  So what they do is said by *)
(* places: the blocks of some kinds are those at some places of the shape  *)
(* (AtPlaces), the facts of those kinds are at the same places of the      *)
(* ledger (FactsAre), and the pivot between keeps them (AnswerTold).       *)
(* TypeInv adds that the calls a client was told of are calls of the       *)
(* ledger, for whose results it looks there (ToolsRun).                    *)
(***************************************************************************)
EXTENDS Conversation, FiniteSetTheorems, TLAPS

\* The words of the formats for a choice of function.
ChoiceWords == {"", Must, "required", "any", "ANY"} \cup Functions

FieldShape == [max_completion_tokens : Nat, max_tokens : Nat, temperature : BOOLEAN,
               stop : BOOLEAN, thinking : BOOLEAN, reasoning_effort : Efforts,
               tools : BOOLEAN, tool_choice : ChoiceWords]

\* The limit a client means: the newer field, where it has one.
Limit(a) == IF a.limit > 0 THEN a.limit ELSE a.older

-----------------------------------------------------------------------------
(* Clients *)

\* The word of each format for "some function" (MustWord).
LEMMA WordsCases ==
  /\ client = "claude" => MustWord = "any"
  /\ client = "gemini" => MustWord = "ANY"
  /\ client \in {"openai", "responses"} => MustWord = "required"
BY Zenon DEF MustWord

\* Each client's translator, by its name (decodeParameters).
LEMMA DecodeCases ==
  ASSUME NEW a
  PROVE  /\ decodeParameters("openai", a) = openAIAsked(a)
         /\ decodeParameters("claude", a) = claudeAsked(a)
         /\ decodeParameters("gemini", a) = geminiAsked(a)
         /\ decodeParameters("responses", a) = responsesAsked(a)
BY Zenon DEF decodeParameters

WordedShape == [limit : Nat, older : Nat, temperature : BOOLEAN, stop : BOOLEAN,
                thinking : BOOLEAN, effort : Efforts, tools : BOOLEAN, choice : ChoiceWords]

\* Put in the client's words, a request differs in its choice alone (InWords).
LEMMA Worded ==
  ASSUME client \in Clients, NEW a \in AskShape
  PROVE  LET v == InWords(a)
         IN  /\ v \in WordedShape
             /\ v.choice = IF a.choice = Must THEN MustWord ELSE a.choice
             /\ v.limit = a.limit /\ v.older = a.older /\ v.temperature = a.temperature
             /\ v.stop = a.stop /\ v.thinking = a.thinking /\ v.effort = a.effort
             /\ v.tools = a.tools
<1> DEFINE word == IF a.choice = Must THEN MustWord ELSE a.choice
<1>1. word \in ChoiceWords
  BY WordsCases DEF Clients, AskShape, ChoiceWords
<1>2. PICK w \in ChoiceWords : w = word
  BY <1>1
<1>3. InWords(a) = [a EXCEPT !.choice = w]
  BY <1>2, Zenon DEF InWords
<1> HIDE DEF InWords
<1> QED
  BY <1>2, <1>3 DEF AskShape, WordedShape

\* openAIAsked passes everything on.
LEMMA AskedByOpenAI ==
  ASSUME NEW v \in WordedShape
  PROVE  LET f == openAIAsked(v)
         IN  /\ f.max_completion_tokens = v.limit /\ f.max_tokens = v.older
             /\ f.temperature = v.temperature /\ f.tools = v.tools /\ f.stop = v.stop
             /\ f.thinking = v.thinking /\ f.reasoning_effort = v.effort
             /\ f.tool_choice = v.choice
BY DEF openAIAsked, Common, Fields, WordedShape, Absent

\* claudeAsked has no effort, and another word for "some function".
LEMMA AskedByClaude ==
  ASSUME NEW v \in WordedShape
  PROVE  LET f == claudeAsked(v)
         IN  /\ f.max_completion_tokens = 0 /\ f.max_tokens = v.limit
             /\ f.temperature = v.temperature /\ f.tools = v.tools /\ f.stop = v.stop
             /\ f.thinking = v.thinking /\ f.reasoning_effort = ""
             /\ f.tool_choice = IF v.choice = "any" THEN "required" ELSE v.choice
BY DEF claudeAsked, Common, Fields, WordedShape, Absent

\* geminiAsked reads neither thinking nor a choice.
LEMMA AskedByGemini ==
  ASSUME NEW v \in WordedShape
  PROVE  LET f == geminiAsked(v)
         IN  /\ f.max_completion_tokens = 0 /\ f.max_tokens = v.limit
             /\ f.temperature = v.temperature /\ f.tools = v.tools /\ f.stop = v.stop
             /\ ~f.thinking /\ f.reasoning_effort = "" /\ f.tool_choice = ""
BY DEF geminiAsked, Common, Fields, WordedShape, Absent

\* responsesAsked reads neither stop sequences, nor thinking, nor a choice.
LEMMA AskedByResponses ==
  ASSUME NEW v \in WordedShape
  PROVE  LET f == responsesAsked(v)
         IN  /\ f.max_completion_tokens = v.limit /\ f.max_tokens = 0
             /\ f.temperature = v.temperature /\ f.tools = v.tools /\ ~f.stop
             /\ ~f.thinking /\ f.reasoning_effort = v.effort /\ f.tool_choice = ""
BY DEF responsesAsked, Common, Fields, WordedShape, Absent

\* The pivot's fields have their types, whoever asks (decodeParameters).
LEMMA PivotTypes ==
  ASSUME NEW v \in WordedShape
  PROVE  {openAIAsked(v), claudeAsked(v), geminiAsked(v), responsesAsked(v)}
           \subseteq FieldShape
<1> USE DEF Common, Fields, WordedShape, FieldShape, Absent, Efforts, ChoiceWords
<1>1. openAIAsked(v) \in FieldShape
  BY DEF openAIAsked
<1>2. claudeAsked(v) \in FieldShape
  BY DEF claudeAsked
<1>3. geminiAsked(v) \in FieldShape
  BY DEF geminiAsked
<1>4. responsesAsked(v) \in FieldShape
  BY DEF responsesAsked
<1> QED
  BY <1>1, <1>2, <1>3, <1>4

\* What of a request a client may make is left in the pivot: all of it that
\* the client's format has a field for, but Gemini's thinking and the choice
\* of a function of Gemini and the Responses API.
Pivoted(a, f) ==
  /\ f \in FieldShape
  /\ readMaxTokens(f) = Limit(a)
  /\ f.temperature = a.temperature
  /\ f.tools = a.tools
  /\ f.stop = a.stop
  /\ f.thinking = (a.thinking /\ client # "gemini")
  /\ f.reasoning_effort = a.effort
  /\ client \in {"openai", "claude"} =>
       f.tool_choice = IF a.choice = Must THEN "required" ELSE a.choice

\* A client with one field for its limit is read right (readMaxTokens).
LEMMA OneLimit ==
  ASSUME client # "openai", NEW a \in AskShape, CanAsk(a), NEW f,
         \/ f.max_completion_tokens = 0 /\ f.max_tokens = a.limit
         \/ f.max_completion_tokens = a.limit /\ f.max_tokens = 0
  PROVE  readMaxTokens(f) = Limit(a)
<1>1. a.limit \in Nat /\ a.older \in Nat
  BY DEF AskShape
<1>2. ~(a.older > 0)
  BY DEF CanAsk
<1>3. Limit(a) = a.limit
  BY <1>1, <1>2 DEF Limit
<1>4. CASE f.max_completion_tokens = 0 /\ f.max_tokens = a.limit
  <2>1. ~(f.max_completion_tokens > 0)
    BY <1>4
  <2> QED
    BY <1>3, <1>4, <2>1 DEF readMaxTokens
<1>5. CASE f.max_completion_tokens = a.limit /\ f.max_tokens = 0
  BY <1>1, <1>3, <1>5 DEF readMaxTokens
<1> QED
  BY <1>4, <1>5

\* The client's translator does not lose more than that (decodeParameters of
\* what CanAsk lets a client ask).
LEMMA PivotOfAsk ==
  ASSUME client \in Clients, NEW a \in AskShape, CanAsk(a)
  PROVE  Pivoted(a, decodeParameters(client, InWords(a)))
<1> DEFINE v == InWords(a)
<1>1. /\ v \in WordedShape
      /\ v.choice = IF a.choice = Must THEN MustWord ELSE a.choice
      /\ v.limit = a.limit /\ v.older = a.older /\ v.temperature = a.temperature
      /\ v.stop = a.stop /\ v.thinking = a.thinking /\ v.effort = a.effort
      /\ v.tools = a.tools
  BY Worded
<1> HIDE DEF v
<1> SUFFICES ASSUME NEW f, f = decodeParameters(client, v)
             PROVE  Pivoted(a, f)
  BY DEF v
<1>2. CASE client = "openai"
  <2>1. f = openAIAsked(v)
    BY <1>2, DecodeCases
  <2>2. f \in FieldShape
    BY <1>1, <2>1, PivotTypes
  <2>3. /\ f.max_completion_tokens = v.limit /\ f.max_tokens = v.older
        /\ f.temperature = v.temperature /\ f.tools = v.tools /\ f.stop = v.stop
        /\ f.thinking = v.thinking /\ f.reasoning_effort = v.effort
        /\ f.tool_choice = v.choice
    BY <1>1, <2>1, AskedByOpenAI
  <2> QED
    BY <1>1, <1>2, <2>2, <2>3, WordsCases
      DEF AskShape, Pivoted, readMaxTokens, Limit, CanAsk, Absent
<1>3. CASE client = "claude"
  <2>1. f = claudeAsked(v)
    BY <1>3, DecodeCases
  <2>2. f \in FieldShape
    BY <1>1, <2>1, PivotTypes
  <2>3. /\ f.max_completion_tokens = 0 /\ f.max_tokens = v.limit
        /\ f.temperature = v.temperature /\ f.tools = v.tools /\ f.stop = v.stop
        /\ f.thinking = v.thinking /\ f.reasoning_effort = ""
        /\ f.tool_choice = IF v.choice = "any" THEN "required" ELSE v.choice
    BY <1>1, <2>1, AskedByClaude
  <2>4. a.choice \notin {"any", "required"}
    BY DEF Must, Functions, AskShape
  <2>5. readMaxTokens(f) = Limit(a)
    BY <1>1, <1>3, <2>3, OneLimit
  <2>6. f.thinking = (a.thinking /\ client # "gemini")
    BY <1>1, <1>3, <2>2, <2>3 DEF AskShape, FieldShape, CanAsk
  <2>7. f.stop = a.stop /\ f.reasoning_effort = a.effort
    BY <1>1, <1>3, <2>2, <2>3 DEF AskShape, FieldShape, CanAsk
  <2> QED
    BY <1>1, <1>3, <2>2, <2>3, <2>4, <2>5, <2>6, <2>7, WordsCases
      DEF AskShape, Pivoted
<1>4. CASE client = "gemini"
  <2>1. f = geminiAsked(v)
    BY <1>4, DecodeCases
  <2>2. f \in FieldShape
    BY <1>1, <2>1, PivotTypes
  <2>3. /\ f.max_completion_tokens = 0 /\ f.max_tokens = v.limit
        /\ f.temperature = v.temperature /\ f.tools = v.tools /\ f.stop = v.stop
        /\ ~f.thinking /\ f.reasoning_effort = ""
    BY <1>1, <2>1, AskedByGemini
  <2>4. readMaxTokens(f) = Limit(a)
    BY <1>1, <1>4, <2>3, OneLimit
  <2>5. f.thinking = (a.thinking /\ client # "gemini")
    BY <1>1, <1>4, <2>2, <2>3 DEF AskShape, FieldShape, CanAsk
  <2>6. f.stop = a.stop /\ f.reasoning_effort = a.effort
    BY <1>1, <1>4, <2>2, <2>3 DEF AskShape, FieldShape, CanAsk
  <2> QED
    BY <1>1, <1>4, <2>2, <2>3, <2>4, <2>5, <2>6, WordsCases
      DEF AskShape, Pivoted
<1>5. CASE client = "responses"
  <2>1. f = responsesAsked(v)
    BY <1>5, DecodeCases
  <2>2. f \in FieldShape
    BY <1>1, <2>1, PivotTypes
  <2>3. /\ f.max_completion_tokens = v.limit /\ f.max_tokens = 0
        /\ f.temperature = v.temperature /\ f.tools = v.tools /\ ~f.stop
        /\ ~f.thinking /\ f.reasoning_effort = v.effort
    BY <1>1, <2>1, AskedByResponses
  <2>4. readMaxTokens(f) = Limit(a)
    BY <1>1, <1>5, <2>3, OneLimit
  <2>5. f.thinking = (a.thinking /\ client # "gemini")
    BY <1>1, <1>5, <2>2, <2>3 DEF AskShape, FieldShape, CanAsk
  <2>6. f.stop = a.stop /\ f.reasoning_effort = a.effort
    BY <1>1, <1>5, <2>2, <2>3 DEF AskShape, FieldShape, CanAsk
  <2> QED
    BY <1>1, <1>5, <2>2, <2>3, <2>4, <2>5, <2>6, WordsCases
      DEF AskShape, Pivoted
<1> QED
  BY <1>2, <1>3, <1>4, <1>5 DEF Clients

-----------------------------------------------------------------------------
(* Limits *)

\* Of a set of two numbers, the smaller.
LEMMA MinOfTwo ==
  ASSUME NEW a \in Int, NEW b \in Int
  PROVE  Min({a, b}) = IF a <= b THEN a ELSE b
<1> DEFINE m == IF a <= b THEN a ELSE b
<1>1. m \in {a, b} /\ \A y \in {a, b} : m <= y
  OBVIOUS
<1>2. \A x \in {a, b} : (\A y \in {a, b} : x <= y) => x = m
  OBVIOUS
<1> QED
  BY <1>1, <1>2 DEF Min

\* And the greater.
LEMMA MaxOfTwo ==
  ASSUME NEW a \in Int, NEW b \in Int
  PROVE  Max({a, b}) = IF a <= b THEN b ELSE a
<1> DEFINE m == IF a <= b THEN b ELSE a
<1>1. m \in {a, b} /\ \A y \in {a, b} : m >= y
  OBVIOUS
<1>2. \A x \in {a, b} : (\A y \in {a, b} : x >= y) => x = m
  OBVIOUS
<1> QED
  BY <1>1, <1>2 DEF Max

\* Some pattern of the table is the first (getModelMaxOutput).
LEMMA FirstHit ==
  ASSUME NEW hits \in SUBSET (1 .. 6), hits # {}
  PROVE  Min(hits) \in hits
<1>1. \E x \in hits : \A y \in hits : x <= y
  <2>1. \A x \in hits : x \in {1, 2, 3, 4, 5, 6}
    OBVIOUS
  <2>2. CASE 1 \in hits
    BY <2>2
  <2>3. CASE 1 \notin hits /\ 2 \in hits
    BY <2>3
  <2>4. CASE 1 \notin hits /\ 2 \notin hits /\ 3 \in hits
    BY <2>4
  <2>5. CASE 1 \notin hits /\ 2 \notin hits /\ 3 \notin hits /\ 4 \in hits
    BY <2>5
  <2>6. CASE hits \subseteq {5, 6} /\ 5 \in hits
    BY <2>6
  <2>7. CASE hits = {6}
    BY <2>7
  <2> QED
    BY <2>1, <2>2, <2>3, <2>4, <2>5, <2>6, <2>7
<1> QED
  BY <1>1 DEF Min

\* Every model has a ceiling on its output, of 8192 tokens at least
\* (getModelMaxOutput, MODEL_MAX_OUTPUT).
LEMMA CeilingAtLeast ==
  ASSUME NEW model
  PROVE  getModelMaxOutput(model) \in Nat /\ getModelMaxOutput(model) >= 8192
<1> DEFINE hits == {i \in DOMAIN MODEL_MAX_OUTPUT : MODEL_MAX_OUTPUT[i][1] \in Patterns[model]}
<1>1. DOMAIN MODEL_MAX_OUTPUT = 1 .. 6
  BY DEF MODEL_MAX_OUTPUT
<1>2. \A i \in 1 .. 6 : MODEL_MAX_OUTPUT[i][2] \in Nat /\ MODEL_MAX_OUTPUT[i][2] >= 8192
  BY DEF MODEL_MAX_OUTPUT
<1>3. CASE hits = {}
  BY <1>3 DEF getModelMaxOutput
<1>4. CASE hits # {}
  <2>1. Min(hits) \in hits
    BY <1>1, <1>4, FirstHit
  <2> QED
    BY <1>1, <1>2, <1>4, <2>1 DEF getModelMaxOutput
<1> QED
  BY <1>3, <1>4

\* A limit for a Claude model is what was asked, lowered to the ceiling, and
\* the default where nothing was asked (resolveMaxTokens, clampMaxTokens).
LEMMA LimitResolved ==
  ASSUME NEW f \in FieldShape, NEW model,
         NEW top, top = getModelMaxOutput(model),
         NEW asked, asked = readMaxTokens(f)
  PROVE  /\ asked \in Nat
         /\ resolveMaxTokens(f, model) \in 1 .. top
         /\ asked > 0 => resolveMaxTokens(f, model) = IF asked <= top THEN asked ELSE top
<1>1. top \in Nat /\ top >= 8192
  BY CeilingAtLeast
<1>2. asked \in Nat
  BY DEF readMaxTokens, FieldShape
<1> DEFINE n == IF asked > 0 THEN asked ELSE CLAUDE_DEFAULT_MAX_TOKENS
<1>3. n \in Nat /\ n >= 1
  BY <1>2 DEF CLAUDE_DEFAULT_MAX_TOKENS
<1>4. resolveMaxTokens(f, model) = Min({n, top})
  BY <1>3 DEF resolveMaxTokens, clampMaxTokens
<1>5. Min({n, top}) = IF n <= top THEN n ELSE top
  BY <1>1, <1>3, MinOfTwo
<1> QED
  BY <1>1, <1>2, <1>3, <1>4, <1>5

\* A thinking budget is 1024 at least, and less than exactly the limits above
\* that.
LEMMA BudgetFits ==
  ASSUME NEW limit \in Nat
  PROVE  /\ thinkingBudget(limit) >= 1024
         /\ thinkingBudget(limit) < limit <=> limit > 1024
<1>1. limit \div 2 \in Int /\ (limit > 0 => limit \div 2 < limit)
  OBVIOUS
<1>2. Max({1024, limit \div 2}) = IF 1024 <= limit \div 2 THEN limit \div 2 ELSE 1024
  BY <1>1, MaxOfTwo
<1> QED
  BY <1>1, <1>2 DEF thinkingBudget

-----------------------------------------------------------------------------
(* Providers *)

\* Each provider's translator, by its name (encodeParameters).
LEMMA EncodeCases ==
  ASSUME NEW f, NEW model
  PROVE  /\ encodeParameters("openai", f, model) = openAIParameters(f)
         /\ encodeParameters("responses", f, model) = responsesParameters(f)
         /\ encodeParameters("claude", f, model) = claudeParameters(f, model)
         /\ encodeParameters("gemini", f, model) = geminiParameters(f)
         /\ encodeParameters("ollama", f, model) = ollamaParameters(f)
         /\ encodeParameters("kiro", f, model) = toolsOnly(f)
         /\ encodeParameters("cursor", f, model) = toolsOnly(f)
         /\ encodeParameters("web", f, model) = Wire
BY Zenon DEF encodeParameters

\* An OpenAI provider is told everything, in its own fields.
LEMMA ToldOpenAI ==
  ASSUME NEW f \in FieldShape
  PROVE  LET w == openAIParameters(f)
         IN  /\ w.limit = readMaxTokens(f)
             /\ w.temperature = f.temperature /\ w.stop = f.stop /\ w.tools = f.tools
             /\ w.thinking = IF f.thinking THEN "enabled" ELSE ""
             /\ w.effort = f.reasoning_effort
             /\ w.choice = f.tool_choice
BY DEF openAIParameters, ollamaParameters, Wire, FieldShape, Absent

\* The Responses API is told neither stop sequences nor thinking.
LEMMA ToldResponses ==
  ASSUME NEW f \in FieldShape
  PROVE  LET w == responsesParameters(f)
         IN  /\ w.limit = readMaxTokens(f)
             /\ w.temperature = f.temperature /\ w.tools = f.tools
             /\ w.thinking = "" /\ w.effort = f.reasoning_effort
BY DEF responsesParameters, Wire, FieldShape, Absent

\* Ollama is told of sampling, limit and stop sequences alone.
LEMMA ToldOllama ==
  ASSUME NEW f \in FieldShape
  PROVE  LET w == ollamaParameters(f)
         IN  /\ w.limit = readMaxTokens(f)
             /\ w.temperature = f.temperature /\ w.stop = f.stop /\ w.tools = f.tools
             /\ w.thinking = "" /\ w.effort = ""
BY DEF ollamaParameters, Wire, FieldShape, Absent

\* mapFunctionCallingConfig keeps the name of a function.
LEMMA CallingConfig ==
  /\ mapFunctionCallingConfig("required") = "ANY"
  /\ mapFunctionCallingConfig("read") = "read"
  /\ mapFunctionCallingConfig("write") = "write"
BY Zenon DEF mapFunctionCallingConfig

\* Gemini is told of thinking for every effort, and of a choice where there
\* are tools to choose from.
LEMMA ToldGemini ==
  ASSUME NEW f \in FieldShape
  PROVE  LET w == geminiParameters(f)
         IN  /\ w.limit = readMaxTokens(f)
             /\ w.temperature = f.temperature /\ w.stop = f.stop /\ w.tools = f.tools
             /\ w.thinking = IF f.thinking \/ f.reasoning_effort # "" THEN "includeThoughts" ELSE ""
             /\ w.effort = ""
             /\ f.tools => w.choice = mapFunctionCallingConfig(f.tool_choice)
BY DEF geminiParameters, Wire, FieldShape, Absent

\* Kiro and Cursor are told of the tools, the web front ends of nothing.
LEMMA ToldMute ==
  ASSUME NEW f \in FieldShape
  PROVE  /\ toolsOnly(f).tools = f.tools
         /\ toolsOnly(f).thinking = "" /\ toolsOnly(f).effort = ""
         /\ Wire.thinking = "" /\ Wire.effort = "" 
BY DEF toolsOnly, Wire, FieldShape, Absent

\* applyThinking, without its CASE.
LEMMA ThinkingCases ==
  ASSUME NEW base, NEW f, NEW model
  PROVE  /\ claudeSupportsAdaptive(model) =>
              applyThinking(base, f, model) =
                [base EXCEPT !.thinking = IF wantsThinking(f) THEN "adaptive" ELSE "",
                             !.effort   = IF f.reasoning_effort = "" THEN ""
                                          ELSE clampClaudeEffort(f.reasoning_effort, model)]
         /\ ~claudeSupportsAdaptive(model) /\ wantsThinking(f) =>
              applyThinking(base, f, model) =
                [base EXCEPT !.thinking = "enabled", !.budget = thinkingBudget(base.limit)]
         /\ ~claudeSupportsAdaptive(model) /\ ~wantsThinking(f) =>
              applyThinking(base, f, model) = base
BY Zenon DEF applyThinking

\* A Claude model is told of the effort asked for, or of "high".
LEMMA EffortClamped ==
  ASSUME NEW effort, NEW model
  PROVE  clampClaudeEffort(effort, model) \in {effort, "high"}
BY Zenon DEF clampClaudeEffort

\* A model that decides alone is told of an effort it knows.
LEMMA EffortKnown ==
  ASSUME NEW effort, NEW model, claudeSupportsAdaptive(model)
  PROVE  clampClaudeEffort(effort, model) \in EffortsOf(model)
<1> DEFINE word == clampClaudeEffort(effort, model)
<1>1. \/ word \in {"low", "medium", "high", "max"}
      \/ word = "xhigh" /\ classifyClaudeModel(model) = "adaptive-only"
  BY Zenon DEF clampClaudeEffort
<1> HIDE DEF word
<1>2. CASE classifyClaudeModel(model) = "adaptive-only"
  <2>1. EffortsOf(model) = {"low", "medium", "high", "xhigh", "max"}
    BY <1>2, Zenon DEF EffortsOf
  <2> QED
    BY <1>1, <2>1 DEF word
<1>3. CASE classifyClaudeModel(model) = "adaptive-pref"
  <2>1. EffortsOf(model) = {"low", "medium", "high", "max"}
    BY <1>3, Zenon DEF EffortsOf
  <2> QED
    BY <1>1, <1>3, <2>1 DEF word
<1> QED
  BY <1>2, <1>3 DEF claudeSupportsAdaptive

\* What a Claude model is told: the limit within its ceiling, sampling where it
\* has it, and thinking by its own lights (adaptive) or on a budget.
ToldAClaude(f, model, w) ==
  /\ w.limit = resolveMaxTokens(f, model)
  /\ w.temperature = (f.temperature /\ claudeSupportsSampling(model))
  /\ w.stop = f.stop /\ w.tools = f.tools
  /\ w.choice = IF f.tool_choice = "required" THEN "any" ELSE f.tool_choice
  /\ claudeSupportsAdaptive(model) =>
       /\ w.thinking = IF wantsThinking(f) THEN "adaptive" ELSE ""
       /\ w.budget = 0
       /\ w.effort # "" => /\ f.reasoning_effort # ""
                           /\ w.effort \in {f.reasoning_effort, "high"}
                           /\ w.effort \in EffortsOf(model)
  /\ ~claudeSupportsAdaptive(model) =>
       /\ w.thinking = IF wantsThinking(f) THEN "enabled" ELSE ""
       /\ w.budget # 0 => w.budget = thinkingBudget(w.limit)
       /\ w.effort = ""

\* claudeParameters tells it that.
LEMMA ToldClaude ==
  ASSUME NEW f \in FieldShape, NEW model
  PROVE  ToldAClaude(f, model, claudeParameters(f, model))
<1> DEFINE sampled == f.temperature /\ claudeSupportsSampling(model)
           choice  == IF f.tool_choice = "required" THEN "any" ELSE f.tool_choice
           limit   == resolveMaxTokens(f, model)
           base    == [Wire EXCEPT !.limit = limit, !.temperature = sampled, !.stop = f.stop,
                                   !.tools = f.tools, !.choice = choice]
           w       == claudeParameters(f, model)
<1>1. w = applyThinking(base, f, model)
  BY Zenon DEF claudeParameters
<1> HIDE DEF sampled, choice, limit, w
<1>2. /\ base.limit = limit /\ base.temperature = sampled /\ base.stop = f.stop
      /\ base.tools = f.tools /\ base.choice = choice
      /\ base.thinking = "" /\ base.budget = 0 /\ base.effort = ""
      /\ DOMAIN base = {"limit", "temperature", "stop", "thinking", "budget", "effort",
                        "tools", "choice"}
  BY DEF Wire, Absent
<1> HIDE DEF base
<1> USE <1>1, <1>2, ThinkingCases
<1>3. CASE claudeSupportsAdaptive(model)
  <2> DEFINE effort   == IF f.reasoning_effort = "" THEN ""
                         ELSE clampClaudeEffort(f.reasoning_effort, model)
             thinking == IF wantsThinking(f) THEN "adaptive" ELSE ""
  <2>1. w = [base EXCEPT !.thinking = thinking, !.effort = effort]
    BY <1>3
  <2>2. effort # "" => /\ f.reasoning_effort # ""
                       /\ effort \in {f.reasoning_effort, "high"}
                       /\ effort \in EffortsOf(model)
    BY <1>3, EffortClamped, EffortKnown
  <2> HIDE DEF effort, thinking
  <2>3. /\ w.thinking = thinking /\ w.effort = effort
        /\ w.limit = limit /\ w.temperature = sampled /\ w.stop = f.stop
        /\ w.tools = f.tools /\ w.choice = choice /\ w.budget = 0
    BY <2>1
  <2> QED
    BY <1>3, <2>2, <2>3 DEF ToldAClaude, thinking, limit, sampled, choice, w
<1>4. CASE ~claudeSupportsAdaptive(model) /\ wantsThinking(f)
  <2>1. w = [base EXCEPT !.thinking = "enabled", !.budget = thinkingBudget(base.limit)]
    BY <1>4
  <2>2. /\ w.thinking = "enabled" /\ w.effort = "" /\ w.budget = thinkingBudget(w.limit)
        /\ w.limit = limit /\ w.temperature = sampled /\ w.stop = f.stop
        /\ w.tools = f.tools /\ w.choice = choice
    BY <2>1
  <2> QED
    BY <1>4, <2>2 DEF ToldAClaude, limit, sampled, choice, w
<1>5. CASE ~claudeSupportsAdaptive(model) /\ ~wantsThinking(f)
  <2>1. w = base
    BY <1>5
  <2> QED
    BY <1>5, <2>1 DEF ToldAClaude, limit, sampled, choice, w
<1> QED
  BY <1>3, <1>4, <1>5 DEF w

-----------------------------------------------------------------------------
(* Both translators *)

\* What the pivot has, an OpenAI provider hears.
LEMMA OpenAIHears ==
  ASSUME NEW a \in AskShape, CanAsk(a), NEW f, Pivoted(a, f), NEW model
  PROVE  AskHeard(a, openAIParameters(f), "openai", model)
<1> DEFINE w == openAIParameters(f)
<1>1. /\ w.limit = Limit(a)
      /\ w.temperature = a.temperature /\ w.stop = a.stop /\ w.tools = a.tools
      /\ w.thinking = IF f.thinking THEN "enabled" ELSE ""
      /\ w.effort = a.effort
      /\ w.choice = f.tool_choice
  BY ToldOpenAI DEF Pivoted
<1> HIDE DEF w
<1>2. a.choice # Must => a.choice \in {"", "read", "write"}
  BY DEF AskShape, Functions
<1> QED
  BY <1>1, <1>2 DEF AskHeard, Pivoted, Limit, w

\* So does one of the Responses API.
LEMMA ResponsesHears ==
  ASSUME NEW a \in AskShape, CanAsk(a), NEW f, Pivoted(a, f), NEW model
  PROVE  AskHeard(a, responsesParameters(f), "responses", model)
<1> DEFINE w == responsesParameters(f)
<1>1. /\ w.limit = Limit(a)
      /\ w.temperature = a.temperature /\ w.tools = a.tools
      /\ w.thinking = "" /\ w.effort = a.effort
  BY ToldResponses DEF Pivoted
<1> HIDE DEF w
<1> QED
  BY <1>1 DEF AskHeard, Limit, w

\* And Ollama.
LEMMA OllamaHears ==
  ASSUME NEW a \in AskShape, CanAsk(a), NEW f, Pivoted(a, f), NEW model
  PROVE  AskHeard(a, ollamaParameters(f), "ollama", model)
<1> DEFINE w == ollamaParameters(f)
<1>1. /\ w.limit = Limit(a)
      /\ w.temperature = a.temperature /\ w.stop = a.stop /\ w.tools = a.tools
      /\ w.thinking = "" /\ w.effort = ""
  BY ToldOllama DEF Pivoted
<1> HIDE DEF w
<1> QED
  BY <1>1 DEF AskHeard, Limit, w

\* And Gemini, which is told of thinking in its own words.
LEMMA GeminiHears ==
  ASSUME NEW a \in AskShape, CanAsk(a), NEW f, Pivoted(a, f), NEW model
  PROVE  AskHeard(a, geminiParameters(f), "gemini", model)
<1> DEFINE w == geminiParameters(f)
<1>1. /\ w.limit = Limit(a)
      /\ w.temperature = a.temperature /\ w.stop = a.stop /\ w.tools = a.tools
      /\ w.thinking = IF f.thinking \/ a.effort # "" THEN "includeThoughts" ELSE ""
      /\ w.effort = ""
      /\ a.tools => w.choice = mapFunctionCallingConfig(f.tool_choice)
  BY ToldGemini DEF Pivoted
<1> HIDE DEF w
<1>2. a.choice # "" /\ client \in {"openai", "claude"} =>
        w.choice = IF a.choice = Must THEN "ANY" ELSE a.choice
  <2> SUFFICES ASSUME a.choice # "", client \in {"openai", "claude"}
               PROVE  w.choice = IF a.choice = Must THEN "ANY" ELSE a.choice
    OBVIOUS
  <2>1. w.choice = mapFunctionCallingConfig(f.tool_choice)
    BY <1>1 DEF CanAsk
  <2>2. f.tool_choice = IF a.choice = Must THEN "required" ELSE a.choice
    BY DEF Pivoted
  <2>3. a.choice \in {Must, "read", "write"}
    BY DEF AskShape, Functions
  <2> QED
    BY <2>1, <2>2, <2>3, CallingConfig DEF Must
<1>3. f.thinking = (a.thinking /\ client # "gemini")
  BY DEF Pivoted
<1> QED
  BY <1>1, <1>2, <1>3 DEF AskHeard, Limit, w

\* And Claude, within what its model allows.
LEMMA ClaudeHears ==
  ASSUME NEW a \in AskShape, CanAsk(a), NEW f, Pivoted(a, f), NEW model
  PROVE  AskHeard(a, claudeParameters(f, model), "claude", model)
<1> DEFINE w == claudeParameters(f, model)
<1>1. ToldAClaude(f, model, w)
  BY ToldClaude DEF Pivoted
<1> HIDE DEF w
<1>2. PICK top : top = getModelMaxOutput(model)
  OBVIOUS
<1>3. /\ w.limit \in 1 .. top
      /\ Limit(a) > 0 => w.limit = IF Limit(a) <= top THEN Limit(a) ELSE top
      /\ Limit(a) \in Nat /\ top \in Nat
  <2>1. f \in FieldShape /\ Limit(a) = readMaxTokens(f) /\ w.limit = resolveMaxTokens(f, model)
    BY <1>1 DEF ToldAClaude, Pivoted
  <2>2. top \in Nat
    BY <1>2, CeilingAtLeast
  <2> QED
    BY <1>2, <2>1, <2>2, LimitResolved
<1>4. /\ w.limit > 0
      /\ Limit(a) > 0 => w.limit = Limit(a) \/ (w.limit = top /\ w.limit < Limit(a))
  BY <1>3
<1>5. wantsThinking(f) <=> (a.thinking /\ client # "gemini") \/ a.effort \in {"high", "max"}
  BY DEF wantsThinking, Pivoted
<1>6. wantsThinking(f) <=> w.thinking # ""
  BY <1>1 DEF ToldAClaude
<1>7. w.effort # "" => w.effort \in {a.effort, "high"}
  BY <1>1 DEF ToldAClaude, Pivoted
<1>8. a.choice # "" /\ client \in {"openai", "claude"} =>
        w.choice = IF a.choice = Must THEN "any" ELSE a.choice
  BY <1>1 DEF ToldAClaude, Pivoted, AskShape, Functions, Must
<1>9. /\ w.temperature = (a.temperature /\ claudeSupportsSampling(model))
      /\ w.stop = a.stop /\ w.tools = a.tools
  BY <1>1 DEF ToldAClaude, Pivoted
<1> QED
  BY <1>2, <1>4, <1>5, <1>6, <1>7, <1>8, <1>9 DEF AskHeard, Limit, w

\* Kiro, Cursor and the web front ends hear of the tools or of nothing.
LEMMA MuteHear ==
  ASSUME NEW a \in AskShape, CanAsk(a), NEW f, Pivoted(a, f), NEW model
  PROVE  /\ AskHeard(a, toolsOnly(f), "kiro", model)
         /\ AskHeard(a, toolsOnly(f), "cursor", model)
         /\ AskHeard(a, Wire, "web", model)
<1>1. /\ toolsOnly(f).tools = a.tools
      /\ toolsOnly(f).thinking = "" /\ toolsOnly(f).effort = ""
      /\ Wire.thinking = "" /\ Wire.effort = ""
  BY ToldMute DEF Pivoted
<1> QED
  BY <1>1 DEF AskHeard

\* Every provider hears what a client may ask for.
LEMMA AllHear ==
  ASSUME client \in Clients, NEW a \in AskShape, CanAsk(a), NEW p \in Providers, NEW model
  PROVE  AskHeard(a, encodeParameters(p, decodeParameters(client, InWords(a)), model), p, model)
<1> DEFINE f == decodeParameters(client, InWords(a))
<1>1. Pivoted(a, f)
  BY PivotOfAsk
<1> HIDE DEF f
<1>2. AskHeard(a, encodeParameters(p, f, model), p, model)
  <2>1. CASE p = "openai"
    BY <1>1, <2>1, EncodeCases, OpenAIHears
  <2>2. CASE p = "responses"
    BY <1>1, <2>2, EncodeCases, ResponsesHears
  <2>3. CASE p = "claude"
    BY <1>1, <2>3, EncodeCases, ClaudeHears
  <2>4. CASE p = "gemini"
    BY <1>1, <2>4, EncodeCases, GeminiHears
  <2>5. CASE p = "ollama"
    BY <1>1, <2>5, EncodeCases, OllamaHears
  <2>6. CASE p \in {"kiro", "cursor", "web"}
    BY <1>1, <2>6, EncodeCases, MuteHear
  <2> QED
    BY <2>1, <2>2, <2>3, <2>4, <2>5, <2>6 DEF Providers
<1> QED
  BY <1>2 DEF f

\* And the parameters of a Claude model are as ParametersFit says.
LEMMA ClaudeFits ==
  ASSUME client \in Clients, NEW a \in AskShape, CanAsk(a), NEW model
  PROVE  ParametersFit(encodeParameters("claude", decodeParameters(client, InWords(a)), model),
                       model)
<1> DEFINE f == decodeParameters(client, InWords(a))
           w == claudeParameters(f, model)
<1>1. f \in FieldShape
  BY PivotOfAsk DEF Pivoted
<1> HIDE DEF f
<1>2. ToldAClaude(f, model, w)
  BY <1>1, ToldClaude
<1>3. encodeParameters("claude", f, model) = w
  BY EncodeCases
<1> HIDE DEF w
<1>4. PICK top : top = getModelMaxOutput(model)
  OBVIOUS
<1>5. top \in Nat /\ w.limit \in 1 .. top
  <2>1. w.limit = resolveMaxTokens(f, model)
    BY <1>2 DEF ToldAClaude
  <2> QED
    BY <1>1, <1>4, <2>1, LimitResolved, CeilingAtLeast
<1>6. w.budget # 0 => /\ w.budget >= 1024
                      /\ w.budget < w.limit <=> w.limit > 1024
                      /\ ~claudeSupportsAdaptive(model)
  <2> SUFFICES ASSUME w.budget # 0
               PROVE  /\ w.budget >= 1024
                      /\ w.budget < w.limit <=> w.limit > 1024
                      /\ ~claudeSupportsAdaptive(model)
    OBVIOUS
  <2>1. ~claudeSupportsAdaptive(model) /\ w.budget = thinkingBudget(w.limit)
    BY <1>2 DEF ToldAClaude
  <2>2. w.limit \in Nat
    BY <1>5
  <2> QED
    BY <2>1, <2>2, BudgetFits
<1>7. /\ w.temperature => claudeSupportsSampling(model)
      /\ w.effort # "" => w.effort \in EffortsOf(model)
  BY <1>2 DEF ToldAClaude
<1>8. ParametersFit(w, model)
  <2>1. w.limit \in 1 .. getModelMaxOutput(model)
    BY <1>4, <1>5
  <2>2. w.budget # Absent => /\ w.budget >= 1024
                             /\ w.budget < w.limit <=> w.limit > 1024
                             /\ ~claudeSupportsAdaptive(model)
    BY <1>6 DEF Absent
  <2>3. /\ w.temperature => claudeSupportsSampling(model)
        /\ w.effort # "" => w.effort \in EffortsOf(model)
    BY <1>7
  <2> QED
    BY <2>1, <2>2, <2>3, ZenonT(60) DEF ParametersFit
<1> QED
  BY <1>3, <1>8 DEF f

-----------------------------------------------------------------------------
(* The requests *)

\* A request on its way was made by Send: its parameters are the translators'
\* of something the client may ask for.
RequestInv ==
  /\ client \in Clients
  /\ InTransit =>
       /\ request.provider \in Providers
       /\ request.asked \in AskShape /\ CanAsk(request.asked)
       /\ request.parameters =
            encodeParameters(request.provider, decodeParameters(client, InWords(request.asked)),
                             request.model)

\* What the client asks for after its first answer, it may ask for.
LEMMA PlainIsAsked ==
  ASSUME client \in Clients
  PROVE  Plain \in AskShape /\ CanAsk(Plain)
<1> DEFINE n == CLAUDE_DEFAULT_MAX_TOKENS
<1>1. n \in Nat /\ n > 0
  BY DEF CLAUDE_DEFAULT_MAX_TOKENS
<1>2. Ask \in AskShape
  BY DEF Ask, AskShape, Absent, Efforts
<1>3. \A a \in AskShape, m \in Nat, b \in BOOLEAN :
        [a EXCEPT !.limit = m, !.tools = b] \in AskShape
  BY DEF AskShape
<1>4. Plain \in AskShape
  BY <1>1, <1>2, <1>3, Zenon DEF Plain
<1>5. Plain.limit = n /\ Plain.older = 0
  BY DEF Plain, Ask, Absent
<1>6. ~Plain.stop /\ ~Plain.thinking /\ Plain.effort = "" /\ Plain.choice = ""
  BY DEF Plain, Ask
<1>7. Plain.limit # Absent /\ ~(Plain.older > 0)
  BY <1>1, <1>5 DEF Absent
<1> QED
  BY <1>4, <1>6, <1>7 DEF CanAsk

\* Send makes such a request, and no other step makes or changes one.
LEMMA RequestInvStep == RequestInv /\ [Next]_vars => RequestInv'
<1> SUFFICES ASSUME RequestInv, [Next]_vars
             PROVE  RequestInv'
  OBVIOUS
<1>1. ASSUME NEW kind \in UserKinds, UserSays(kind)
      PROVE  RequestInv'
  BY <1>1 DEF RequestInv, UserSays, InTransit
<1>2. CASE UserSpeaks
  BY <1>2 DEF RequestInv, UserSpeaks, InTransit
<1>3. ASSUME NEW backwards \in BOOLEAN, NEW comments \in BOOLEAN, ToolsRun(backwards, comments)
      PROVE  RequestInv'
  BY <1>3 DEF RequestInv, ToolsRun, InTransit
<1>4. ASSUME NEW p \in Providers, NEW model \in Models, NEW ask \in Asks \cup {Plain},
             Send(p, model, ask)
      PROVE  RequestInv'
  <2>1. client' = client /\ client \in Clients
    BY <1>4 DEF Send, RequestInv
  <2>2. ask \in AskShape /\ CanAsk(ask)
    BY <1>4, <2>1, PlainIsAsked, ConversationAssumption DEF Send, ConversationAssumption
  <2>3. /\ request'.provider = p /\ request'.model = model /\ request'.asked = ask
        /\ request'.parameters =
             encodeParameters(p, decodeParameters(client, InWords(ask)), model)
    BY <1>4 DEF Send
  <2>4. CanAsk(ask)' /\ InWords(ask)' = InWords(ask)
    BY <2>1, <2>2 DEF CanAsk, InWords, MustWord
  <2> QED
    BY <2>1, <2>2, <2>3, <2>4 DEF RequestInv
<1>5. ASSUME NEW shape \in Shapes, NEW outcome, NEW cut \in BOOLEAN,
             ProviderAnswers(shape, outcome, cut)
      PROVE  RequestInv'
  BY <1>5 DEF RequestInv, ProviderAnswers, InTransit
<1>6. CASE ProviderFails
  BY <1>6 DEF RequestInv, ProviderFails, InTransit
<1>7. CASE UNCHANGED vars
  BY <1>7 DEF RequestInv, vars, InTransit, CanAsk, InWords, MustWord
<1> QED
  BY <1>1, <1>2, <1>3, <1>4, <1>5, <1>6, <1>7 DEF Next

\* No request is on its way at the start.
LEMMA RequestInvInit == Init => RequestInv
BY DEF Init, RequestInv, InTransit

\* In every reachable state, a request on its way is one a client may make.
LEMMA RequestInvAlways == Spec => []RequestInv
BY RequestInvInit, RequestInvStep, PTL DEF Spec

-----------------------------------------------------------------------------
(* Theorems about requests *)

\* Whatever a client may ask for, and whatever the conversation before it, the
\* provider hears it, apart from the known losses (ParametersHeard).
THEOREM RequestsAreHeard == Spec => []ParametersHeard
<1>1. RequestInv => ParametersHeard
  BY AllHear DEF RequestInv, ParametersHeard
<1> QED
  BY <1>1, RequestInvAlways, PTL

\* A Claude model is never asked for more output than its ceiling, for sampling
\* or a budget where it decides alone, for a budget below 1024 or for an effort
\* it does not know; its budget is below the limit on output exactly when that
\* limit is above 1024 (ClaudeAccepts, the part of RequestIsLegal that is about
\* the parameters).
THEOREM ClaudeAcceptsRequests == Spec => []ClaudeAccepts
<1>1. RequestInv => ClaudeAccepts
  BY ClaudeFits DEF RequestInv, ClaudeAccepts
<1> QED
  BY <1>1, RequestInvAlways, PTL

-----------------------------------------------------------------------------
(* What the loops of the translators do with sequences *)

\* The loop that puts sequences together, for the induction of FoldLaws.
Joined(s, t) == s \o t

Joining == INSTANCE FoldLaws WITH op <- Joined

(* A set of sequences that has the empty one, and with each sequence those
   that are one element longer, has them all. *)
LEMMA SeqInduction ==
  ASSUME NEW E, NEW T \in SUBSET Seq(E), <<>> \in T, \A s \in T, e \in E : Append(s, e) \in T
  PROVE  T = Seq(E)
<1> DEFINE U == {n \in Nat : \A s \in Seq(E) : Len(s) = n => s \in T}
<1>1. 0 \in U
  OBVIOUS
<1>2. ASSUME NEW n \in U PROVE n + 1 \in U
  <2> SUFFICES ASSUME NEW s \in Seq(E), Len(s) = n + 1
               PROVE  s \in T
    OBVIOUS
  <2>1. n \in Nat /\ \A q \in Seq(E) : Len(q) = n => q \in T
    BY <1>2
  <2> DEFINE r == [i \in 1 .. n |-> s[i]]
  <2>2. r \in Seq(E) /\ Len(r) = n /\ s[n + 1] \in E /\ s = Append(r, s[n + 1])
    BY <2>1
  <2> HIDE DEF r, U
  <2>3. r \in T
    BY <2>1, <2>2
  <2> QED
    BY <2>2, <2>3
<1>3. U = Nat
  <2>1. U \in SUBSET Nat /\ \A n \in U : n + 1 \in U
    BY <1>2
  <2> HIDE DEF U
  <2> QED
    BY <1>1, <2>1, Joining!SetInduction
<1>4. ASSUME NEW s \in Seq(E) PROVE s \in T
  <2>1. Len(s) \in U
    BY <1>3
  <2> QED
    BY <2>1
<1> QED
  BY <1>4

(* The function FlattenSeq chooses exists. *)
LEMMA FlattenDefined ==
  ASSUME NEW seqs, NEW n \in Nat
  PROVE  \E f : f = [i \in 1 .. n |-> IF i = 1 THEN seqs[i] ELSE f[i - 1] \o seqs[i]]
<1> DEFINE Upto(k, f) == f = [i \in 1 .. k |-> IF i = 1 THEN seqs[i] ELSE f[i - 1] \o seqs[i]]
           T == {k \in Nat : \E f : Upto(k, f)}
<1>1. 0 \in T
  <2>1. Upto(0, [i \in 1 .. 0 |-> i])
    OBVIOUS
  <2> HIDE DEF Upto
  <2> QED
    BY <2>1
<1>2. ASSUME NEW k \in T PROVE k + 1 \in T
  <2> PICK f : Upto(k, f)
    OBVIOUS
  <2> DEFINE g == [i \in 1 .. k + 1 |-> IF i # k + 1 THEN f[i]
                                        ELSE IF i = 1 THEN seqs[i] ELSE f[k] \o seqs[i]]
  <2>1. k \in Nat
    OBVIOUS
  <2>2. ASSUME NEW i \in 1 .. k + 1
        PROVE  g[i] = IF i = 1 THEN seqs[i] ELSE g[i - 1] \o seqs[i]
    <3>1. k \in Nat
      BY <2>1
    <3>2. CASE i = 1
      <4>1. i # k + 1 => i \in 1 .. k
        <5> HIDE DEF T, Upto, g
        <5> QED
          BY <3>1, <3>2
      <4> QED
        BY <3>2, <4>1
    <3>3. CASE i # 1 /\ i = k + 1
      <4>1. k \in 1 .. k /\ i - 1 = k
        BY <3>1, <3>3
      <4>2. g[k] = f[k]
        BY <4>1
      <4> QED
        BY <3>3, <4>1, <4>2
    <3>4. CASE i # 1 /\ i # k + 1
      <4>1. i \in 1 .. k /\ i - 1 \in 1 .. k
        <5> HIDE DEF T, Upto, g
        <5> QED
          BY <3>1, <3>4
      <4>2. g[i] = f[i] /\ g[i - 1] = f[i - 1]
        <5>1. i \in 1 .. k + 1 /\ i - 1 \in 1 .. k + 1 /\ i - 1 # k + 1
          <6> HIDE DEF T, Upto, g
          <6> QED
            BY <2>1, <3>4, <4>1
        <5> HIDE DEF T, Upto
        <5> QED
          BY <3>4, <5>1
      <4>3. f[i] = f[i - 1] \o seqs[i]
        BY <3>4, <4>1
      <4> QED
        <5> HIDE DEF Upto, T, g
        <5> QED
          BY <3>4, <4>2, <4>3
    <3> QED
      BY <3>2, <3>3, <3>4
  <2>3. g = [i \in 1 .. k + 1 |-> g[i]]
    OBVIOUS
  <2>4. Upto(k + 1, g)
    <3> HIDE DEF g
    <3> QED
      BY <2>2, <2>3
  <2> HIDE DEF Upto, g
  <2> QED
    BY <2>4
<1>3. T = Nat
  <2>1. T \in SUBSET Nat /\ \A k \in T : k + 1 \in T
    BY <1>2
  <2> HIDE DEF T
  <2> QED
    BY <1>1, <2>1, Joining!SetInduction
<1> QED
  BY <1>3

(* Nothing, put together, is nothing. *)
LEMMA FlattenEmpty == FlattenSeq(<<>>) = <<>>
<1>1. Len(<<>>) = 0
  OBVIOUS
<1> QED
  BY <1>1 DEF FlattenSeq

\* f: what FlattenSeq has of the first i of n sequences.
Flattens(f, n, seqs) == f = [i \in 1 .. n |-> IF i = 1 THEN seqs[i] ELSE f[i - 1] \o seqs[i]]

(* What FlattenSeq does with n sequences. *)
LEMMA FlattenTrace ==
  ASSUME NEW E, NEW n \in Nat, n # 0, NEW s \in Seq(E), Len(s) = n
  PROVE  \E f : Flattens(f, n, s) /\ FlattenSeq(s) = f[n]
<1> DEFINE f == CHOOSE g : Flattens(g, n, s)
<1>1. Flattens(f, n, s)
  <2>1. \E g : Flattens(g, n, s)
    BY FlattenDefined DEF Flattens
  <2> QED
    BY <2>1
<1>2. FlattenSeq(s) = f[n]
  BY DEF FlattenSeq, Flattens
<1> HIDE DEF f
<1> QED
  BY <1>1, <1>2

(* One more sequence comes after the others. *)
LEMMA FlattenAppend ==
  ASSUME NEW E, NEW s \in Seq(Seq(E)), NEW x \in Seq(E)
  PROVE  FlattenSeq(Append(s, x)) = FlattenSeq(s) \o x
<1> DEFINE n == Len(s)
           t == Append(s, x)
<1>1. /\ n \in Nat /\ t \in Seq(Seq(E)) /\ Len(t) = n + 1 /\ t[n + 1] = x
      /\ \A i \in 1 .. n : t[i] = s[i]
  OBVIOUS
<1>2. CASE n = 0
  <2>1. s = <<>>
    BY <1>2
  <2>2. FlattenSeq(s) = <<>>
    BY <2>1, FlattenEmpty
  <2> HIDE DEF n, t
  <2>3. PICK f : Flattens(f, 1, t) /\ FlattenSeq(t) = f[1]
    <3>1. PICK F : F = Seq(E)
      OBVIOUS
    <3>2. t \in Seq(F) /\ Len(t) = 1 /\ 1 \in Nat /\ 1 # 0
      BY <1>1, <1>2, <3>1
    <3> QED
      BY <3>2, FlattenTrace
  <2>4. f[1] = x
    BY <1>1, <1>2, <2>3 DEF Flattens
  <2> QED
    BY <2>2, <2>3, <2>4 DEF t
<1>3. CASE n # 0
  <2> HIDE DEF n, t
  <2>1. PICK f : Flattens(f, n + 1, t) /\ FlattenSeq(t) = f[n + 1]
    BY <1>1, <1>3, FlattenTrace
  <2>2. PICK g : Flattens(g, n, s) /\ FlattenSeq(s) = g[n]
    BY <1>1, <1>3, FlattenTrace DEF n
  <2> DEFINE T == {i \in Nat : i + 1 <= n => f[i + 1] = g[i + 1]}
  <2>3. 0 \in T
    BY <1>1, <1>3, <2>1, <2>2 DEF Flattens
  <2>4. ASSUME NEW i \in T PROVE i + 1 \in T
    <3>1. CASE (i + 1) + 1 <= n
      <4> DEFINE j == (i + 1) + 1
      <4>1. /\ j \in 1 .. n /\ j \in 1 .. n + 1 /\ j # 1 /\ j - 1 = i + 1
            /\ f[i + 1] = g[i + 1]
        BY <1>1, <3>1
      <4> HIDE DEF j
      <4>2. f[j] = f[j - 1] \o t[j] /\ g[j] = g[j - 1] \o s[j]
        BY <2>1, <2>2, <4>1 DEF Flattens
      <4>3. f[j] = g[j]
        BY <1>1, <4>1, <4>2
      <4> QED
        BY <4>3 DEF j
    <3> QED
      BY <3>1
  <2>5. T = Nat
    <3>1. T \in SUBSET Nat /\ \A i \in T : i + 1 \in T
      BY <2>4
    <3> HIDE DEF T
    <3> QED
      BY <2>3, <3>1, Joining!SetInduction
  <2>6. f[n] = g[n]
    <3>1. n - 1 \in Nat /\ (n - 1) + 1 = n
      BY <1>1, <1>3
    <3>2. \A i \in Nat : i + 1 <= n => f[i + 1] = g[i + 1]
      BY <2>5
    <3>3. (n - 1) + 1 <= n
      BY <1>1, <3>1
    <3>4. f[(n - 1) + 1] = g[(n - 1) + 1]
      BY <3>1, <3>2, <3>3
    <3> QED
      BY <3>1, <3>4
  <2>7. f[n + 1] = f[n] \o x
    <3>1. n + 1 \in 1 .. n + 1 /\ n + 1 # 1 /\ (n + 1) - 1 = n
      BY <1>1, <1>3
    <3> QED
      BY <1>1, <2>1, <3>1 DEF Flattens
  <2> QED
    BY <2>1, <2>2, <2>6, <2>7 DEF t
<1> QED
  BY <1>2, <1>3

(* One sequence alone is itself. *)
LEMMA FlattenOne ==
  ASSUME NEW E, NEW x \in Seq(E)
  PROVE  FlattenSeq(<<x>>) = x
<1>1. <<>> \in Seq(Seq(E)) /\ <<x>> = Append(<<>>, x) /\ <<>> \o x = x
  OBVIOUS
<1> QED
  BY <1>1, FlattenAppend, FlattenEmpty

-----------------------------------------------------------------------------
(* Picking from a sequence *)

\* The places of 1 .. n that are kept.
Places(n, kept) == FlattenSeq([i \in 1 .. n |-> One(i, kept[i])])

\* A list of sequences with none or one element each, and one more.
LEMMA OnesGrow ==
  ASSUME NEW E, NEW n \in Nat, NEW x, \A i \in 1 .. n + 1 : x[i] \in E,
         NEW kept
  PROVE  FlattenSeq([i \in 1 .. n + 1 |-> One(x[i], kept[i])])
           = FlattenSeq([i \in 1 .. n |-> One(x[i], kept[i])]) \o One(x[n + 1], kept[n + 1])
<1> DEFINE s == [i \in 1 .. n |-> One(x[i], kept[i])]
           e == One(x[n + 1], kept[n + 1])
<1>1. \A i \in 1 .. n + 1 : One(x[i], kept[i]) \in Seq(E)
  BY DEF One
<1>2. s \in Seq(Seq(E)) /\ e \in Seq(E)
  BY <1>1
<1>3. [i \in 1 .. n + 1 |-> One(x[i], kept[i])] = Append(s, e)
  OBVIOUS
<1> HIDE DEF s, e
<1> QED
  BY <1>2, <1>3, FlattenAppend DEF s, e

\* Of no elements, none are kept.
LEMMA OnesOfNone ==
  ASSUME NEW x, NEW kept
  PROVE  FlattenSeq([i \in 1 .. 0 |-> One(x[i], kept[i])]) = <<>>
<1>1. [i \in 1 .. 0 |-> One(x[i], kept[i])] = <<>>
  OBVIOUS
<1> QED
  BY <1>1, FlattenEmpty

\* Of no places, none are kept.
LEMMA NoPlaces == ASSUME NEW kept PROVE Places(0, kept) = <<>> /\ \A i : i \notin 1 .. 0
<1>1. [i \in 1 .. 0 |-> One(i, kept[i])] = <<>>
  OBVIOUS
<1>2. \A i : i \notin 1 .. 0
  OBVIOUS
<1> QED
  BY <1>1, <1>2, FlattenEmpty DEF Places

\* One more place.
LEMMA PlacesGrow ==
  ASSUME NEW m \in Nat, NEW kept
  PROVE  Places(m + 1, kept) = Places(m, kept) \o One(m + 1, kept[m + 1])
<1>1. PICK x : x = [i \in 1 .. m + 1 |-> i]
  OBVIOUS
<1>2. /\ \A i \in 1 .. m + 1 : x[i] \in Nat /\ x[i] = i
      /\ m + 1 \in 1 .. m + 1
      /\ \A i \in 1 .. m : i \in 1 .. m + 1
  BY <1>1
<1>3. /\ [i \in 1 .. m + 1 |-> One(x[i], kept[i])] = [i \in 1 .. m + 1 |-> One(i, kept[i])]
      /\ [i \in 1 .. m |-> One(x[i], kept[i])] = [i \in 1 .. m |-> One(i, kept[i])]
  BY <1>2
<1>4. FlattenSeq([i \in 1 .. m + 1 |-> One(x[i], kept[i])])
        = FlattenSeq([i \in 1 .. m |-> One(x[i], kept[i])]) \o One(x[m + 1], kept[m + 1])
  BY <1>2, OnesGrow
<1> QED
  BY <1>2, <1>3, <1>4 DEF Places

\* The kept places, in order.
LEMMA PlacesAre ==
  ASSUME NEW n \in Nat, NEW kept
  PROVE  /\ Places(n, kept) \in Seq(1 .. n)
         /\ \A j, k \in DOMAIN Places(n, kept) : j < k => Places(n, kept)[j] < Places(n, kept)[k]
         /\ \A i \in 1 .. n : kept[i] <=> \E j \in DOMAIN Places(n, kept) : Places(n, kept)[j] = i
<1> DEFINE P(m) == /\ Places(m, kept) \in Seq(1 .. m)
                   /\ \A j, k \in DOMAIN Places(m, kept) : j < k => Places(m, kept)[j] < Places(m, kept)[k]
                   /\ \A i \in 1 .. m : kept[i] <=> \E j \in DOMAIN Places(m, kept) : Places(m, kept)[j] = i
           T == {m \in Nat : P(m)}
<1>1. 0 \in T
  <2>1. Places(0, kept) = <<>> /\ \A i : i \notin 1 .. 0
    BY NoPlaces
  <2>2. <<>> \in Seq(1 .. 0) /\ DOMAIN <<>> = 1 .. 0
    OBVIOUS
  <2>3. P(0)
    BY <2>1, <2>2
  <2> QED
    BY <2>3
<1>2. ASSUME NEW m \in T PROVE m + 1 \in T
  <2> DEFINE p == Places(m, kept)
             q == Places(m + 1, kept)
  <2>1. m \in Nat /\ P(m)
    OBVIOUS
  <2>2. q = p \o One(m + 1, kept[m + 1])
    BY <2>1, PlacesGrow
  <2>3. p \in Seq(1 .. m)
    OBVIOUS
  <2>4. CASE ~kept[m + 1]
    <3>1. q = p
      BY <2>2, <2>3, <2>4 DEF One
    <3>2. P(m + 1)
      <4> HIDE DEF p, q, T
      <4> QED
        BY <2>1, <2>4, <3>1 DEF p, q
    <3> QED
      BY <2>1, <3>2
  <2>5. CASE kept[m + 1]
    <3>1. q = Append(p, m + 1)
      BY <2>2, <2>3, <2>5 DEF One
    <3>2. P(m + 1)
      <4>1. q \in Seq(1 .. m + 1)
        BY <2>1, <2>3, <3>1
      <4>2. /\ Len(q) = Len(p) + 1 /\ q[Len(p) + 1] = m + 1
            /\ \A j \in 1 .. Len(p) : q[j] = p[j] /\ p[j] \in 1 .. m
            /\ DOMAIN q = 1 .. Len(p) + 1 /\ DOMAIN p = 1 .. Len(p) /\ Len(p) \in Nat
        BY <2>1, <2>3, <3>1
      <4> HIDE DEF p, q, T
      <4>3. \A j, k \in DOMAIN q : j < k => q[j] < q[k]
        BY <2>1, <4>2 DEF p
      <4>4. \A i \in 1 .. m + 1 : kept[i] <=> \E j \in DOMAIN q : q[j] = i
        <5> TAKE i \in 1 .. m + 1
        <5>1. CASE i = m + 1
          BY <2>5, <4>2, <5>1
        <5>2. CASE i # m + 1
          <6>1. i \in 1 .. m
            BY <2>1, <5>2
          <6>2. kept[i] <=> \E j \in DOMAIN p : p[j] = i
            BY <2>1, <6>1 DEF p
          <6>3. (\E j \in DOMAIN p : p[j] = i) <=> (\E j \in DOMAIN q : q[j] = i)
            <7>1. ASSUME NEW j \in DOMAIN p, p[j] = i PROVE j \in DOMAIN q /\ q[j] = i
              BY <4>2, <7>1
            <7>2. ASSUME NEW j \in DOMAIN q, q[j] = i PROVE j \in DOMAIN p /\ p[j] = i
              <8>1. j # Len(p) + 1
                BY <4>2, <5>2, <7>2
              <8>2. j \in 1 .. Len(p)
                BY <4>2, <8>1
              <8> QED
                BY <4>2, <7>2, <8>2
            <7> QED
              BY <7>1, <7>2
          <6> QED
            BY <6>2, <6>3
        <5> QED
          BY <5>1, <5>2
      <4> QED
        BY <4>1, <4>3, <4>4 DEF q
    <3> QED
      BY <2>1, <3>2
  <2> QED
    BY <2>4, <2>5
<1>3. T = Nat
  <2>1. T \in SUBSET Nat /\ \A m \in T : m + 1 \in T
    BY <1>2
  <2> HIDE DEF T
  <2> QED
    BY <1>1, <2>1, Joining!SetInduction
<1> QED
  BY <1>3

\* What is kept of a sequence is what stands at the places that are kept.
LEMMA Picked ==
  ASSUME NEW n \in Nat, NEW x, NEW kept, NEW s, s = [i \in 1 .. n |-> One(x[i], kept[i])],
         NEW places, places = Places(n, kept)
  PROVE  FlattenSeq(s) = [j \in DOMAIN places |-> x[places[j]]]
<1>1. PICK E : E = {x[i] : i \in 1 .. n}
  OBVIOUS
<1>2. \A i \in 1 .. n : x[i] \in E
  BY <1>1
<1> DEFINE P(m) == FlattenSeq([i \in 1 .. m |-> One(x[i], kept[i])])
                     = [j \in DOMAIN Places(m, kept) |-> x[Places(m, kept)[j]]]
           T == {m \in Nat : m <= n => P(m)}
<1>3. 0 \in T
  <2>1. Places(0, kept) = <<>> /\ FlattenSeq([i \in 1 .. 0 |-> One(x[i], kept[i])]) = <<>>
    BY OnesOfNone, NoPlaces
  <2>2. [j \in DOMAIN <<>> |-> x[<<>>[j]]] = <<>>
    OBVIOUS
  <2>3. P(0)
    BY <2>1, <2>2
  <2> QED
    BY <2>3
<1>4. ASSUME NEW m \in T PROVE m + 1 \in T
  <2> SUFFICES ASSUME m + 1 <= n PROVE P(m + 1)
    OBVIOUS
  <2> DEFINE p == Places(m, kept)
             q == Places(m + 1, kept)
  <2>1. m \in Nat /\ P(m) /\ n \in Nat /\ m + 1 <= n /\ \A i \in 1 .. m + 1 : x[i] \in E
    BY <1>2
  <2>2. q = p \o One(m + 1, kept[m + 1])
    BY <2>1, PlacesGrow
  <2>3. FlattenSeq([i \in 1 .. m + 1 |-> One(x[i], kept[i])])
          = FlattenSeq([i \in 1 .. m |-> One(x[i], kept[i])]) \o One(x[m + 1], kept[m + 1])
    BY <2>1, OnesGrow
  <2>4. p \in Seq(1 .. m)
    BY <2>1, PlacesAre
  <2> DEFINE r == [j \in DOMAIN p |-> x[p[j]]]
  <2>5. FlattenSeq([i \in 1 .. m |-> One(x[i], kept[i])]) = r
    BY <2>1
  <2>6. r \in Seq(E) /\ Len(r) = Len(p)
    BY <2>1, <2>4
  <2>7. r \o One(x[m + 1], kept[m + 1]) = [j \in DOMAIN q |-> x[q[j]]]
    <3> HIDE DEF p, q, T, P
    <3>1. CASE ~kept[m + 1]
      <4>1. q = p
        BY <2>2, <2>4, <3>1 DEF One
      <4> QED
        BY <2>6, <3>1, <4>1 DEF One
    <3>2. CASE kept[m + 1]
      <4>1. q = Append(p, m + 1)
        BY <2>2, <2>4, <3>2 DEF One
      <4>2. /\ DOMAIN q = 1 .. Len(p) + 1 /\ q[Len(p) + 1] = m + 1
            /\ \A j \in 1 .. Len(p) : q[j] = p[j]
            /\ DOMAIN p = 1 .. Len(p) /\ Len(p) \in Nat
        BY <2>1, <2>4, <4>1
      <4>3. r \o One(x[m + 1], kept[m + 1]) = Append(r, x[m + 1])
        BY <2>1, <2>6, <3>2 DEF One
      <4>4. Append(r, x[m + 1]) = [j \in DOMAIN q |-> x[q[j]]]
        BY <2>1, <2>6, <4>2
      <4> QED
        BY <4>3, <4>4
    <3> QED
      BY <3>1, <3>2
  <2> QED
    BY <2>3, <2>5, <2>7
<1>5. T = Nat
  <2>1. T \in SUBSET Nat /\ \A m \in T : m + 1 \in T
    BY <1>4
  <2> HIDE DEF T
  <2> QED
    BY <1>3, <2>1, Joining!SetInduction
<1>6. P(n)
  <2>1. n \in T /\ n <= n
    BY <1>5
  <2> QED
    BY <2>1
<1> QED
  BY <1>6

-----------------------------------------------------------------------------
(* Blocks by their types *)

\* A sequence is one over its elements.
LEMMA OverItsElements ==
  ASSUME NEW n \in Nat, NEW s, s = [i \in 1 .. n |-> s[i]]
  PROVE  s \in Seq({s[i] : i \in 1 .. n}) /\ Len(s) = n /\ DOMAIN s = 1 .. n
<1> DEFINE E == {s[i] : i \in 1 .. n}
<1>1. s \in [1 .. n -> E]
  OBVIOUS
<1> HIDE DEF E
<1>2. s \in Seq(E) /\ Len(s) = n /\ DOMAIN s = 1 .. n
  BY <1>1
<1> QED
  BY <1>2 DEF E

\* Of, written out.
LEMMA OfIs ==
  ASSUME NEW s, NEW types
  PROVE  Of(s, types) = FlattenSeq([i \in DOMAIN s |-> One(s[i], s[i].type \in types)])
BY DEF Of, Map

\* One more block.
LEMMA OfAppend ==
  ASSUME NEW E, NEW s \in Seq(E), NEW e \in E, NEW types
  PROVE  Of(Append(s, e), types) = Of(s, types) \o One(e, e.type \in types)
<1> DEFINE f(q) == [i \in DOMAIN q |-> One(q[i], q[i].type \in types)]
<1>1. \A x \in E : One(x, x.type \in types) \in Seq(E)
  BY DEF One
<1>2. f(s) \in Seq(Seq(E))
  <2>1. PICK F : F = Seq(E)
    OBVIOUS
  <2>2. \A i \in DOMAIN s : f(s)[i] \in F
    BY <1>1, <2>1
  <2>3. f(s) \in Seq(F)
    <3>1. DOMAIN s = 1 .. Len(s) /\ Len(s) \in Nat
      OBVIOUS
    <3>2. f(s) \in [1 .. Len(s) -> F]
      BY <2>2, <3>1
    <3> HIDE DEF f
    <3> QED
      BY <3>1, <3>2
  <2> QED
    BY <2>1, <2>3
<1>3. f(Append(s, e)) = Append(f(s), One(e, e.type \in types))
  OBVIOUS
<1>4. Of(s, types) = FlattenSeq(f(s)) /\ Of(Append(s, e), types) = FlattenSeq(f(Append(s, e)))
  BY OfIs
<1> HIDE DEF f
<1> QED
  BY <1>1, <1>2, <1>3, <1>4, FlattenAppend

\* No blocks.
LEMMA OfNothing == ASSUME NEW types PROVE Of(<<>>, types) = <<>>
<1>1. [i \in DOMAIN <<>> |-> One(<<>>[i], <<>>[i].type \in types)] = <<>>
  OBVIOUS
<1> QED
  BY <1>1, OfIs, FlattenEmpty

\* The blocks of some types are blocks.
LEMMA OfTyped ==
  ASSUME NEW E, NEW s \in Seq(E), NEW types
  PROVE  Of(s, types) \in Seq(E)
<1> DEFINE T == {q \in Seq(E) : Of(q, types) \in Seq(E)}
<1>1. <<>> \in T
  <2>1. <<>> \in Seq(E)
    OBVIOUS
  <2> QED
    BY <2>1, OfNothing
<1>2. ASSUME NEW q \in T, NEW e \in E PROVE Append(q, e) \in T
  <2>1. One(e, e.type \in types) \in Seq(E)
    BY DEF One
  <2>2. Of(q, types) \in Seq(E) /\ Append(q, e) \in Seq(E)
    OBVIOUS
  <2>3. Of(Append(q, e), types) = Of(q, types) \o One(e, e.type \in types)
    BY OfAppend
  <2>4. Of(Append(q, e), types) \in Seq(E)
    BY <2>1, <2>2, <2>3
  <2> QED
    BY <2>2, <2>4
<1>3. T = Seq(E)
  <2>1. T \in SUBSET Seq(E) /\ \A q \in T, e \in E : Append(q, e) \in T
    BY <1>2
  <2> HIDE DEF T
  <2> QED
    BY <1>1, <2>1, SeqInduction
<1> QED
  BY <1>3

\* Blocks that are all of these types, and blocks none of which is.
LEMMA OfAllOrNone ==
  ASSUME NEW E, NEW s \in Seq(E), NEW types
  PROVE  /\ (\A e \in E : e.type \in types) => Of(s, types) = s
         /\ (\A e \in E : e.type \notin types) => Of(s, types) = <<>>
<1> DEFINE P(q) == /\ (\A e \in E : e.type \in types) => Of(q, types) = q
                   /\ (\A e \in E : e.type \notin types) => Of(q, types) = <<>>
           T == {q \in Seq(E) : P(q)}
<1>1. <<>> \in T
  <2>1. <<>> \in Seq(E)
    OBVIOUS
  <2> QED
    BY <2>1, OfNothing
<1>2. ASSUME NEW q \in T, NEW e \in E PROVE Append(q, e) \in T
  <2>1. Of(Append(q, e), types) = Of(q, types) \o One(e, e.type \in types)
    BY OfAppend
  <2>2. e.type \in types => One(e, e.type \in types) = <<e>>
    BY DEF One
  <2>3. e.type \notin types => One(e, e.type \in types) = <<>>
    BY DEF One
  <2>4. /\ Append(q, e) \in Seq(E) /\ P(q)
        /\ q \o <<e>> = Append(q, e) /\ <<>> \o <<>> = <<>>
    OBVIOUS
  <2>5. P(Append(q, e))
    <3>1. ASSUME \A x \in E : x.type \in types PROVE Of(Append(q, e), types) = Append(q, e)
      BY <2>1, <2>2, <2>4, <3>1
    <3>2. ASSUME \A x \in E : x.type \notin types PROVE Of(Append(q, e), types) = <<>>
      BY <2>1, <2>3, <2>4, <3>2
    <3> QED
      BY <3>1, <3>2
  <2> QED
    BY <2>4, <2>5
<1>3. T = Seq(E)
  <2>1. T \in SUBSET Seq(E) /\ \A q \in T, e \in E : Append(q, e) \in T
    BY <1>2
  <2> HIDE DEF T
  <2> QED
    BY <1>1, <2>1, SeqInduction
<1> QED
  BY <1>3

\* One element or none.
LEMMA OneTyped == \A e, present, E : e \in E => One(e, present) \in Seq(E)
BY DEF One

\* Blocks of one type.
LEMMA OfPure ==
  ASSUME NEW E, NEW s \in Seq(E), NEW type, \A e \in E : e.type = type
  PROVE  \A types : Of(s, types) = IF type \in types THEN s ELSE <<>>
<1> TAKE types
<1>1. CASE type \in types
  <2>1. \A e \in E : e.type \in types
    BY <1>1
  <2> QED
    BY <1>1, <2>1, OfAllOrNone
<1>2. CASE type \notin types
  <2>1. \A e \in E : e.type \notin types
    BY <1>2
  <2> QED
    BY <1>2, <2>1, OfAllOrNone
<1> QED
  BY <1>1, <1>2

\* The blocks of two sequences.
LEMMA OfConcat ==
  ASSUME NEW E, NEW s \in Seq(E), NEW t \in Seq(E), NEW types
  PROVE  Of(s \o t, types) = Of(s, types) \o Of(t, types)
<1> DEFINE T == {q \in Seq(E) : Of(s \o q, types) = Of(s, types) \o Of(q, types)}
<1>1. <<>> \in T
  <2>1. s \o <<>> = s /\ Of(s, types) \o <<>> = Of(s, types) /\ <<>> \in Seq(E)
    BY OfTyped
  <2> QED
    BY <2>1, OfNothing
<1>2. ASSUME NEW q \in T, NEW e \in E PROVE Append(q, e) \in T
  <2> DEFINE o == One(e, e.type \in types)
  <2>1. s \o q \in Seq(E) /\ s \o Append(q, e) = Append(s \o q, e)
    OBVIOUS
  <2>2. Of(s \o Append(q, e), types) = Of(s \o q, types) \o o
    BY <2>1, OfAppend
  <2>3. Of(Append(q, e), types) = Of(q, types) \o o
    BY OfAppend
  <2>4. Of(s, types) \in Seq(E) /\ Of(q, types) \in Seq(E) /\ o \in Seq(E)
    BY OfTyped DEF One
  <2>5. (Of(s, types) \o Of(q, types)) \o o = Of(s, types) \o (Of(q, types) \o o)
    BY <2>4
  <2>6. Of(s \o q, types) = Of(s, types) \o Of(q, types) /\ Append(q, e) \in Seq(E)
    OBVIOUS
  <2> HIDE DEF o
  <2> QED
    BY <2>2, <2>3, <2>5, <2>6
<1>3. T = Seq(E)
  <2>1. T \in SUBSET Seq(E) /\ \A q \in T, e \in E : Append(q, e) \in T
    BY <1>2
  <2> HIDE DEF T
  <2> QED
    BY <1>1, <2>1, SeqInduction
<1> QED
  BY <1>3

-----------------------------------------------------------------------------
(* Words *)

\* Words, written out.
LEMMA WordsIs ==
  ASSUME NEW s
  PROVE  Words(s) = FlattenSeq([i \in DOMAIN s |-> s[i].text])
BY DEF Words, Map

\* No block has no words.
LEMMA WordsIsEmpty == Words(<<>>) = <<>>
<1>1. [i \in DOMAIN <<>> |-> <<>>[i].text] = <<>>
  OBVIOUS
<1> QED
  BY <1>1, WordsIs, FlattenEmpty

\* One block has its own.
LEMMA WordsOfOne ==
  ASSUME NEW W, NEW b, b.text \in Seq(W)
  PROVE  Words(<<b>>) = b.text
<1>1. [i \in DOMAIN <<b>> |-> <<b>>[i].text] = <<b.text>>
  OBVIOUS
<1> QED
  BY <1>1, WordsIs, FlattenOne

\* The words of blocks with one word each.
LEMMA WordsOfSingles ==
  ASSUME NEW m \in Nat, NEW b, DOMAIN b = 1 .. m, NEW w, \A i \in 1 .. m : b[i].text = <<w[i]>>
  PROVE  Words(b) = [i \in 1 .. m |-> w[i]]
<1>1. PICK kept : kept = [i \in 1 .. m |-> TRUE]
  OBVIOUS
<1>2. \A i \in 1 .. m : kept[i] = TRUE
  BY <1>1
<1>3. PICK E : E = {w[i] : i \in 1 .. m}
  OBVIOUS
<1>4. \A i \in 1 .. m : w[i] \in E
  BY <1>3
<1> DEFINE f(k) == [i \in 1 .. k |-> One(w[i], kept[i])]
           P(k) == FlattenSeq(f(k)) = [i \in 1 .. k |-> w[i]]
           T == {k \in Nat : k <= m => P(k)}
<1>5. 0 \in T
  <2>1. f(0) = <<>> /\ [i \in 1 .. 0 |-> w[i]] = <<>>
    OBVIOUS
  <2>2. P(0)
    BY <2>1, FlattenEmpty
  <2> QED
    BY <2>2
<1>6. ASSUME NEW k \in T PROVE k + 1 \in T
  <2> SUFFICES ASSUME k + 1 <= m PROVE P(k + 1)
    OBVIOUS
  <2>1. k \in Nat /\ P(k) /\ m \in Nat /\ k + 1 <= m
    OBVIOUS
  <2> HIDE DEF T
  <2>2. \A i \in 1 .. k + 1 : i \in 1 .. m
    BY <2>1
  <2>3. \A i \in 1 .. k + 1 : w[i] \in E
    BY <1>4, <2>2
  <2>4. FlattenSeq(f(k + 1)) = FlattenSeq(f(k)) \o One(w[k + 1], kept[k + 1])
    BY <2>1, <2>3, OnesGrow
  <2>5. One(w[k + 1], kept[k + 1]) = <<w[k + 1]>>
    <3>1. k + 1 \in 1 .. m
      BY <2>1
    <3> QED
      BY <1>2, <3>1 DEF One
  <2>6. [i \in 1 .. k |-> w[i]] \o <<w[k + 1]>> = [i \in 1 .. k + 1 |-> w[i]]
    <3>1. PICK r : r = [i \in 1 .. k |-> w[i]]
      OBVIOUS
    <3>2. r \in Seq(E) /\ Len(r) = k /\ w[k + 1] \in E
      BY <2>1, <2>3, <3>1
    <3>3. Append(r, w[k + 1]) = [i \in 1 .. k + 1 |-> w[i]]
      BY <2>1, <3>1, <3>2
    <3>4. r \o <<w[k + 1]>> = Append(r, w[k + 1])
      BY <3>2
    <3> QED
      BY <3>1, <3>3, <3>4
  <2> QED
    BY <2>1, <2>4, <2>5, <2>6
<1>7. T = Nat
  <2>1. T \in SUBSET Nat /\ \A k \in T : k + 1 \in T
    BY <1>6
  <2> HIDE DEF T
  <2> QED
    BY <1>5, <2>1, Joining!SetInduction
<1>8. [i \in DOMAIN b |-> b[i].text] = f(m)
  BY <1>2 DEF One
<1>9. P(m)
  <2>1. m \in T /\ m <= m
    BY <1>7
  <2> QED
    BY <2>1
<1> QED
  BY <1>8, <1>9, WordsIs

\* A text, unless it is empty, becomes one block, and has its words again.
LEMMA SaidIs ==
  ASSUME NEW W, NEW w \in Seq(W)
  PROVE  /\ Words(Said(w)) = w
         /\ Said(w) = IF w = <<>> THEN <<>> ELSE <<Text(w)>>
<1>1. Said(w) = IF w = <<>> THEN <<>> ELSE <<Text(w)>>
  BY DEF Said, One
<1>2. Text(w).text = w
  BY DEF Text, Block
<1>3. CASE w = <<>>
  BY <1>1, <1>3, WordsIsEmpty
<1>4. CASE w # <<>>
  BY <1>1, <1>2, <1>4, WordsOfOne
<1> QED
  BY <1>1, <1>3, <1>4
\* The blocks of some types are marked, and have one word each.
Marks(kept, n, b, types)  == \A i \in 1 .. n : kept[i] = (b[i].type \in types)
MarkedSay(kept, n, b, w) == \A i \in 1 .. n : kept[i] => b[i].text = <<w[i]>>

\* The blocks of some types stand at their places, and their words with them.
LEMMA OfAtPlaces ==
  ASSUME NEW n \in Nat, NEW b, DOMAIN b = 1 .. n, NEW types,
         NEW kept, Marks(kept, n, b, types),
         NEW places, places = Places(n, kept)
  PROVE  Of(b, types) = [j \in DOMAIN places |-> b[places[j]]]
<1>1. PICK s : s = [i \in 1 .. n |-> One(b[i], kept[i])]
  OBVIOUS
<1>2. [i \in DOMAIN b |-> One(b[i], b[i].type \in types)] = s
  BY <1>1 DEF Marks
<1>3. FlattenSeq(s) = [j \in DOMAIN places |-> b[places[j]]]
  BY <1>1, Picked
<1> QED
  BY <1>2, <1>3, OfIs

\* Where each of them has one word, these are their words.
LEMMA WordsAtPlaces ==
  ASSUME NEW n \in Nat, NEW b, DOMAIN b = 1 .. n, NEW types,
         NEW kept, Marks(kept, n, b, types),
         NEW w, MarkedSay(kept, n, b, w)
  PROVE  Words(Of(b, types)) = [j \in DOMAIN Places(n, kept) |-> w[Places(n, kept)[j]]]
<1>1. PICK P : P = Places(n, kept)
  OBVIOUS
<1>2. /\ P \in Seq(1 .. n)
      /\ \A i \in 1 .. n : kept[i] <=> \E j \in DOMAIN P : P[j] = i
  BY <1>1, PlacesAre
<1>3. PICK m \in Nat : DOMAIN P = 1 .. m
  BY <1>2
<1>4. PICK o : o = Of(b, types)
  OBVIOUS
<1>5. o = [j \in 1 .. m |-> b[P[j]]]
  BY <1>1, <1>3, <1>4, OfAtPlaces
<1>6. PICK v : v = [j \in 1 .. m |-> w[P[j]]]
  OBVIOUS
<1>7. DOMAIN o = 1 .. m /\ \A j \in 1 .. m : o[j].text = <<v[j]>>
  <2>1. DOMAIN o = 1 .. m
    BY <1>5
  <2>2. ASSUME NEW j \in 1 .. m PROVE o[j].text = <<v[j]>>
    <3>1. j \in DOMAIN P
      BY <1>3
    <3>2. P[j] \in 1 .. n
      BY <1>2, <3>1
    <3>3. PICK i \in 1 .. n : i = P[j]
      BY <3>2
    <3>4. kept[i]
      BY <1>2, <3>1, <3>3
    <3> QED
      BY <1>5, <1>6, <3>3, <3>4 DEF MarkedSay
  <2> QED
    BY <2>1, <2>2
<1>8. Words(o) = [j \in 1 .. m |-> v[j]]
  BY <1>7, WordsOfSingles
<1>9. [j \in 1 .. m |-> v[j]] = [j \in 1 .. m |-> w[P[j]]]
  BY <1>6
<1> QED
  BY <1>1, <1>3, <1>4, <1>8, <1>9

-----------------------------------------------------------------------------
(* A provider's answer *)

\* What a shape is made of (ConversationAssumption).
AnswerTypes == {"text", "thinking"} \cup Functions

\* A block with all its fields.
IsBlock(b) == b = [type |-> b.type, text |-> b.text, id |-> b.id, name |-> b.name,
                   remote |-> b.remote]

\* A sequence, as the function it is.
Numbered(k, c) == c = [j \in 1 .. k |-> c[j]]

\* The kinds of blocks, by their constructors.
LEMMA TextIs ==
  ASSUME NEW x
  PROVE  Text(x).type = "text" /\ Text(x).text = x /\ IsBlock(Text(x))
<1>1. ASSUME NEW b, b = Text(x) PROVE b.type = "text" /\ b.text = x /\ IsBlock(b)
  BY <1>1 DEF Text, Block, IsBlock
<1> QED
  BY <1>1

\* The kinds of blocks, by their constructors.
LEMMA ThinkingIs ==
  ASSUME NEW x
  PROVE  Thinking(x).type = "thinking" /\ Thinking(x).text = x /\ IsBlock(Thinking(x))
<1>1. ASSUME NEW b, b = Thinking(x) PROVE b.type = "thinking" /\ b.text = x /\ IsBlock(b)
  BY <1>1 DEF Thinking, Block, IsBlock
<1> QED
  BY <1>1

\* The kinds of blocks, by their constructors.
LEMMA CallIs ==
  ASSUME NEW x, NEW y, NEW z
  PROVE  /\ Call(x, y, z).type = "call" /\ Call(x, y, z).name = y /\ Call(x, y, z).text = z
         /\ IsBlock(Call(x, y, z))
<1>1. ASSUME NEW b, b = Call(x, y, z)
      PROVE  b.type = "call" /\ b.name = y /\ b.text = z /\ IsBlock(b)
  BY <1>1 DEF Call, Block, IsBlock
<1> QED
  BY <1>1

\* The word of a call's arguments, which do not parse when they are cut off.
ArgsWord(shape, cut, n, i) == IF cut /\ i = Len(shape) THEN -(n + i) ELSE n + i

\* The blocks of an answer, one for each fact.
Replied(b, shape, cut, n) ==
  /\ DOMAIN b = 1 .. Len(shape) /\ Numbered(Len(shape), b)
  /\ \A i \in 1 .. Len(shape) :
       /\ IsBlock(b[i])
       /\ shape[i] = "text" => b[i].type = "text" /\ b[i].text = <<n + i>>
       /\ shape[i] = "thinking" => b[i].type = "thinking" /\ b[i].text = <<n + i>>
       /\ shape[i] \in Functions =>
            /\ b[i].type = "call" /\ b[i].name = shape[i]
            /\ b[i].text = <<ArgsWord(shape, cut, n, i)>>

\* The blocks of an answer, as they are made.
LEMMA ReplyIs ==
  ASSUME NEW p, NEW shape \in Seq(AnswerTypes), NEW cut \in BOOLEAN
  PROVE  Replied(Reply(p, shape, cut), shape, cut, Len(ledger))
<1> DEFINE b == Reply(p, shape, cut)
           n == Len(ledger)
           id(i) == IF p \in HasIds THEN "id" \o ToString(n + i) ELSE ""
           w(i)  == IF cut /\ i = Len(shape) THEN -(n + i) ELSE n + i
<1>1. DOMAIN b = 1 .. Len(shape) /\ DOMAIN shape = 1 .. Len(shape) /\ Numbered(Len(shape), b)
  BY DEF Reply, Numbered
<1>2. ASSUME NEW i \in 1 .. Len(shape), shape[i] = "text"
      PROVE  b[i] = Text(<<n + i>>)
  BY <1>1, <1>2, Zenon DEF Reply
<1>3. ASSUME NEW i \in 1 .. Len(shape), shape[i] = "thinking"
      PROVE  b[i] = Thinking(<<n + i>>)
  <2>1. shape[i] # "text"
    BY <1>3
  <2> QED
    BY <1>1, <1>3, <2>1, Zenon DEF Reply
<1>4. ASSUME NEW i \in 1 .. Len(shape), shape[i] \in Functions
      PROVE  b[i] = Call(id(i), shape[i], <<w(i)>>)
  <2>1. shape[i] # "text" /\ shape[i] # "thinking"
    BY <1>4 DEF Functions
  <2> QED
    BY <1>1, <2>1, Zenon DEF Reply
<1> HIDE DEF b, n, id, w
<1>5. ASSUME NEW i \in 1 .. Len(shape)
      PROVE  /\ IsBlock(b[i])
             /\ shape[i] = "text" => b[i].type = "text" /\ b[i].text = <<n + i>>
             /\ shape[i] = "thinking" => b[i].type = "thinking" /\ b[i].text = <<n + i>>
             /\ shape[i] \in Functions =>
                  b[i].type = "call" /\ b[i].name = shape[i] /\ b[i].text = <<w(i)>>
  <2>1. shape[i] = "text" => b[i].type = "text" /\ b[i].text = <<n + i>>
    BY <1>2, TextIs
  <2>2. shape[i] = "thinking" => b[i].type = "thinking" /\ b[i].text = <<n + i>>
    BY <1>3, ThinkingIs
  <2>3. shape[i] \in Functions =>
          b[i].type = "call" /\ b[i].name = shape[i] /\ b[i].text = <<w(i)>>
    <3>1. CASE shape[i] \in Functions
      <4>1. b[i] = Call(id(i), shape[i], <<w(i)>>)
        BY <1>4, <3>1
      <4> QED
        BY <4>1, CallIs
    <3> QED
      BY <3>1
  <2>4. IsBlock(b[i])
    <3>1. shape[i] = "text" \/ shape[i] = "thinking" \/ shape[i] \in Functions
      BY DEF AnswerTypes
    <3>2. CASE shape[i] = "text"
      BY <1>2, <3>2, TextIs
    <3>3. CASE shape[i] = "thinking"
      BY <1>3, <3>3, ThinkingIs
    <3>4. CASE shape[i] \in Functions
      <4>1. b[i] = Call(id(i), shape[i], <<w(i)>>)
        BY <1>4, <3>4
      <4> QED
        BY <4>1, CallIs
    <3> QED
      BY <3>1, <3>2, <3>3, <3>4
  <2> QED
    BY <2>1, <2>2, <2>3, <2>4
<1> QED
  BY <1>1, <1>5 DEF b, n, w, ArgsWord, Replied

-----------------------------------------------------------------------------
(* Decoding and encoding an answer *)

\* Calls are a sequence of calls.
LEMMA CallsTyped ==
  ASSUME NEW k \in Nat, NEW c, Numbered(k, c), \A j \in 1 .. k : c[j].type = "call"
  PROVE  \E C : c \in Seq(C) /\ \A e \in C : e.type = "call"
<1>1. c = [j \in 1 .. k |-> c[j]]
  BY DEF Numbered
<1>2. c \in Seq({c[i] : i \in 1 .. k})
  BY <1>1, OverItsElements
<1>3. \A e \in {c[i] : i \in 1 .. k} : e.type = "call"
  OBVIOUS
<1> QED
  BY <1>2, <1>3

\* The blocks of some thoughts, a text and some calls.
IsAnswerOf(t, think, text, c) == t = One(Thinking(think), think # <<>>) \o Said(text) \o c

\* Thoughts, text and calls, one after the other, can be told apart again.
LEMMA ThreeParts ==
  ASSUME NEW think \in Seq(Int), NEW text \in Seq(Int),
         NEW k \in Nat, NEW c, Numbered(k, c), \A j \in 1 .. k : c[j].type = "call",
         NEW t, IsAnswerOf(t, think, text, c)
  PROVE  /\ Words(Of(t, {"text"})) = text
         /\ Words(Of(t, {"thinking"})) = think
         /\ Of(t, {"call"}) = c
<1>1. PICK C : c \in Seq(C) /\ \A e \in C : e.type = "call"
  BY CallsTyped
<1>2. PICK x : x = One(Thinking(think), think # <<>>)
  OBVIOUS
<1>3. PICK y : y = Said(text)
  OBVIOUS
<1>4. PICK X : X = {Thinking(think)}
  OBVIOUS
<1>5. PICK Y : Y = {Text(text)}
  OBVIOUS
<1>6. /\ x \in Seq(X) /\ \A e \in X : e.type = "thinking"
      /\ y \in Seq(Y) /\ \A e \in Y : e.type = "text"
      /\ c \in Seq(C) /\ \A e \in C : e.type = "call"
  <2>1. x \in Seq(X)
    BY <1>2, <1>4, OneTyped
  <2>2. y \in Seq(Y)
    BY <1>3, <1>5, OneTyped DEF Said
  <2> QED
    BY <1>1, <1>4, <1>5, <2>1, <2>2, TextIs, ThinkingIs
<1>7. PICK E : E = X \cup Y \cup C
  OBVIOUS
<1>8. x \in Seq(E) /\ y \in Seq(E) /\ c \in Seq(E) /\ x \o y \in Seq(E)
  BY <1>6, <1>7
<1>9. ASSUME NEW types
      PROVE  Of(t, types) = (Of(x, types) \o Of(y, types)) \o Of(c, types)
  <2>1. Of((x \o y) \o c, types) = Of(x \o y, types) \o Of(c, types)
    <3>1. PICK z : z = x \o y
      OBVIOUS
    <3>2. z \in Seq(E) /\ c \in Seq(E)
      BY <1>8, <3>1
    <3>3. Of(z \o c, types) = Of(z, types) \o Of(c, types)
      BY <3>2, OfConcat
    <3> QED
      BY <3>1, <3>3
  <2>2. Of(x \o y, types) = Of(x, types) \o Of(y, types)
    BY <1>8, OfConcat
  <2>3. t = (x \o y) \o c
    BY <1>2, <1>3 DEF IsAnswerOf
  <2> QED
    BY <2>1, <2>2, <2>3
<1>10. /\ Of(x, {"thinking"}) = x /\ Of(x, {"text"}) = <<>> /\ Of(x, {"call"}) = <<>>
       /\ Of(y, {"thinking"}) = <<>> /\ Of(y, {"text"}) = y /\ Of(y, {"call"}) = <<>>
       /\ Of(c, {"thinking"}) = <<>> /\ Of(c, {"text"}) = <<>> /\ Of(c, {"call"}) = c
  <2>1. \A types : Of(x, types) = IF "thinking" \in types THEN x ELSE <<>>
    BY <1>6, OfPure
  <2>2. \A types : Of(y, types) = IF "text" \in types THEN y ELSE <<>>
    BY <1>6, OfPure
  <2>3. \A types : Of(c, types) = IF "call" \in types THEN c ELSE <<>>
    BY <1>6, OfPure
  <2> QED
    BY <2>1, <2>2, <2>3
<1>11. Of(t, {"thinking"}) = x /\ Of(t, {"text"}) = y /\ Of(t, {"call"}) = c
  <2>1. \A q \in Seq(E) : q \o <<>> = q /\ <<>> \o q = q
    OBVIOUS
  <2>2. <<>> \in Seq(E)
    OBVIOUS
  <2>3. Of(t, {"thinking"}) = (x \o <<>>) \o <<>>
    BY <1>9, <1>10
  <2>4. Of(t, {"text"}) = (<<>> \o y) \o <<>>
    BY <1>9, <1>10
  <2>5. Of(t, {"call"}) = (<<>> \o <<>>) \o c
    BY <1>9, <1>10
  <2> QED
    BY <1>8, <2>1, <2>2, <2>3, <2>4, <2>5
<1>12. Words(x) = think
  <2>1. CASE think = <<>>
    <3>1. x = <<>>
      BY <1>2, <2>1 DEF One
    <3> QED
      BY <2>1, <3>1, WordsIsEmpty
  <2>2. CASE think # <<>>
    <3>1. x = <<Thinking(think)>>
      BY <1>2, <2>2 DEF One
    <3> QED
      <4>1. PICK a : a = Thinking(think)
        OBVIOUS
      <4>2. a.text = think
        BY <4>1, ThinkingIs
      <4>3. Words(<<a>>) = think
        BY <4>2, WordsOfOne
      <4> QED
        BY <3>1, <4>1, <4>3
  <2> QED
    BY <2>1, <2>2
<1>13. Words(y) = text
  BY <1>3, SaidIs
<1> QED
  BY <1>11, <1>12, <1>13

\* The message has what the blocks say, but for the calls' ids.
MessageHas(m, b) ==
  /\ m.content = Said(Words(Of(b, {"text"})))
  /\ m.reasoning = Words(Of(b, {"thinking"}))
  /\ DOMAIN m.calls = DOMAIN Of(b, {"call"})
  /\ \A j \in DOMAIN m.calls :
       /\ IsBlock(m.calls[j])
       /\ m.calls[j].type = Of(b, {"call"})[j].type
       /\ m.calls[j].name = Of(b, {"call"})[j].name
       /\ m.calls[j].text = Of(b, {"call"})[j].text

\* Each provider's translator, by its name (MessageOf).
LEMMA MessageCases ==
  ASSUME NEW b
  PROVE  /\ \A p \in {"openai", "responses", "claude"} : MessageOf(p, b) = Assembled(b)
         /\ MessageOf("gemini", b) = GeminiMessage(b)
         /\ MessageOf("ollama", b) = OllamaMessage(b)
         /\ \A p \in {"kiro", "cursor"} : MessageOf(p, b) = Aggregate(b)
         /\ MessageOf("web", b) = WebMessage(b)
BY Zenon DEF MessageOf

\* Whatever translator decodes it, an answer is whole: no thoughts come from a
\* provider whose thoughts are not read, and no calls from the web front ends.
LEMMA Decoded ==
  ASSUME NEW p \in Providers, NEW b,
         p \notin Thinks => Words(Of(b, {"thinking"})) = <<>>,
         NEW k \in Nat, Numbered(k, Of(b, {"call"})),
         \A j \in 1 .. k : IsBlock(Of(b, {"call"})[j]),
         p = "web" => k = 0
  PROVE  /\ MessageHas(MessageOf(p, b), b) /\ DOMAIN MessageOf(p, b).calls = 1 .. k
         /\ Numbered(k, MessageOf(p, b).calls)
<1>1. PICK text : text = Words(Of(b, {"text"}))
  OBVIOUS
<1>2. PICK think : think = Words(Of(b, {"thinking"}))
  OBVIOUS
<1>3. PICK calls : calls = Of(b, {"call"})
  OBVIOUS
<1>4. Numbered(k, calls) /\ DOMAIN calls = 1 .. k
  BY <1>3 DEF Numbered
<1>5. PICK said : said = Said(text)
  OBVIOUS
<1>6. PICK m : m = Assembled(b)
  OBVIOUS
<1>7. /\ m.content = said /\ m.reasoning = think /\ m.calls = calls
      /\ m = [role |-> m.role, content |-> m.content, reasoning |-> m.reasoning,
              calls |-> m.calls, id |-> m.id, name |-> m.name]
  BY <1>4, <1>1, <1>2, <1>3, <1>5, <1>6 DEF Assembled, Message
<1>8. CASE p \in {"openai", "responses", "claude"}
  BY <1>4, <1>1, <1>2, <1>3, <1>5, <1>6, <1>7, <1>8, MessageCases DEF MessageHas
<1>9. CASE p = "gemini"
  <2>1. PICK named : named = [j \in DOMAIN calls |-> geminiFunctionCallToOpenAI(calls[j])]
    OBVIOUS
  <2>2. MessageOf(p, b) = [m EXCEPT !.calls = named]
    <3>1. GeminiMessage(b) = [m EXCEPT !.calls = Map(m.calls, geminiFunctionCallToOpenAI)]
      BY <1>6, Zenon DEF GeminiMessage, geminiPartsToResponseFields
    <3>2. Map(m.calls, geminiFunctionCallToOpenAI) = named
      BY <1>7, <2>1 DEF Map
    <3> QED
      BY <1>9, <3>1, <3>2, MessageCases
  <2>3. /\ DOMAIN named = DOMAIN calls
        /\ Numbered(k, named)
        /\ \A j \in DOMAIN calls : /\ IsBlock(named[j])
                                   /\ named[j].type = calls[j].type
                                   /\ named[j].name = calls[j].name
                                   /\ named[j].text = calls[j].text
    <3>1. DOMAIN named = DOMAIN calls /\ Numbered(k, named)
      BY <1>4, <2>1 DEF Numbered
    <3>2. ASSUME NEW j \in DOMAIN calls
          PROVE  /\ IsBlock(named[j])
                 /\ named[j].type = calls[j].type
                 /\ named[j].name = calls[j].name
                 /\ named[j].text = calls[j].text
      <4>1. PICK c : c = calls[j]
        OBVIOUS
      <4>2. PICK i : i = CallId(c.name)
        OBVIOUS
      <4>3. IsBlock(c)
        BY <1>4, <1>3, <4>1
      <4>4. named[j] = [c EXCEPT !.id = i]
        BY <2>1, <4>1, <4>2 DEF geminiFunctionCallToOpenAI
      <4>5. PICK n : n = named[j]
        OBVIOUS
      <4>6. n = [c EXCEPT !.id = i]
        BY <4>4, <4>5
      <4>7. IsBlock(n) /\ n.type = c.type /\ n.name = c.name /\ n.text = c.text
        BY <4>3, <4>6 DEF IsBlock
      <4> QED
        BY <4>1, <4>5, <4>7
    <3> QED
      BY <3>1, <3>2
  <2>4. LET o == [m EXCEPT !.calls = named]
        IN  o.content = m.content /\ o.reasoning = m.reasoning /\ o.calls = named
    BY <1>7
  <2> QED
    BY <1>4, <1>1, <1>2, <1>3, <1>5, <1>7, <2>2, <2>3, <2>4 DEF MessageHas
<1>10. CASE p = "ollama"
  <2>1. PICK named : named = mapToolCalls(calls)
    OBVIOUS
  <2>2. MessageOf(p, b) = [m EXCEPT !.reasoning = <<>>, !.calls = named]
    BY <1>6, <1>7, <1>10, <2>1, MessageCases, Zenon DEF OllamaMessage
  <2>3. think = <<>>
    BY <1>2, <1>10 DEF Thinks
  <2>4. /\ DOMAIN named = DOMAIN calls
        /\ Numbered(k, named)
        /\ \A j \in DOMAIN calls : /\ IsBlock(named[j])
                                   /\ named[j].type = calls[j].type
                                   /\ named[j].name = calls[j].name
                                   /\ named[j].text = calls[j].text
    <3>1. DOMAIN named = DOMAIN calls /\ Numbered(k, named)
      BY <1>4, <2>1 DEF Numbered, mapToolCalls
    <3>2. ASSUME NEW j \in DOMAIN calls
          PROVE  /\ IsBlock(named[j])
                 /\ named[j].type = calls[j].type
                 /\ named[j].name = calls[j].name
                 /\ named[j].text = calls[j].text
      <4>1. PICK c : c = calls[j]
        OBVIOUS
      <4>2. PICK i : i = "call_" \o ToString(j - 1)
        OBVIOUS
      <4>3. IsBlock(c)
        BY <1>4, <1>3, <4>1
      <4>4. named[j] = [c EXCEPT !.id = i]
        BY <2>1, <4>1, <4>2 DEF mapToolCalls
      <4>5. PICK n : n = named[j]
        OBVIOUS
      <4>6. n = [c EXCEPT !.id = i]
        BY <4>4, <4>5
      <4>7. IsBlock(n) /\ n.type = c.type /\ n.name = c.name /\ n.text = c.text
        BY <4>3, <4>6 DEF IsBlock
      <4> QED
        BY <4>1, <4>5, <4>7
    <3> QED
      BY <3>1, <3>2
  <2>5. LET o == [m EXCEPT !.reasoning = <<>>, !.calls = named]
        IN  o.content = m.content /\ o.reasoning = <<>> /\ o.calls = named
    BY <1>7
  <2> QED
    BY <1>4, <1>1, <1>2, <1>3, <1>5, <1>7, <2>2, <2>3, <2>4, <2>5 DEF MessageHas
<1>11. CASE p \in {"kiro", "cursor"}
  <2>1. MessageOf(p, b) = [m EXCEPT !.reasoning = <<>>]
    BY <1>6, <1>11, MessageCases, Zenon DEF Aggregate
  <2>2. think = <<>>
    BY <1>2, <1>11 DEF Thinks
  <2>3. LET o == [m EXCEPT !.reasoning = <<>>]
        IN  o.content = m.content /\ o.reasoning = <<>> /\ o.calls = m.calls
    BY <1>7
  <2> QED
    BY <1>4, <1>1, <1>2, <1>3, <1>5, <1>7, <2>1, <2>2, <2>3 DEF MessageHas
<1>12. CASE p = "web"
  <2>1. MessageOf(p, b) = [[m EXCEPT !.reasoning = <<>>] EXCEPT !.calls = <<>>]
    BY <1>6, <1>12, MessageCases, Zenon DEF Aggregate, WebMessage
  <2>2. think = <<>>
    BY <1>2, <1>12 DEF Thinks
  <2>3. LET o == [[m EXCEPT !.reasoning = <<>>] EXCEPT !.calls = <<>>]
        IN  o.content = m.content /\ o.reasoning = <<>> /\ o.calls = <<>>
    BY <1>7
  <2>4. /\ DOMAIN <<>> = DOMAIN calls /\ \A j \in DOMAIN <<>> : FALSE
        /\ Numbered(k, <<>>)
    BY <1>4, <1>12 DEF Numbered
  <2> QED
    BY <1>4, <1>1, <1>2, <1>3, <1>5, <1>7, <2>1, <2>2, <2>3, <2>4 DEF MessageHas
<1> QED
  BY <1>8, <1>9, <1>10, <1>11, <1>12 DEF Providers
\* The arguments of a call, as this client gets them.
ArgsFor(args) == IF client \in {"openai", "responses"} THEN args ELSE parseArguments(args)

\* The blocks a client gets, by its name.
LEMMA EncodeBlocks ==
  ASSUME client \in Clients, NEW a
  PROVE  encodeResponse(client, a).blocks =
           Thoughts(a.message) \o a.message.content \o
             (CASE client = "claude" -> Map(a.message.calls, AsObject)
                [] client = "gemini" -> Map(a.message.calls, LAMBDA c : [AsObject(c) EXCEPT !.id = ""])
                [] OTHER             -> a.message.calls)
<1>1. CASE client = "claude"
  BY <1>1, Zenon DEF encodeResponse, responseMessageToAnthropicContent
<1>2. CASE client = "gemini"
  <2>1. client # "claude"
    BY <1>2
  <2> QED
    BY <1>2, <2>1, Zenon DEF encodeResponse, responseMessageToGeminiParts
<1>3. CASE client \notin {"claude", "gemini"}
  BY <1>3, Zenon DEF encodeResponse, PivotBlocks
<1> QED
  BY <1>1, <1>2, <1>3

\* A sequence of calls.
AreCalls(k, calls) == \A j \in 1 .. k : IsBlock(calls[j]) /\ calls[j].type = "call"

\* The blocks have this text, these thoughts and these calls.
ToldAs(t, text, think, k, calls) ==
  /\ Words(Of(t, {"text"})) = text
  /\ Words(Of(t, {"thinking"})) = think
  /\ Numbered(k, Of(t, {"call"}))
  /\ \A j \in 1 .. k : /\ Of(t, {"call"})[j].name = calls[j].name
                       /\ Of(t, {"call"})[j].text = ArgsFor(calls[j].text)

\* Whatever translator encodes it, a message is whole.
LEMMA Encoded ==
  ASSUME client \in Clients, NEW a, NEW m, m = a.message,
         NEW text \in Seq(Int), m.content = Said(text),
         NEW think \in Seq(Int), m.reasoning = think,
         NEW k \in Nat, NEW calls, m.calls = calls, Numbered(k, calls),
         AreCalls(k, calls)
  PROVE  ToldAs(encodeResponse(client, a).blocks, text, think, k, calls)
<1>1. PICK c : c = CASE client = "claude" -> Map(calls, AsObject)
                     [] client = "gemini" -> Map(calls, LAMBDA x : [AsObject(x) EXCEPT !.id = ""])
                     [] OTHER             -> calls
  OBVIOUS
<1>2. /\ calls = [j \in 1 .. k |-> calls[j]]
      /\ \A j \in 1 .. k : IsBlock(calls[j]) /\ calls[j].type = "call"
  BY DEF Numbered, AreCalls
<1>3. /\ Numbered(k, c)
      /\ \A j \in 1 .. k : /\ c[j].type = "call" /\ c[j].name = calls[j].name
                           /\ c[j].text = ArgsFor(calls[j].text)
  <2>1. ASSUME NEW x, NEW y, NEW z, NEW v, IsBlock(x),
               y = [x EXCEPT !.text = v], z = [y EXCEPT !.id = ""]
        PROVE  /\ y.type = x.type /\ y.name = x.name /\ y.text = v
               /\ z.type = x.type /\ z.name = x.name /\ z.text = v
    BY <2>1 DEF IsBlock
  <2>2. CASE client = "claude"
    <3>1. c = [j \in 1 .. k |-> [calls[j] EXCEPT !.text = parseArguments(calls[j].text)]]
      BY <1>2, <1>1, <2>2 DEF Map, AsObject
    <3>2. ASSUME NEW j \in 1 .. k
          PROVE  /\ c[j].type = "call" /\ c[j].name = calls[j].name
                 /\ c[j].text = ArgsFor(calls[j].text)
      <4>1. PICK x : x = calls[j]
        OBVIOUS
      <4>2. PICK v : v = parseArguments(x.text)
        OBVIOUS
      <4>3. PICK y : y = c[j]
        OBVIOUS
      <4>4. IsBlock(x) /\ x.type = "call" /\ y = [x EXCEPT !.text = v]
        BY <1>2, <3>1, <4>1, <4>2, <4>3
      <4>5. y.type = x.type /\ y.name = x.name /\ y.text = v
        BY <4>4 DEF IsBlock
      <4> QED
        BY <2>2, <4>1, <4>2, <4>3, <4>4, <4>5 DEF ArgsFor
    <3> QED
      BY <3>1, <3>2 DEF Numbered
  <2>3. CASE client = "gemini"
    <3>1. c = [j \in 1 .. k |-> [[calls[j] EXCEPT !.text = parseArguments(calls[j].text)] EXCEPT !.id = ""]]
      BY <1>2, <1>1, <2>3 DEF Map, AsObject
    <3>2. ASSUME NEW j \in 1 .. k
          PROVE  /\ c[j].type = "call" /\ c[j].name = calls[j].name
                 /\ c[j].text = ArgsFor(calls[j].text)
      <4>1. PICK x : x = calls[j]
        OBVIOUS
      <4>2. PICK v : v = parseArguments(x.text)
        OBVIOUS
      <4>3. PICK y : y = c[j]
        OBVIOUS
      <4>4. IsBlock(x) /\ x.type = "call" /\ y = [[x EXCEPT !.text = v] EXCEPT !.id = ""]
        BY <1>2, <3>1, <4>1, <4>2, <4>3
      <4>5. y.type = x.type /\ y.name = x.name /\ y.text = v
        BY <4>4 DEF IsBlock
      <4> QED
        BY <2>3, <4>1, <4>2, <4>3, <4>4, <4>5 DEF ArgsFor
    <3> QED
      BY <3>1, <3>2 DEF Numbered
  <2>4. CASE client \in {"openai", "responses"}
    <3>1. c = calls
      BY <1>1, <2>4
    <3> QED
      BY <1>2, <2>4, <3>1 DEF ArgsFor
  <2> QED
    BY <2>2, <2>3, <2>4 DEF Clients
<1>4. IsAnswerOf(encodeResponse(client, a).blocks, think, text, c)
  BY <1>1, EncodeBlocks DEF Thoughts, IsAnswerOf
<1>5. PICK t : t = encodeResponse(client, a).blocks
  OBVIOUS
<1>6. /\ Words(Of(t, {"text"})) = text
      /\ Words(Of(t, {"thinking"})) = think
      /\ Of(t, {"call"}) = c
  BY <1>3, <1>4, <1>5, ThreeParts
<1> QED
  BY <1>3, <1>5, <1>6 DEF ToldAs

-----------------------------------------------------------------------------
(* An answer, through both translators *)

\* The places of the blocks of some kinds, in an answer of this shape.
Shaped(shape, kinds, b, types) ==
  \A i \in 1 .. Len(shape) : (shape[i] \in kinds) = (b[i].type \in types)
ShapedSay(shape, kinds, b, w) ==
  \A i \in 1 .. Len(shape) : shape[i] \in kinds => b[i].text = <<w[i]>>
At(shape, kinds) == Places(Len(shape), [i \in 1 .. Len(shape) |-> shape[i] \in kinds])

\* The blocks of some types, and their words, stand where the shape has them.
LEMMA AtPlaces ==
  ASSUME NEW shape \in Seq(AnswerTypes), NEW b, DOMAIN b = 1 .. Len(shape),
         NEW kinds, NEW types, Shaped(shape, kinds, b, types)
  PROVE  /\ Of(b, types) = [j \in DOMAIN At(shape, kinds) |-> b[At(shape, kinds)[j]]]
         /\ \A w : ShapedSay(shape, kinds, b, w) =>
              Words(Of(b, types)) = [j \in DOMAIN At(shape, kinds) |-> w[At(shape, kinds)[j]]]
<1>1. PICK n \in Nat : n = Len(shape)
  OBVIOUS
<1>2. PICK kept : kept = [i \in 1 .. n |-> shape[i] \in kinds]
  OBVIOUS
<1>3. Marks(kept, n, b, types)
  <2>1. \A i \in 1 .. n : kept[i] = (shape[i] \in kinds)
    BY <1>2
  <2> QED
    BY <1>1, <2>1, Zenon DEF Marks, Shaped
<1>4. DOMAIN b = 1 .. n
  BY <1>1
<1>5. Of(b, types) = [j \in DOMAIN Places(n, kept) |-> b[Places(n, kept)[j]]]
  BY <1>3, <1>4, OfAtPlaces
<1>6. ASSUME NEW w, ShapedSay(shape, kinds, b, w)
      PROVE  Words(Of(b, types)) = [j \in DOMAIN Places(n, kept) |-> w[Places(n, kept)[j]]]
  <2>1. MarkedSay(kept, n, b, w)
    BY <1>1, <1>2, <1>6 DEF MarkedSay, ShapedSay
  <2> QED
    BY <1>3, <1>4, <2>1, WordsAtPlaces
<1>7. At(shape, kinds) = Places(n, kept)
  BY <1>1, <1>2 DEF At
<1> QED
  BY <1>5, <1>6, <1>7

\* The places of the blocks of some kinds are places in the answer.
LEMMA AtAre ==
  ASSUME NEW shape \in Seq(AnswerTypes), NEW kinds
  PROVE  /\ At(shape, kinds) \in Seq(1 .. Len(shape))
         /\ \A i \in 1 .. Len(shape) :
              shape[i] \in kinds <=> \E j \in DOMAIN At(shape, kinds) : At(shape, kinds)[j] = i
         /\ \A i, j \in DOMAIN At(shape, kinds) : i < j => At(shape, kinds)[i] < At(shape, kinds)[j]
<1>1. PICK n \in Nat : n = Len(shape)
  OBVIOUS
<1>2. PICK kept : kept = [i \in 1 .. n |-> shape[i] \in kinds]
  OBVIOUS
<1>3. At(shape, kinds) = Places(n, kept)
  BY <1>1, <1>2 DEF At
<1>4. \A i \in 1 .. n : kept[i] <=> shape[i] \in kinds
  BY <1>2
<1> QED
  BY <1>1, <1>3, <1>4, PlacesAre

\* The words of the facts of some kinds, in an answer after N facts.
WordsAt(shape, kinds, N) == [j \in DOMAIN At(shape, kinds) |-> N + At(shape, kinds)[j]]

\* They are numbers.
LEMMA WordsAtTyped ==
  ASSUME NEW shape \in Seq(AnswerTypes), NEW kinds, NEW N \in Nat
  PROVE  WordsAt(shape, kinds, N) \in Seq(Int)
<1>1. PICK P : P = At(shape, kinds)
  OBVIOUS
<1>2. P \in Seq(1 .. Len(shape))
  BY <1>1, AtAre
<1>3. PICK v : v = [j \in DOMAIN P |-> N + P[j]]
  OBVIOUS
<1>4. v \in Seq(Int)
  <2>1. DOMAIN P = 1 .. Len(P) /\ Len(P) \in Nat /\ \A j \in 1 .. Len(P) : P[j] \in Int
    BY <1>2
  <2> QED
    BY <1>3, <2>1
<1> QED
  BY <1>1, <1>3, <1>4 DEF WordsAt

\* Of a provider's answer, what its blocks say: a word for each fact, at the
\* place of the fact.
LEMMA ReplySays ==
  ASSUME NEW shape \in Seq(AnswerTypes), NEW cut, NEW N \in Nat, NEW b, Replied(b, shape, cut, N)
  PROVE  /\ Words(Of(b, {"text"})) = WordsAt(shape, {"text"}, N)
         /\ Words(Of(b, {"thinking"})) = WordsAt(shape, {"thinking"}, N)
         /\ Of(b, {"call"}) = [j \in DOMAIN At(shape, Functions) |-> b[At(shape, Functions)[j]]]
<1>1. PICK w : w = [i \in 1 .. Len(shape) |-> N + i]
  OBVIOUS
<1>2. DOMAIN b = 1 .. Len(shape)
  BY DEF Replied
<1>3. \A i \in 1 .. Len(shape) : w[i] = N + i
  BY <1>1
<1>4. ASSUME NEW i \in 1 .. Len(shape)
      PROVE  /\ (shape[i] \in {"text"}) = (b[i].type \in {"text"})
             /\ (shape[i] \in {"thinking"}) = (b[i].type \in {"thinking"})
             /\ (shape[i] \in Functions) = (b[i].type \in {"call"})
             /\ shape[i] \in {"text"} => b[i].text = <<w[i]>>
             /\ shape[i] \in {"thinking"} => b[i].text = <<w[i]>>
  <2>1. /\ shape[i] = "text" => b[i].type = "text" /\ b[i].text = <<N + i>>
        /\ shape[i] = "thinking" => b[i].type = "thinking" /\ b[i].text = <<N + i>>
        /\ shape[i] \in Functions => b[i].type = "call"
    BY DEF Replied
  <2>2. shape[i] = "text" \/ shape[i] = "thinking" \/ shape[i] \in Functions
    BY DEF AnswerTypes
  <2>3. "text" \notin Functions /\ "thinking" \notin Functions
    BY DEF Functions
  <2> QED
    BY <1>3, <2>1, <2>2, <2>3
<1>5. Shaped(shape, {"text"}, b, {"text"}) /\ Shaped(shape, {"thinking"}, b, {"thinking"})
  BY <1>4 DEF Shaped
<1>6. Shaped(shape, Functions, b, {"call"})
  BY <1>4 DEF Shaped
<1>7. ShapedSay(shape, {"text"}, b, w) /\ ShapedSay(shape, {"thinking"}, b, w)
  BY <1>4 DEF ShapedSay
<1>8. Words(Of(b, {"text"})) = [j \in DOMAIN At(shape, {"text"}) |-> w[At(shape, {"text"})[j]]]
  BY <1>2, <1>5, <1>7, AtPlaces
<1>9. Words(Of(b, {"thinking"})) =
        [j \in DOMAIN At(shape, {"thinking"}) |-> w[At(shape, {"thinking"})[j]]]
  BY <1>2, <1>5, <1>7, AtPlaces
<1>10. Of(b, {"call"}) = [j \in DOMAIN At(shape, Functions) |-> b[At(shape, Functions)[j]]]
  BY <1>2, <1>6, AtPlaces
<1>11. ASSUME NEW kinds
       PROVE  [j \in DOMAIN At(shape, kinds) |-> w[At(shape, kinds)[j]]] = WordsAt(shape, kinds, N)
  <2>1. PICK P : P = At(shape, kinds)
    OBVIOUS
  <2>2. \A j \in DOMAIN P : P[j] \in 1 .. Len(shape)
    BY <2>1, AtAre
  <2>3. [j \in DOMAIN P |-> w[P[j]]] = [j \in DOMAIN P |-> N + P[j]]
    BY <1>1, <2>2
  <2> QED
    BY <2>1, <2>3 DEF WordsAt
<1> QED
  BY <1>8, <1>9, <1>10, <1>11

\* An answer as its client should get it: the text and the thoughts are the words
\* of their facts, and each call has its name and its arguments.
ToldRight(t, shape, cut, N) ==
  /\ Words(Of(t, {"text"})) = WordsAt(shape, {"text"}, N)
  /\ Words(Of(t, {"thinking"})) = WordsAt(shape, {"thinking"}, N)
  /\ Numbered(Len(At(shape, Functions)), Of(t, {"call"}))
  /\ \A j \in 1 .. Len(At(shape, Functions)) :
       /\ Of(t, {"call"})[j].name = shape[At(shape, Functions)[j]]
       /\ Of(t, {"call"})[j].text = ArgsFor(<<ArgsWord(shape, cut, N, At(shape, Functions)[j])>>)

\* It does, from every provider, in the words of every client; and the pivot in
\* between has as many calls.
LEMMA AnswerTold ==
  ASSUME client \in Clients, NEW p \in Providers,
         NEW shape \in Seq(AnswerTypes), NEW cut, NEW N \in Nat, NEW b, Replied(b, shape, cut, N),
         "thinking" \in ToSet(shape) => p \in Thinks,
         p = "web" => ToSet(shape) \cap Functions = {},
         NEW a, NEW m, m = a.message, m = MessageOf(p, b)
  PROVE  /\ ToldRight(encodeResponse(client, a).blocks, shape, cut, N)
         /\ Numbered(Len(At(shape, Functions)), m.calls)
<1>1. PICK P : P = At(shape, Functions)
  OBVIOUS
<1>2. /\ P \in Seq(1 .. Len(shape))
      /\ \A i \in 1 .. Len(shape) : shape[i] \in Functions <=> \E j \in DOMAIN P : P[j] = i
  BY <1>1, AtAre
<1>3. PICK k \in Nat : k = Len(P) /\ DOMAIN P = 1 .. k /\ \A j \in 1 .. k : P[j] \in 1 .. Len(shape)
  BY <1>2
<1>4. PICK calls : calls = Of(b, {"call"})
  OBVIOUS
<1>5. /\ Words(Of(b, {"text"})) = WordsAt(shape, {"text"}, N)
       /\ Words(Of(b, {"thinking"})) = WordsAt(shape, {"thinking"}, N)
  BY ReplySays
<1>6. calls = [j \in 1 .. k |-> b[P[j]]]
  BY <1>1, <1>3, <1>4, ReplySays
<1>7. Numbered(k, calls)
  BY <1>6 DEF Numbered
<1>8. \A j \in 1 .. k : /\ IsBlock(calls[j]) /\ calls[j].type = "call"
                        /\ calls[j].name = shape[P[j]]
                        /\ calls[j].text = <<ArgsWord(shape, cut, N, P[j])>>
  <2>1. ASSUME NEW j \in 1 .. k
        PROVE  /\ IsBlock(b[P[j]]) /\ b[P[j]].type = "call" /\ b[P[j]].name = shape[P[j]]
               /\ b[P[j]].text = <<ArgsWord(shape, cut, N, P[j])>>
    <3>1. PICK i \in 1 .. Len(shape) : i = P[j] /\ shape[i] \in Functions
      BY <1>2, <1>3
    <3>2. /\ IsBlock(b[i]) /\ b[i].type = "call" /\ b[i].name = shape[i]
          /\ b[i].text = <<ArgsWord(shape, cut, N, i)>>
      BY <3>1 DEF Replied
    <3> QED
      BY <3>1, <3>2
  <2> QED
    BY <1>6, <2>1
<1>9. p \notin Thinks => Words(Of(b, {"thinking"})) = <<>>
  <2>1. ASSUME p \notin Thinks PROVE WordsAt(shape, {"thinking"}, N) = <<>>
    <3>1. PICK Q : Q = At(shape, {"thinking"})
      OBVIOUS
    <3>2. /\ Q \in Seq(1 .. Len(shape))
          /\ \A i \in 1 .. Len(shape) : shape[i] \in {"thinking"} <=> \E j \in DOMAIN Q : Q[j] = i
      BY <3>1, AtAre
    <3>3. \A i \in 1 .. Len(shape) : shape[i] # "thinking"
      BY <2>1 DEF ToSet
    <3>4. DOMAIN Q = {}
      BY <3>2, <3>3
    <3> QED
      BY <3>1, <3>4 DEF WordsAt
  <2> QED
    BY <2>1, ReplySays
<1>10. p = "web" => k = 0
  <2>1. ASSUME p = "web", k # 0 PROVE FALSE
    <3>1. 1 \in 1 .. k
      BY <1>3, <2>1
    <3>2. P[1] \in 1 .. Len(shape) /\ shape[P[1]] \in Functions
      BY <1>2, <1>3, <3>1
    <3> QED
      BY <2>1, <3>2 DEF ToSet
  <2> QED
    BY <2>1
<1>11. MessageHas(m, b) /\ DOMAIN m.calls = 1 .. k /\ Numbered(k, m.calls)
  BY <1>4, <1>7, <1>8, <1>9, <1>10, Decoded
<1>12. PICK c : c = m.calls
  OBVIOUS
<1>13. /\ m.content = Said(WordsAt(shape, {"text"}, N))
       /\ m.reasoning = WordsAt(shape, {"thinking"}, N)
  <2>1. /\ m.content = Said(Words(Of(b, {"text"})))
        /\ m.reasoning = Words(Of(b, {"thinking"}))
    BY <1>11, Zenon DEF MessageHas
  <2> QED
    BY <1>5, <2>1
<1>14. \A j \in 1 .. k : /\ IsBlock(c[j]) /\ c[j].type = "call"
                         /\ c[j].name = shape[P[j]]
                         /\ c[j].text = <<ArgsWord(shape, cut, N, P[j])>>
  BY <1>4, <1>8, <1>11, <1>12 DEF MessageHas
<1>15. PICK t : t = encodeResponse(client, a).blocks
  OBVIOUS
<1>16. AreCalls(k, c)
  BY <1>14 DEF AreCalls
<1>17. PICK text : text = WordsAt(shape, {"text"}, N)
  OBVIOUS
<1>18. PICK think : think = WordsAt(shape, {"thinking"}, N)
  OBVIOUS
<1>19. text \in Seq(Int) /\ think \in Seq(Int)
  BY <1>17, <1>18, WordsAtTyped
<1>20. m.content = Said(text) /\ m.reasoning = think /\ m.calls = c /\ Numbered(k, c)
  BY <1>11, <1>12, <1>13, <1>17, <1>18
<1>21. ToldAs(t, text, think, k, c)
  BY <1>15, <1>16, <1>17, <1>18, <1>19, <1>20, Encoded
<1> QED
  BY <1>1, <1>3, <1>11, <1>14, <1>15, <1>21, <1>17, <1>18 DEF ToldRight, ToldAs

-----------------------------------------------------------------------------
(* The facts of an answer *)

\* Of the words of an answer's facts, those of some types, one sequence each.
WordsOfTypes(shape, w, f, types) == [i \in 1 .. Len(shape) |-> One(w[i], f[i].type \in types)]

\* Together they are those at the places of some kinds.
LEMMA PickedAt ==
  ASSUME NEW shape \in Seq(AnswerTypes), NEW kinds, NEW types, NEW w,
         NEW f, Shaped(shape, kinds, f, types)
  PROVE  FlattenSeq(WordsOfTypes(shape, w, f, types))
           = [j \in DOMAIN At(shape, kinds) |-> w[At(shape, kinds)[j]]]
<1>1. PICK n \in Nat : n = Len(shape)
  OBVIOUS
<1>2. PICK kept : kept = [i \in 1 .. n |-> shape[i] \in kinds]
  OBVIOUS
<1>3. PICK s : s = [i \in 1 .. n |-> One(w[i], kept[i])]
  OBVIOUS
<1>4. WordsOfTypes(shape, w, f, types) = s
  <2>1. \A i \in 1 .. n : kept[i] = (f[i].type \in types)
    <3>1. \A i \in 1 .. n : kept[i] = (shape[i] \in kinds)
      BY <1>2
    <3> QED
      BY <1>1, <3>1, Zenon DEF Shaped
  <2> QED
    BY <1>1, <1>3, <2>1 DEF WordsOfTypes
<1>5. PICK P : P = Places(n, kept)
  OBVIOUS
<1>6. FlattenSeq(s) = [j \in DOMAIN P |-> w[P[j]]]
  BY <1>3, <1>5, Picked
<1>7. P = At(shape, kinds)
  BY <1>1, <1>2, <1>5 DEF At
<1> QED
  BY <1>4, <1>6, <1>7

\* A ledger of N facts, and those of an answer; and the numbers of these.
Appended(L, N, f, shape) == \A i \in 1 .. Len(shape) : L[N + i] = f[i]
AreNumbers(w, N, shape)  == w = [i \in DOMAIN shape |-> N + i]

\* The facts of some types, as ClientGetsAnswer has them.
FactsIn(w, L, types) == FlattenSeq(Map(w, LAMBDA i : One(i, L[i].type \in types)))

\* The facts of some kinds, as ClientGetsAnswer finds them, are the words at the
\* places of their blocks.
LEMMA FactsAre ==
  ASSUME NEW shape \in Seq(AnswerTypes), NEW N \in Nat, NEW kinds, NEW types, NEW L,
         NEW f, Appended(L, N, f, shape), Shaped(shape, kinds, f, types),
         NEW w, AreNumbers(w, N, shape)
  PROVE  FactsIn(w, L, types) = WordsAt(shape, kinds, N)
<1>1. FlattenSeq(WordsOfTypes(shape, w, f, types))
        = [j \in DOMAIN At(shape, kinds) |-> w[At(shape, kinds)[j]]]
  BY PickedAt
<1>2. PICK n \in Nat : n = Len(shape) /\ DOMAIN shape = 1 .. n
  OBVIOUS
<1>3. DOMAIN w = 1 .. n /\ \A i \in 1 .. n : w[i] = N + i
  BY <1>2 DEF AreNumbers
<1>4. Map(w, LAMBDA i : One(i, L[i].type \in types)) = WordsOfTypes(shape, w, f, types)
  <2>1. \A i \in 1 .. n : L[w[i]] = f[i]
    BY <1>2, <1>3 DEF Appended
  <2>2. Map(w, LAMBDA i : One(i, L[i].type \in types))
          = [i \in 1 .. n |-> One(w[i], L[w[i]].type \in types)]
    BY <1>3 DEF Map
  <2> QED
    BY <1>2, <2>1, <2>2 DEF WordsOfTypes
<1>5. PICK P : P = At(shape, kinds)
  OBVIOUS
<1>6. FlattenSeq(WordsOfTypes(shape, w, f, types)) = [j \in DOMAIN P |-> w[P[j]]]
  BY <1>1, <1>5
<1>7. \A j \in DOMAIN P : P[j] \in 1 .. n
  BY <1>2, <1>5, AtAre
<1>8. [j \in DOMAIN P |-> w[P[j]]] = [j \in DOMAIN P |-> N + P[j]]
  BY <1>3, <1>7
<1> QED
  BY <1>4, <1>5, <1>6, <1>8 DEF WordsAt, FactsIn

-----------------------------------------------------------------------------
(* How an answer ended, and what it cost *)

\* The outcomes of an answer (Next).
Endings == {"end", "length", "calls", "refused"}

\* The reason in the pivot: the provider's own, or what the calls say.
LEMMA FinishIs ==
  ASSUME NEW p \in Providers, NEW outcome \in Endings, NEW m
  PROVE  LET f == FinishOf(p, StopWord(p, outcome), m)
         IN  /\ p \notin DOMAIN StopWords => f = FinishOfContent(m)
             /\ p \in DOMAIN StopWords =>
                  /\ outcome = "end"     => f = "stop"
                  /\ outcome = "calls"   => f = IF p = "gemini" THEN "stop" ELSE "tool_calls"
                  /\ outcome = "length"  => f = "length"
                  /\ outcome = "refused" => f = "content_filter"
<1>1. DOMAIN StopWords = {"openai", "claude", "gemini"}
  BY DEF StopWords
<1>2. CASE p = "openai"
  <2>1. \A x : StopWord(p, x) = StopWords["openai"][x] /\ FinishOf(p, x, m) = x
    BY <1>1, <1>2, Zenon DEF StopWord, FinishOf
  <2>2. /\ StopWords["openai"]["end"] = "stop" /\ StopWords["openai"]["calls"] = "tool_calls"
        /\ StopWords["openai"]["length"] = "length"
        /\ StopWords["openai"]["refused"] = "content_filter"
    BY DEF StopWords
  <2>3. CASE outcome = "end"
    BY <1>1, <1>2, <2>1, <2>2, <2>3
  <2>4. CASE outcome = "calls"
    BY <1>1, <1>2, <2>1, <2>2, <2>4
  <2>5. CASE outcome = "length"
    BY <1>1, <1>2, <2>1, <2>2, <2>5
  <2>6. CASE outcome = "refused"
    BY <1>1, <1>2, <2>1, <2>2, <2>6
  <2> QED
    BY <2>3, <2>4, <2>5, <2>6 DEF Endings
<1>3. CASE p = "claude"
  <2>1. \A x : /\ StopWord(p, x) = StopWords["claude"][x]
               /\ FinishOf(p, x, m) = Given(anthropicStopToOpenAI(x), m)
    BY <1>1, <1>3, Zenon DEF StopWord, FinishOf
  <2>2. /\ StopWords["claude"]["end"] = "end_turn" /\ StopWords["claude"]["calls"] = "tool_use"
        /\ StopWords["claude"]["length"] = "max_tokens"
        /\ StopWords["claude"]["refused"] = "refusal"
    BY DEF StopWords
  <2>3. /\ anthropicStopToOpenAI("end_turn") = "stop"
        /\ anthropicStopToOpenAI("tool_use") = "tool_calls"
        /\ anthropicStopToOpenAI("max_tokens") = "length"
        /\ anthropicStopToOpenAI("refusal") = "content_filter"
    BY Zenon DEF anthropicStopToOpenAI
  <2>4. \A x \in {"stop", "tool_calls", "length", "content_filter"} : Given(x, m) = x
    BY DEF Given, NoFinish
  <2>5. CASE outcome = "end"
    BY <1>1, <1>3, <2>1, <2>2, <2>3, <2>4, <2>5
  <2>6. CASE outcome = "calls"
    BY <1>1, <1>3, <2>1, <2>2, <2>3, <2>4, <2>6
  <2>7. CASE outcome = "length"
    BY <1>1, <1>3, <2>1, <2>2, <2>3, <2>4, <2>7
  <2>8. CASE outcome = "refused"
    BY <1>1, <1>3, <2>1, <2>2, <2>3, <2>4, <2>8
  <2> QED
    BY <2>5, <2>6, <2>7, <2>8 DEF Endings
<1>4. CASE p = "gemini"
  <2>1. \A x : /\ StopWord(p, x) = StopWords["gemini"][x]
               /\ FinishOf(p, x, m) = Given(geminiFinishToOpenAI(x), m)
    BY <1>1, <1>4, Zenon DEF StopWord, FinishOf
  <2>2. /\ StopWords["gemini"]["end"] = "STOP" /\ StopWords["gemini"]["calls"] = "STOP"
        /\ StopWords["gemini"]["length"] = "MAX_TOKENS"
        /\ StopWords["gemini"]["refused"] = "SAFETY"
    BY DEF StopWords
  <2>3. /\ geminiFinishToOpenAI("STOP") = "stop"
        /\ geminiFinishToOpenAI("MAX_TOKENS") = "length"
        /\ geminiFinishToOpenAI("SAFETY") = "content_filter"
    BY Zenon DEF geminiFinishToOpenAI
  <2>4. \A x \in {"stop", "tool_calls", "length", "content_filter"} : Given(x, m) = x
    BY DEF Given, NoFinish
  <2>5. CASE outcome = "end"
    BY <1>1, <1>4, <2>1, <2>2, <2>3, <2>4, <2>5
  <2>6. CASE outcome = "calls"
    BY <1>1, <1>4, <2>1, <2>2, <2>3, <2>4, <2>6
  <2>7. CASE outcome = "length"
    BY <1>1, <1>4, <2>1, <2>2, <2>3, <2>4, <2>7
  <2>8. CASE outcome = "refused"
    BY <1>1, <1>4, <2>1, <2>2, <2>3, <2>4, <2>8
  <2> QED
    BY <2>5, <2>6, <2>7, <2>8 DEF Endings
<1>5. CASE p \notin {"openai", "claude", "gemini"}
  <2>1. \A x : FinishOf(p, x, m) = FinishOfContent(m)
    BY <1>5, Zenon DEF FinishOf
  <2> QED
    BY <1>1, <1>5, <2>1
<1> QED
  BY <1>2, <1>3, <1>4, <1>5

\* The reason a client is told, and the cost.
LEMMA StopIs ==
  ASSUME NEW c \in Clients, NEW a
  PROVE  /\ encodeResponse(c, a).usage = a.usage
         /\ encodeResponse(c, a).stop =
              IF c = "claude" THEN openAIFinishToAnthropic(a.finish)
              ELSE IF c = "gemini" THEN openAIFinishToGemini(a.finish) ELSE a.finish
<1>1. CASE c = "claude"
  BY <1>1, Zenon DEF encodeResponse
<1>2. CASE c = "gemini"
  <2>1. c # "claude"
    BY <1>2
  <2> QED
    BY <1>2, <2>1, Zenon DEF encodeResponse
<1>3. CASE c \notin {"claude", "gemini"}
  BY <1>3, Zenon DEF encodeResponse
<1> QED
  BY <1>1, <1>2, <1>3

\* What a client takes it for (Understood).
Taken(stop, calls) ==
  IF stop \in {"stop", "end_turn"} THEN "end"
  ELSE IF stop = "STOP" THEN IF calls THEN "calls" ELSE "end"
  ELSE IF stop \in {"tool_calls", "tool_use"} THEN "calls"
  ELSE IF stop \in {"length", "max_tokens", "MAX_TOKENS"} THEN "length"
  ELSE IF stop \in {"content_filter", "SAFETY"} THEN "refused" ELSE "unknown"

\* From the reason in the pivot, each client takes the same, but for a refusal.
LEMMA ReasonTold ==
  ASSUME NEW c \in Clients, NEW a, NEW calls \in BOOLEAN
  PROVE  LET stop == encodeResponse(c, a).stop
         IN  /\ a.finish = "stop" =>
                  Taken(stop, calls) = IF c = "gemini" /\ calls THEN "calls" ELSE "end"
             /\ a.finish = "tool_calls" =>
                  Taken(stop, calls) = IF c = "gemini" /\ ~calls THEN "end" ELSE "calls"
             /\ a.finish = "length" => Taken(stop, calls) = "length"
             /\ a.finish = "content_filter" /\ c # "claude" => Taken(stop, calls) = "refused"
<1>1. /\ openAIFinishToAnthropic("stop") = "end_turn"
      /\ openAIFinishToAnthropic("tool_calls") = "tool_use"
      /\ openAIFinishToAnthropic("length") = "max_tokens"
      /\ openAIFinishToGemini("stop") = "STOP"
      /\ openAIFinishToGemini("tool_calls") = "STOP"
      /\ openAIFinishToGemini("length") = "MAX_TOKENS"
      /\ openAIFinishToGemini("content_filter") = "SAFETY"
  BY Zenon DEF openAIFinishToAnthropic, openAIFinishToGemini
<1>2. encodeResponse(c, a).stop =
        IF c = "claude" THEN openAIFinishToAnthropic(a.finish)
        ELSE IF c = "gemini" THEN openAIFinishToGemini(a.finish) ELSE a.finish
  BY StopIs
<1> QED
  BY <1>1, <1>2 DEF Taken

\* The cost a client is told is what the provider counted, where its translator
\* reads the counts.
LEMMA CostTold ==
  ASSUME NEW p \in Providers, NEW u, u = mapUsage(p, Spent(p))
  PROVE  /\ u = NoUsage \/ u.prompt = Spent(p).input + Spent(p).cacheRead + Spent(p).cacheCreate
         /\ u = NoUsage => p \in {"kiro", "cursor", "web"}
<1>1. CASE p = "claude"
  <2>1. u = [prompt     |-> Spent(p).input + Spent(p).cacheRead + Spent(p).cacheCreate,
             completion |-> Spent(p).output]
    BY <1>1, Zenon DEF mapUsage
  <2>2. Spent(p).input = 5 /\ Spent(p).cacheRead = 3 /\ Spent(p).cacheCreate = 1
    BY <1>1 DEF Spent
  <2> QED
    BY <2>1, <2>2 DEF NoUsage
<1>2. CASE p \in {"openai", "responses", "gemini", "ollama"}
  <2>1. u = [prompt |-> Spent(p).input, completion |-> Spent(p).output]
    <3>1. p # "claude"
      BY <1>2
    <3> QED
      BY <1>2, <3>1, Zenon DEF mapUsage
  <2>2. Spent(p).input = 5 /\ Spent(p).cacheRead = 0 /\ Spent(p).cacheCreate = 0
    BY <1>2 DEF Spent
  <2> QED
    BY <2>1, <2>2 DEF NoUsage
<1>3. CASE p \in {"kiro", "cursor", "web"}
  <2>1. p # "claude" /\ p \notin {"openai", "responses", "gemini", "ollama"}
    BY <1>3
  <2>2. u = NoUsage
    BY <2>1, Zenon DEF mapUsage
  <2> QED
    BY <1>3, <2>2
<1> QED
  BY <1>1, <1>2, <1>3 DEF Providers

-----------------------------------------------------------------------------
(* A step of the conversation *)

\* The arguments of a call, cut off or not, as the client should have them.
LEMMA ArgsMatch ==
  ASSUME NEW N \in Nat, NEW shape, NEW i \in 1 .. Len(shape), NEW cut \in BOOLEAN,
         NEW c, c = (cut /\ i = Len(shape))
  PROVE  ArgsFor(<<ArgsWord(shape, cut, N, i)>>) =
           IF ~c THEN <<N + i>>
           ELSE IF client \in {"openai", "responses"} THEN <<-(N + i)>> ELSE <<>>
<1>1. ASSUME NEW x \in Int PROVE parseArguments(<<x>>) = IF x < 0 THEN <<>> ELSE <<x>>
  <2>1. DOMAIN <<x>> = {1} /\ <<x>>[1] = x
    OBVIOUS
  <2> QED
    BY <2>1 DEF parseArguments
<1>2. N + i \in Int /\ -(N + i) \in Int /\ N + i > 0 /\ -(N + i) < 0
  OBVIOUS
<1>3. ArgsWord(shape, cut, N, i) = IF c THEN -(N + i) ELSE N + i
  BY DEF ArgsWord
<1>4. CASE c
  <2>1. ArgsWord(shape, cut, N, i) = -(N + i)
    BY <1>3, <1>4
  <2> QED
    BY <1>1, <1>2, <1>4, <2>1 DEF ArgsFor
<1>5. CASE ~c
  <2>1. ArgsWord(shape, cut, N, i) = N + i
    BY <1>3, <1>5
  <2>2. ~(N + i < 0)
    BY <1>2
  <2> QED
    BY <1>1, <1>2, <1>5, <2>1, <2>2 DEF ArgsFor
<1> QED
  BY <1>4, <1>5

\* The new facts of an answer (ProviderAnswers).
FactOf(p, shape, cut, i) ==
  [Fact EXCEPT !.turn = NextTurn,
               !.type = IF shape[i] \in Functions THEN "call"
                        ELSE IF shape[i] = "text" THEN "answer" ELSE shape[i],
               !.name = IF shape[i] \in Functions THEN shape[i] ELSE "",
               !.noId = p = "gemini" /\ shape[i] \in Functions,
               !.cut  = cut /\ i = Len(shape)]

\* All of them, in order.
AnswerFacts(p, shape, cut) == [i \in DOMAIN shape |-> FactOf(p, shape, cut, i)]

\* Each is of its block's kind.
LEMMA AnswerFactsAre ==
  ASSUME NEW p, NEW shape \in Seq(AnswerTypes), NEW cut \in BOOLEAN,
         NEW f, f = AnswerFacts(p, shape, cut)
  PROVE  /\ DOMAIN f = 1 .. Len(shape) /\ f = [i \in 1 .. Len(shape) |-> f[i]]
         /\ \A i \in 1 .. Len(shape) :
              /\ f[i].turn = NextTurn
              /\ f[i].type = IF shape[i] \in Functions THEN "call"
                             ELSE IF shape[i] = "text" THEN "answer" ELSE "thinking"
              /\ shape[i] \in Functions => f[i].name = shape[i]
              /\ f[i].cut = (cut /\ i = Len(shape))
         /\ Shaped(shape, {"text"}, f, {"answer"})
         /\ Shaped(shape, {"thinking"}, f, {"thinking"})
         /\ Shaped(shape, Functions, f, {"call"})
<1>1. /\ DOMAIN f = 1 .. Len(shape)
      /\ f = [i \in 1 .. Len(shape) |-> f[i]]
      /\ \A i \in 1 .. Len(shape) : f[i] = FactOf(p, shape, cut, i)
  <2>1. DOMAIN shape = 1 .. Len(shape)
    OBVIOUS
  <2> QED
    BY <2>1 DEF AnswerFacts
<1>2. ASSUME NEW i \in 1 .. Len(shape)
      PROVE  /\ f[i].turn = NextTurn
             /\ f[i].type = IF shape[i] \in Functions THEN "call"
                            ELSE IF shape[i] = "text" THEN "answer" ELSE shape[i]
             /\ f[i].name = IF shape[i] \in Functions THEN shape[i] ELSE ""
             /\ f[i].cut = (cut /\ i = Len(shape))
  <2>1. PICK t : t = NextTurn
    OBVIOUS
  <2>2. PICK b : b = IF shape[i] \in Functions THEN "call"
                     ELSE IF shape[i] = "text" THEN "answer" ELSE shape[i]
    OBVIOUS
  <2>3. PICK c : c = IF shape[i] \in Functions THEN shape[i] ELSE ""
    OBVIOUS
  <2>4. PICK d : d = (p = "gemini" /\ shape[i] \in Functions)
    OBVIOUS
  <2>5. PICK e : e = (cut /\ i = Len(shape))
    OBVIOUS
  <2>6. PICK x : x = f[i]
    OBVIOUS
  <2>7. x = [Fact EXCEPT !.turn = t, !.type = b, !.name = c, !.noId = d, !.cut = e]
    BY <1>1, <2>1, <2>2, <2>3, <2>4, <2>5, <2>6, Zenon DEF FactOf
  <2>8. x.turn = t /\ x.type = b /\ x.name = c /\ x.cut = e
    BY <2>7 DEF Fact
  <2> QED
    BY <2>1, <2>2, <2>3, <2>5, <2>6, <2>8
<1>3. \A i \in 1 .. Len(shape) : shape[i] \in {"text", "thinking"} \cup Functions
  BY DEF AnswerTypes
<1>4. "text" \notin Functions /\ "thinking" \notin Functions
  BY DEF Functions
<1>5. \A i \in 1 .. Len(shape) :
        /\ f[i].type = IF shape[i] \in Functions THEN "call"
                       ELSE IF shape[i] = "text" THEN "answer" ELSE "thinking"
        /\ shape[i] \in Functions => f[i].name = shape[i]
  BY <1>2, <1>3
<1>6. Shaped(shape, {"text"}, f, {"answer"})
  BY <1>3, <1>4, <1>5 DEF Shaped
<1>7. Shaped(shape, {"thinking"}, f, {"thinking"})
  BY <1>3, <1>4, <1>5 DEF Shaped
<1>8. Shaped(shape, Functions, f, {"call"})
  BY <1>3, <1>4, <1>5 DEF Shaped
<1> QED
  BY <1>1, <1>2, <1>5, <1>6, <1>7, <1>8

\* The blocks t have the words of the facts w of L, and their calls.
Whole(t, w, L) ==
  /\ Words(Of(t, {"text"})) = FactsIn(w, L, {"answer"})
  /\ Words(Of(t, {"thinking"})) = FactsIn(w, L, {"thinking"})
  /\ Map(Of(t, {"call"}), LAMBDA c : c.name) = Map(FactsIn(w, L, {"call"}), LAMBDA i : L[i].name)
  /\ Map(Of(t, {"call"}), LAMBDA c : c.text) =
       Map(FactsIn(w, L, {"call"}),
           LAMBDA i : IF ~L[i].cut THEN <<i>>
                      ELSE IF client \in {"openai", "responses"} THEN <<-i>> ELSE <<>>)

\* A client gets the thoughts, the text, and the calls with their names and
\* arguments.
LEMMA WholeAnswer ==
  ASSUME client \in Clients, NEW p \in Providers,
         NEW shape \in Seq(AnswerTypes), NEW cut \in BOOLEAN, NEW N \in Nat, N = Len(ledger),
         "thinking" \in ToSet(shape) => p \in Thinks,
         p = "web" => ToSet(shape) \cap Functions = {},
         NEW f, f = AnswerFacts(p, shape, cut),
         NEW L, Appended(L, N, f, shape),
         NEW w, AreNumbers(w, N, shape),
         NEW a, a.message = MessageOf(p, Reply(p, shape, cut)),
         NEW t, t = encodeResponse(client, a).blocks
  PROVE  Whole(t, w, L)
<1>1. Replied(Reply(p, shape, cut), shape, cut, N)
  BY ReplyIs
<1>2. ToldRight(t, shape, cut, N)
  BY <1>1, AnswerTold
<1>3. /\ Shaped(shape, {"text"}, f, {"answer"})
      /\ Shaped(shape, {"thinking"}, f, {"thinking"})
      /\ Shaped(shape, Functions, f, {"call"})
  BY AnswerFactsAre
<1>4. FactsIn(w, L, {"answer"}) = WordsAt(shape, {"text"}, N)
  BY <1>3, FactsAre
<1>5. FactsIn(w, L, {"thinking"}) = WordsAt(shape, {"thinking"}, N)
  BY <1>3, FactsAre
<1>6. FactsIn(w, L, {"call"}) = WordsAt(shape, Functions, N)
  BY <1>3, FactsAre
<1>7. PICK P : P = At(shape, Functions)
  OBVIOUS
<1>8. PICK k \in Nat : /\ k = Len(P) /\ DOMAIN P = 1 .. k
                       /\ \A j \in 1 .. k : P[j] \in 1 .. Len(shape) /\ shape[P[j]] \in Functions
  <2>1. /\ P \in Seq(1 .. Len(shape))
        /\ \A i \in 1 .. Len(shape) : shape[i] \in Functions <=> \E j \in DOMAIN P : P[j] = i
    BY <1>7, AtAre
  <2>2. DOMAIN P = 1 .. Len(P) /\ Len(P) \in Nat
    BY <2>1
  <2>3. ASSUME NEW j \in 1 .. Len(P)
        PROVE  P[j] \in 1 .. Len(shape) /\ shape[P[j]] \in Functions
    <3>1. PICK i \in 1 .. Len(shape) : i = P[j]
      BY <2>1
    <3> QED
      BY <2>1, <2>2, <3>1
  <2> QED
    BY <2>2, <2>3
<1>9. PICK calls : calls = Of(t, {"call"})
  OBVIOUS
<1>10. PICK v : v = [j \in 1 .. k |-> N + P[j]]
  OBVIOUS
<1>11. FactsIn(w, L, {"call"}) = v
  BY <1>6, <1>7, <1>8, <1>10 DEF WordsAt
<1>12. /\ DOMAIN calls = 1 .. k
       /\ \A j \in 1 .. k :
            /\ calls[j].name = shape[P[j]]
            /\ calls[j].text = ArgsFor(<<ArgsWord(shape, cut, N, P[j])>>)
  BY <1>2, <1>7, <1>8, <1>9 DEF ToldRight, Numbered
<1>13. ASSUME NEW j \in 1 .. k
       PROVE  /\ calls[j].name = L[v[j]].name
              /\ calls[j].text = IF ~L[v[j]].cut THEN <<v[j]>>
                                 ELSE IF client \in {"openai", "responses"} THEN <<-v[j]>> ELSE <<>>
  <2>1. PICK i \in 1 .. Len(shape) : i = P[j] /\ shape[i] \in Functions
    BY <1>8
  <2>2. v[j] = N + i
    BY <1>10, <2>1
  <2>3. L[N + i] = f[i]
    BY <2>1 DEF Appended
  <2>4. f[i].name = shape[i] /\ f[i].cut = (cut /\ i = Len(shape))
    BY <2>1, AnswerFactsAre
  <2>5. calls[j].name = shape[i] /\ calls[j].text = ArgsFor(<<ArgsWord(shape, cut, N, i)>>)
    BY <1>12, <2>1
  <2>6. PICK c : c = f[i].cut
    OBVIOUS
  <2>7. calls[j].text = IF ~c THEN <<N + i>>
                        ELSE IF client \in {"openai", "responses"} THEN <<-(N + i)>> ELSE <<>>
    BY <2>4, <2>5, <2>6, ArgsMatch
  <2> QED
    BY <2>2, <2>3, <2>4, <2>5, <2>6, <2>7
<1>14. Map(calls, LAMBDA c : c.name) = Map(v, LAMBDA i : L[i].name)
  BY <1>10, <1>12, <1>13 DEF Map
<1>15. Map(calls, LAMBDA c : c.text) =
         Map(v, LAMBDA i : IF ~L[i].cut THEN <<i>>
                           ELSE IF client \in {"openai", "responses"} THEN <<-i>> ELSE <<>>)
  <2>1. DOMAIN v = 1 .. k
    BY <1>10
  <2> QED
    BY <1>12, <1>13, <2>1, Zenon DEF Map
<1>16. Words(Of(t, {"text"})) = FactsIn(w, L, {"answer"})
  BY <1>2, <1>4 DEF ToldRight
<1>17. Words(Of(t, {"thinking"})) = FactsIn(w, L, {"thinking"})
  BY <1>2, <1>5 DEF ToldRight
<1> QED
  BY <1>9, <1>11, <1>14, <1>15, <1>16, <1>17, Zenon DEF Whole

\* How the answer ended, as the client takes it, but for the reasons known to be
\* told wrong (Misreported).
LEMMA EndingTold ==
  ASSUME client \in Clients, NEW p \in Providers, NEW outcome \in Endings, NEW has \in BOOLEAN,
         outcome = "calls" => has,
         outcome \in {"end", "refused"} => ~has,
         outcome = "length" => ~has \/ p \in WritesArgs,
         NEW a, a.finish = FinishOf(p, StopWord(p, outcome), a.message),
         (a.message.calls # <<>>) = has
  PROVE  \/ Taken(encodeResponse(client, a).stop, has) = outcome
         \/ outcome \in {"length", "refused"} /\ p \notin DOMAIN StopWords
         \/ outcome = "refused" /\ client = "claude"
         \/ outcome = "calls" /\ p = "gemini" /\ client # "gemini"
<1>1. PICK q : q = Taken(encodeResponse(client, a).stop, has)
  OBVIOUS
<1>2. PICK m : m = a.finish
  OBVIOUS
<1>3. /\ m = "stop" => q = IF client = "gemini" /\ has THEN "calls" ELSE "end"
      /\ m = "tool_calls" => q = IF client = "gemini" /\ ~has THEN "end" ELSE "calls"
      /\ m = "length" => q = "length"
      /\ m = "content_filter" /\ client # "claude" => q = "refused"
  BY <1>1, <1>2, ReasonTold
<1>4. CASE p \notin DOMAIN StopWords
  <2>1. m = IF has THEN "tool_calls" ELSE "stop"
    BY <1>2, <1>4, FinishIs DEF FinishOfContent
  <2> QED
    BY <1>1, <1>3, <1>4, <2>1 DEF Endings
<1>5. CASE p \in DOMAIN StopWords
  <2>1. /\ outcome = "end"     => m = "stop"
        /\ outcome = "calls"   => m = IF p = "gemini" THEN "stop" ELSE "tool_calls"
        /\ outcome = "length"  => m = "length"
        /\ outcome = "refused" => m = "content_filter"
    BY <1>2, <1>5, FinishIs
  <2> QED
    BY <1>1, <1>3, <1>5, <2>1 DEF Endings
<1> QED
  BY <1>4, <1>5

-----------------------------------------------------------------------------
(* The invariant *)

\* The kinds of facts, and their fields.
FactTypes == {"system", "text", "image", "remote", "audio", "result", "call", "answer", "thinking"}
FactShape == [turn : Nat, type : FactTypes, name : {""} \cup Functions, of : Nat,
              noId : BOOLEAN, cut : BOOLEAN]

\* The ledger has a fact at least; turns are no more than facts, and a result is
\* for a call that was made.
LedgerInv ==
  /\ ledger \in Seq(FactShape) /\ ledger # <<>>
  /\ \A i \in DOMAIN ledger : ledger[i].turn < Len(ledger) /\ ledger[i].of \in CallFacts \cup {0}

\* A client that is to run functions was told of calls, no more than were made.
ToolsInv ==
  phase = "tools" =>
    \E k \in 1 .. Cardinality(CallFacts) : Numbered(k, Of(told.blocks, {"call"}))

\* The inductive invariant.
TypeInv == RequestInv /\ TypeOK /\ LedgerInv /\ ToolsInv

\* Among some places there is one of every rank.
LEMMA RankExists ==
  ASSUME NEW n \in Nat, NEW C \in SUBSET (1 .. n), NEW r \in 1 .. Cardinality(C)
  PROVE  \E c \in C : Cardinality({j \in C : j <= c}) = r
<1> DEFINE P(m) == \A D \in SUBSET (1 .. m) : \A q \in 1 .. Cardinality(D) :
                     \E c \in D : Cardinality({j \in D : j <= c}) = q
           T == {m \in Nat : P(m)}
<1>1. 0 \in T
  <2>1. \A D \in SUBSET (1 .. 0) : D = {}
    OBVIOUS
  <2>2. 1 .. Cardinality({}) = {}
    BY FS_EmptySet
  <2>3. P(0)
    BY <2>1, <2>2
  <2> QED
    BY <2>3
<1>2. ASSUME NEW m \in T PROVE m + 1 \in T
  <2>1. m \in Nat /\ P(m)
    OBVIOUS
  <2>2. ASSUME NEW D \in SUBSET (1 .. m + 1), NEW q \in 1 .. Cardinality(D)
        PROVE  \E c \in D : Cardinality({j \in D : j <= c}) = q
    <3>1. CASE m + 1 \notin D
      <4>1. D \in SUBSET (1 .. m)
        BY <2>1, <3>1
      <4> QED
        BY <2>1, <4>1
    <3>2. CASE m + 1 \in D
      <4>1. PICK E : E = D \ {m + 1}
        OBVIOUS
      <4>2. E \in SUBSET (1 .. m)
        BY <2>1, <4>1
      <4>3. IsFiniteSet(D)
        <5>1. IsFiniteSet(1 .. m + 1)
          BY <2>1, FS_Interval
        <5> QED
          BY <5>1, FS_Subset
      <4>4. Cardinality(E) = Cardinality(D) - 1 /\ Cardinality(D) \in Nat
        BY <3>2, <4>1, <4>3, FS_RemoveElement, FS_CardinalityType
      <4>5. CASE q = Cardinality(D)
        <5>1. m \in Nat /\ \A j \in D : j \in 1 .. m + 1
          BY <2>1
        <5> HIDE DEF P, T
        <5>2. \A j \in D : j <= m + 1
          BY <5>1
        <5>3. {j \in D : j <= m + 1} = D
          BY <5>2
        <5> QED
          BY <3>2, <4>5, <5>3
      <4>6. CASE q # Cardinality(D)
        <5>1. q \in 1 .. Cardinality(E)
          BY <4>4, <4>6
        <5>2. PICK c \in E : Cardinality({j \in E : j <= c}) = q
          BY <2>1, <4>2, <5>1
        <5>3. {j \in E : j <= c} = {j \in D : j <= c}
          <6>1. c \in 1 .. m
            BY <4>2
          <6> QED
            BY <2>1, <4>1, <6>1
        <5> QED
          BY <4>1, <5>2, <5>3
      <4> QED
        BY <4>5, <4>6
    <3> QED
      BY <3>1, <3>2
  <2> QED
    BY <2>1, <2>2
<1>3. T = Nat
  <2>1. T \in SUBSET Nat /\ \A m \in T : m + 1 \in T
    BY <1>2
  <2> HIDE DEF T
  <2> QED
    BY <1>1, <2>1, Joining!SetInduction
<1>4. P(n)
  <2>1. n \in T
    BY <1>3
  <2> QED
    BY <2>1
<1> QED
  BY <1>4

\* New facts keep the ledger in order: those of one turn, the next.
LEMMA LedgerGrows ==
  ASSUME LedgerInv, NEW x \in Seq(FactShape), ledger' = ledger \o x,
         \A i \in DOMAIN x : x[i].turn = NextTurn /\ x[i].of \in CallFacts \cup {0}
  PROVE  /\ LedgerInv'
         /\ CallFacts \subseteq CallFacts'
         /\ \A i \in 1 .. Len(x) : ledger'[Len(ledger) + i] = x[i]
<1>1. ledger \in Seq(FactShape) /\ ledger # <<>>
  BY DEF LedgerInv
<1>2. PICK N \in Nat : N = Len(ledger) /\ N > 0
  BY <1>1
<1>3. PICK M \in Nat : M = Len(x)
  OBVIOUS
<1>4. ledger' \in Seq(FactShape) /\ Len(ledger') = N + M /\ ledger' # <<>>
  BY <1>1, <1>2, <1>3
<1>5. /\ \A i \in 1 .. N : ledger'[i] = ledger[i]
      /\ \A i \in 1 .. M : ledger'[N + i] = x[i]
  BY <1>1, <1>2, <1>3
<1>6. DOMAIN ledger = 1 .. N /\ DOMAIN ledger' = 1 .. N + M /\ DOMAIN x = 1 .. M
  BY <1>1, <1>2, <1>3, <1>4
<1>7. \A i \in 1 .. N : /\ ledger[i].turn \in Nat /\ ledger[i].turn < N
                         /\ ledger[i].of \in CallFacts \cup {0}
  <2>1. ASSUME NEW i \in 1 .. N
        PROVE  ledger[i].turn \in Nat /\ ledger[i].turn < N /\ ledger[i].of \in CallFacts \cup {0}
    <3>1. ledger[i] \in FactShape
      BY <1>1, <1>6
    <3>2. ledger[i].turn \in Nat
      BY <3>1 DEF FactShape
    <3>3. ledger[i].turn < Len(ledger) /\ ledger[i].of \in CallFacts \cup {0}
      BY <1>6 DEF LedgerInv
    <3> QED
      BY <1>2, <3>2, <3>3
  <2> QED
    BY <2>1
<1>8. CallFacts \subseteq CallFacts'
  <2>1. ASSUME NEW i \in CallFacts PROVE i \in CallFacts'
    <3>1. i \in 1 .. N /\ ledger[i].type = "call"
      BY <1>6 DEF CallFacts
    <3>2. i \in 1 .. N + M
      BY <3>1
    <3>3. ledger'[i].type = "call"
      BY <1>5, <3>1
    <3> QED
      BY <1>6, <3>2, <3>3 DEF CallFacts
  <2> QED
    BY <2>1
<1>9. NextTurn \in Nat /\ NextTurn <= N
  <2>1. Last(ledger) = ledger[N] /\ N \in DOMAIN ledger
    BY <1>1, <1>2, <1>6 DEF Last
  <2>2. ledger[N].turn < N /\ ledger[N].turn \in Nat
    BY <1>2, <1>7
  <2> QED
    BY <2>1, <2>2 DEF NextTurn
<1>10. ASSUME NEW i \in DOMAIN ledger'
      PROVE  ledger'[i].turn < N + M /\ ledger'[i].of \in CallFacts' \cup {0}
  <2>1. CASE i \in 1 .. N
    <3>1. ledger[i].turn < N /\ ledger[i].of \in CallFacts \cup {0} /\ ledger[i].turn \in Nat
      BY <1>7, <2>1
    <3>2. ledger'[i] = ledger[i]
      BY <1>5, <2>1
    <3> QED
      BY <1>8, <3>1, <3>2
  <2>2. CASE i \notin 1 .. N
    <3>1. PICK j \in 1 .. M : i = N + j
      <4>1. i - N \in 1 .. M /\ i = N + (i - N)
        BY <1>6, <2>2
      <4> QED
        BY <4>1
    <3>2. ledger'[i] = x[j] /\ x[j].turn = NextTurn /\ x[j].of \in CallFacts \cup {0}
      BY <1>5, <1>6, <3>1
    <3>3. NextTurn < N + M
      BY <1>9, <3>1
    <3> QED
      BY <1>8, <3>2, <3>3
  <2> QED
    BY <2>1, <2>2
<1> QED
  BY <1>2, <1>3, <1>4, <1>5, <1>8, <1>10 DEF LedgerInv

\* A new fact of the next turn.
LEMMA NextTurnIs ==
  ASSUME LedgerInv
  PROVE  NextTurn \in Nat /\ Len(ledger) \in Nat
<1>1. ledger \in Seq(FactShape) /\ ledger # <<>>
  BY DEF LedgerInv
<1>2. Last(ledger) \in FactShape
  BY <1>1 DEF Last
<1>3. Last(ledger).turn \in Nat
  BY <1>2 DEF FactShape
<1>4. Len(ledger) \in Nat
  BY <1>1
<1> QED
  BY <1>3, <1>4 DEF NextTurn

\* The reasons of a client's format (TypeOK).
StopsOf(c) ==
  CASE c = "claude" -> {"end_turn", "max_tokens", "tool_use", NoFinish}
    [] c = "gemini" -> {"STOP", "MAX_TOKENS", "SAFETY"}
    [] OTHER        -> {"stop", "length", "tool_calls", "content_filter"}

\* Before an answer it was told of none.
ToldStops(c) == {""} \cup StopsOf(c)

\* The reasons of a client's format are the only ones it is told (TypeOK).
LEMMA StopTyped ==
  ASSUME client \in Clients, NEW a,
         a.finish \in {"stop", "length", "tool_calls", "content_filter"}
  PROVE  encodeResponse(client, a).stop \in StopsOf(client)
<1>1. PICK f : f = a.finish
  OBVIOUS
<1>2. PICK stop : stop = encodeResponse(client, a).stop
  OBVIOUS
<1>3. stop = IF client = "claude" THEN openAIFinishToAnthropic(f)
             ELSE IF client = "gemini" THEN openAIFinishToGemini(f) ELSE f
  BY <1>1, <1>2, StopIs
<1>4. CASE client = "claude"
  <2>1. openAIFinishToAnthropic(f) \in {"end_turn", "max_tokens", "tool_use", NoFinish}
    BY DEF openAIFinishToAnthropic
  <2>2. stop \in {"end_turn", "max_tokens", "tool_use", NoFinish}
    BY <1>3, <1>4, <2>1
  <2> QED
    BY <1>2, <1>4, <2>2, Zenon DEF StopsOf
<1>5. CASE client = "gemini"
  <2>1. openAIFinishToGemini(f) \in {"STOP", "MAX_TOKENS", "SAFETY"}
    BY DEF openAIFinishToGemini
  <2>2. stop \in {"STOP", "MAX_TOKENS", "SAFETY"} /\ client # "claude"
    BY <1>3, <1>5, <2>1
  <2> QED
    BY <1>2, <1>5, <2>2, Zenon DEF StopsOf
<1>6. CASE client \notin {"claude", "gemini"}
  <2>1. stop \in {"stop", "length", "tool_calls", "content_filter"}
    BY <1>1, <1>3, <1>6
  <2> QED
    BY <1>2, <1>6, <2>1, Zenon DEF StopsOf
<1> QED
  BY <1>4, <1>5, <1>6

\* The first state has one fact, and nobody was told anything.
LEMMA TypeInvInit == Init => TypeInv
<1> SUFFICES ASSUME Init PROVE TypeInv
  OBVIOUS
<1>1. RequestInv
  BY RequestInvInit
<1>2. /\ client \in Clients /\ ledger = <<Fact>> /\ phase = "user" /\ answers = 0
      /\ told.stop = ""
  BY DEF Init, NotTold
<1>3. Fact \in FactShape /\ Fact.turn = 0 /\ Fact.of = 0
  BY DEF Fact, FactShape, FactTypes
<1>4. /\ ledger \in Seq(FactShape) /\ Len(ledger) = 1 /\ DOMAIN ledger = {1}
      /\ ledger[1].turn = 0 /\ ledger[1].of = 0
  <2>1. ASSUME NEW f \in FactShape
        PROVE  <<f>> \in Seq(FactShape) /\ Len(<<f>>) = 1 /\ DOMAIN <<f>> = {1} /\ <<f>>[1] = f
    OBVIOUS
  <2> QED
    BY <1>2, <1>3, <2>1
<1>5. LedgerInv
  <2>1. ledger # <<>>
    BY <1>4
  <2> QED
    BY <1>4, <2>1 DEF LedgerInv
<1>6. TypeOK
  <2>1. \A i \in DOMAIN ledger :
          ledger[i].of \in CallFacts \cup {0} /\ ledger[i].turn \in 0 .. Len(ledger) + answers
    <3>1. 0 \in 0 .. 1 + 0
      OBVIOUS
    <3> QED
      BY <1>2, <1>4, <3>1
  <2>2. answers \in 0 .. MaxAnswers
    <3>1. MaxAnswers \in Nat
      BY ConversationAssumption DEF ConversationAssumption
    <3>2. 0 \in 0 .. MaxAnswers
      BY <3>1
    <3> QED
      BY <1>2, <3>2
  <2> QED
    BY <1>2, <2>1, <2>2, Zenon DEF TypeOK, InTransit
<1> QED
  BY <1>1, <1>2, <1>5, <1>6 DEF TypeInv, ToolsInv

\* What is left of the types of facts, once the ledger is in order.
LEMMA LedgerTypes ==
  ASSUME LedgerInv', answers' \in Nat, NEW i \in DOMAIN ledger'
  PROVE  ledger'[i].of \in CallFacts' \cup {0} /\ ledger'[i].turn \in 0 .. Len(ledger') + answers'
<1>1. ledger' \in Seq(FactShape)
  BY DEF LedgerInv
<1>2. ledger'[i] \in FactShape /\ Len(ledger') \in Nat
  BY <1>1
<1>3. ledger'[i].turn \in Nat
  BY <1>2 DEF FactShape
<1>4. ledger'[i].turn < Len(ledger') /\ ledger'[i].of \in CallFacts' \cup {0}
  BY DEF LedgerInv
<1> QED
  BY <1>2, <1>3, <1>4

\* And of all types.
LEMMA TypesFollow ==
  ASSUME RequestInv', LedgerInv', phase' \in {"user", "tools", "ask", "sent"},
         answers' \in Nat, answers' <= MaxAnswers, told'.stop \in ToldStops(client')
  PROVE  TypeOK'
<1>1. \A i \in DOMAIN ledger' :
        ledger'[i].of \in CallFacts' \cup {0} /\ ledger'[i].turn \in 0 .. Len(ledger') + answers'
  BY LedgerTypes
<1>2. MaxAnswers \in Nat
  BY ConversationAssumption DEF ConversationAssumption
<1>3. answers' \in 0 .. MaxAnswers
  BY <1>2
<1> QED
  BY <1>1, <1>3, Zenon DEF TypeOK, RequestInv, StopsOf, ToldStops

\* The count of answers is a number.
LEMMA AnswersBound ==
  ASSUME TypeOK
  PROVE  answers \in Nat /\ answers <= MaxAnswers
<1>1. MaxAnswers \in Nat
  BY ConversationAssumption DEF ConversationAssumption
<1>2. answers \in 0 .. MaxAnswers
  BY DEF TypeOK
<1> QED
  BY <1>1, <1>2

\* A user's words, and what comes with them.
LEMMA UserKeepsTypes ==
  ASSUME TypeInv, RequestInv', (\E kind \in UserKinds : UserSays(kind)) \/ UserSpeaks
  PROVE  TypeInv'
<1>1. LedgerInv /\ TypeOK /\ NextTurn \in Nat
  BY NextTurnIs DEF TypeInv
<1>2. ASSUME NEW type \in FactTypes, NEW f, f = [Fact EXCEPT !.turn = NextTurn, !.type = type]
      PROVE  f \in FactShape /\ f.turn = NextTurn /\ f.of = 0
  BY <1>1, <1>2 DEF Fact, FactShape
<1>3. ASSUME NEW kind \in UserKinds, UserSays(kind) PROVE TypeInv'
  <2>1. PICK said : said = [Fact EXCEPT !.turn = NextTurn, !.type = "text"]
    OBVIOUS
  <2>2. PICK medium : medium = [said EXCEPT !.type = kind]
    OBVIOUS
  <2>3. said \in FactShape /\ said.turn = NextTurn /\ said.of = 0
    BY <1>2, <2>1 DEF FactTypes
  <2>4. kind # "none" => medium \in FactShape /\ medium.turn = NextTurn /\ medium.of = 0
    <3>1. kind # "none" => kind \in FactTypes
      BY ConversationAssumption DEF ConversationAssumption, FactTypes
    <3> QED
      BY <2>2, <2>3, <3>1 DEF FactShape
  <2>5. PICK more : more = One(medium, kind # "none")
    OBVIOUS
  <2>6. PICK x : x = <<said>> \o more
    OBVIOUS
  <2>7. x \in Seq(FactShape) /\ \A i \in DOMAIN x : x[i].turn = NextTurn /\ x[i].of = 0
    <3>1. CASE kind = "none"
      <4>1. more = <<>>
        BY <2>5, <3>1 DEF One
      <4> QED
        BY <2>3, <2>6, <4>1
    <3>2. CASE kind # "none"
      <4>1. more = <<medium>>
        BY <2>5, <3>2 DEF One
      <4> QED
        BY <2>3, <2>4, <2>6, <3>2, <4>1
    <3> QED
      BY <3>1, <3>2
  <2>8. ledger' = ledger \o x
    <3>1. ledger' = (ledger \o <<said>>) \o more
      BY <1>3, <2>1, <2>2, <2>5 DEF UserSays
    <3>2. more \in Seq({medium}) /\ <<said>> \in Seq({said}) /\ ledger \in Seq(FactShape)
      BY <1>1, <2>5, OneTyped DEF LedgerInv
    <3> QED
      BY <2>6, <3>1, <3>2
  <2>9. LedgerInv'
    BY <1>1, <2>7, <2>8, LedgerGrows
  <2>10. /\ phase' = "ask" /\ answers' = answers /\ told'.stop \in ToldStops(client')
    BY <1>3 DEF UserSays, NotTold, ToldStops
  <2>11. TypeOK'
    <3>1. answers' \in Nat /\ answers' <= MaxAnswers
      BY <1>1, <2>10, AnswersBound
    <3> QED
      BY <2>9, <2>10, <3>1, TypesFollow
  <2> QED
    BY <2>9, <2>10, <2>11 DEF TypeInv, ToolsInv
<1>4. CASE UserSpeaks
  <2>1. PICK f : f = [Fact EXCEPT !.turn = NextTurn, !.type = "audio"]
    OBVIOUS
  <2>2. f \in FactShape /\ f.turn = NextTurn /\ f.of = 0
    BY <1>2, <2>1 DEF FactTypes
  <2>3. ledger' = ledger \o <<f>>
    <3>1. ledger' = Append(ledger, f) /\ ledger \in Seq(FactShape)
      BY <1>1, <1>4, <2>1 DEF UserSpeaks, LedgerInv
    <3> QED
      BY <2>2, <3>1
  <2>4. <<f>> \in Seq(FactShape) /\ \A i \in DOMAIN <<f>> : <<f>>[i].turn = NextTurn /\ <<f>>[i].of = 0
    BY <2>2
  <2>5. LedgerInv'
    BY <1>1, <2>3, <2>4, LedgerGrows
  <2>6. phase' = "ask" /\ answers' = answers /\ told' = told /\ client' = client
    BY <1>4 DEF UserSpeaks
  <2>7. TypeOK'
    <3>1. answers' \in Nat /\ answers' <= MaxAnswers
      BY <1>1, <2>6, AnswersBound
    <3>2. told'.stop \in ToldStops(client')
      BY <1>1, <2>6, Zenon DEF TypeOK, StopsOf, ToldStops
    <3> QED
      BY <2>5, <2>6, <3>1, <3>2, TypesFollow
  <2> QED
    BY <2>5, <2>6, <2>7 DEF TypeInv, ToolsInv
<1> QED
  BY <1>3, <1>4

\* The results of the client's functions: each is for a call that was made.
LEMMA ToolsKeepTypes ==
  ASSUME TypeInv, RequestInv',
         NEW backwards \in BOOLEAN, NEW comments \in BOOLEAN, ToolsRun(backwards, comments)
  PROVE  TypeInv'
<1> DEFINE calls == Of(told.blocks, {"call"})
           k == Len(calls)
           place(i) == IF backwards THEN k + 1 - i ELSE i
           callOf(i) == CHOOSE c \in CallFacts : Rank(c) = Cardinality(CallFacts) - k + place(i)
           facts == [i \in 1..k |-> [Fact EXCEPT !.turn = NextTurn, !.type = "result", !.of = callOf(i)]]
           said == [Fact EXCEPT !.turn = NextTurn, !.type = "text"]
           comment == One(said, comments)
<1>1. LedgerInv /\ TypeOK /\ ToolsInv /\ NextTurn \in Nat /\ Len(ledger) \in Nat
  BY NextTurnIs DEF TypeInv
<1>2. phase = "tools" /\ ledger' = ledger \o facts \o comment
  BY DEF ToolsRun
<1>3. /\ phase' = "ask" /\ answers' = answers /\ client' = client
      /\ told'.stop \in ToldStops(client')
  BY DEF ToolsRun, NotTold, ToldStops
<1>4. k \in 1 .. Cardinality(CallFacts)
  <2>1. PICK m \in 1 .. Cardinality(CallFacts) : Numbered(m, calls)
    BY <1>1, <1>2 DEF ToolsInv
  <2>2. Len(calls) = m
    BY <2>1, OverItsElements DEF Numbered
  <2> QED
    BY <2>1, <2>2
<1>5. /\ CallFacts \in SUBSET (1 .. Len(ledger))
      /\ Cardinality(CallFacts) \in Nat
  <2>1. ledger \in Seq(FactShape)
    BY <1>1 DEF LedgerInv
  <2>2. CallFacts \in SUBSET (1 .. Len(ledger))
    BY <2>1 DEF CallFacts
  <2>3. IsFiniteSet(1 .. Len(ledger))
    BY <1>1, FS_Interval
  <2>4. IsFiniteSet(CallFacts)
    BY <2>2, <2>3, FS_Subset
  <2> QED
    BY <2>2, <2>4, FS_CardinalityType
<1>6. ASSUME NEW i \in 1 .. k PROVE callOf(i) \in CallFacts
  <2>1. PICK r : r = Cardinality(CallFacts) - k + place(i)
    OBVIOUS
  <2>2. r \in 1 .. Cardinality(CallFacts)
    <3>1. k \in Nat /\ place(i) \in 1 .. k
      BY <1>4, <1>5
    <3> HIDE DEF place, k
    <3> QED
      BY <1>4, <1>5, <2>1, <3>1
  <2>3. \E c \in CallFacts : Rank(c) = r
    <3>1. \E c \in CallFacts : Cardinality({j \in CallFacts : j <= c}) = r
      BY <1>1, <1>5, <2>2, RankExists
    <3> QED
      BY <3>1 DEF Rank
  <2> HIDE DEF place, k
  <2>4. \E c \in CallFacts : Rank(c) = Cardinality(CallFacts) - k + place(i)
    BY <2>1, <2>3
  <2> QED
    BY <2>4
<1> HIDE DEF place, callOf
<1>7. PICK x : x = facts
  OBVIOUS
<1>8. x \in Seq(FactShape) /\ \A i \in DOMAIN x : x[i].turn = NextTurn /\ x[i].of \in CallFacts
  <2>1. k \in Nat
    BY <1>4, <1>5
  <2> HIDE DEF k, calls
  <2>2. ASSUME NEW i \in 1 .. k
        PROVE  x[i] \in FactShape /\ x[i].turn = NextTurn /\ x[i].of \in CallFacts
    <3>1. PICK c : c = callOf(i)
      OBVIOUS
    <3>2. PICK f : f = x[i]
      OBVIOUS
    <3>3. f = [Fact EXCEPT !.turn = NextTurn, !.type = "result", !.of = c]
      BY <1>7, <3>1, <3>2
    <3>4. c \in CallFacts
      BY <1>6, <3>1
    <3>5. c \in Nat
      BY <1>1, <1>5, <3>4
    <3>6. f \in FactShape /\ f.turn = NextTurn /\ f.of = c
      BY <1>1, <3>3, <3>5 DEF Fact, FactShape, FactTypes
    <3> QED
      BY <3>2, <3>4, <3>6
  <2>3. DOMAIN x = 1 .. k /\ x = [i \in 1 .. k |-> x[i]]
    BY <1>7
  <2> QED
    BY <2>1, <2>2, <2>3
<1>9. PICK y : y = comment
  OBVIOUS
<1>10. y \in Seq(FactShape) /\ \A i \in DOMAIN y : y[i].turn = NextTurn /\ y[i].of = 0
  <2>1. said \in FactShape /\ said.turn = NextTurn /\ said.of = 0
    BY <1>1 DEF Fact, FactShape, FactTypes
  <2>2. y = <<>> \/ y = <<said>>
    BY <1>9 DEF One
  <2>3. PICK s : s = said
    OBVIOUS
  <2> HIDE DEF said
  <2>4. CASE y = <<>>
    BY <2>4
  <2>5. CASE y = <<s>>
    BY <2>1, <2>3, <2>5
  <2> QED
    BY <2>2, <2>3, <2>4, <2>5
<1>11. PICK z : z = x \o y
  OBVIOUS
<1>12. /\ z \in Seq(FactShape)
       /\ \A i \in DOMAIN z : z[i].turn = NextTurn /\ z[i].of \in CallFacts \cup {0}
  BY <1>8, <1>10, <1>11
<1>13. ledger' = ledger \o z
  <2>1. ledger \in Seq(FactShape)
    BY <1>1 DEF LedgerInv
  <2>2. ledger' = (ledger \o x) \o y
    BY <1>2, <1>7, <1>9
  <2> QED
    BY <1>8, <1>10, <1>11, <2>1, <2>2
<1>14. LedgerInv'
  BY <1>1, <1>12, <1>13, LedgerGrows
<1>15. TypeOK'
  <2>1. answers' \in Nat /\ answers' <= MaxAnswers
    BY <1>1, <1>3, AnswersBound
  <2> QED
    BY <1>3, <1>14, <2>1, TypesFollow
<1> QED
  BY <1>3, <1>14, <1>15 DEF TypeInv, ToolsInv

\* An answer as it is decoded, told and recorded (ProviderAnswers): from a
\* provider that can give it, with calls just where its ending says so.
AnswerGiven(p, shape, outcome, cut) ==
  /\ client \in Clients /\ client' = client
  /\ p \in Providers
  /\ "thinking" \in ToSet(shape) => p \in Thinks
  /\ p = "web" => ToSet(shape) \cap Functions = {}
  /\ outcome = "calls" => ToSet(shape) \cap Functions # {}
  /\ outcome \in {"end", "refused"} => ToSet(shape) \cap Functions = {}
  /\ outcome = "length" => ToSet(shape) \cap Functions = {} \/ p \in WritesArgs
  /\ given' = [provider |-> p, outcome |-> outcome,
               facts |-> [i \in DOMAIN shape |-> Len(ledger) + i]]
  /\ ledger' = ledger \o AnswerFacts(p, shape, cut)
  /\ answers < MaxAnswers /\ answers' = answers + 1
  /\ phase' = IF Of(told'.blocks, {"call"}) # <<>> THEN "tools" ELSE "user"

\* What is told of the answer a in the pivot.
AnswerPivot(a, p, shape, outcome, cut) ==
  /\ a.message = MessageOf(p, Reply(p, shape, cut))
  /\ a.finish = FinishOf(p, StopWord(p, outcome), a.message)
  /\ a.usage = mapUsage(p, Spent(p))
  /\ told' = encodeResponse(client, a)

\* Only a provider that was told of functions calls them, so the web front ends
\* do not.
LEMMA CanCall ==
  ASSUME RequestInv, phase = "sent", request.provider = "web"
  PROVE  ~request.parameters.tools
<1>1. request.parameters = Wire
  BY EncodeCases DEF RequestInv, InTransit
<1>2. Wire.tools = FALSE
  BY DEF Wire, Absent
<1> QED
  BY <1>1, <1>2

\* ProviderAnswers gives an answer, and the client is told of it.
LEMMA Answering ==
  ASSUME RequestInv, NEW shape \in Seq(AnswerTypes), NEW outcome \in Endings, NEW cut \in BOOLEAN,
         ProviderAnswers(shape, outcome, cut), NEW p, p = request.provider
  PROVE  /\ AnswerGiven(p, shape, outcome, cut)
         /\ \E a : AnswerPivot(a, p, shape, outcome, cut)
<1>1. client \in Clients /\ p \in Providers
  BY DEF RequestInv, ProviderAnswers, InTransit
<1>2. phase = "sent" /\ CanSay(p, shape)
  BY DEF ProviderAnswers
<1>3. "thinking" \in ToSet(shape) => p \in Thinks
  BY <1>2 DEF CanSay
<1>4. p = "web" => ToSet(shape) \cap Functions = {}
  BY <1>2, CanCall DEF CanSay
<1>5. /\ cut => p \in WritesArgs /\ outcome = "length"
      /\ ~cut => outcome \in Outcomes(shape)
  BY DEF ProviderAnswers
<1>6. /\ outcome = "calls" => ToSet(shape) \cap Functions # {}
      /\ outcome \in {"end", "refused"} => ToSet(shape) \cap Functions = {}
      /\ outcome = "length" => ToSet(shape) \cap Functions = {} \/ p \in WritesArgs
  <2>1. CASE cut
    BY <1>5, <2>1
  <2>2. CASE ~cut
    BY <1>5, <2>2 DEF Outcomes
  <2> QED
    BY <2>1, <2>2
<1>7. /\ given' = [provider |-> p, outcome |-> outcome,
                   facts |-> [i \in DOMAIN shape |-> Len(ledger) + i]]
      /\ ledger' = ledger \o AnswerFacts(p, shape, cut)
      /\ answers < MaxAnswers /\ answers' = answers + 1 /\ client' = client
      /\ phase' = IF Of(told'.blocks, {"call"}) # <<>> THEN "tools" ELSE "user"
  BY Zenon DEF ProviderAnswers, AnswerFacts, FactOf
<1>8. \E a : AnswerPivot(a, p, shape, outcome, cut)
  <2>1. PICK body : body = [blocks |-> Reply(p, shape, cut), stop |-> StopWord(p, outcome),
                            usage |-> Spent(p)]
    OBVIOUS
  <2>2. PICK a : a = decodeResponse(p, body)
    OBVIOUS
  <2>3. told' = encodeResponse(client, a)
    BY <2>1, <2>2, Zenon DEF ProviderAnswers
  <2>4. body.blocks = Reply(p, shape, cut) /\ body.stop = StopWord(p, outcome) /\ body.usage = Spent(p)
    BY <2>1
  <2>5. PICK m : m = MessageOf(p, body.blocks)
    OBVIOUS
  <2>6. a = [message |-> m, finish |-> FinishOf(p, body.stop, m), usage |-> mapUsage(p, body.usage)]
    BY <2>2, <2>5, Zenon DEF decodeResponse
  <2>7. a.message = m /\ a.finish = FinishOf(p, body.stop, m) /\ a.usage = mapUsage(p, body.usage)
    BY <2>6
  <2> QED
    BY <2>3, <2>4, <2>5, <2>7, Zenon DEF AnswerPivot
<1> QED
  BY <1>1, <1>3, <1>4, <1>6, <1>7, <1>8, Zenon DEF AnswerGiven

\* There are calls in an answer just where there are functions in its shape.
LEMMA HasCalls ==
  ASSUME NEW shape \in Seq(AnswerTypes), NEW calls, Numbered(Len(At(shape, Functions)), calls)
  PROVE  calls # <<>> <=> ToSet(shape) \cap Functions # {}
<1>1. PICK P : P = At(shape, Functions)
  OBVIOUS
<1>2. /\ P \in Seq(1 .. Len(shape))
      /\ \A i \in 1 .. Len(shape) : shape[i] \in Functions <=> \E j \in DOMAIN P : P[j] = i
  BY <1>1, AtAre
<1>3. PICK k \in Nat : k = Len(P) /\ DOMAIN P = 1 .. k /\ \A j \in 1 .. k : P[j] \in 1 .. Len(shape)
  BY <1>2
<1>4. calls = [j \in 1 .. k |-> calls[j]]
  BY <1>1, <1>3 DEF Numbered
<1>5. calls # <<>> <=> k > 0
  <2>1. CASE k = 0
    BY <1>4, <2>1
  <2>2. CASE k > 0
    <3>1. 1 \in DOMAIN calls
      BY <1>3, <1>4, <2>2
    <3> QED
      BY <2>2, <3>1
  <2> QED
    BY <1>3, <2>1, <2>2
<1>6. k > 0 <=> ToSet(shape) \cap Functions # {}
  <2>1. ToSet(shape) = {shape[i] : i \in 1 .. Len(shape)}
    BY DEF ToSet
  <2>2. ASSUME k > 0 PROVE ToSet(shape) \cap Functions # {}
    <3>1. PICK i \in 1 .. Len(shape) : i = P[1] /\ 1 \in DOMAIN P
      BY <1>3, <2>2
    <3>2. shape[i] \in Functions
      BY <1>2, <3>1
    <3> QED
      BY <2>1, <3>1, <3>2
  <2>3. ASSUME ToSet(shape) \cap Functions # {} PROVE k > 0
    <3>1. PICK i \in 1 .. Len(shape) : shape[i] \in Functions
      BY <2>1, <2>3
    <3>2. PICK j \in DOMAIN P : P[j] = i
      BY <1>2, <3>1
    <3> QED
      BY <1>3, <3>2
  <2> QED
    BY <2>2, <2>3
<1> QED
  BY <1>5, <1>6

\* A set has as many numbers at least as are found in it one above the other.
LEMMA AtLeast ==
  ASSUME NEW k \in Nat, NEW v, NEW C \in SUBSET Nat, IsFiniteSet(C),
         \A j \in 1 .. k : v[j] \in C,
         \A i, j \in 1 .. k : i < j => v[i] < v[j]
  PROVE  k <= Cardinality(C)
<1>1. PICK f : f = [j \in 1 .. k |-> v[j]]
  OBVIOUS
<1>2. f \in [1 .. k -> C] /\ DOMAIN f = 1 .. k
  BY <1>1
<1>3. ASSUME NEW i \in 1 .. k, NEW j \in 1 .. k, f[i] = f[j] PROVE i = j
  <2>1. v[i] = v[j] /\ v[i] \in Nat
    BY <1>1, <1>3
  <2>2. ~(i < j) /\ ~(j < i)
    BY <2>1
  <2> QED
    BY <2>2
<1>4. f \in Injection(1 .. k, C)
  BY <1>2, <1>3 DEF Injection, IsInjective
<1>5. Cardinality(1 .. k) = k /\ IsFiniteSet(1 .. k)
  BY FS_Interval
<1> QED
  BY <1>4, <1>5, FS_Injection

\* A new fact of an answer is a fact.
LEMMA FactTyped ==
  ASSUME NextTurn \in Nat, NEW p, NEW shape \in Seq(AnswerTypes), NEW cut \in BOOLEAN,
         NEW i \in 1 .. Len(shape), NEW x, x = FactOf(p, shape, cut, i)
  PROVE  x \in FactShape /\ x.turn = NextTurn /\ x.of = 0
<1>1. PICK b : b = IF shape[i] \in Functions THEN "call"
                   ELSE IF shape[i] = "text" THEN "answer" ELSE shape[i]
  OBVIOUS
<1>2. PICK c : c = IF shape[i] \in Functions THEN shape[i] ELSE Fact.name
  OBVIOUS
<1>3. PICK d \in BOOLEAN : d = (p = "gemini" /\ shape[i] \in Functions)
  OBVIOUS
<1>4. PICK e \in BOOLEAN : e = (cut /\ i = Len(shape))
  OBVIOUS
<1>5. Fact.name = ""
  BY DEF Fact
<1>6. x = [Fact EXCEPT !.turn = NextTurn, !.type = b, !.name = c, !.noId = d, !.cut = e]
  BY <1>1, <1>2, <1>3, <1>4, <1>5, Zenon DEF FactOf
<1>7. b \in FactTypes
  <2>1. shape[i] \in {"text", "thinking"} \cup Functions
    BY DEF AnswerTypes
  <2> QED
    BY <1>1, <2>1 DEF FactTypes
<1>8. c \in {Fact.name} \cup Functions
  BY <1>2
<1>9. Fact \in FactShape /\ Fact.of = 0
  BY DEF Fact, FactShape, FactTypes
<1> HIDE DEF Fact
<1>10. c \in {""} \cup Functions
  BY <1>5, <1>8
<1> QED
  BY <1>6, <1>7, <1>9, <1>10 DEF FactShape

\* The facts of an answer, its calls among them, keep the types.
LEMMA AnswerKeepsTypes ==
  ASSUME TypeInv, RequestInv', NEW shape \in Seq(AnswerTypes), NEW outcome \in Endings,
         NEW cut \in BOOLEAN, ProviderAnswers(shape, outcome, cut)
  PROVE  TypeInv'
<1>1. RequestInv /\ LedgerInv /\ TypeOK /\ NextTurn \in Nat
  BY NextTurnIs DEF TypeInv
<1>2. PICK p : p = request.provider
  OBVIOUS
<1>3. AnswerGiven(p, shape, outcome, cut)
  BY <1>1, <1>2, Answering
<1>4. PICK a : AnswerPivot(a, p, shape, outcome, cut)
  BY <1>1, <1>2, Answering
<1>5. PICK N \in Nat : N = Len(ledger)
  BY <1>1, NextTurnIs
<1>6. PICK f : f = AnswerFacts(p, shape, cut)
  OBVIOUS
<1>7. /\ client \in Clients /\ client' = client /\ p \in Providers /\ ledger' = ledger \o f
      /\ answers < MaxAnswers /\ answers' = answers + 1
      /\ phase' = IF Of(told'.blocks, {"call"}) # <<>> THEN "tools" ELSE "user"
  BY <1>3, <1>6 DEF AnswerGiven
<1>8. /\ DOMAIN f = 1 .. Len(shape) /\ f = [i \in 1 .. Len(shape) |-> f[i]]
      /\ \A i \in 1 .. Len(shape) : f[i] = FactOf(p, shape, cut, i)
  <2>1. DOMAIN shape = 1 .. Len(shape)
    OBVIOUS
  <2> QED
    BY <1>6, <2>1 DEF AnswerFacts
<1>9. \A i \in 1 .. Len(shape) : f[i] \in FactShape /\ f[i].turn = NextTurn /\ f[i].of = 0
  BY <1>1, <1>8, FactTyped
<1>10. f \in Seq(FactShape) /\ Len(f) = Len(shape)
  BY <1>8, <1>9
<1>11. \A i \in DOMAIN f : f[i].turn = NextTurn /\ f[i].of \in CallFacts \cup {0}
  BY <1>8, <1>9
<1>12. /\ LedgerInv'
       /\ \A i \in 1 .. Len(shape) : ledger'[N + i] = f[i]
  BY <1>1, <1>5, <1>7, <1>10, <1>11, LedgerGrows
<1>13. Replied(Reply(p, shape, cut), shape, cut, N)
  BY <1>5, ReplyIs
<1>14. ToldRight(told'.blocks, shape, cut, N)
  BY <1>3, <1>4, <1>13, AnswerTold DEF AnswerGiven, AnswerPivot
<1>15. ToolsInv'
  <2>1. PICK P : P = At(shape, Functions)
    OBVIOUS
  <2>2. /\ P \in Seq(1 .. Len(shape))
        /\ \A i \in 1 .. Len(shape) : shape[i] \in Functions <=> \E j \in DOMAIN P : P[j] = i
        /\ \A i, j \in DOMAIN P : i < j => P[i] < P[j]
    BY <2>1, AtAre
  <2>3. PICK k \in Nat : k = Len(P) /\ DOMAIN P = 1 .. k /\ \A j \in 1 .. k : P[j] \in 1 .. Len(shape)
    BY <2>2
  <2>4. PICK calls : calls = Of(told'.blocks, {"call"})
    OBVIOUS
  <2>5. Numbered(k, calls)
    BY <1>14, <2>1, <2>3, <2>4 DEF ToldRight
  <2>6. calls # <<>> => k # 0
    <3>1. calls = [j \in 1 .. k |-> calls[j]]
      BY <2>5 DEF Numbered
    <3> QED
      BY <3>1
  <2>7. PICK v : v = [j \in 1 .. k |-> N + P[j]]
    OBVIOUS
  <2>8. \A j \in 1 .. k : v[j] \in CallFacts'
    <3>1. ASSUME NEW j \in 1 .. k PROVE v[j] \in CallFacts'
      <4>1. PICK i \in 1 .. Len(shape) : i = P[j]
        BY <2>3
      <4>2. shape[i] \in Functions
        BY <2>2, <2>3, <4>1
      <4>3. f[i].type = "call"
        BY <1>6, <4>2, AnswerFactsAre
      <4>4. ledger'[N + i].type = "call" /\ v[j] = N + i
        BY <1>12, <2>7, <4>1, <4>3
      <4>5. N + i \in DOMAIN ledger'
        <5>1. ledger \in Seq(FactShape)
          BY <1>1 DEF LedgerInv
        <5>2. ledger' = ledger \o f
          BY <1>7
        <5>3. ledger' \in Seq(FactShape)
          BY <1>12 DEF LedgerInv
        <5>4. Len(ledger \o f) = Len(ledger) + Len(f)
          BY <1>10, <5>1
        <5>5. Len(ledger') = N + Len(shape)
          BY <1>5, <1>10, <5>2, <5>4
        <5> QED
          BY <5>3, <5>5
      <4> QED
        BY <4>4, <4>5 DEF CallFacts
    <3> QED
      BY <3>1
  <2>9. \A i, j \in 1 .. k : i < j => v[i] < v[j]
    <3>1. ASSUME NEW i \in 1 .. k, NEW j \in 1 .. k, i < j PROVE v[i] < v[j]
      <4>1. P[i] < P[j]
        BY <2>2, <2>3, <3>1
      <4>2. v[i] = N + P[i] /\ v[j] = N + P[j]
        BY <2>7
      <4>3. P[i] \in Nat /\ P[j] \in Nat
        BY <2>3
      <4> QED
        BY <4>1, <4>2, <4>3
    <3> QED
      BY <3>1
  <2>10. IsFiniteSet(CallFacts') /\ CallFacts' \in SUBSET Nat
    <3>1. PICK M \in Nat : M = Len(ledger') /\ DOMAIN ledger' = 1 .. M
      BY <1>12 DEF LedgerInv
    <3>2. CallFacts' \in SUBSET (1 .. M)
      BY <3>1 DEF CallFacts
    <3>3. IsFiniteSet(1 .. M)
      BY FS_Interval
    <3>4. IsFiniteSet(CallFacts')
      BY <3>2, <3>3, FS_Subset
    <3> QED
      BY <3>2, <3>4
  <2>11. k <= Cardinality(CallFacts') /\ Cardinality(CallFacts') \in Nat
    BY <2>8, <2>9, <2>10, AtLeast, FS_CardinalityType
  <2>12. phase' = "tools" => k \in 1 .. Cardinality(CallFacts')
    BY <1>7, <2>3, <2>4, <2>6, <2>11
  <2> QED
    BY <2>4, <2>5, <2>12 DEF ToolsInv
<1>16. told'.stop \in ToldStops(client')
  <2>1. a.finish = FinishOf(p, StopWord(p, outcome), a.message) /\ told' = encodeResponse(client, a)
    BY <1>4 DEF AnswerPivot
  <2>2. a.finish \in {"stop", "length", "tool_calls", "content_filter"}
    BY <1>7, <2>1, FinishIs DEF FinishOfContent, Endings
  <2>3. told'.stop \in StopsOf(client)
    BY <1>7, <2>1, <2>2, StopTyped
  <2> QED
    BY <1>7, <2>3, Zenon DEF ToldStops
<1>17. TypeOK'
  <2>1. answers' \in Nat /\ answers' <= MaxAnswers
    <3>1. answers \in Nat /\ MaxAnswers \in Nat
      BY <1>1, AnswersBound, ConversationAssumption DEF ConversationAssumption
    <3> QED
      BY <1>7, <3>1
  <2>2. phase' \in {"user", "tools", "ask", "sent"}
    BY <1>7
  <2> QED
    BY <1>12, <1>16, <2>1, <2>2, TypesFollow
<1> QED
  BY <1>12, <1>15, <1>17 DEF TypeInv

\* Every step keeps the types.
LEMMA TypeInvStep == TypeInv /\ [Next]_vars => TypeInv'
<1> SUFFICES ASSUME TypeInv, [Next]_vars
             PROVE  TypeInv'
  OBVIOUS
<1>1. RequestInv'
  BY RequestInvStep DEF TypeInv
<1>2. CASE (\E kind \in UserKinds : UserSays(kind)) \/ UserSpeaks
  BY <1>1, <1>2, UserKeepsTypes
<1>3. ASSUME NEW backwards \in BOOLEAN, NEW comments \in BOOLEAN, ToolsRun(backwards, comments)
      PROVE  TypeInv'
  BY <1>1, <1>3, ToolsKeepTypes
<1>4. ASSUME NEW shape \in Shapes, NEW outcome \in Endings, NEW cut \in BOOLEAN,
             ProviderAnswers(shape, outcome, cut)
      PROVE  TypeInv'
  <2>1. shape \in Seq(AnswerTypes)
    BY ConversationAssumption DEF ConversationAssumption, AnswerTypes
  <2> QED
    BY <1>1, <1>4, <2>1, AnswerKeepsTypes
<1>5. CASE \/ \E p \in Providers, model \in Models, ask \in Asks \cup {Plain} : Send(p, model, ask)
           \/ ProviderFails
           \/ UNCHANGED vars
  <2>1. UNCHANGED <<client, ledger, told, answers>> /\ (phase' = phase \/ phase' \in {"ask", "sent"})
    BY <1>5 DEF Send, ProviderFails, vars
  <2>2. /\ LedgerInv /\ TypeOK /\ ToolsInv
    BY DEF TypeInv
  <2>3. CallFacts' = CallFacts
    BY <2>1 DEF CallFacts
  <2>4. LedgerInv'
    BY <2>1, <2>2, <2>3 DEF LedgerInv
  <2>5. ToolsInv'
    BY <2>1, <2>2, <2>3 DEF ToolsInv
  <2>6. answers' \in Nat /\ answers' <= MaxAnswers
    BY <2>1, <2>2, AnswersBound
  <2>7. told'.stop \in ToldStops(client')
    BY <2>1, <2>2, Zenon DEF TypeOK, StopsOf, ToldStops
  <2>8. phase' \in {"user", "tools", "ask", "sent"}
    BY <2>1, <2>2 DEF TypeOK
  <2>9. TypeOK'
    BY <1>1, <2>4, <2>6, <2>7, <2>8, TypesFollow
  <2> QED
    BY <1>1, <2>4, <2>5, <2>9 DEF TypeInv
<1> QED
  BY <1>2, <1>3, <1>4, <1>5, Zenon DEF Next, Endings

\* The invariant holds always.
LEMMA TypeInvAlways == Spec => []TypeInv
BY TypeInvInit, TypeInvStep, PTL DEF Spec

-----------------------------------------------------------------------------
(* Theorems about the state and the answers *)

\* The types of the state, whatever the formats, requests and answers (TypeOK):
\* no more answers are counted than the bound, no result is for a call that was
\* not made, and a client is told the reason of an answer in its own format's
\* words.
THEOREM ConversationTypes == Spec => []TypeOK
<1>1. TypeInv => TypeOK
  BY DEF TypeInv
<1> QED
  BY <1>1, TypeInvAlways, PTL

\* The answer itself is whole when it is told.
LEMMA AnswerIsWhole ==
  ASSUME TypeInv, NEW shape \in Seq(AnswerTypes), NEW outcome \in Endings, NEW cut \in BOOLEAN,
         ProviderAnswers(shape, outcome, cut)
  PROVE  ClientGetsAnswer'
<1>1. RequestInv /\ LedgerInv /\ TypeOK /\ NextTurn \in Nat
  BY NextTurnIs DEF TypeInv
<1>2. PICK p : p = request.provider
  OBVIOUS
<1>3. AnswerGiven(p, shape, outcome, cut)
  BY <1>1, <1>2, Answering
<1>4. PICK a : AnswerPivot(a, p, shape, outcome, cut)
  BY <1>1, <1>2, Answering
<1>5. PICK N \in Nat : N = Len(ledger)
  BY <1>1, NextTurnIs
<1>6. PICK f : f = AnswerFacts(p, shape, cut)
  OBVIOUS
<1>7. PICK w : w = [i \in DOMAIN shape |-> Len(ledger) + i]
  OBVIOUS
<1>8. PICK L : L = ledger'
  OBVIOUS
<1>9. PICK t : t = told'.blocks
  OBVIOUS
<1>10. /\ client \in Clients /\ client' = client /\ p \in Providers /\ L = ledger \o f
       /\ given' = [provider |-> p, outcome |-> outcome, facts |-> w]
       /\ "thinking" \in ToSet(shape) => p \in Thinks
       /\ p = "web" => ToSet(shape) \cap Functions = {}
  BY <1>3, <1>6, <1>7, <1>8, Zenon DEF AnswerGiven
<1>11. given'.provider = p /\ given'.outcome = outcome /\ given'.facts = w
  BY <1>10
<1>12. a.message = MessageOf(p, Reply(p, shape, cut)) /\ told' = encodeResponse(client, a)
  BY <1>4 DEF AnswerPivot
<1>13. Appended(L, N, f, shape)
  <2>1. DOMAIN f = 1 .. Len(shape) /\ f = [i \in 1 .. Len(shape) |-> f[i]]
    BY <1>6, AnswerFactsAre
  <2>2. f \in Seq({f[i] : i \in 1 .. Len(shape)}) /\ Len(f) = Len(shape)
    BY <2>1, OverItsElements
  <2>3. ledger \in Seq(FactShape)
    BY <1>1 DEF LedgerInv
  <2> QED
    BY <1>5, <1>10, <2>1, <2>2, <2>3 DEF Appended
<1>14. AreNumbers(w, N, shape)
  BY <1>5, <1>7 DEF AreNumbers
<1>15. Whole(t, w, L)
  <2>1. t = encodeResponse(client, a).blocks
    BY <1>9, <1>12
  <2> QED
    BY <1>5, <1>6, <1>10, <1>12, <1>13, <1>14, <2>1, WholeAnswer
<1>16. PICK has \in BOOLEAN : has = (Of(t, {"call"}) # <<>>)
  OBVIOUS
<1>17. /\ has <=> ToSet(shape) \cap Functions # {}
       /\ has <=> a.message.calls # <<>>
  <2>1. Replied(Reply(p, shape, cut), shape, cut, N)
    BY <1>5, ReplyIs
  <2>2. ToldRight(t, shape, cut, N) /\ Numbered(Len(At(shape, Functions)), a.message.calls)
    BY <1>9, <1>10, <1>12, <2>1, AnswerTold
  <2>3. Numbered(Len(At(shape, Functions)), Of(t, {"call"}))
    BY <2>2 DEF ToldRight
  <2> QED
    BY <1>16, <2>2, <2>3, HasCalls
<1>18. \/ Taken(encodeResponse(client, a).stop, has) = outcome
       \/ outcome \in {"length", "refused"} /\ p \notin DOMAIN StopWords
       \/ outcome = "refused" /\ client = "claude"
       \/ outcome = "calls" /\ p = "gemini" /\ client # "gemini"
  <2>1. /\ outcome = "calls" => has
        /\ outcome \in {"end", "refused"} => ~has
        /\ outcome = "length" => ~has \/ p \in WritesArgs
    BY <1>3, <1>17 DEF AnswerGiven
  <2>2. a.finish = FinishOf(p, StopWord(p, outcome), a.message)
    BY <1>4 DEF AnswerPivot
  <2>3. (a.message.calls # <<>>) = has
    BY <1>17
  <2> QED
    BY <1>10, <2>1, <2>2, <2>3, EndingTold
<1>19. Understood' = Taken(told'.stop, has)
  BY <1>9, <1>16, Zenon DEF Understood, Taken
<1>20. Understood' = given'.outcome \/ Misreported'
  BY <1>10, <1>11, <1>12, <1>18, <1>19 DEF Misreported
<1>21. told'.usage = mapUsage(p, Spent(p))
  BY <1>4, <1>10, StopIs DEF AnswerPivot
<1>22. /\ told'.usage = NoUsage \/ told'.usage.prompt = Spent(given'.provider).input
            + Spent(given'.provider).cacheRead + Spent(given'.provider).cacheCreate
       /\ told'.usage = NoUsage => given'.provider \in {"kiro", "cursor", "web"}
  BY <1>10, <1>11, <1>21, CostTold
<1> DEFINE facts(types) == FlattenSeq(Map(given'.facts, LAMBDA i : One(i, ledger'[i].type \in types)))
<1>23. facts({"answer"}) = FactsIn(w, L, {"answer"})
  BY <1>8, <1>11, Zenon DEF FactsIn, Map
<1>24. facts({"thinking"}) = FactsIn(w, L, {"thinking"})
  BY <1>8, <1>11, Zenon DEF FactsIn, Map
<1>25. facts({"call"}) = FactsIn(w, L, {"call"})
  BY <1>8, <1>11, Zenon DEF FactsIn, Map
<1>26. Words(Of(told'.blocks, {"text"})) = facts({"answer"})
  BY <1>9, <1>15, <1>23, Zenon DEF Whole, Map
<1>27. Words(Of(told'.blocks, {"thinking"})) = facts({"thinking"})
  BY <1>9, <1>15, <1>24, Zenon DEF Whole, Map
<1>28. Map(Of(told'.blocks, {"call"}), LAMBDA c : c.name)
         = Map(facts({"call"}), LAMBDA i : ledger'[i].name)
  BY <1>8, <1>9, <1>15, <1>25, Zenon DEF Whole, Map
<1>29. Map(Of(told'.blocks, {"call"}), LAMBDA c : c.text)
         = Map(facts({"call"}), LAMBDA i : IF ~ledger'[i].cut THEN <<i>>
                                           ELSE IF client' \in {"openai", "responses"} THEN <<-i>> ELSE <<>>)
  BY <1>8, <1>9, <1>10, <1>15, <1>25, Zenon DEF Whole, Map
<1> QED
  BY <1>20, <1>22, <1>26, <1>27, <1>28, <1>29, Zenon DEF ClientGetsAnswer, Map

\* What a client was told does not change before it speaks again.
LEMMA GetsAnswerStep == TypeInv /\ ClientGetsAnswer /\ [Next]_vars => ClientGetsAnswer'
<1> SUFFICES ASSUME TypeInv, ClientGetsAnswer, [Next]_vars
             PROVE  ClientGetsAnswer'
  OBVIOUS
<1>1. ASSUME phase' \in {"ask", "sent"} PROVE ClientGetsAnswer'
  <2>1. phase' \notin {"user", "tools"}
    BY <1>1
  <2> QED
    BY <2>1, Zenon DEF ClientGetsAnswer
<1>2. ASSUME NEW kind \in UserKinds, UserSays(kind) PROVE ClientGetsAnswer'
  BY <1>1, <1>2 DEF UserSays
<1>3. CASE UserSpeaks
  BY <1>1, <1>3 DEF UserSpeaks
<1>4. ASSUME NEW backwards \in BOOLEAN, NEW comments \in BOOLEAN, ToolsRun(backwards, comments)
      PROVE  ClientGetsAnswer'
  BY <1>1, <1>4 DEF ToolsRun
<1>5. ASSUME NEW p \in Providers, NEW model \in Models, NEW ask \in Asks \cup {Plain},
             Send(p, model, ask)
      PROVE  ClientGetsAnswer'
  BY <1>1, <1>5 DEF Send
<1>6. ASSUME NEW shape \in Shapes, NEW outcome \in Endings, NEW cut \in BOOLEAN,
             ProviderAnswers(shape, outcome, cut)
      PROVE  ClientGetsAnswer'
  <2>1. shape \in Seq(AnswerTypes)
    BY ConversationAssumption DEF ConversationAssumption, AnswerTypes
  <2> QED
    BY <1>6, <2>1, AnswerIsWhole
<1>7. CASE ProviderFails
  BY <1>1, <1>7 DEF ProviderFails
<1>8. CASE UNCHANGED vars
  <2>1. phase' = phase /\ given' = given /\ ledger' = ledger /\ told' = told /\ client' = client
    BY <1>8 DEF vars
  <2> QED
    BY <2>1, Zenon DEF ClientGetsAnswer, Understood, Misreported, Map
<1> QED
  BY <1>2, <1>3, <1>4, <1>5, <1>6, <1>7, <1>8, Zenon DEF Next, Endings

\* The client gets the whole answer, through both translators, whatever the
\* formats and whatever was answered: the thoughts, the text, the calls with
\* their names and arguments, the ending and the cost (ClientGetsAnswer).
THEOREM AnswersArrive == Spec => []ClientGetsAnswer
<1>1. Init => ClientGetsAnswer
  <2>1. NotGiven.provider = ""
    BY DEF NotGiven
  <2>2. Init => given = NotGiven
    BY DEF Init
  <2> QED
    BY <2>1, <2>2, Zenon DEF ClientGetsAnswer
<1> QED
  BY <1>1, GetsAnswerStep, TypeInvAlways, PTL DEF Spec
=============================================================================
