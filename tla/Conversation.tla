---------------------------- MODULE Conversation ----------------------------
(***************************************************************************)
(* A client talks to providers through the translators                     *)
(* (open-sse/translator).  Every request carries the whole conversation,   *)
(* as the client has it, and may go to another provider than the one       *)
(* before: so what a provider hears of earlier answers has been decoded    *)
(* from one format, kept by the client in a second one, and encoded into a *)
(* third.                                                                  *)
(*                                                                         *)
(* The ledger is the truth: who said what, and which call a result         *)
(* answers.  The i-th fact of the ledger is the word i of the texts that   *)
(* carry it, so a request can be read back and compared with the ledger.   *)
(*                                                                         *)
(* Clients and providers are not in the repository; they are modelled by   *)
(* the formats the translators read and write.  A client of the Responses  *)
(* API is answered with a chat completion (index.ts:246); it is assumed to *)
(* understand that answer and to go on in its own format.                  *)
(***************************************************************************)
EXTENDS Answers, RequestEncoders, Parameters, FiniteSets

CONSTANTS
  MaxAnswers,    \* bound: answers in a conversation
  UserKinds,     \* what a user says besides text: "none", "image", "remote", "audio"
  Shapes,        \* what a provider answers: sequences of block types, a call by its name
  Asks           \* what a client asks for beside an answer, see Ask

ASSUME ConversationAssumption ==
  /\ MaxAnswers \in Nat \ {0}
  /\ Asks \subseteq AskShape
  /\ UserKinds \subseteq {"none", "image", "remote", "audio"}
  /\ Shapes \subseteq Seq({"text", "thinking"} \cup Functions)

VARIABLES
  client,     \* the client's format
  ledger,     \* the truth: facts, see Fact
  history,    \* the conversation as the client has it: [system, turns]
  phase,      \* "user", "tools": it is their turn; "ask": to be sent; "sent"
  request,    \* the request in transit: [provider, model, wire, asked, parameters]
  given,      \* the last answer as the provider gave it: [provider, outcome, facts]
  told,       \* and as the client got it: [blocks, stop, usage]
  answers     \* answers so far

vars == <<client, ledger, history, phase, request, given, told, answers>>

-----------------------------------------------------------------------------
(* Facts *)

Fact == [turn |-> 0, type |-> "system", name |-> "",
         of  |-> 0,         \* of a result: the call it answers
         noId |-> FALSE,    \* a call of Gemini's
         cut |-> FALSE]     \* a call whose arguments were cut off

NextTurn   == Last(ledger).turn + 1

\* The calls of the ledger, and the place of one among them.
CallFacts  == {i \in DOMAIN ledger : ledger[i].type = "call"}
Rank(i)    == Cardinality({j \in CallFacts : j <= i})

-----------------------------------------------------------------------------
(* The client: what it adds to its history *)

Records(turns) == history' = [history EXCEPT !.turns = @ \o turns]

\* The client's own record of an answer.
AnswerTurns(blocks) ==
  CASE client = "gemini"    -> <<Turn("model", blocks)>>
    [] client = "responses" -> Map(blocks, LAMBDA b : Turn(IF b.type = "thinking" THEN "reasoning"
                                                           ELSE "assistant", <<b>>))
    [] OTHER                -> <<Turn("assistant", blocks)>>

ResultTurns(results, comment) ==
  CASE client = "openai"    -> Map(results, LAMBDA b : Turn("tool", <<b>>))
                                 \o Map(comment, LAMBDA b : Turn("user", <<b>>))
    [] client = "responses" -> Map(results, LAMBDA b : Turn("output", <<b>>))
                                 \o Map(comment, LAMBDA b : Turn("user", <<b>>))
    [] OTHER                -> <<Turn("user", results \o comment)>>

NotGiven  == [provider |-> "", outcome |-> "", facts |-> <<>>]
NotTold   == [blocks |-> <<>>, stop |-> "", usage |-> NoUsage]
NoRequest == [provider |-> "", model |-> "", wire |-> <<>>, asked |-> Ask, parameters |-> Wire]

Init ==
  /\ client \in Clients
  /\ ledger = <<Fact>>
  /\ history = IF client = "openai" THEN [system |-> <<>>, turns |-> <<Turn("system", <<Text(<<1>>)>>)>>]
               ELSE [system |-> <<1>>, turns |-> <<>>]
  /\ phase = "user"
  /\ request = NoRequest
  /\ given = NotGiven
  /\ told = NotTold
  /\ answers = 0

Media(kind, word) ==
  CASE kind = "none"   -> <<>>
    [] kind = "image"  -> <<Image(<<word>>, FALSE)>>
    [] kind = "remote" -> <<Image(<<word>>, TRUE)>>
    [] kind = "audio"  -> <<Audio(<<word>>)>>

\* Only the OpenAI format has audio.
UserSays(kind) ==
  LET n      == Len(ledger)
      said   == [Fact EXCEPT !.turn = NextTurn, !.type = "text"]
      medium == [said EXCEPT !.type = kind]
  IN  /\ phase = "user"
      /\ kind = "audio" => client = "openai"
      /\ kind # "none" => answers = 0
      /\ ledger' = ledger \o <<said>> \o One(medium, kind # "none")
      /\ Records(<<Turn("user", <<Text(<<n + 1>>)>> \o Media(kind, n + 2))>>)
      /\ phase' = "ask"
      /\ given' = NotGiven /\ told' = NotTold
      /\ UNCHANGED <<client, request, answers>>

\* A message that is audio and nothing else.
UserSpeaks ==
  /\ phase = "user"
  /\ answers = 0 /\ "audio" \in UserKinds /\ client = "openai"
  /\ ledger' = Append(ledger, [Fact EXCEPT !.turn = NextTurn, !.type = "audio"])
  /\ Records(<<Turn("user", <<Audio(<<Len(ledger) + 1>>)>>)>>)
  /\ phase' = "ask"
  /\ UNCHANGED <<client, request, given, told, answers>>

\* The client has run the functions it was asked to; results may come in either
\* order where ids tell them apart, and the user may have added a word.
ToolsRun(backwards, comments) ==
  LET calls    == Of(told.blocks, {"call"})
      n        == Len(ledger)
      k        == Len(calls)
      place(i) == IF backwards THEN k + 1 - i ELSE i
      callOf(i) == CHOOSE c \in CallFacts : Rank(c) = Cardinality(CallFacts) - k + place(i)
      facts    == [i \in 1..k |-> [Fact EXCEPT !.turn = NextTurn, !.type = "result", !.of = callOf(i)]]
      results  == [i \in 1..k |-> Result(calls[place(i)].id,
                                         IF client = "gemini" THEN calls[place(i)].name ELSE "",
                                         <<n + i>>)]
      comment  == One([Fact EXCEPT !.turn = NextTurn, !.type = "text"], comments)
  IN  /\ phase = "tools"
      /\ backwards => k > 1 /\ client # "gemini"
      /\ ledger' = ledger \o facts \o comment
      /\ Records(ResultTurns(results, One(Text(<<n + k + 1>>), comments)))
      /\ phase' = "ask"
      /\ given' = NotGiven /\ told' = NotTold
      /\ UNCHANGED <<client, request, answers>>

-----------------------------------------------------------------------------
(* The gateway and the providers *)

\* What the client's format has a field for.
CanAsk(ask) ==
  /\ ask.older > 0       => client = "openai"
  /\ ask.limit = Absent  => client # "claude"
  /\ ask.stop            => client # "responses"
  /\ ask.thinking        => client # "responses"
  /\ ask.effort # ""     => client \in {"openai", "responses"}
  /\ ask.choice # ""     => ask.tools

\* The client's word for "some function must be called".
MustWord == CASE client = "claude" -> "any" [] client = "gemini" -> "ANY" [] OTHER -> "required"

InWords(ask) == [ask EXCEPT !.choice = IF @ = Must THEN MustWord ELSE @]

\* Bound: the first request alone varies in its parameters and its model.
Plain   == [Ask EXCEPT !.limit = CLAUDE_DEFAULT_MAX_TOKENS, !.tools = TRUE]
Varies  == answers = 0

Send(provider, model, ask) ==
  /\ phase = "ask"
  /\ model # "glm" => Varies /\ provider = "claude"
  /\ IF Varies THEN CanAsk(ask) ELSE ask = Plain
  /\ request' = [provider   |-> provider,
                 model      |-> model,
                 wire       |-> encodeRequest(provider, decodeRequest(client, history)),
                 asked      |-> ask,
                 parameters |-> encodeParameters(provider, decodeParameters(client, InWords(ask)), model)]
  /\ phase' = "sent"
  /\ UNCHANGED <<client, ledger, history, given, told, answers>>

\* The caller goes on to another provider.
ProviderFails ==
  /\ phase = "sent"
  /\ request' = NoRequest
  /\ phase' = "ask"
  /\ UNCHANGED <<client, ledger, history, given, told, answers>>

HasIds      == {"openai", "responses", "claude", "kiro", "cursor"}
Thinks      == {"openai", "responses", "claude", "gemini"}
WritesArgs  == {"openai", "responses"}       \* arguments as a string, which may be cut off

CanSay(p, shape) ==
  /\ "thinking" \in ToSet(shape) => p \in Thinks
  /\ ToSet(shape) \cap Functions # {} => request.parameters.tools

Reply(p, shape, cut) ==
  LET n == Len(ledger)
      block(i) ==
        CASE shape[i] = "text"     -> Text(<<n + i>>)
          [] shape[i] = "thinking" -> Thinking(<<n + i>>)
          [] OTHER -> Call(IF p \in HasIds THEN "id" \o ToString(n + i) ELSE "", shape[i],
                           <<IF cut /\ i = Len(shape) THEN -(n + i) ELSE n + i>>)
  IN  [i \in DOMAIN shape |-> block(i)]

\* A provider's own word for the end of an answer.
StopWords ==
  [openai |-> [end |-> "stop",     calls |-> "tool_calls", length |-> "length",     refused |-> "content_filter"],
   claude |-> [end |-> "end_turn", calls |-> "tool_use",   length |-> "max_tokens", refused |-> "refusal"],
   gemini |-> [end |-> "STOP",     calls |-> "STOP",       length |-> "MAX_TOKENS", refused |-> "SAFETY"]]

StopWord(p, outcome) == IF p \in DOMAIN StopWords THEN StopWords[p][outcome] ELSE ""

Spent(p) == [input |-> 5, output |-> 2, cacheRead   |-> IF p = "claude" THEN 3 ELSE 0,
                                        cacheCreate |-> IF p = "claude" THEN 1 ELSE 0]

Outcomes(shape) ==
  IF ToSet(shape) \cap Functions # {} THEN {"calls"}
  ELSE IF shape = <<>> THEN {"refused"} ELSE {"end", "length"}

ProviderAnswers(shape, outcome, cut) ==
  LET p     == request.provider
      fact(i) == [Fact EXCEPT !.turn = NextTurn,
                              !.type = IF shape[i] \in Functions THEN "call"
                                       ELSE IF shape[i] = "text" THEN "answer" ELSE shape[i],
                              !.name = IF shape[i] \in Functions THEN shape[i] ELSE "",
                              !.noId = p = "gemini" /\ shape[i] \in Functions,
                              !.cut  = cut /\ i = Len(shape)]
      body  == [blocks |-> Reply(p, shape, cut), stop |-> StopWord(p, outcome), usage |-> Spent(p)]
  IN  /\ phase = "sent"
      /\ answers < MaxAnswers
      /\ CanSay(p, shape)
      /\ cut => p \in WritesArgs /\ shape # <<>> /\ Last(shape) \in Functions /\ outcome = "length"
      /\ ~cut => outcome \in Outcomes(shape)
      /\ given' = [provider |-> p, outcome |-> outcome,
                    facts |-> [i \in DOMAIN shape |-> Len(ledger) + i]]
      /\ told' = encodeResponse(client, decodeResponse(p, body))
      /\ ledger' = ledger \o [i \in DOMAIN shape |-> fact(i)]
      /\ Records(AnswerTurns(told'.blocks))
      /\ phase' = IF Of(told'.blocks, {"call"}) # <<>> THEN "tools" ELSE "user"
      /\ answers' = answers + 1
      /\ request' = NoRequest
      /\ UNCHANGED client

Next ==
  \/ \E kind \in UserKinds : UserSays(kind)
  \/ UserSpeaks
  \/ \E backwards, comments \in BOOLEAN : ToolsRun(backwards, comments)
  \/ \E p \in Providers, model \in Models, ask \in Asks \cup {Plain} : Send(p, model, ask)
  \/ \E shape \in Shapes, outcome \in {"end", "length", "calls", "refused"}, cut \in BOOLEAN :
       ProviderAnswers(shape, outcome, cut)
  \/ ProviderFails

Spec == Init /\ [][Next]_vars
-----------------------------------------------------------------------------
(* What a provider hears *)

InTransit == phase = "sent"
Abs(n)    == IF n < 0 THEN -n ELSE n

\* The facts in one block: a call is one fact even without arguments.
HeardIn(block, role, turn) ==
  LET heard(w) == [word |-> Abs(w), type |-> block.type, role |-> role, name |-> block.name,
                   id   |-> block.id, turn |-> turn]
      words    == SelectSeq(block.text, LAMBDA w : w # Brace)
  IN  IF block.type = "call" /\ words = <<>> THEN <<heard(Brace)>> ELSE Map(words, heard)

Heard ==
  LET turns      == request.wire.turns
      inTurn(t)  == FlattenSeq(Map(turns[t].blocks, LAMBDA b : HeardIn(b, turns[t].role, t)))
  IN  HeardIn(Text(request.wire.system), "system", 0) \o FlattenSeq([t \in DOMAIN turns |-> inTurn(t)])

Roles(fact) ==
  CASE fact.type = "system"                       -> {"system"}
    [] fact.type \in {"text", "image", "remote", "audio"} -> {"user"}
    [] fact.type = "result"                       -> {"user", "tool", "output"}
    [] OTHER                                      -> {"assistant", "model"}

HeardType(fact) ==
  CASE fact.type \in {"system", "answer"} -> "text"
    [] fact.type = "remote"              -> "image"
    [] OTHER                             -> fact.type

\* What is known to get lost on the way to a provider.
KnownLoss(p, fact) ==
  \/ fact.type = "thinking" /\ (p # "gemini" \/ client = "responses")
  \/ fact.type \in {"image", "remote"} /\ p \in {"kiro", "cursor", "web"}
  \/ fact.type = "remote" /\ p = "ollama"
  \/ fact.type = "audio" /\ p # "openai"
  \/ fact.type = "call" /\ p = "web"
  \/ fact.cut /\ ~({p, client} \subseteq {"openai", "responses"})
-----------------------------------------------------------------------------
\* Types of the state; a client is told the reason in its own format's words.
TypeOK ==
  /\ client \in Clients
  /\ phase \in {"user", "tools", "ask", "sent"}
  /\ answers \in 0..MaxAnswers
  /\ \A i \in DOMAIN ledger : ledger[i].of \in CallFacts \cup {0} /\ ledger[i].turn \in 0..Len(ledger) + answers
  /\ InTransit => request.provider \in Providers
  /\ told.stop \in {""} \cup
       CASE client = "claude" -> {"end_turn", "max_tokens", "tool_use", NoFinish}
         [] client = "gemini" -> {"STOP", "MAX_TOKENS", "SAFETY"}
         [] OTHER             -> {"stop", "length", "tool_calls", "content_filter"}

\* Whatever formats a conversation went through, the next provider hears every
\* step of it once, in its speaker's role, apart from the known losses; Kiro
\* hears the system text in the user's (the encoders and decoders of
\* translator/request).
ProviderHearsAll ==
  InTransit =>
    LET heard == Heard
        p     == request.provider
    IN  /\ \A i \in DOMAIN ledger :
             ~KnownLoss(p, ledger[i]) =>
               \E h \in DOMAIN heard :
                 /\ heard[h].word = i
                 /\ heard[h].type = HeardType(ledger[i])
                 /\ heard[h].role \in Roles(ledger[i]) \cup (IF p = "kiro" /\ i = 1 THEN {"user"} ELSE {})
                 /\ ledger[i].type = "call" => heard[h].name = ledger[i].name
        /\ \A g, h \in DOMAIN heard : heard[g].word = heard[h].word /\ heard[g].word # Brace => g = h

\* A provider hears one turn after the other.  Kiro hears the system text last,
\* and the results of one round of calls after the calls of the next
\* (openai-to-kiro.ts:126-152).
HeardInOrder ==
  InTransit =>
    LET heard   == Heard
        kept(h) == \/ request.provider # "kiro"
                   \/ ledger[heard[h].word].type \notin {"system", "result"}
        facts   == {h \in DOMAIN heard : heard[h].word # Brace}
    IN  \A g, h \in {f \in facts : kept(f)} :
          g < h => ledger[heard[g].word].turn <= ledger[heard[h].word].turn

\* The call a provider takes a result for: it counts the results of a key, and
\* the calls.  Ollama gets no key.
TakenFor(heard, h) ==
  LET key(f)      == IF request.provider = "gemini" THEN heard[f].name ELSE heard[f].id
      alike(type) == {f \in DOMAIN heard : heard[f].type = type /\ (key(f) = key(h) \/ request.provider = "ollama")}
      nth         == Cardinality({f \in alike("result") : f <= h})
  IN  {c \in alike("call") : Cardinality({d \in alike("call") : d <= c}) = nth}

CallPlace(heard, c) == Cardinality({d \in DOMAIN heard : heard[d].type = "call" /\ d <= c})

\* Two calls of one answer got one id: both were for one function, from Gemini.
\* The ids of a Gemini client are such ids always.
Collide(c) ==
  \E d \in CallFacts \ {c} :
    /\ ledger[d].turn = ledger[c].turn
    /\ ledger[d].name = ledger[c].name
    /\ ledger[d].noId

Backwards(c) ==
  \E r, s \in DOMAIN ledger :
    /\ {ledger[r].of, ledger[s].of} \subseteq CallFacts
    /\ ledger[r].turn = ledger[c].turn + 1 /\ ledger[s].turn = ledger[r].turn
    /\ r < s /\ ledger[r].of > ledger[s].of

\* A result reaches the provider as the result of the call it answers.  Known
\* exceptions: the web front ends hear no calls, Gemini hears the id of the call
\* where its function's name should be, unless the client is Gemini's too
\* (geminiHelper.ts:112); results that come in another order than their calls,
\* when ids collide (toolCallHelper.ts:90-93) or Ollama is to hear them.
ResultsFindTheirCalls ==
  InTransit /\ request.provider # "web" /\ (request.provider = "gemini" => client = "gemini") =>
    LET heard == Heard
    IN  \A h \in DOMAIN heard :
          heard[h].type = "result" =>
            LET of == ledger[heard[h].word].of
            IN  \/ \E c \in TakenFor(heard, h) : CallPlace(heard, c) = Rank(of)
                \/ Backwards(of) /\ (Collide(of) \/ request.provider = "ollama")

\* Turns of one role that a provider takes for one.
Merged(p, turns) ==
  LET merge == CASE p = "claude" -> {"user", "assistant"} [] p = "gemini" -> {"user"} [] OTHER -> {"tool"}
      add(out, t) ==
        IF out # <<>> /\ Last(out).role = t.role /\ t.role \in merge
        THEN [out EXCEPT ![Len(out)].blocks = @ \o t.blocks] ELSE Append(out, t)
  IN  FoldLeft(add, <<>>, turns)

Ids(blocks) == {blocks[i].id : i \in DOMAIN blocks}

\* A client of the Responses API has an item for each call, and each becomes a
\* message of its own.
SplitCalls == client = "responses" /\ \E c, d \in CallFacts : c # d /\ ledger[c].turn = ledger[d].turn

\* The efforts a Claude model knows (claudeModelCaps.ts:14-20).
EffortsOf(model) ==
  CASE classifyClaudeModel(model) = "adaptive-only" -> {"low", "medium", "high", "xhigh", "max"}
    [] classifyClaudeModel(model) = "adaptive-pref" -> {"low", "medium", "high", "max"}
    [] OTHER                                        -> {}

\* A Claude model is asked for no more than its ceiling, for sampling only where
\* it has it, and for an effort it knows; for a thinking budget only where it
\* takes one, of 1024 at least, and below the limit on output exactly when that
\* limit leaves room for it, that is, above 1024 (maxTokensHelper.ts,
\* claudeModelCaps.ts, openai-to-claude.ts:76-78).
ParametersFit(w, model) ==
  /\ w.limit \in 1..getModelMaxOutput(model)
  /\ w.budget # Absent => /\ w.budget >= 1024
                         /\ w.budget < w.limit <=> w.limit > 1024
                         /\ ~claudeSupportsAdaptive(model)
  /\ w.temperature => claudeSupportsSampling(model)
  /\ w.effort # "" => w.effort \in EffortsOf(model)

\* A request to a Claude model has such parameters.
ClaudeAccepts ==
  InTransit /\ request.provider = "claude" => ParametersFit(request.parameters, request.model)

\* What OpenAI, Claude and Gemini require of a request: the results follow
\* their calls at once, all of them and none besides, no turn is empty, and
\* the parameters are as ParametersFit says.
\* Known exceptions: several calls at once of a Responses client, and for
\* OpenAI and Gemini a turn of which nothing is left (openAIToAnthropic has the
\* guard of claudeHelper.ts:142 and 148, openAIToGemini has none).
RequestIsLegal ==
  InTransit /\ request.provider \in {"openai", "claude", "gemini"} =>
    LET p          == request.provider
        turns      == Merged(p, request.wire.turns)
        calls(t)   == Of(turns[t].blocks, {"call"})
        results(t) == Of(turns[t].blocks, {"result"})
        unheard    == IF p = "openai" THEN {"thinking"} ELSE {"audio"}
    IN  /\ ClaudeAccepts
        /\ \A t \in DOMAIN turns :
             turns[t].blocks = <<>> =>
               /\ p # "claude"
               /\ \E h \in DOMAIN history.turns : Ids(history.turns[h].blocks) \subseteq {""}
                     /\ Of(history.turns[h].blocks, {"text", "thinking", "image", "audio"} \ unheard) = <<>>
        /\ SplitCalls \/
           \A t \in DOMAIN turns :
             /\ calls(t) # <<>> => t < Len(turns) /\ Len(results(t + 1)) = Len(calls(t))
             /\ results(t) # <<>> =>
                  /\ t > 1 /\ calls(t - 1) # <<>>
                  /\ p = "gemini" \/ Ids(results(t)) = Ids(calls(t - 1))

\* What of a request, asked by the client, a provider must hear.
AskHeard(a, w, p, f) ==
  LET mute  == {"kiro", "cursor", "web"}
      limit == IF a.limit > 0 THEN a.limit ELSE a.older
      words == {"required", "any", "ANY"}
  IN  /\ limit > 0 /\ p \notin mute =>
           w.limit = limit \/ (p = "claude" /\ w.limit = getModelMaxOutput(f) /\ w.limit < limit)
      /\ p = "claude" => w.limit > 0
      /\ a.temperature /\ p \notin mute => w.temperature \/ (p = "claude" /\ ~claudeSupportsSampling(f))
      /\ a.stop => w.stop \/ p \in mute \cup {"responses"}
      /\ a.tools => w.tools \/ p = "web"
      /\ a.choice # "" /\ client \in {"openai", "claude"} /\ p \in {"openai", "claude", "gemini"} =>
           IF a.choice = Must THEN w.choice \in words ELSE w.choice = a.choice
      /\ a.thinking /\ client # "gemini" /\ p \in {"openai", "claude", "gemini"} => w.thinking # ""
      /\ a.effort \in {"high", "max"} /\ p \in {"openai", "responses", "claude", "gemini"} =>
           w.thinking # "" \/ w.effort = a.effort
      /\ a.effort # "" /\ w.effort # "" => w.effort = a.effort \/ (p = "claude" /\ w.effort = "high")
      /\ ~a.thinking /\ a.effort = "" => w.thinking = ""

\* What a client asked for reaches the provider, through both translators.
\* Known to be lost: a limit above the model's ceiling, which is lowered; what
\* Kiro, Cursor and the web front ends are not told; stop sequences and the
\* choice of a function where the format has none, or its translator reads none
\* (gemini-to-openai.ts:68-77, openai-responses.ts:210-242); sampling, where
\* Claude refuses it; thinking, which only OpenAI, Claude and Gemini are told
\* of; and an effort other than "high" and "max", which need not mean thinking
\* to Claude, "xhigh" included (openai-to-claude.ts:67-73).
ParametersHeard ==
  InTransit => AskHeard(request.asked, request.parameters, request.provider, request.model)

\* The outcome a client takes from its answer.
Understood ==
  CASE told.stop \in {"stop", "end_turn"}             -> "end"
    [] told.stop = "STOP"                             -> IF Of(told.blocks, {"call"}) = <<>> THEN "end" ELSE "calls"
    [] told.stop \in {"tool_calls", "tool_use"}       -> "calls"
    [] told.stop \in {"length", "max_tokens", "MAX_TOKENS"} -> "length"
    [] told.stop \in {"content_filter", "SAFETY"}     -> "refused"
    [] OTHER                                          -> "unknown"

\* Outcomes known to be told wrong: the formats whose reason is not read (Ollama
\* and the Responses API have one); a refusal, to a Claude client; and calls
\* from Gemini, which says STOP (geminiHelper.ts:249-250).
Misreported ==
  \/ given.outcome \in {"length", "refused"} /\ given.provider \notin DOMAIN StopWords
  \/ given.outcome = "refused" /\ client = "claude"
  \/ given.outcome = "calls" /\ given.provider = "gemini" /\ client # "gemini"

\* The client gets the whole answer: the thoughts, the text, every call with
\* its name and arguments, how it ended and what it cost.
ClientGetsAnswer ==
  phase \in {"user", "tools"} /\ given.provider # "" =>
    LET facts(types) == FlattenSeq(Map(given.facts, LAMBDA i : One(i, ledger[i].type \in types)))
        calls        == Of(told.blocks, {"call"})
        strings      == client \in {"openai", "responses"}
        args(i)      == IF ~ledger[i].cut THEN <<i>> ELSE IF strings THEN <<-i>> ELSE <<>>
    IN  /\ Words(Of(told.blocks, {"text"})) = facts({"answer"})
        /\ Words(Of(told.blocks, {"thinking"})) = facts({"thinking"})
        /\ Map(calls, LAMBDA c : c.name) = Map(facts({"call"}), LAMBDA i : ledger[i].name)
        /\ Map(calls, LAMBDA c : c.text) = Map(facts({"call"}), args)
        /\ Understood = given.outcome \/ Misreported
        /\ told.usage = NoUsage \/ told.usage.prompt = Spent(given.provider).input
                                     + Spent(given.provider).cacheRead + Spent(given.provider).cacheCreate
        /\ told.usage = NoUsage => given.provider \in {"kiro", "cursor", "web"}

\* types.ts:4-7 says the pivot lets tool calls survive a round trip across
\* providers, toolCallHelper.ts:11-15 that results are mapped symmetrically:
\* Gemini knows a result by the name of its function.
GeminiResultsNamed ==
  InTransit /\ request.provider = "gemini" =>
    LET heard == Heard
    IN  \A h \in DOMAIN heard :
          heard[h].type = "result" => heard[h].name = ledger[ledger[heard[h].word].of].name
=============================================================================
