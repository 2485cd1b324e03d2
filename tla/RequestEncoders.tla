-------------------------- MODULE RequestEncoders --------------------------
(***************************************************************************)
(* The pivot into provider requests: encodeRequest of the provider         *)
(* translators (open-sse/translator/index.ts).  A request is [system,      *)
(* turns]; where a provider's format has no place of its own for the       *)
(* system text, it is a turn.                                              *)
(***************************************************************************)
EXTENDS Turns

Providers == {"openai", "responses", "claude", "gemini", "ollama", "kiro", "cursor", "web"}

IsSystem(m) == m.role \in {"system", "developer"}
IsUser(m)   == m.role \notin {"system", "developer", "tool", "assistant"}

\* System messages are lifted out of the conversation.
Lifted(messages) ==
  FlattenSeq(Map(SelectSeq(messages, IsSystem), LAMBDA m : contentToText(m.content)))

ResultOf(m) == Result(m.id, "", contentToText(m.content))

\* Defect: into the user's last turn, wherever that is.
PushToLastUserTurn(out, block) ==
  LET users == {i \in DOMAIN out : out[i].role = "user"}
  IN  IF users = {} THEN Append(out, Turn("user", <<block>>))
      ELSE [out EXCEPT ![CHOOSE i \in users : \A j \in users : j <= i].blocks = Append(@, block)]

\* A block of a user turn: into the last turn if that is the user's, else a new one.
pushToUserTurn(out, block) ==
  IF out # <<>> /\ Last(out).role = "user"
  THEN [out EXCEPT ![Len(out)].blocks = Append(@, block)]
  ELSE Append(out, Turn("user", <<block>>))

-----------------------------------------------------------------------------
(* OpenAI: the pivot itself, without reasoning_content *)

OpenAITurn(m) ==
  IF m.role = "tool" THEN Turn("tool", <<ResultOf(m)>>) ELSE Turn(m.role, m.content \o m.calls)

stripReasoningContent(messages) == [system |-> <<>>, turns |-> Map(messages, OpenAITurn)]

-----------------------------------------------------------------------------
(* Claude: no reasoning, no audio, no empty turns *)

ClaudeBlocks(m) == Of(m.content, {"text", "image"})

assistantToClaude(out, m) ==
  LET blocks == ClaudeBlocks(m) \o Map(m.calls, AsObject)
  IN  IF blocks = <<>> THEN out ELSE Append(out, Turn("assistant", blocks))

openAIToAnthropic(messages) ==
  LET push(out, m) ==
        CASE IsSystem(m)            -> out
          [] m.role = "tool"        -> pushToUserTurn(out, ResultOf(m))
          [] m.role = "assistant"   -> assistantToClaude(out, m)
          [] OTHER                  -> out \o One(Turn("user", ClaudeBlocks(m)), ClaudeBlocks(m) # <<>>)
  IN  [system |-> Lifted(messages), turns |-> FoldLeft(push, <<>>, messages)]

-----------------------------------------------------------------------------
(* Gemini: reasoning is a thought part; a result is sent under the name of   *)
(* its message, or else under the id of its call                             *)

ResponseName(m) == CASE m.name # "" -> m.name
                     [] m.id # ""   -> m.id
                     [] OTHER       -> "tool"

toGeminiFunctionResponse(m) == Result("", ResponseName(m), contentToText(m.content))

toGeminiCall(call) == [AsObject(call) EXCEPT !.id = ""]

openAIToGemini(messages) ==
  LET push(out, m) ==
        CASE IsSystem(m)          -> out
          [] m.role = "tool"      -> pushToUserTurn(out, toGeminiFunctionResponse(m))
          [] m.role = "assistant" ->
               Append(out, Turn("model", One(Thinking(m.reasoning), m.reasoning # <<>>)
                                           \o ClaudeBlocks(m) \o Map(m.calls, toGeminiCall)))
          [] OTHER                -> Append(out, Turn("user", ClaudeBlocks(m)))
  IN  [system |-> Lifted(messages), turns |-> FoldLeft(push, <<>>, messages)]

-----------------------------------------------------------------------------
(* Responses: one item for each call, one for the text *)

toItems(m) ==
  LET text == contentToText(m.content)
  IN  CASE IsSystem(m)          -> <<>>
        [] m.role = "tool"      -> <<Turn("output", <<ResultOf(m)>>)>>
        [] m.role = "assistant" -> Map(m.calls, LAMBDA c : Turn("assistant", <<c>>))
                                     \o One(Turn("assistant", <<Text(text)>>), text # <<>>)
        [] OTHER                -> <<Turn("user", Of(m.content, {"text", "image"}))>>

openAIToResponses(messages) ==
  [system |-> Lifted(messages), turns |-> FlattenSeq(Map(messages, toItems))]

-----------------------------------------------------------------------------
(* Ollama: images only inline, no ids *)

toOllamaMessage(m) ==
  LET text   == contentToText(m.content)
      images == SelectSeq(Of(m.content, {"image"}), LAMBDA b : ~b.remote)
  IN  Turn(m.role, IF m.role = "tool" THEN <<Result("", "", text)>>
                   ELSE Said(text) \o images \o Map(m.calls, toGeminiCall))

openAIToOllama(messages) == [system |-> <<>>, turns |-> Map(messages, toOllamaMessage)]

-----------------------------------------------------------------------------
(* Kiro: results wait for the next user turn, the last user turn comes last, *)
(* and the system text is put in front of its content                        *)

\* Defect: the results that wait are kept for a later turn too.
MakeUserTurnKeeping(k, content) ==
  [k EXCEPT !.turns = Append(@, Turn("user", Said(content) \o k.pending))]

makeUserTurn(k, content) ==
  [turns |-> Append(k.turns, Turn("user", Said(content) \o k.pending)), pending |-> <<>>]

assistantToHistory(m) == Turn("assistant", Said(contentToText(m.content)) \o Map(m.calls, AsObject))

kiroTurns(messages) ==
  LET step(k, m) ==
        CASE IsSystem(m)          -> k
          [] m.role = "tool"      -> [k EXCEPT !.pending = Append(@, ResultOf(m))]
          [] m.role = "assistant" -> [k EXCEPT !.turns = Append(@, assistantToHistory(m))]
          [] OTHER                -> makeUserTurn(k, contentToText(m.content))
      all == FoldLeft(step, [turns |-> <<>>, pending |-> <<>>], messages)
      end == IF all.pending # <<>> THEN makeUserTurn(all, <<>>) ELSE all
  IN  IF \E i \in DOMAIN end.turns : end.turns[i].role = "user" THEN end.turns
      ELSE makeUserTurn(end, <<>>).turns

openAIToKiro(messages) ==
  LET turns   == kiroTurns(messages)
      last    == CHOOSE i \in DOMAIN turns :
                   /\ turns[i].role = "user"
                   /\ \A j \in DOMAIN turns : j > i => turns[j].role # "user"
      current == [turns[last] EXCEPT !.blocks = Said(Lifted(messages)) \o @]
  IN  [system |-> <<>>, turns |-> Append(RemoveAt(turns, last), current)]

-----------------------------------------------------------------------------
(* Cursor, and the web front ends, which get one prompt with a prefix for    *)
(* each role and neither ids nor calls                                       *)

toBubble(m) ==
  Turn(IF IsSystem(m) THEN "system" ELSE m.role,
       IF m.role = "tool" THEN <<ResultOf(m)>>
       ELSE Said(contentToText(m.content)) \o Map(m.calls, AsObject))

openAIToCursor(messages) == [system |-> <<>>, turns |-> Map(messages, toBubble)]

Line(m) ==
  LET text == contentToText(m.content)
      line == CASE IsSystem(m)          -> Turn("system", <<Text(text)>>)
                [] m.role = "assistant" -> Turn("assistant", <<Text(text)>>)
                [] m.role = "tool"      -> Turn("tool", <<Result("", "", text)>>)
                [] OTHER                -> Turn("user", <<Text(text)>>)
  IN  One(line, text # <<>>)

flattenConversation(messages) == [system |-> <<>>, turns |-> FlattenSeq(Map(messages, Line))]

-----------------------------------------------------------------------------
encodeRequest(provider, messages) ==
  CASE provider = "openai"    -> stripReasoningContent(messages)
    [] provider = "responses" -> openAIToResponses(messages)
    [] provider = "claude"    -> openAIToAnthropic(messages)
    [] provider = "gemini"    -> openAIToGemini(messages)
    [] provider = "ollama"    -> openAIToOllama(messages)
    [] provider = "kiro"      -> openAIToKiro(messages)
    [] provider = "cursor"    -> openAIToCursor(messages)
    [] provider = "web"       -> flattenConversation(messages)
=============================================================================
