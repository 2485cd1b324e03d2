--------------------------- MODULE StreamEncoders ---------------------------
(***************************************************************************)
(* The pivot-to-client stream transformers: openai-to-claude.ts and        *)
(* openai-to-gemini.ts (antigravity wraps the latter).  An OpenAI client   *)
(* gets the pivot's chunks as they are.                                    *)
(***************************************************************************)
EXTENDS Pivot

NoBlock   == -1
Generated == -2     \* generateId("toolu")
NoChannel == <<"none", 0>>
TextChannel     == <<"text", 0>>
ThinkingChannel == <<"thinking", 0>>
ToolChannel(i)  == <<"tool", i>>
-----------------------------------------------------------------------------
(* openai-to-claude.ts: one content block is open at a time *)

ClaudeEncoder ==
  [started |-> "no", channel |-> NoChannel, block |-> NoBlock, next |-> 0,
   finish |-> NoFinish, usage |-> NoUsage]

openAIFinishToAnthropic(finish) ==
  CASE finish = "length"                           -> "max_tokens"
    [] finish \in {"tool_calls", "function_call"}  -> "tool_use"
    [] finish = "stop"                             -> "end_turn"
    [] OTHER                                       -> NoFinish

Written(s, events) == [state |-> s, events |-> events]

startMessage(s) ==
  IF s.started = "yes" THEN Written(s, <<>>)
  ELSE Written([s EXCEPT !.started = "yes"], <<[type |-> "message_start"]>>)

\* Defect: the open block is forgotten without a content_block_stop.
closeActiveSilently(s) ==
  Written([s EXCEPT !.block = NoBlock, !.channel = NoChannel], <<>>)

closeActive(s) ==
  IF s.block = NoBlock THEN Written(s, <<>>)
  ELSE Written([s EXCEPT !.block = NoBlock, !.channel = NoChannel],
               <<[type |-> "content_block_stop", index |-> s.block]>>)

\* Defect: all tool calls share one channel.
sameChannelKind(a, b) == a[1] = b[1]

sameChannel(a, b) == a = b

blockId(id)     == IF id = Absent THEN Generated ELSE id
blockName(name) == IF name = Absent THEN Missing ELSE name

openChannel(s, channel, id, name) ==
  IF sameChannel(s.channel, channel) THEN Written(s, <<>>)
  ELSE LET closed == closeActive(s)
       IN  Written([closed.state EXCEPT !.block = s.next, !.next = @ + 1, !.channel = channel],
                   Append(closed.events,
                          [type |-> "content_block_start", index |-> s.next,
                           kind |-> channel[1], id |-> blockId(id),
                           name |-> blockName(name)]))

\* One delta: its block is opened if it is not, and takes the fragments.
writeDelta(w, delta) ==
  LET opened == openChannel(w.state, delta.channel, delta.id, delta.name)
  IN  Written(opened.state,
              w.events \o opened.events \o
                IF delta.data = <<>> THEN <<>>
                ELSE <<[type  |-> "content_block_delta", index |-> opened.state.block,
                        kind  |-> delta.channel[1], data |-> delta.data]>>)

\* What push looks at, in the order in which it does.
Deltas(c) ==
  (IF c.reasoning = <<>> THEN <<>>
   ELSE <<[channel |-> ThinkingChannel, id |-> Missing, name |-> Missing,
           data |-> c.reasoning]>>)
  \o (IF c.text = <<>> THEN <<>>
      ELSE <<[channel |-> TextChannel, id |-> Missing, name |-> Missing, data |-> c.text]>>)
  \o [i \in DOMAIN c.calls |->
        [channel |-> ToolChannel(c.calls[i].index), id |-> c.calls[i].id,
         name |-> c.calls[i].name, data |-> c.calls[i].args]]

\* A chunk without a choice is dropped, its usage with it.
ClaudeEncode(s, c) ==
  IF c.choices = "none" THEN Written(s, <<>>)
  ELSE LET begun  == startMessage(s)
           noted  == [begun.state EXCEPT
                        !.usage  = IF c.usage # NoUsage THEN c.usage ELSE @,
                        !.finish = IF c.finish # NoFinish THEN c.finish ELSE @]
       IN  FoldLeft(writeDelta, Written(noted, begun.events), Deltas(c))

ClaudeEncodeEnd(s) ==
  LET begun  == startMessage(s)
      closed == closeActive(begun.state)
  IN  Written(closed.state,
              begun.events \o closed.events \o
                <<[type |-> "message_delta", stop |-> openAIFinishToAnthropic(s.finish),
                   usage |-> s.usage],
                  [type |-> "message_stop"]>>)
-----------------------------------------------------------------------------
(* openai-to-gemini.ts: the calls wait for the finish reason *)

GeminiEncoder == [toolsByIndex |-> <<>>, usage |-> NoUsage]

openAIFinishToGemini(finish) ==
  CASE finish = "length"         -> "MAX_TOKENS"
    [] finish = "content_filter" -> "SAFETY"
    [] OTHER                     -> "STOP"

candidate(text, reasoning, calls, finish, used) ==
  [text |-> text, reasoning |-> reasoning, calls |-> calls, finish |-> finish, usage |-> used]

\* Arguments that do not parse are replaced by {}.
safeParse(args) == IF args = <<>> \/ Last(args) > 0 THEN <<>> ELSE args

FunctionCalls(tools) ==
  LET calls == InOrder(tools)
  IN  [i \in DOMAIN calls |-> [name |-> calls[i].name, args |-> safeParse(calls[i].args)]]

\* Defect: the comparison of the sort is swapped.
FlushDescending(tools) == Reverse(FunctionCalls(tools))

Flush(tools) == FunctionCalls(tools)

GeminiEncode(s, c) ==
  IF c.choices = "none" THEN Written(s, <<>>)
  ELSE LET used  == IF c.usage # NoUsage THEN c.usage ELSE s.usage
           tools == FoldLeft(AddFragment, s.toolsByIndex, c.calls)
       IN  Written([toolsByIndex |-> tools, usage |-> used],
             (IF c.reasoning = <<>> THEN <<>>
              ELSE <<candidate(<<>>, c.reasoning, <<>>, NoFinish, NoUsage)>>)
             \o (IF c.text = <<>> THEN <<>>
                 ELSE <<candidate(c.text, <<>>, <<>>, NoFinish, NoUsage)>>)
             \o (IF c.finish = NoFinish THEN <<>>
                 ELSE <<candidate(<<>>, <<>>, Flush(tools),
                                  openAIFinishToGemini(c.finish), used)>>))
=============================================================================
