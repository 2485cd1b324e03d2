---------------------------- MODULE StreamClients ----------------------------
(***************************************************************************)
(* The two clients that do not speak the pivot, outside this repository:   *)
(* an Anthropic client, strict about the grammar of its event stream       *)
(* ("exactly one block open at a time", openai-to-claude.ts), and a Gemini *)
(* client, which adds up the candidates it gets.                           *)
(***************************************************************************)
EXTENDS StreamEncoders

NewClaudeReader ==
  [legal |-> "yes", at |-> "start", open |-> NoBlock, blocks |-> <<>>,
   stop |-> NoFinish, usage |-> NoUsage]

\* Is e allowed where the reader is?
InGrammar(v, e) ==
  CASE e.type = "message_start"       -> v.at = "start"
    [] e.type = "content_block_start" ->
         v.at = "message" /\ v.open = NoBlock /\ e.index = Len(v.blocks)
    [] e.type = "content_block_delta" ->
         v.open # NoBlock /\ e.index = v.open /\ v.blocks[e.index + 1].kind = e.kind
    [] e.type = "content_block_stop"  -> v.open # NoBlock /\ e.index = v.open
    [] e.type = "message_delta"       -> v.at = "message" /\ v.open = NoBlock
    [] e.type = "message_stop"        -> v.at = "delta"

ReadClaude(v, e) ==
  IF ~InGrammar(v, e) THEN [v EXCEPT !.legal = "no"]
  ELSE CASE e.type = "message_start"       -> [v EXCEPT !.at = "message"]
         [] e.type = "content_block_start" ->
              [v EXCEPT !.open   = e.index,
                        !.blocks = Append(@, [kind |-> e.kind, id |-> e.id,
                                              name |-> e.name, data |-> <<>>])]
         [] e.type = "content_block_delta" ->
              [v EXCEPT !.blocks[e.index + 1].data = @ \o e.data]
         [] e.type = "content_block_stop"  -> [v EXCEPT !.open = NoBlock]
         [] e.type = "message_delta"       ->
              [v EXCEPT !.at = "delta", !.stop = e.stop, !.usage = e.usage]
         [] e.type = "message_stop"        -> [v EXCEPT !.at = "stop"]

\* What the client makes of the blocks: the text and the thinking joined, and
\* a call for every tool block.
NothingSeen == [text |-> <<>>, reasoning |-> <<>>, calls |-> <<>>]

SawBlock(saw, b) ==
  CASE b.kind = "text"     -> [saw EXCEPT !.text = @ \o b.data]
    [] b.kind = "thinking" -> [saw EXCEPT !.reasoning = @ \o b.data]
    [] b.kind = "tool"     ->
         [saw EXCEPT !.calls = Append(@, [id |-> b.id, name |-> b.name, args |-> b.data])]
    [] OTHER               -> saw

ClaudeSaw(v) == FoldLeft(SawBlock, NothingSeen, v.blocks)
-----------------------------------------------------------------------------

NewGeminiReader ==
  [text |-> <<>>, reasoning |-> <<>>, calls |-> <<>>, stop |-> NoFinish, usage |-> NoUsage]

ReadGemini(v, e) ==
  [text      |-> v.text \o e.text,
   reasoning |-> v.reasoning \o e.reasoning,
   calls     |-> v.calls \o e.calls,
   stop      |-> IF e.finish # NoFinish THEN e.finish ELSE v.stop,
   usage     |-> IF e.usage # NoUsage THEN e.usage ELSE v.usage]
=============================================================================
