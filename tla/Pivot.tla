------------------------------- MODULE Pivot -------------------------------
(***************************************************************************)
(* The pivot of the translators (open-sse/translator/types.ts): chunks of  *)
(* an OpenAI chat completion stream, and assembleChunks (streaming.ts),    *)
(* which folds them into the message a non-streaming call would return.    *)
(*                                                                         *)
(* Text is the sequence of the fragments it was sent in; concatenating     *)
(* strings is concatenating these sequences.  Fragments are numbers: a     *)
(* negative one completes the arguments of a call, which parse from then   *)
(* on and not before.                                                      *)
(***************************************************************************)
EXTENDS Integers, Sequences, SequencesExt

Missing  == 0       \* an empty id or name, a token count of zero
Absent   == -1      \* an id or a name that is undefined
NoFinish == "null"

NoUsage == [prompt |-> Missing, completion |-> Missing]

\* An empty delta.
Chunk == [choices   |-> "one",    \* "none": the usage chunk that ends a stream
          text      |-> <<>>,
          reasoning |-> <<>>,
          calls     |-> <<>>,     \* records [index, id, name, args]
          finish    |-> NoFinish,
          usage     |-> NoUsage]

TextChunk(fragments)      == [Chunk EXCEPT !.text = fragments]
ReasoningChunk(fragments) == [Chunk EXCEPT !.reasoning = fragments]
CallsChunk(calls)         == [Chunk EXCEPT !.calls = calls]
FinishChunk(reason, used) == [Chunk EXCEPT !.finish = reason, !.usage = used]

Call(index, id, name, args) == [index |-> index, id |-> id, name |-> name, args |-> args]

\* A later fragment of a call: the decoders leave its id and name empty.
ArgsOf(index, fragments) == Call(index, Missing, Missing, fragments)

\* Map.set
Put(f, x, y) == [z \in DOMAIN f \cup {x} |-> IF z = x THEN y ELSE f[z]]
Get(f, x, default) == IF x \in DOMAIN f THEN f[x] ELSE default

First(x, y) == IF x \in {Missing, Absent} THEN y ELSE x
-----------------------------------------------------------------------------
(* assembleChunks: the loop's accumulators and its body *)

NothingAssembled ==
  [text |-> <<>>, reasoning |-> <<>>, toolsByIndex |-> <<>>,
   finish |-> NoFinish, usage |-> NoUsage]

\* Defect: the first id and name are kept only while the fragment repeats them.
AddFragmentForgetful(tools, call) ==
  LET existing == Get(tools, call.index, [id |-> Missing, name |-> Missing, args |-> <<>>])
  IN  Put(tools, call.index, [id   |-> call.id,
                              name |-> call.name,
                              args |-> existing.args \o call.args])

AddFragment(tools, call) ==
  LET existing == Get(tools, call.index, [id |-> Missing, name |-> Missing, args |-> <<>>])
  IN  Put(tools, call.index, [id   |-> First(call.id, existing.id),
                              name |-> First(call.name, existing.name),
                              args |-> existing.args \o call.args])

AddChunk(m, c) ==
  LET used == [m EXCEPT !.usage = IF c.usage # NoUsage THEN c.usage ELSE @]
  IN  IF c.choices = "none" THEN used
      ELSE [used EXCEPT !.finish       = IF c.finish # NoFinish THEN c.finish ELSE @,
                        !.text         = @ \o c.text,
                        !.reasoning    = @ \o c.reasoning,
                        !.toolsByIndex = FoldLeft(AddFragment, @, c.calls)]

\* The tool calls, sorted by index: the i-th has i - 1 indices below its own.
InOrder(tools) ==
  LET Below(x) == {y \in DOMAIN tools : y < x}
      ranked(i) == CHOOSE x \in DOMAIN tools : Cardinality(Below(x)) = i - 1
  IN  [i \in 1 .. Cardinality(DOMAIN tools) |-> tools[ranked(i)]]

assembleChunks(m) ==
  [text      |-> m.text,
   reasoning |-> m.reasoning,
   calls     |-> InOrder(m.toolsByIndex),
   finish    |-> IF m.finish # NoFinish THEN m.finish
                 ELSE IF DOMAIN m.toolsByIndex # {} THEN "tool_calls" ELSE "stop",
   usage     |-> m.usage]
=============================================================================
