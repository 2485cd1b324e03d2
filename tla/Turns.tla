------------------------------- MODULE Turns -------------------------------
(***************************************************************************)
(* Requests of every format, in one shape.                                 *)
(*                                                                         *)
(* A request in a client's or a provider's format is a system text and a   *)
(* sequence of turns, each with a role and a sequence of blocks.  The      *)
(* pivot (open-sse/translator/types.ts) is a sequence of messages, which   *)
(* keep content, reasoning and calls apart.                                *)
(*                                                                         *)
(* A text is the sequence of the words it is made of, so joining texts is  *)
(* concatenation.  A word is a number, the same wherever it goes; the data *)
(* of an image and the arguments of a call are words too.  The arguments   *)
(* of a call that was cut off are the negative of its word: they do not    *)
(* parse.                                                                  *)
(***************************************************************************)
EXTENDS Integers, SequencesExt

Block == [type   |-> "text",
          text   |-> <<>>,
          id     |-> "",        \* of a call, or of the call a result is for
          name   |-> "",        \* of a function
          remote |-> FALSE]     \* an image given by its address

Text(words)              == [Block EXCEPT !.text = words]
Thinking(words)          == [Block EXCEPT !.type = "thinking", !.text = words]
Image(words, remote)     == [Block EXCEPT !.type = "image", !.text = words, !.remote = remote]
Audio(words)             == [Block EXCEPT !.type = "audio", !.text = words]
Call(id, name, args)     == [Block EXCEPT !.type = "call", !.id = id, !.name = name, !.text = args]
Result(id, name, words)  == [Block EXCEPT !.type = "result", !.id = id, !.name = name, !.text = words]

Turn(role, blocks) == [role |-> role, blocks |-> blocks]

Message == [role |-> "user", content |-> <<>>, reasoning |-> <<>>, calls |-> <<>>,
            id   |-> "",        \* tool_call_id
            name |-> ""]

Map(s, F(_))      == [i \in DOMAIN s |-> F(s[i])]
One(x, present)   == IF present THEN <<x>> ELSE <<>>
Of(blocks, types) == FlattenSeq(Map(blocks, LAMBDA b : One(b, b.type \in types)))
Words(blocks)     == FlattenSeq(Map(blocks, LAMBDA b : b.text))

\* A content that is a string is one text part, and none when it is empty.
Said(words) == One(Text(words), words # <<>>)

contentToText(content) == Words(Of(content, {"text"}))

Brace == 0                      \* what JSON.stringify puts around an object
stringify(words) == <<Brace>> \o words \o <<Brace>>

\* Arguments as a string and as an object.
parseArguments(args) == IF \E i \in DOMAIN args : args[i] < 0 THEN <<>> ELSE args

AsObject(call) == [call EXCEPT !.text = parseArguments(@)]
=============================================================================
