---------------------------- MODULE StreamProofs ----------------------------
(***************************************************************************)
(* Proofs about Stream: what a provider says arrives, for every number of  *)
(* events and calls and for all nine formats.                              *)
(*                                                                         *)
(* The argument follows a chunk through the pipeline.  Sync says that the  *)
(* reader of a Claude stream is where the encoder thinks it is; every      *)
(* operation of the encoder keeps it.  Carried says that a message has     *)
(* passed: the chunks assemble to it, the Claude client is in step and has *)
(* seen it (Tells), and a Gemini client gets it (Gathered).                *)
(* Every decoder, given an event, emits chunks that deliver what the event *)
(* said and nothing else.  The inductive invariant StreamInv puts these    *)
(* together with what the decoder knows of the calls.                      *)
(*                                                                         *)
(* The loops of the source are folds; FoldLaws has the laws they obey.     *)
(***************************************************************************)
EXTENDS Stream, FiniteSetTheorems, TLAPS
-----------------------------------------------------------------------------
(* Types of what is on the way *)

Usages   == [prompt : Int, completion : Int]
Finishes == {NoFinish, "stop", "length", "tool_calls", "content_filter"}
Stops    == {NoFinish, "max_tokens", "tool_use", "end_turn"}
Kinds    == {"none", "text", "thinking", "tool"}

Fragments == [index : Int, id : Int, name : Int, args : Seq(Int)]
Chunks    == [choices : {"one", "none"}, text : Seq(Int), reasoning : Seq(Int),
              calls : Seq(Fragments), finish : Finishes, usage : Usages]

Channels  == {TextChannel, ThinkingChannel} \cup {ToolChannel(i) : i \in Int}
DeltaRecs == [channel : Channels, id : Int, name : Int, data : Seq(Int)]

Encoders  == [started : {"yes", "no"}, channel : Channels \cup {NoChannel}, block : Int,
              next : Nat, finish : Finishes, usage : Usages]
Blocks    == [kind : Kinds, id : Int, name : Int, data : Seq(Int)]
Readers   == [legal : {"yes", "no"}, at : {"start", "message", "delta", "stop"},
              open : Int, blocks : Seq(Blocks), stop : Stops, usage : Usages]
ClaudeEvents ==
  [type : {"message_start", "message_stop"}]
  \cup [type : {"content_block_start"}, index : Int, kind : Kinds, id : Int, name : Int]
  \cup [type : {"content_block_delta"}, index : Int, kind : Kinds, data : Seq(Int)]
  \cup [type : {"content_block_stop"}, index : Int]
  \cup [type : {"message_delta"}, stop : Stops, usage : Usages]

\* The reader is where the encoder thinks it is.
Sync(s, v) ==
  /\ s \in Encoders /\ v \in Readers
  /\ v.legal = "yes"
  /\ v.at = IF s.started = "yes" THEN "message" ELSE "start"
  /\ v.open = s.block
  /\ s.next = Len(v.blocks)
  /\ s.block = NoBlock <=> s.channel = NoChannel
  /\ s.block # NoBlock =>
       /\ s.started = "yes"
       /\ s.block = s.next - 1
       /\ v.blocks[s.block + 1].kind = s.channel[1]

Reading == INSTANCE FoldLaws WITH op <- ReadClaude
Writing == INSTANCE FoldLaws WITH op <- writeDelta

ClaudeReads(v, events) == FoldLeft(ReadClaude, v, events)

-----------------------------------------------------------------------------

\* The reader's loop is the fold the laws are about.
LEMMA ReadingFold == \A v, events : Reading!FoldLeft(ReadClaude, v, events) = ClaudeReads(v, events)
BY DEF ClaudeReads, Reading!FoldLeft, FoldLeft, Reading!MapThenFoldSet, MapThenFoldSet,
       Reading!Max, Max

\* Reading nothing changes nothing.
LEMMA ReadNone == ASSUME NEW v PROVE ClaudeReads(v, <<>>) = v
BY Reading!FoldEmpty, ReadingFold

\* Reading one event.
LEMMA ReadOne == ASSUME NEW v, NEW e PROVE ClaudeReads(v, <<e>>) = ReadClaude(v, e)
BY Reading!FoldOne, ReadingFold

\* Reading two batches of events is reading one after the other.
LEMMA ReadBoth ==
  ASSUME NEW v, NEW e \in Seq(ClaudeEvents), NEW f \in Seq(ClaudeEvents)
  PROVE  ClaudeReads(v, e \o f) = ClaudeReads(ClaudeReads(v, e), f)
BY Reading!FoldConcat, ReadingFold

\* Reading one event more.
LEMMA ReadThen ==
  ASSUME NEW v, NEW e \in Seq(ClaudeEvents), NEW f \in ClaudeEvents
  PROVE  ClaudeReads(v, Append(e, f)) = ReadClaude(ClaudeReads(v, e), f)
<1>1. Append(e, f) = e \o <<f>> /\ <<f>> \in Seq(ClaudeEvents)
  OBVIOUS
<1>2. ClaudeReads(v, e \o <<f>>) = ClaudeReads(ClaudeReads(v, e), <<f>>)
  BY <1>1, ReadBoth
<1> QED
  BY <1>1, <1>2, ReadOne

\* A message_start is legal where the stream starts.
LEMMA ReadStart ==
  ASSUME NEW v \in Readers, NEW e, e.type = "message_start", v.at = "start"
  PROVE  ReadClaude(v, e) = [v EXCEPT !.at = "message"]
<1>1. InGrammar(v, e)
  BY DEF InGrammar
<1> QED
  BY <1>1 DEF ReadClaude

\* A content_block_start is legal inside the message, with no block open and the
\* next index.
LEMMA ReadBlockStart ==
  ASSUME NEW v \in Readers, NEW e, e.type = "content_block_start",
         v.at = "message", v.open = NoBlock, e.index = Len(v.blocks)
  PROVE  ReadClaude(v, e) =
           [v EXCEPT !.open   = e.index,
                     !.blocks = Append(v.blocks, [kind |-> e.kind, id |-> e.id,
                                                  name |-> e.name, data |-> <<>>])]
<1>1. InGrammar(v, e)
  BY DEF InGrammar
<1> QED
  BY <1>1 DEF ReadClaude

\* A content_block_delta is legal for the block that is open, of its kind.
LEMMA ReadDelta ==
  ASSUME NEW v \in Readers, NEW e, e.type = "content_block_delta",
         v.open # NoBlock, e.index = v.open, v.blocks[e.index + 1].kind = e.kind
  PROVE  ReadClaude(v, e) =
           [v EXCEPT !.blocks[e.index + 1].data = v.blocks[e.index + 1].data \o e.data]
<1>1. InGrammar(v, e)
  BY DEF InGrammar
<1> QED
  BY <1>1 DEF ReadClaude

\* A content_block_stop is legal for the block that is open.
LEMMA ReadBlockStop ==
  ASSUME NEW v \in Readers, NEW e, e.type = "content_block_stop",
         v.open # NoBlock, e.index = v.open
  PROVE  ReadClaude(v, e) = [v EXCEPT !.open = NoBlock]
<1>1. InGrammar(v, e)
  BY DEF InGrammar
<1> QED
  BY <1>1 DEF ReadClaude

\* A message_delta is legal when all blocks are closed.
LEMMA ReadMessageDelta ==
  ASSUME NEW v \in Readers, NEW e, e.type = "message_delta", v.at = "message", v.open = NoBlock
  PROVE  ReadClaude(v, e) = [v EXCEPT !.at = "delta", !.stop = e.stop, !.usage = e.usage]
<1>1. InGrammar(v, e)
  BY DEF InGrammar
<1> QED
  BY <1>1 DEF ReadClaude

\* A message_stop is legal after the message_delta.
LEMMA ReadMessageStop ==
  ASSUME NEW v \in Readers, NEW e, e.type = "message_stop", v.at = "delta"
  PROVE  ReadClaude(v, e) = [v EXCEPT !.at = "stop"]
<1>1. InGrammar(v, e)
  BY DEF InGrammar
<1> QED
  BY <1>1 DEF ReadClaude
-----------------------------------------------------------------------------
(* What the Claude client sees *)

SeenCalls == [id : Int, name : Int, args : Seq(Int)]
Sights    == [text : Seq(Int), reasoning : Seq(Int), calls : Seq(SeenCalls)]

\* A block with more data, a call with more arguments.
WithData(b, data) ==
  [kind |-> b.kind, id |-> b.id, name |-> b.name, data |-> b.data \o data]
WithArgs(call, data) == [id |-> call.id, name |-> call.name, args |-> call.args \o data]

\* Blocks with more data in the last one, calls with more arguments of the last one.
MoreData(blocks, data) ==
  [blocks EXCEPT ![Len(blocks)] = WithData(blocks[Len(blocks)], data)]
MoreAsked(calls, data) == [calls EXCEPT ![Len(calls)] = WithArgs(calls[Len(calls)], data)]

\* The client after one delta more: text and reasoning are added, arguments go to
\* the last call when the channel of the call is open, and to a new one otherwise.
Heard(saw, channel, delta) ==
  CASE delta.channel = TextChannel ->
         [text |-> saw.text \o delta.data, reasoning |-> saw.reasoning, calls |-> saw.calls]
    [] delta.channel = ThinkingChannel ->
         [text |-> saw.text, reasoning |-> saw.reasoning \o delta.data, calls |-> saw.calls]
    [] OTHER ->
         [text |-> saw.text, reasoning |-> saw.reasoning,
          calls |-> IF delta.channel = channel
                    THEN MoreAsked(saw.calls, delta.data)
                    ELSE Append(saw.calls, [id   |-> blockId(delta.id),
                                            name |-> blockName(delta.name),
                                            args |-> delta.data])]

Seeing == INSTANCE FoldLaws WITH op <- SawBlock

SawAll(blocks) == FoldLeft(SawBlock, NothingSeen, blocks)

\* What is seen is the fold the laws are about.
LEMMA SeeingFold ==
  \A saw, blocks : Seeing!FoldLeft(SawBlock, saw, blocks) = FoldLeft(SawBlock, saw, blocks)
BY DEF Seeing!FoldLeft, FoldLeft, Seeing!MapThenFoldSet, MapThenFoldSet, Seeing!Max, Max

\* One block, field by field.
LEMMA SawBlockIs ==
  ASSUME NEW saw \in Sights, NEW b \in Blocks
  PROVE  /\ b.kind = "text" =>
              SawBlock(saw, b) = [text |-> saw.text \o b.data, reasoning |-> saw.reasoning,
                                  calls |-> saw.calls]
         /\ b.kind = "thinking" =>
              SawBlock(saw, b) = [text |-> saw.text, reasoning |-> saw.reasoning \o b.data,
                                  calls |-> saw.calls]
         /\ b.kind = "tool" =>
              SawBlock(saw, b) = [text |-> saw.text, reasoning |-> saw.reasoning,
                                  calls |-> Append(saw.calls, [id |-> b.id, name |-> b.name,
                                                               args |-> b.data])]
         /\ SawBlock(saw, b) \in Sights
<1>1. PICK t, r, c : /\ saw = [text |-> t, reasoning |-> r, calls |-> c]
                     /\ t \in Seq(Int) /\ r \in Seq(Int) /\ c \in Seq(SeenCalls)
  BY DEF Sights
<1>2. saw.text = t /\ saw.reasoning = r /\ saw.calls = c
  BY <1>1
<1>3. PICK d : d = [id |-> b.id, name |-> b.name, args |-> b.data]
  OBVIOUS
<1>4. b.data \in Seq(Int) /\ d \in SeenCalls
  BY <1>3 DEF Blocks, SeenCalls
<1>5. t \o b.data \in Seq(Int) /\ r \o b.data \in Seq(Int) /\ Append(c, d) \in Seq(SeenCalls)
  BY <1>1, <1>4
<1>a. \A x \in Seq(Int), y \in Seq(Int), z \in Seq(SeenCalls) :
        [text |-> x, reasoning |-> y, calls |-> z] \in Sights
  BY DEF Sights
<1>6. CASE b.kind = "text"
  <2>1. SawBlock(saw, b) = [text |-> t \o b.data, reasoning |-> r, calls |-> c]
    BY <1>1, <1>6 DEF SawBlock
  <2>2. SawBlock(saw, b) \in Sights
    BY <1>1, <1>5, <1>a, <2>1
  <2> QED
    BY <1>2, <1>6, <2>1, <2>2
<1>7. CASE b.kind = "thinking"
  <2>1. SawBlock(saw, b) = [text |-> t, reasoning |-> r \o b.data, calls |-> c]
    BY <1>1, <1>7 DEF SawBlock
  <2>2. SawBlock(saw, b) \in Sights
    BY <1>1, <1>5, <1>a, <2>1
  <2> QED
    BY <1>2, <1>7, <2>1, <2>2
<1>8. CASE b.kind = "tool"
  <2>1. SawBlock(saw, b) = [text |-> t, reasoning |-> r, calls |-> Append(c, d)]
    BY <1>1, <1>3, <1>8 DEF SawBlock
  <2>2. SawBlock(saw, b) \in Sights
    BY <1>1, <1>5, <1>a, <2>1
  <2> QED
    BY <1>2, <1>3, <1>8, <2>1, <2>2
<1>9. CASE b.kind \notin {"text", "thinking", "tool"}
  BY <1>9 DEF SawBlock
<1> QED
  BY <1>6, <1>7, <1>8, <1>9

\* What is seen has its type.
LEMMA SawTyped == ASSUME NEW blocks \in Seq(Blocks) PROVE SawAll(blocks) \in Sights
<1>1. NothingSeen \in Sights
  BY DEF NothingSeen, Sights
<1>2. /\ Len(blocks) \in Nat /\ DOMAIN blocks = 1 .. Len(blocks)
      /\ \A i \in 1 .. Len(blocks) : blocks[i] \in Blocks
  OBVIOUS
<1>3. \A saw \in Sights, i \in 1 .. Len(blocks) : SawBlock(saw, blocks[i]) \in Sights
  BY <1>2, SawBlockIs
<1>4. Seeing!FoldLeft(SawBlock, NothingSeen, blocks) \in Sights
  BY <1>1, <1>2, <1>3, Seeing!FoldKeeps
<1> QED
  BY <1>4, SeeingFold DEF SawAll

\* One block more.
LEMMA SawOneMore ==
  ASSUME NEW blocks \in Seq(Blocks), NEW b \in Blocks
  PROVE  SawAll(Append(blocks, b)) = SawBlock(SawAll(blocks), b)
<1>1. Append(blocks, b) = blocks \o <<b>> /\ <<b>> \in Seq(Blocks)
  OBVIOUS
<1>2. SawAll(blocks \o <<b>>) = FoldLeft(SawBlock, SawAll(blocks), <<b>>)
  <2>1. PICK t \in Seq(Blocks) : t = <<b>>
    BY <1>1
  <2>2. PICK none : none = NothingSeen
    OBVIOUS
  <2>3. Seeing!FoldLeft(SawBlock, none, blocks \o t)
          = Seeing!FoldLeft(SawBlock, Seeing!FoldLeft(SawBlock, none, blocks), t)
    BY Seeing!FoldConcat
  <2>4. FoldLeft(SawBlock, none, blocks \o t)
          = FoldLeft(SawBlock, FoldLeft(SawBlock, none, blocks), t)
    BY <2>3, SeeingFold
  <2> QED
    BY <2>1, <2>2, <2>4 DEF SawAll
<1>3. FoldLeft(SawBlock, SawAll(blocks), <<b>>) = SawBlock(SawAll(blocks), b)
  BY Seeing!FoldOne, SeeingFold
<1> QED
  BY <1>1, <1>2, <1>3

\* Sequences of the same length with the same elements are the same.
LEMMA SameSequence ==
  ASSUME NEW E, NEW s \in Seq(E), NEW t \in Seq(E), Len(s) = Len(t),
         \A i \in 1 .. Len(s) : s[i] = t[i]
  PROVE  s = t
<1>1. s = [i \in 1 .. Len(s) |-> s[i]] /\ t = [i \in 1 .. Len(t) |-> t[i]]
  OBVIOUS
<1> QED
  BY <1>1

\* Data of three pieces, joined in any order.
LEMMA PiecesJoined ==
  ASSUME NEW a \in Seq(Int), NEW b \in Seq(Int), NEW c \in Seq(Int)
  PROVE  a \o (b \o c) = (a \o b) \o c
<1>1. PICK x, y : x = a \o (b \o c) /\ y = (a \o b) \o c
  OBVIOUS
<1>2. /\ x \in Seq(Int) /\ y \in Seq(Int)
      /\ Len(x) = Len(a) + Len(b) + Len(c) /\ Len(y) = Len(a) + Len(b) + Len(c)
  BY <1>1
<1>3. ASSUME NEW i \in 1 .. Len(x) PROVE x[i] = y[i]
  BY <1>1, <1>2
<1> QED
  BY <1>1, <1>2, <1>3, SameSequence

\* A sequence is its front and its last element; the front stays when the last
\* element changes.
LEMMA FrontAndLast ==
  ASSUME NEW blocks \in Seq(Blocks), NEW n \in Nat \ {0}, n = Len(blocks)
  PROVE  /\ SubSeq(blocks, 1, n - 1) \in Seq(Blocks) /\ blocks[n] \in Blocks
         /\ blocks = Append(SubSeq(blocks, 1, n - 1), blocks[n])
         /\ \A b \in Blocks : [blocks EXCEPT ![n] = b] = Append(SubSeq(blocks, 1, n - 1), b)
<1>1. PICK front : front = SubSeq(blocks, 1, n - 1)
  OBVIOUS
<1>2. /\ front \in Seq(Blocks) /\ Len(front) = n - 1
      /\ \A i \in 1 .. n - 1 : front[i] = blocks[i]
  BY <1>1
<1>3. blocks = Append(front, blocks[n])
  <2>1. blocks[n] \in Blocks
    OBVIOUS
  <2>2. Len(Append(front, blocks[n])) = n
    BY <1>2, <2>1
  <2>3. \A i \in 1 .. n : Append(front, blocks[n])[i] = blocks[i]
    BY <1>2, <2>1
  <2>4. Append(front, blocks[n]) \in Seq(Blocks)
    BY <1>2, <2>1
  <2> QED
    BY <2>2, <2>3, <2>4, SameSequence
<1>4. ASSUME NEW b \in Blocks PROVE [blocks EXCEPT ![n] = b] = Append(front, b)
  <2>1. PICK after : after = [blocks EXCEPT ![n] = b]
    OBVIOUS
  <2>2. /\ after \in Seq(Blocks) /\ Len(after) = n /\ after[n] = b
        /\ \A i \in 1 .. n - 1 : after[i] = blocks[i]
    BY <2>1
  <2>3. Append(front, b) \in Seq(Blocks) /\ Len(Append(front, b)) = n
    BY <1>2
  <2>4. \A i \in 1 .. n : Append(front, b)[i] = after[i]
    BY <1>2, <2>2
  <2>5. after = Append(front, b)
    BY <2>2, <2>3, <2>4, SameSequence
  <2> QED
    BY <2>1, <2>5
<1> QED
  BY <1>1, <1>2, <1>3, <1>4

\* A sequence whose last element is another one.
LEMMA LastReplaced ==
  ASSUME NEW s \in Seq(SeenCalls), NEW c \in SeenCalls, NEW d \in SeenCalls
  PROVE  /\ Len(Append(s, c)) = Len(s) + 1 /\ Append(s, c)[Len(s) + 1] = c
         /\ [Append(s, c) EXCEPT ![Len(s) + 1] = d] = Append(s, d)
<1>1. PICK k, x, y : /\ k = Len(s) + 1 /\ x = [Append(s, c) EXCEPT ![k] = d]
                     /\ y = Append(s, d)
  OBVIOUS
<1>2. k \in Nat \ {0} /\ Len(Append(s, c)) = k /\ Append(s, c)[k] = c
  BY <1>1
<1>3. /\ x \in Seq(SeenCalls) /\ Len(x) = k /\ x[k] = d
      /\ \A i \in 1 .. k - 1 : x[i] = s[i]
  <2>1. PICK a : a = Append(s, c)
    OBVIOUS
  <2>2. a \in Seq(SeenCalls) /\ Len(a) = k /\ \A i \in 1 .. k - 1 : a[i] = s[i]
    BY <1>1, <2>1
  <2>3. x = [a EXCEPT ![k] = d]
    BY <1>1, <2>1
  <2> QED
    BY <1>2, <2>2, <2>3
<1>4. /\ y \in Seq(SeenCalls) /\ Len(y) = k /\ y[k] = d
      /\ \A i \in 1 .. k - 1 : y[i] = s[i]
  BY <1>1
<1>5. ASSUME NEW i \in 1 .. Len(x) PROVE x[i] = y[i]
  <2>1. i = k \/ i \in 1 .. k - 1
    BY <1>2, <1>3
  <2> QED
    BY <1>3, <1>4, <2>1
<1>6. x = y
  BY <1>3, <1>4, <1>5, SameSequence
<1> QED
  BY <1>1, <1>2, <1>6

\* More arguments for the last call.
LEMMA MoreAskedIs ==
  ASSUME NEW s \in Seq(SeenCalls), NEW c \in SeenCalls, NEW data \in Seq(Int)
  PROVE  /\ Len(Append(s, c)) \in Nat \ {0}
         /\ MoreAsked(Append(s, c), data) = Append(s, WithArgs(c, data))
<1>1. PICK k, a, d : k = Len(s) + 1 /\ a = Append(s, c) /\ d = WithArgs(c, data)
  OBVIOUS
<1>2. d \in SeenCalls
  <2>1. c.args \o data \in Seq(Int)
    BY DEF SeenCalls
  <2> QED
    BY <1>1, <2>1 DEF SeenCalls, WithArgs
<1>3. Len(a) = k /\ a[k] = c /\ [a EXCEPT ![k] = d] = Append(s, d)
  BY <1>1, <1>2, LastReplaced
<1>4. MoreAsked(a, data) = [a EXCEPT ![k] = d]
  BY <1>1, <1>3 DEF MoreAsked
<1> QED
  BY <1>1, <1>3, <1>4

\* More data in the last block is more of what it shows.
LEMMA SawMore ==
  ASSUME NEW front \in Seq(Blocks), NEW b \in Blocks, NEW data \in Seq(Int)
  PROVE  LET saw  == SawAll(Append(front, b))
             more == SawAll(Append(front, WithData(b, data)))
         IN  /\ saw \in Sights
             /\ b.kind = "text" =>
                  more = [text |-> saw.text \o data, reasoning |-> saw.reasoning,
                          calls |-> saw.calls]
             /\ b.kind = "thinking" =>
                  more = [text |-> saw.text, reasoning |-> saw.reasoning \o data,
                          calls |-> saw.calls]
             /\ b.kind = "tool" =>
                  /\ Len(saw.calls) \in Nat \ {0}
                  /\ more =
                       [text |-> saw.text, reasoning |-> saw.reasoning,
                        calls |-> MoreAsked(saw.calls, data)]
<1>1. PICK c, saw, more : /\ c = WithData(b, data) /\ saw = SawAll(Append(front, b))
                          /\ more = SawAll(Append(front, c))
  OBVIOUS
<1>2. b.data \in Seq(Int) /\ b.data \o data \in Seq(Int)
  <2>1. b.data \in Seq(Int)
    BY DEF Blocks
  <2> QED
    BY <2>1
<1>3. /\ c \in Blocks /\ c.kind = b.kind /\ c.id = b.id /\ c.name = b.name
      /\ c.data = b.data \o data
  BY <1>1, <1>2 DEF Blocks, WithData
<1>6. PICK old : old = SawAll(front) /\ old \in Sights
  BY SawTyped
<1>7. saw = SawBlock(old, b) /\ more = SawBlock(old, c)
  BY <1>1, <1>3, <1>6, SawOneMore
<1>8. saw \in Sights
  BY <1>6, <1>7, SawBlockIs
<1>9. PICK t, r, s : /\ old = [text |-> t, reasoning |-> r, calls |-> s]
                     /\ t \in Seq(Int) /\ r \in Seq(Int) /\ s \in Seq(SeenCalls)
                     /\ old.text = t /\ old.reasoning = r /\ old.calls = s
  BY <1>6 DEF Sights
<1>10. CASE b.kind = "text"
  <2>1. saw = [text |-> t \o b.data, reasoning |-> r, calls |-> s]
    BY <1>2, <1>6, <1>7, <1>9, <1>10, SawBlockIs
  <2>2. more = [text |-> t \o c.data, reasoning |-> r, calls |-> s]
    BY <1>3, <1>6, <1>7, <1>9, <1>10, SawBlockIs
  <2>3. t \o c.data = (t \o b.data) \o data
    <3>1. PICK x \in Seq(Int) : x = b.data
      BY <1>2
    <3>2. t \in Seq(Int) /\ x \in Seq(Int)
      BY <1>9, <3>1
    <3>3. \A a, b2, c2 \in Seq(Int) : a \o (b2 \o c2) = (a \o b2) \o c2
      BY PiecesJoined, Zenon
    <3>4. t \o (x \o data) = (t \o x) \o data
      BY <3>2, <3>3
    <3> QED
      BY <1>3, <3>1, <3>4
  <2>4. saw.text = t \o b.data /\ saw.reasoning = r /\ saw.calls = s
    BY <2>1
  <2> QED
    BY <1>1, <1>3, <1>8, <1>10, <2>2, <2>3, <2>4
<1>11. CASE b.kind = "thinking"
  <2>1. saw = [text |-> t, reasoning |-> r \o b.data, calls |-> s]
    BY <1>2, <1>6, <1>7, <1>9, <1>11, SawBlockIs
  <2>2. more = [text |-> t, reasoning |-> r \o c.data, calls |-> s]
    BY <1>3, <1>6, <1>7, <1>9, <1>11, SawBlockIs
  <2>3. r \o c.data = (r \o b.data) \o data
    <3>1. PICK x \in Seq(Int) : x = b.data
      BY <1>2
    <3>2. r \in Seq(Int) /\ x \in Seq(Int)
      BY <1>9, <3>1
    <3>3. \A a, b2, c2 \in Seq(Int) : a \o (b2 \o c2) = (a \o b2) \o c2
      BY PiecesJoined, Zenon
    <3>4. r \o (x \o data) = (r \o x) \o data
      BY <3>2, <3>3
    <3> QED
      BY <1>3, <3>1, <3>4
  <2>4. saw.text = t /\ saw.reasoning = r \o b.data /\ saw.calls = s
    BY <2>1
  <2> QED
    BY <1>1, <1>3, <1>8, <1>11, <2>2, <2>3, <2>4
<1>12. CASE b.kind = "tool"
  <2> DEFINE Asked(x) == [id |-> b.id, name |-> b.name, args |-> x]
  <2>1. saw = [text |-> t, reasoning |-> r, calls |-> Append(s, Asked(b.data))]
    BY <1>2, <1>6, <1>7, <1>9, <1>12, SawBlockIs
  <2>2. more = [text |-> t, reasoning |-> r, calls |-> Append(s, Asked(c.data))]
    <3>1. SawBlock(old, c) = [text |-> old.text, reasoning |-> old.reasoning,
                              calls |-> Append(old.calls, [id |-> c.id, name |-> c.name,
                                                           args |-> c.data])]
      <4>1. c \in Blocks /\ c.kind = "tool"
        BY <1>3, <1>12
      <4> QED
        BY <1>6, <4>1, SawBlockIs
    <3> QED
      BY <1>3, <1>7, <1>9, <3>1
  <2>3. Asked(b.data) \in SeenCalls /\ Asked(c.data) \in SeenCalls
    BY <1>2, <1>3 DEF SeenCalls, Blocks
  <2>4. WithArgs(Asked(b.data), data) = Asked(c.data)
    BY <1>3 DEF WithArgs
  <2> HIDE DEF Asked
  <2>5. Len(saw.calls) \in Nat \ {0} /\ MoreAsked(saw.calls, data) = Append(s, Asked(c.data))
    <3>1. saw.calls = Append(s, Asked(b.data))
      BY <2>1
    <3> QED
      BY <1>9, <2>3, <2>4, <3>1, MoreAskedIs
  <2>6. saw.text = t /\ saw.reasoning = r
    BY <2>1
  <2> QED
    BY <1>1, <1>3, <1>8, <1>12, <2>2, <2>5, <2>6
<1> QED
  BY <1>1, <1>8, <1>10, <1>11, <1>12
\* The same, for the blocks as they are.
LEMMA SawLonger ==
  ASSUME NEW opened \in Seq(Blocks), NEW n \in Nat \ {0}, n = Len(opened),
         NEW data \in Seq(Int)
  PROVE  LET mid   == SawAll(opened)
             after == MoreData(opened, data)
         IN  /\ opened[n].kind = "text" =>
                  SawAll(after) = [text |-> mid.text \o data, reasoning |-> mid.reasoning,
                                   calls |-> mid.calls]
             /\ opened[n].kind = "thinking" =>
                  SawAll(after) = [text |-> mid.text, reasoning |-> mid.reasoning \o data,
                                   calls |-> mid.calls]
             /\ opened[n].kind = "tool" =>
                  SawAll(after) = [text |-> mid.text, reasoning |-> mid.reasoning,
                                   calls |-> MoreAsked(mid.calls, data)]
<1>0. PICK mid, after : /\ mid = SawAll(opened)
                        /\ after = MoreData(opened, data)
  OBVIOUS
<1>1. PICK front, p, q : /\ front = SubSeq(opened, 1, n - 1) /\ p = opened[n]
                         /\ q = WithData(p, data)
  OBVIOUS
<1>2. front \in Seq(Blocks) /\ p \in Blocks /\ opened = Append(front, p)
  BY <1>1, FrontAndLast
<1>3. q \in Blocks
  <2>1. p.data \in Seq(Int)
    BY <1>2 DEF Blocks
  <2>2. p.data \o data \in Seq(Int)
    BY <2>1
  <2> QED
    BY <1>1, <1>2, <2>2 DEF Blocks, WithData
<1>4. after = Append(front, q)
  <2>1. ASSUME NEW x \in Blocks
        PROVE  [opened EXCEPT ![n] = x] = Append(SubSeq(opened, 1, n - 1), x)
    BY FrontAndLast
  <2> QED
    BY <1>0, <1>1, <1>3, <2>1 DEF MoreData
<1>5. PICK more : more = SawAll(Append(front, q))
  OBVIOUS
<1>6. mid = SawAll(Append(front, p))
  BY <1>0, <1>2
<1>7. /\ p.kind = "text" =>
           more = [text |-> mid.text \o data, reasoning |-> mid.reasoning,
                   calls |-> mid.calls]
      /\ p.kind = "thinking" =>
           more = [text |-> mid.text, reasoning |-> mid.reasoning \o data,
                   calls |-> mid.calls]
      /\ p.kind = "tool" =>
           more = [text |-> mid.text, reasoning |-> mid.reasoning,
                   calls |-> MoreAsked(mid.calls, data)]
  <2> DEFINE saw == SawAll(Append(front, p))
             new == SawAll(Append(front, WithData(p, data)))
  <2>1. p.kind = "text" =>
          new = [text |-> saw.text \o data, reasoning |-> saw.reasoning, calls |-> saw.calls]
    BY <1>2, SawMore
  <2>2. p.kind = "thinking" =>
          new = [text |-> saw.text, reasoning |-> saw.reasoning \o data, calls |-> saw.calls]
    BY <1>2, SawMore
  <2>3. p.kind = "tool" =>
          new = [text |-> saw.text, reasoning |-> saw.reasoning,
                 calls |-> MoreAsked(saw.calls, data)]
    BY <1>2, SawMore
  <2>4. new = more /\ saw = mid
    BY <1>1, <1>5, <1>6
  <2> HIDE DEF saw, new
  <2> QED
    BY <2>1, <2>2, <2>3, <2>4
<1> QED
  BY <1>0, <1>1, <1>4, <1>5, <1>7
-----------------------------------------------------------------------------
(* The encoder keeps the reader in step *)

\* What was written, read by v from where it was, leaves it in step.
Keeps(v, w) == w.events \in Seq(ClaudeEvents) /\ Sync(w.state, ClaudeReads(v, w.events))

\* startMessage: message_start is written once, and keeps the reader in step.
LEMMA StartKeeps ==
  ASSUME NEW s, NEW v, Sync(s, v)
  PROVE  /\ Keeps(v, startMessage(s))
         /\ startMessage(s).state = [s EXCEPT !.started = "yes"]
         /\ ClaudeReads(v, startMessage(s).events).blocks = v.blocks
<1> DEFINE e == [type |-> "message_start"]
           t == [s EXCEPT !.started = "yes"]
<1>1. CASE s.started = "yes"
  <2>1. startMessage(s) = Written(s, <<>>) /\ s = t
    BY <1>1 DEF startMessage, Sync, Encoders
  <2>2. ClaudeReads(v, <<>>) = v
    BY ReadNone
  <2> QED
    BY <2>1, <2>2 DEF Keeps, Written
<1>2. CASE s.started # "yes"
  <2>1. startMessage(s) = Written(t, <<e>>)
    BY <1>2 DEF startMessage
  <2>2. ClaudeReads(v, <<e>>) = [v EXCEPT !.at = "message"]
    BY <1>2, ReadOne, ReadStart DEF Sync
  <2>3. Sync(t, [v EXCEPT !.at = "message"])
    BY <1>2 DEF Sync, Encoders, Readers
  <2>4. e \in ClaudeEvents
    BY DEF ClaudeEvents
  <2>5. [v EXCEPT !.at = "message"].blocks = v.blocks
    BY DEF Sync, Readers
  <2>6. Keeps(v, startMessage(s))
    BY <2>1, <2>2, <2>3, <2>4 DEF Keeps, Written
  <2>7. startMessage(s).state = t /\ startMessage(s).events = <<e>>
    BY <2>1 DEF Written
  <2> QED
    BY <2>2, <2>5, <2>6, <2>7
<1> QED
  BY <1>1, <1>2

\* closeActive: the open block, if any, is closed, and the reader is in step.
LEMMA CloseKeeps ==
  ASSUME NEW s, NEW v, Sync(s, v)
  PROVE  /\ Keeps(v, closeActive(s))
         /\ closeActive(s).state = [s EXCEPT !.block = NoBlock, !.channel = NoChannel]
         /\ ClaudeReads(v, closeActive(s).events).blocks = v.blocks
<1> DEFINE e == [type |-> "content_block_stop", index |-> s.block]
           t == [s EXCEPT !.block = NoBlock, !.channel = NoChannel]
<1>1. CASE s.block = NoBlock
  <2>1. closeActive(s) = Written(s, <<>>) /\ s = t
    BY <1>1 DEF closeActive, Sync, Encoders
  <2>2. ClaudeReads(v, <<>>) = v
    BY ReadNone
  <2> QED
    BY <2>1, <2>2 DEF Keeps, Written
<1>2. CASE s.block # NoBlock
  <2>1. closeActive(s) = Written(t, <<e>>)
    BY <1>2 DEF closeActive
  <2>2. ClaudeReads(v, <<e>>) = [v EXCEPT !.open = NoBlock]
    BY <1>2, ReadOne, ReadBlockStop DEF Sync
  <2>3. Sync(t, [v EXCEPT !.open = NoBlock])
    <3>0. NoBlock \in Int
      BY DEF NoBlock
    <3>1. t \in Encoders
      BY <3>0 DEF Sync, Encoders
    <3>2. [v EXCEPT !.open = NoBlock] \in Readers
      BY <3>0 DEF Sync, Readers
    <3> QED
      BY <1>2, <3>1, <3>2 DEF Sync, Encoders, Readers
  <2>4. e \in ClaudeEvents
    BY DEF ClaudeEvents, Sync, Encoders
  <2>5. [v EXCEPT !.open = NoBlock].blocks = v.blocks
    BY DEF Sync, Readers
  <2>6. Keeps(v, closeActive(s))
    BY <2>1, <2>2, <2>3, <2>4 DEF Keeps, Written
  <2>7. closeActive(s).state = t /\ closeActive(s).events = <<e>>
    BY <2>1 DEF Written
  <2> QED
    BY <2>2, <2>5, <2>6, <2>7
<1> QED
  BY <1>1, <1>2

\* The type of an encoder that has opened a block.
LEMMA EncoderOpens ==
  ASSUME NEW s \in Encoders, NEW n \in Nat, NEW m \in Nat, NEW channel \in Channels
  PROVE  [s EXCEPT !.block = n, !.next = m, !.channel = channel] \in Encoders
<1>1. n \in Int /\ channel \in Channels \cup {NoChannel}
  OBVIOUS
<1> DEFINE t == [s EXCEPT !.block = n]
           r == [t EXCEPT !.next = m]
<1>2. t \in Encoders
  BY <1>1 DEF Encoders
<1>3. r \in Encoders
  BY <1>2 DEF Encoders
<1>4. [r EXCEPT !.channel = channel] \in Encoders
  BY <1>1, <1>3 DEF Encoders
<1> QED
  BY <1>4

\* The type of a reader that has a block open.
LEMMA ReaderOpens ==
  ASSUME NEW v \in Readers, NEW n \in Nat, NEW blocks \in Seq(Blocks)
  PROVE  [v EXCEPT !.open = n, !.blocks = blocks] \in Readers
<1>1. n \in Int
  OBVIOUS
<1> DEFINE t == [v EXCEPT !.open = n]
<1>2. t \in Readers
  BY <1>1 DEF Readers
<1>3. [t EXCEPT !.blocks = blocks] \in Readers
  BY <1>2 DEF Readers
<1> QED
  BY <1>3

\* The block that openChannel opens.
NewBlock(channel, id, name) ==
  [kind |-> channel[1], id |-> blockId(id), name |-> blockName(name), data |-> <<>>]

\* openChannel: the block of another channel is closed and one of this channel is
\* open, with the reader in step.
LEMMA OpenKeeps ==
  ASSUME NEW s, NEW v, Sync(s, v), s.started = "yes", NEW channel \in Channels,
         NEW id \in Int, NEW name \in Int
  PROVE  LET w == openChannel(s, channel, id, name)
         IN  /\ Keeps(v, w)
             /\ w.state.started = "yes" /\ w.state.channel = channel
             /\ w.state.finish = s.finish /\ w.state.usage = s.usage
             /\ ClaudeReads(v, w.events).blocks =
                  IF s.channel = channel THEN v.blocks
                  ELSE Append(v.blocks, NewBlock(channel, id, name))
<1> DEFINE w == openChannel(s, channel, id, name)
           closed == closeActive(s)
           u == ClaudeReads(v, closed.events)
           e == [type |-> "content_block_start", index |-> s.next, kind |-> channel[1],
                 id |-> blockId(id), name |-> blockName(name)]
           t == [closed.state EXCEPT !.block = s.next, !.next = s.next + 1, !.channel = channel]
<1>1. CASE s.channel = channel
  <2>1. w = Written(s, <<>>)
    BY <1>1 DEF openChannel, sameChannel
  <2>2. ClaudeReads(v, <<>>) = v
    BY ReadNone
  <2> QED
    BY <1>1, <2>1, <2>2 DEF Keeps, Written
<1>2. CASE s.channel # channel
  <2>1. closed.state = [s EXCEPT !.block = NoBlock, !.channel = NoChannel]
        /\ closed.events \in Seq(ClaudeEvents) /\ Sync(closed.state, u)
        /\ u.blocks = v.blocks
    BY CloseKeeps DEF Keeps
  <2>2. w = Written(t, Append(closed.events, e))
    <3>1. closed.state.next = s.next
      BY <2>1 DEF Sync, Encoders
    <3> QED
      BY <1>2, <3>1 DEF openChannel, sameChannel
  <2>a. channel[1] \in Kinds
    BY DEF Channels, TextChannel, ThinkingChannel, ToolChannel, Kinds
  <2>b. blockId(id) \in Int /\ blockName(name) \in Int /\ s.next \in Nat
    BY DEF blockId, blockName, Generated, Missing, Sync, Encoders
  <2>3. e \in ClaudeEvents
    BY <2>a, <2>b DEF ClaudeEvents
  <2>4. ClaudeReads(v, Append(closed.events, e)) = ReadClaude(u, e)
    BY <2>1, <2>3, ReadThen
  <2>5. /\ u \in Readers /\ u.at = "message" /\ u.open = NoBlock
        /\ e.index = Len(u.blocks) /\ u.legal = "yes"
    BY <2>1 DEF Sync, Encoders
  <2> DEFINE b == [kind |-> channel[1], id |-> blockId(id), name |-> blockName(name),
                   data |-> <<>>]
             r == [u EXCEPT !.open = s.next, !.blocks = Append(u.blocks, b)]
  <2>6. ReadClaude(u, e) = r
    BY <2>5, ReadBlockStart
  <2>7. Sync(t, r)
    <3>1. t \in Encoders
      <4>1. closed.state \in Encoders
        BY <2>1 DEF Sync
      <4> QED
        BY <4>1, <2>b, s.next + 1 \in Nat, EncoderOpens
    <3>2. b \in Blocks
      BY <2>a, <2>b DEF Blocks
    <3>3. r \in Readers
      <4>1. Append(u.blocks, b) \in Seq(Blocks)
        BY <2>5, <3>2 DEF Readers
      <4> QED
        BY <2>5, <2>b, <4>1, ReaderOpens
    <3>4. t.started = "yes" /\ t.block = s.next /\ t.next = s.next + 1 /\ t.channel = channel
      <4>1. closed.state \in Encoders
        BY <2>1 DEF Sync
      <4> QED
        BY <4>1, <2>1 DEF Encoders, Sync
    <3>5. /\ r.open = s.next /\ r.legal = "yes" /\ r.at = "message"
          /\ r.blocks = Append(u.blocks, b)
      BY <2>5 DEF Readers
    <3>6. Len(u.blocks) = s.next /\ u.blocks \in Seq(Blocks)
      BY <2>5 DEF Readers
    <3>7. Len(r.blocks) = s.next + 1 /\ r.blocks[s.next + 1] = b
      BY <3>2, <3>5, <3>6
    <3>8. s.next # NoBlock /\ channel # NoChannel
      <4>1. NoChannel[1] = "none"
        BY DEF NoChannel
      <4>2. channel[1] # "none"
        BY DEF Channels, TextChannel, ThinkingChannel, ToolChannel
      <4> QED
        BY <2>b, <4>1, <4>2 DEF NoBlock
    <3> QED
      BY <2>b, <3>1, <3>3, <3>4, <3>5, <3>7, <3>8 DEF Sync
  <2>8. Append(closed.events, e) \in Seq(ClaudeEvents)
    BY <2>1, <2>3
  <2>9. Keeps(v, w)
    BY <2>2, <2>4, <2>6, <2>7, <2>8 DEF Keeps, Written
  <2>10. w.state = t
    BY <2>2 DEF Written
  <2>11. /\ t.started = "yes" /\ t.channel = channel
         /\ t.finish = s.finish /\ t.usage = s.usage
    <3>1. s \in Encoders
      BY DEF Sync
    <3> QED
      BY <2>1, <3>1 DEF Encoders
  <2>12. ClaudeReads(v, w.events).blocks = Append(v.blocks, NewBlock(channel, id, name))
    <3>1. r.blocks = Append(v.blocks, b)
      BY <2>1, <2>5 DEF Readers
    <3>2. ClaudeReads(v, w.events) = r
      BY <2>2, <2>4, <2>6 DEF Written
    <3> QED
      BY <3>1, <3>2 DEF NewBlock
  <2> QED
    BY <1>2, <2>9, <2>10, <2>11, <2>12
<1> QED
  BY <1>1, <1>2

\* More data in a block of the reader leaves it in step.
LEMMA ReaderAppends ==
  ASSUME NEW s, NEW v, Sync(s, v), NEW i \in 1 .. Len(v.blocks), NEW data \in Seq(Int)
  PROVE  Sync(s, [v EXCEPT !.blocks[i].data = v.blocks[i].data \o data])
<1> DEFINE b == v.blocks[i]
           c == [b EXCEPT !.data = b.data \o data]
           blocks == [v.blocks EXCEPT ![i] = c]
           r == [v EXCEPT !.blocks = blocks]
<1>1. v \in Readers /\ v.blocks \in Seq(Blocks) /\ b \in Blocks
  BY DEF Sync, Readers
<1>2. c \in Blocks /\ c.kind = b.kind
  <2>1. b.data \o data \in Seq(Int)
    BY <1>1 DEF Blocks
  <2> QED
    BY <1>1, <2>1 DEF Blocks
<1>3. blocks \in Seq(Blocks) /\ Len(blocks) = Len(v.blocks)
  BY <1>1, <1>2
<1>4. \A j \in 1 .. Len(v.blocks) : blocks[j].kind = v.blocks[j].kind
  BY <1>1, <1>2
<1>5. r \in Readers /\ r.legal = v.legal /\ r.at = v.at /\ r.open = v.open /\ r.blocks = blocks
  BY <1>1, <1>3 DEF Readers
<1>6. s \in Encoders /\ s.next = Len(v.blocks)
  BY DEF Sync
<1>7. Sync(s, r)
  <2>1. s.block # NoBlock => s.block + 1 \in 1 .. Len(v.blocks)
    BY <1>6 DEF Sync, Encoders, NoBlock
  <2>2. s.block # NoBlock => blocks[s.block + 1].kind = s.channel[1]
    BY <1>4, <2>1 DEF Sync
  <2> QED
    BY <1>3, <1>5, <1>6, <2>2 DEF Sync
<1> QED
  BY <1>7

\* A delta for the channel that is open keeps the reader in step.
LEMMA DataKeeps ==
  ASSUME NEW v, NEW s, NEW f \in Seq(ClaudeEvents), Sync(s, ClaudeReads(v, f)),
         s.channel \in Channels, NEW data \in Seq(Int)
  PROVE  LET w == Written(s, f \o <<[type |-> "content_block_delta", index |-> s.block,
                                     kind |-> s.channel[1], data |-> data]>>)
             blocks == ClaudeReads(v, f).blocks
         IN  /\ Keeps(v, w)
             /\ ClaudeReads(v, w.events).blocks =
                  MoreData(blocks, data)
<1> DEFINE e == [type |-> "content_block_delta", index |-> s.block,
                 kind |-> s.channel[1], data |-> data]
<1>1. f \o <<e>> = Append(f, e)
  OBVIOUS
<1>2. PICK r : r = ClaudeReads(v, f)
  OBVIOUS
<1>3. s.channel # NoChannel /\ s.channel[1] \in Kinds
  <2>1. NoChannel[1] = "none"
    BY DEF NoChannel
  <2>2. s.channel[1] # "none" /\ s.channel[1] \in Kinds
    BY DEF Channels, TextChannel, ThinkingChannel, ToolChannel, Kinds
  <2> QED
    BY <2>1, <2>2
<1>4. /\ s \in Encoders /\ r \in Readers
      /\ s.block # NoBlock /\ s.block = s.next - 1
      /\ s.next = Len(r.blocks)
      /\ r.blocks[s.block + 1].kind = s.channel[1]
      /\ r.open = s.block
  BY <1>2, <1>3 DEF Sync
<1>5. s.block \in Int /\ s.block + 1 \in 1 .. Len(r.blocks)
  <2>1. s.next \in Nat /\ s.next # 0
    BY <1>4 DEF Encoders, NoBlock
  <2> QED
    BY <1>4, <2>1
<1>6. e \in ClaudeEvents
  BY <1>3, <1>5 DEF ClaudeEvents
<1>7. ReadClaude(r, e) = [r EXCEPT !.blocks[s.block + 1].data =
                                      r.blocks[s.block + 1].data \o data]
  BY <1>4, ReadDelta
<1>8. Sync(s, ReadClaude(r, e))
  <2>1. Sync(s, [r EXCEPT !.blocks[s.block + 1].data = r.blocks[s.block + 1].data \o data])
    BY <1>2, <1>5, ReaderAppends
  <2> QED
    BY <2>1, <1>7
<1>9. Append(f, e) \in Seq(ClaudeEvents) /\ ClaudeReads(v, Append(f, e)) = ReadClaude(r, e)
  BY <1>2, <1>6, ReadThen
<1>10. ReadClaude(r, e).blocks = MoreData(r.blocks, data)
  <2>1. s.block + 1 = s.next /\ s.next \in 1 .. Len(r.blocks)
    BY <1>4, <1>5 DEF Encoders
  <2>a. PICK b \in Blocks : b = r.blocks[s.next]
    BY <1>4, <2>1 DEF Readers
  <2>2. PICK c : c = [b EXCEPT !.data = b.data \o data]
    OBVIOUS
  <2>3. c = WithData(b, data)
    BY <2>2 DEF Blocks, WithData
  <2>4. PICK blocks : blocks = [r.blocks EXCEPT ![s.next] = c]
    OBVIOUS
  <2>5. ReadClaude(r, e) = [r EXCEPT !.blocks = blocks]
    BY <1>7, <2>1, <2>a, <2>2, <2>4
  <2>6. [r EXCEPT !.blocks = blocks].blocks = blocks
    BY <1>4 DEF Readers
  <2> QED
    BY <1>4, <2>a, <2>3, <2>4, <2>5, <2>6 DEF MoreData
<1> QED
  BY <1>1, <1>2, <1>8, <1>9, <1>10 DEF Keeps, Written

\* A channel and its kind.
LEMMA ChannelKind ==
  ASSUME NEW channel \in Channels
  PROVE  /\ channel = TextChannel => channel[1] = "text"
         /\ channel = ThinkingChannel => channel[1] = "thinking"
         /\ channel # TextChannel /\ channel # ThinkingChannel => channel[1] = "tool"
         /\ TextChannel # ThinkingChannel /\ channel # NoChannel /\ channel[1] \in Kinds
<1>1. TextChannel[1] = "text" /\ ThinkingChannel[1] = "thinking" /\ NoChannel[1] = "none"
  BY DEF TextChannel, ThinkingChannel, NoChannel
<1>2. \A i : ToolChannel(i)[1] = "tool"
  BY DEF ToolChannel
<1> QED
  BY <1>1, <1>2 DEF Channels, Kinds

\* Adding nothing to what is seen.
LEMMA NothingHeard ==
  ASSUME NEW f \in Seq(Int)
  PROVE  f \o <<>> = f /\ <<>> \o f = f
OBVIOUS

\* What the client sees of a delta: more of what the open block shows, or what a
\* new block does.
LEMMA HeardIs ==
  ASSUME NEW blocks \in Seq(Blocks), NEW delta \in DeltaRecs, NEW channel, NEW opened,
         NEW after,
         delta.channel = channel =>
           Len(blocks) # 0 /\ blocks[Len(blocks)].kind = channel[1],
         opened = IF channel = delta.channel THEN blocks
                  ELSE Append(blocks, NewBlock(delta.channel, delta.id, delta.name)),
         NEW n, n = Len(opened),
         after = MoreData(opened, delta.data)
  PROVE  SawAll(after) = Heard(SawAll(blocks), channel, delta)
<1>1. PICK saw : saw = SawAll(blocks)
  OBVIOUS
<1>2. PICK t, r, s : /\ saw = [text |-> t, reasoning |-> r, calls |-> s]
                     /\ t \in Seq(Int) /\ r \in Seq(Int) /\ s \in Seq(SeenCalls)
                     /\ saw.text = t /\ saw.reasoning = r /\ saw.calls = s
  <2>1. saw \in Sights
    BY <1>1, SawTyped
  <2> QED
    BY <2>1 DEF Sights
<1>3. PICK ch, data : /\ ch = delta.channel /\ data = delta.data
                      /\ ch \in Channels /\ data \in Seq(Int)
  BY DEF DeltaRecs
<1>4. PICK b : b = NewBlock(delta.channel, delta.id, delta.name)
  OBVIOUS
<1>5. /\ b \in Blocks /\ b.kind = ch[1] /\ b.data = <<>>
      /\ b.id = blockId(delta.id) /\ b.name = blockName(delta.name)
  <2>1. delta.id \in Int /\ delta.name \in Int /\ ch[1] \in Kinds
    BY <1>3, ChannelKind DEF DeltaRecs
  <2>2. blockId(delta.id) \in Int /\ blockName(delta.name) \in Int
    BY <2>1 DEF blockId, blockName, Generated, Missing
  <2> QED
    BY <1>3, <1>4, <2>1, <2>2 DEF NewBlock, Blocks
<1>6. n = Len(opened)
  OBVIOUS
<1>7. /\ opened \in Seq(Blocks) /\ n \in Nat \ {0} /\ opened[n].kind = ch[1]
      /\ after = MoreData(opened, data)
  <2>1. CASE channel = ch
    BY <1>3, <1>6, <2>1
  <2>2. CASE channel # ch
    <3>1. opened = Append(blocks, b)
      BY <1>3, <1>4, <2>2
    <3>2. opened \in Seq(Blocks) /\ Len(opened) = Len(blocks) + 1 /\ opened[Len(blocks) + 1] = b
      BY <1>5, <3>1
    <3> QED
      BY <1>3, <1>5, <1>6, <3>2
  <2> QED
    BY <2>1, <2>2
<1>8. PICK mid, x, y, z : /\ mid = SawAll(opened) /\ mid \in Sights
                          /\ mid.text = x /\ mid.reasoning = y /\ mid.calls = z
  BY <1>7, SawTyped
<1>9. /\ ch[1] = "text" =>
           SawAll(after) = [text |-> x \o data, reasoning |-> y, calls |-> z]
      /\ ch[1] = "thinking" =>
           SawAll(after) = [text |-> x, reasoning |-> y \o data, calls |-> z]
      /\ ch[1] = "tool" =>
           SawAll(after) = [text |-> x, reasoning |-> y,
                            calls |-> MoreAsked(z, data)]
  <2>1. n = Len(opened) /\ mid = SawAll(opened) /\ opened \in Seq(Blocks)
        /\ n \in Nat \ {0} /\ data \in Seq(Int)
        /\ after = MoreData(opened, data)
    BY <1>3, <1>6, <1>7, <1>8
  <2> DEFINE new == SawAll(MoreData(opened, data))
             old == SawAll(opened)
  <2>2. opened[n].kind = "text" =>
          new = [text |-> old.text \o data, reasoning |-> old.reasoning, calls |-> old.calls]
    BY <2>1, SawLonger
  <2>3. opened[n].kind = "thinking" =>
          new = [text |-> old.text, reasoning |-> old.reasoning \o data, calls |-> old.calls]
    BY <2>1, SawLonger
  <2>4. opened[n].kind = "tool" =>
          new = [text |-> old.text, reasoning |-> old.reasoning,
                 calls |-> MoreAsked(old.calls, data)]
    BY <2>1, SawLonger
  <2>5. new = SawAll(after) /\ old = mid
    BY <2>1
  <2> HIDE DEF new, old
  <2> QED
    BY <1>7, <1>8, <2>2, <2>3, <2>4, <2>5
<1>10. CASE channel = ch
  <2>1. opened = blocks
    BY <1>3, <1>10
  <2>2. x = t /\ y = r /\ z = s
    BY <1>1, <1>2, <1>8, <2>1
  <2>3. CASE ch = TextChannel
    <3>1. SawAll(after) = [text |-> t \o data, reasoning |-> r, calls |-> s]
      BY <1>3, <1>9, <2>2, <2>3, ChannelKind
    <3>2. Heard(saw, channel, delta) = [text |-> t \o data, reasoning |-> r, calls |-> s]
      BY <1>2, <1>3, <2>3, ChannelKind DEF Heard
    <3> QED
      BY <1>1, <3>1, <3>2
  <2>4. CASE ch = ThinkingChannel
    <3>1. SawAll(after) = [text |-> t, reasoning |-> r \o data, calls |-> s]
      BY <1>3, <1>9, <2>2, <2>4, ChannelKind
    <3>2. Heard(saw, channel, delta) = [text |-> t, reasoning |-> r \o data, calls |-> s]
      BY <1>2, <1>3, <2>4, ChannelKind DEF Heard
    <3> QED
      BY <1>1, <3>1, <3>2
  <2>5. CASE ch # TextChannel /\ ch # ThinkingChannel
    <3>1. PICK c : c = MoreAsked(s, data)
      OBVIOUS
    <3>2. SawAll(after) = [text |-> t, reasoning |-> r, calls |-> c]
      BY <1>3, <1>9, <2>2, <2>5, <3>1, ChannelKind
    <3>3. Heard(saw, channel, delta) = [text |-> t, reasoning |-> r, calls |-> c]
      BY <1>2, <1>3, <1>10, <2>5, <3>1 DEF Heard
    <3> QED
      BY <1>1, <3>2, <3>3
  <2> QED
    BY <2>3, <2>4, <2>5
<1>11. CASE channel # ch
  <2>1. opened = Append(blocks, b)
    BY <1>3, <1>4, <1>11
  <2>2. mid = SawBlock(saw, b) /\ saw \in Sights
    BY <1>1, <1>5, <1>8, <2>1, SawOneMore, SawTyped
  <2>3. CASE ch = TextChannel
    <3>1. mid = [text |-> t \o <<>>, reasoning |-> r, calls |-> s]
      <4>1. b.kind = ch[1] /\ b.data = <<>> /\ b \in Blocks
        BY <1>5
      <4>2. SawBlock(saw, b) = [text |-> t \o b.data, reasoning |-> r, calls |-> s]
        BY <1>2, <1>3, <2>2, <2>3, <4>1, ChannelKind, SawBlockIs, ZenonT(60)
      <4> QED
        BY <2>2, <4>1, <4>2
    <3>2. x = t /\ y = r /\ z = s
      BY <1>2, <1>8, <3>1, NothingHeard
    <3>3. SawAll(after) = [text |-> t \o data, reasoning |-> r, calls |-> s]
      BY <1>3, <1>9, <2>3, <3>2, ChannelKind
    <3>4. Heard(saw, channel, delta) = [text |-> t \o data, reasoning |-> r, calls |-> s]
      BY <1>2, <1>3, <2>3, ChannelKind DEF Heard
    <3> QED
      BY <1>1, <3>3, <3>4
  <2>4. CASE ch = ThinkingChannel
    <3>1. mid = [text |-> t, reasoning |-> r \o <<>>, calls |-> s]
      <4>1. b.kind = ch[1] /\ b.data = <<>> /\ b \in Blocks
        BY <1>5
      <4>2. SawBlock(saw, b) = [text |-> t, reasoning |-> r \o b.data, calls |-> s]
        BY <1>2, <1>3, <2>2, <2>4, <4>1, ChannelKind, SawBlockIs, ZenonT(60)
      <4> QED
        BY <2>2, <4>1, <4>2
    <3>2. x = t /\ y = r /\ z = s
      BY <1>2, <1>8, <3>1, NothingHeard
    <3>3. SawAll(after) = [text |-> t, reasoning |-> r \o data, calls |-> s]
      BY <1>3, <1>9, <2>4, <3>2, ChannelKind
    <3>4. Heard(saw, channel, delta) = [text |-> t, reasoning |-> r \o data, calls |-> s]
      BY <1>2, <1>3, <2>4, ChannelKind DEF Heard
    <3> QED
      BY <1>1, <3>3, <3>4
  <2>5. CASE ch # TextChannel /\ ch # ThinkingChannel
    <3> DEFINE Asked(args) == [id |-> b.id, name |-> b.name, args |-> args]
    <3>1. Asked(<<>>) \in SeenCalls /\ Asked(data) \in SeenCalls
      <4>1. b.id \in Int /\ b.name \in Int /\ <<>> \in Seq(Int) /\ data \in Seq(Int)
        BY <1>3, <1>5 DEF Blocks
      <4> QED
        BY <4>1 DEF SeenCalls
    <3>2. WithArgs(Asked(<<>>), data) = Asked(data)
      BY <1>3, NothingHeard DEF WithArgs
    <3>3. mid = [text |-> t, reasoning |-> r, calls |-> Append(s, Asked(<<>>))]
      <4>1. b.kind = ch[1] /\ b.data = <<>> /\ b \in Blocks
        BY <1>5
      <4>2. SawBlock(saw, b) = [text |-> t, reasoning |-> r, calls |-> Append(s, Asked(b.data))]
        <5>1. b.kind = "tool"
          BY <1>3, <2>5, <4>1, ChannelKind
        <5>2. SawBlock(saw, b) = [text |-> saw.text, reasoning |-> saw.reasoning,
                                  calls |-> Append(saw.calls, Asked(b.data))]
          BY <2>2, <4>1, <5>1, SawBlockIs DEF Asked
        <5> QED
          BY <1>2, <5>2
      <4> QED
        BY <2>2, <4>1, <4>2
    <3>4. Heard(saw, channel, delta) = [text |-> t, reasoning |-> r, calls |-> Append(s, Asked(data))]
      BY <1>2, <1>3, <1>5, <1>11, <2>5 DEF Heard
    <3> HIDE DEF Asked
    <3>5. x = t /\ y = r /\ z = Append(s, Asked(<<>>))
      BY <1>8, <3>3
    <3>6. MoreAsked(z, data) = Append(s, Asked(data))
      BY <1>2, <1>3, <3>1, <3>2, <3>5, MoreAskedIs
    <3>8. SawAll(after) = [text |-> t, reasoning |-> r, calls |-> Append(s, Asked(data))]
      BY <1>3, <1>9, <2>5, <3>5, <3>6, ChannelKind
    <3> QED
      BY <1>1, <3>4, <3>8
  <2> QED
    BY <2>3, <2>4, <2>5
<1> QED
  BY <1>10, <1>11

\* No data changes no block.
LEMMA NoMoreData ==
  ASSUME NEW blocks \in Seq(Blocks), Len(blocks) # 0
  PROVE  MoreData(blocks, <<>>) = blocks
<1>1. PICK n : n = Len(blocks)
  OBVIOUS
<1>2. n \in 1 .. Len(blocks)
  BY <1>1
<1>3. PICK b \in Blocks : b = blocks[n]
  BY <1>2
<1>4. b.data \o <<>> = b.data
  BY NothingHeard DEF Blocks
<1>5. WithData(b, <<>>) = b
  BY <1>4 DEF WithData, Blocks
<1>6. [blocks EXCEPT ![n] = b] = blocks
  BY <1>2, <1>3
<1> QED
  BY <1>1, <1>3, <1>5, <1>6 DEF MoreData

\* When a channel is open, so is a block of its kind, the last one.
LEMMA OpenBlock ==
  ASSUME NEW s, NEW v, Sync(s, v), s.channel \in Channels
  PROVE  /\ v.blocks \in Seq(Blocks) /\ Len(v.blocks) # 0
         /\ v.blocks[Len(v.blocks)].kind = s.channel[1]
<1>1. s.channel # NoChannel
  BY ChannelKind
<1>2. /\ s \in Encoders /\ v \in Readers /\ s.next = Len(v.blocks)
      /\ s.block # NoBlock /\ s.block = s.next - 1
      /\ v.blocks[s.block + 1].kind = s.channel[1]
  BY <1>1 DEF Sync
<1>3. s.next \in Nat /\ s.next # 0 /\ s.block + 1 = s.next
  BY <1>2 DEF Encoders, NoBlock
<1> QED
  BY <1>2, <1>3 DEF Readers

\* writeDelta, the body of the loop over a chunk's deltas: whatever the delta, the
\* reader stays in step and sees what the delta says, and the delta's channel is open.
LEMMA WriteKeeps ==
  ASSUME NEW v, NEW w, Keeps(v, w), w.state.started = "yes", NEW delta \in DeltaRecs
  PROVE  LET x == writeDelta(w, delta)
         IN  /\ Keeps(v, x) /\ x.state.started = "yes"
             /\ x.state.finish = w.state.finish /\ x.state.usage = w.state.usage
             /\ x.state.channel = delta.channel
             /\ SawAll(ClaudeReads(v, x.events).blocks)
                  = Heard(SawAll(ClaudeReads(v, w.events).blocks), w.state.channel, delta)
<1>0. /\ delta.channel \in Channels /\ delta.id \in Int /\ delta.name \in Int
      /\ delta.data \in Seq(Int)
  BY DEF DeltaRecs
<1>1. PICK o : o = openChannel(w.state, delta.channel, delta.id, delta.name)
  OBVIOUS
<1>2. w.events \in Seq(ClaudeEvents) /\ Sync(w.state, ClaudeReads(v, w.events))
  BY DEF Keeps
<1>3. /\ Keeps(ClaudeReads(v, w.events), o)
      /\ o.state.started = "yes" /\ o.state.channel = delta.channel
      /\ o.state.finish = w.state.finish /\ o.state.usage = w.state.usage
      /\ ClaudeReads(ClaudeReads(v, w.events), o.events).blocks =
           IF w.state.channel = delta.channel THEN ClaudeReads(v, w.events).blocks
           ELSE Append(ClaudeReads(v, w.events).blocks,
                       NewBlock(delta.channel, delta.id, delta.name))
  BY <1>0, <1>1, <1>2, OpenKeeps
<1>4. PICK f : f = w.events \o o.events
  OBVIOUS
<1>5. /\ f \in Seq(ClaudeEvents) /\ Sync(o.state, ClaudeReads(v, f))
      /\ ClaudeReads(v, f) = ClaudeReads(ClaudeReads(v, w.events), o.events)
  <2>1. o.events \in Seq(ClaudeEvents) /\ Sync(o.state, ClaudeReads(ClaudeReads(v, w.events), o.events))
    BY <1>3 DEF Keeps
  <2> QED
    BY <1>2, <1>4, <2>1, ReadBoth
<1>9. PICK opened : opened = ClaudeReads(v, f).blocks
  OBVIOUS
<1>10. opened \in Seq(Blocks) /\ Len(opened) # 0
  BY <1>0, <1>3, <1>5, <1>9, OpenBlock
<1>6. writeDelta(w, delta) =
        Written(o.state,
                f \o IF delta.data = <<>> THEN <<>>
                     ELSE <<[type |-> "content_block_delta", index |-> o.state.block,
                             kind |-> o.state.channel[1], data |-> delta.data]>>)
  BY <1>1, <1>3, <1>4 DEF writeDelta
<1>7. /\ Keeps(v, writeDelta(w, delta))
      /\ ClaudeReads(v, writeDelta(w, delta).events).blocks = MoreData(opened, delta.data)
  <2>1. CASE delta.data = <<>>
    <3>1. f \o <<>> = f
      BY <1>5
    <3>2. writeDelta(w, delta) = Written(o.state, f)
      BY <1>6, <2>1, <3>1
    <3>3. MoreData(opened, delta.data) = opened
      BY <1>10, <2>1, NoMoreData
    <3> QED
      BY <1>5, <1>9, <3>2, <3>3 DEF Keeps, Written
  <2>2. CASE delta.data # <<>>
    <3>1. o.state.channel \in Channels
      BY <1>0, <1>3
    <3>2. PICK s : s = o.state
      OBVIOUS
    <3>3. PICK x : x = Written(s, f \o <<[type |-> "content_block_delta", index |-> s.block,
                                          kind |-> s.channel[1], data |-> delta.data]>>)
      OBVIOUS
    <3>4. Keeps(v, x) /\ ClaudeReads(v, x.events).blocks = MoreData(ClaudeReads(v, f).blocks, delta.data)
      BY <1>0, <1>5, <3>1, <3>2, <3>3, DataKeeps
    <3>5. writeDelta(w, delta) = x
      BY <1>6, <2>2, <3>2, <3>3
    <3> QED
      BY <1>9, <3>4, <3>5
  <2> QED
    BY <2>1, <2>2
<1>8. writeDelta(w, delta).state = o.state
  BY <1>6 DEF Written
<1>11. SawAll(MoreData(opened, delta.data))
         = Heard(SawAll(ClaudeReads(v, w.events).blocks), w.state.channel, delta)
  <2>1. PICK blocks, channel : blocks = ClaudeReads(v, w.events).blocks /\ channel = w.state.channel
    OBVIOUS
  <2>2. blocks \in Seq(Blocks)
    BY <1>2, <2>1 DEF Sync, Readers
  <2>3. delta.channel = channel => Len(blocks) # 0 /\ blocks[Len(blocks)].kind = channel[1]
    BY <1>0, <1>2, <2>1, OpenBlock
  <2>4. opened = IF channel = delta.channel THEN blocks
                 ELSE Append(blocks, NewBlock(delta.channel, delta.id, delta.name))
    BY <1>3, <1>5, <1>9, <2>1
  <2>5. PICK after, n : after = MoreData(opened, delta.data) /\ n = Len(opened)
    OBVIOUS
  <2>6. SawAll(after) = Heard(SawAll(blocks), channel, delta)
    BY <2>2, <2>3, <2>4, <2>5, HeardIs
  <2> QED
    BY <2>1, <2>5, <2>6
<1> QED
  BY <1>3, <1>7, <1>8, <1>11
-----------------------------------------------------------------------------
(* A chunk, and the end *)

\* The encoder's loop is the fold the laws are about.
LEMMA WritingFold ==
  \A w, deltas : Writing!FoldLeft(writeDelta, w, deltas) = FoldLeft(writeDelta, w, deltas)
BY DEF Writing!FoldLeft, FoldLeft, Writing!MapThenFoldSet, MapThenFoldSet, Writing!Max, Max

\* What a chunk has to write: deltas of the encoder's channels.
LEMMA DeltasTyped ==
  ASSUME NEW c \in Chunks
  PROVE  Deltas(c) \in Seq(DeltaRecs)
<1> DEFINE Think == [channel |-> ThinkingChannel, id |-> Missing, name |-> Missing,
                     data |-> c.reasoning]
           Say   == [channel |-> TextChannel, id |-> Missing, name |-> Missing,
                     data |-> c.text]
           Ask(i) == [channel |-> ToolChannel(c.calls[i].index), id |-> c.calls[i].id,
                      name |-> c.calls[i].name, data |-> c.calls[i].args]
           Asked == [i \in DOMAIN c.calls |-> Ask(i)]
<1>1. c.text \in Seq(Int) /\ c.reasoning \in Seq(Int) /\ c.calls \in Seq(Fragments)
  BY DEF Chunks
<1>2. Think \in DeltaRecs /\ Say \in DeltaRecs
  <2>1. Missing \in Int
    BY DEF Missing
  <2>2. ThinkingChannel \in Channels /\ TextChannel \in Channels
    BY DEF Channels
  <2> QED
    BY <1>1, <2>1, <2>2 DEF DeltaRecs
<1>3. Asked \in Seq(DeltaRecs)
  <2>1. ASSUME NEW i \in 1 .. Len(c.calls) PROVE Ask(i) \in DeltaRecs
    <3>1. c.calls[i] \in Fragments
      BY <1>1
    <3>2. ToolChannel(c.calls[i].index) \in Channels
      BY <3>1 DEF Channels, Fragments
    <3> QED
      BY <3>1, <3>2 DEF Fragments, DeltaRecs
  <2>2. DOMAIN c.calls = 1 .. Len(c.calls) /\ Len(c.calls) \in Nat
    BY <1>1
  <2> HIDE DEF Ask
  <2> QED
    BY <2>1, <2>2
<1> HIDE DEF Think, Say, Asked
<1>4. Deltas(c) = (IF c.reasoning = <<>> THEN <<>> ELSE <<Think>>)
                  \o (IF c.text = <<>> THEN <<>> ELSE <<Say>>) \o Asked
  BY DEF Deltas, Think, Say, Asked
<1> QED
  BY <1>2, <1>3, <1>4

\* The finish reason and the usage after a chunk.
Noted(old, new, none) == IF new # none THEN new ELSE old

\* What the client sees after w, and the channel that is open.
Sees(v, w) == [saw |-> SawAll(ClaudeReads(v, w.events).blocks), channel |-> w.state.channel]

\* The same after the deltas: none, one or two.
Hears(saw, channel, deltas) ==
  CASE Len(deltas) = 0 -> [saw |-> saw, channel |-> channel]
    [] Len(deltas) = 1 -> [saw |-> Heard(saw, channel, deltas[1]), channel |-> deltas[1].channel]
    [] Len(deltas) = 2 -> [saw     |-> Heard(Heard(saw, channel, deltas[1]), deltas[1].channel,
                                             deltas[2]),
                           channel |-> deltas[2].channel]

\* The Claude encoder: whatever chunk it is given, what it writes keeps the reader in
\* step, and it takes note of the finish reason and the usage; the client sees what
\* the chunk's deltas say.
LEMMA EncodeKeeps ==
  ASSUME NEW s, NEW v, Sync(s, v), NEW c \in Chunks, c.choices # "none"
  PROVE  LET w == ClaudeEncode(s, c)
         IN  /\ Keeps(v, w)
             /\ w.state.finish = Noted(s.finish, c.finish, NoFinish)
             /\ w.state.usage = Noted(s.usage, c.usage, NoUsage)
             /\ Len(Deltas(c)) \in 0 .. 2 =>
                  Sees(v, w) = Hears(SawAll(v.blocks), s.channel, Deltas(c))
<1>1. PICK begun : begun = startMessage(s)
  OBVIOUS
<1>2. begun.events \in Seq(ClaudeEvents) /\ Sync(begun.state, ClaudeReads(v, begun.events))
  BY <1>1, StartKeeps DEF Keeps
<1>3. begun.state = [s EXCEPT !.started = "yes"]
  BY <1>1, StartKeeps
<1> DEFINE finish == Noted(s.finish, c.finish, NoFinish)
           usage  == Noted(s.usage, c.usage, NoUsage)
<1>4. PICK noted : noted = [begun.state EXCEPT !.usage = usage, !.finish = finish]
  OBVIOUS
<1>5. /\ s \in Encoders /\ begun.state \in Encoders
      /\ finish \in Finishes /\ usage \in Usages
  BY <1>2 DEF Sync, Encoders, Chunks, Noted
<1>6. /\ noted \in Encoders /\ noted.finish = finish /\ noted.usage = usage
      /\ noted.started = "yes" /\ noted.block = begun.state.block
      /\ noted.channel = begun.state.channel /\ noted.next = begun.state.next
  <2> HIDE DEF finish, usage
  <2>1. begun.state.started = "yes"
    BY <1>3, <1>5 DEF Encoders
  <2>2. noted \in Encoders
    <3> DEFINE t == [begun.state EXCEPT !.usage = usage]
    <3>1. t \in Encoders
      BY <1>5 DEF Encoders
    <3>2. [t EXCEPT !.finish = finish] \in Encoders
      BY <1>5, <3>1 DEF Encoders
    <3> QED
      BY <1>4, <3>2
  <2> QED
    BY <1>4, <1>5, <2>1, <2>2 DEF Encoders
<1>7. Sync(noted, ClaudeReads(v, begun.events))
  <2>1. begun.state.started = "yes"
    BY <1>3, <1>5 DEF Encoders
  <2> QED
    BY <1>2, <1>6, <2>1 DEF Sync
<1> DEFINE S == {w \in [state : Encoders, events : Seq(ClaudeEvents)] :
                   /\ Keeps(v, w) /\ w.state.started = "yes"
                   /\ w.state.finish = finish /\ w.state.usage = usage}
<1>8. Written(noted, begun.events) \in S
  BY <1>2, <1>6, <1>7 DEF Keeps, Written
<1>9. ASSUME NEW w \in S, NEW delta \in DeltaRecs
      PROVE  writeDelta(w, delta) \in S
  <2>1. Keeps(v, w) /\ w.state.started = "yes" /\ w.state.finish = finish /\ w.state.usage = usage
    OBVIOUS
  <2>2. PICK x : x = writeDelta(w, delta)
    OBVIOUS
  <2>3. /\ Keeps(v, x) /\ x.state.started = "yes"
        /\ x.state.finish = finish /\ x.state.usage = usage
    BY <2>1, <2>2, WriteKeeps
  <2>4. x = [state |-> x.state, events |-> x.events]
    BY <2>2 DEF writeDelta, Written
  <2>5. x.state \in Encoders /\ x.events \in Seq(ClaudeEvents)
    BY <2>3 DEF Keeps, Sync
  <2>6. x \in [state : Encoders, events : Seq(ClaudeEvents)]
    BY <2>4, <2>5
  <2> QED
    BY <2>2, <2>3, <2>6
<1>10. PICK deltas : deltas = Deltas(c)
  OBVIOUS
<1>11. deltas \in Seq(DeltaRecs)
  BY <1>10, DeltasTyped
<1>12. Len(deltas) \in Nat /\ DOMAIN deltas = 1 .. Len(deltas)
       /\ \A i \in 1 .. Len(deltas) : deltas[i] \in DeltaRecs
  BY <1>11
<1>13. FoldLeft(writeDelta, Written(noted, begun.events), deltas) \in S
  <2> HIDE DEF S
  <2>1. \A w \in S, i \in 1 .. Len(deltas) : writeDelta(w, deltas[i]) \in S
    BY <1>9, <1>12
  <2>2. Writing!FoldLeft(writeDelta, Written(noted, begun.events), deltas) \in S
    BY <1>8, <1>12, <2>1, Writing!FoldKeeps
  <2> QED
    BY <2>2, WritingFold
<1>14. ClaudeEncode(s, c) = FoldLeft(writeDelta, Written(noted, begun.events), deltas)
  <2>1. begun.state.usage = s.usage /\ begun.state.finish = s.finish
    BY <1>3, <1>5 DEF Encoders
  <2> QED
    BY <1>1, <1>4, <1>10, <2>1 DEF ClaudeEncode, Noted
<1>15. PICK a : a = Written(noted, begun.events)
  OBVIOUS
<1>16. /\ Keeps(v, a) /\ a.state.started = "yes"
       /\ SawAll(ClaudeReads(v, a.events).blocks) = SawAll(v.blocks)
       /\ a.state.channel = s.channel
  <2>1. ClaudeReads(v, begun.events).blocks = v.blocks
    BY <1>1, StartKeeps
  <2>2. a.state = noted /\ a.events = begun.events
    BY <1>15 DEF Written
  <2>3. noted.channel = s.channel
    BY <1>3, <1>5, <1>6 DEF Encoders
  <2> QED
    BY <1>2, <1>6, <1>7, <2>1, <2>2, <2>3 DEF Keeps
<1>17. PICK w : w = FoldLeft(writeDelta, a, deltas)
  OBVIOUS
<1>18. ASSUME Len(deltas) \in 0 .. 2
       PROVE  Sees(v, w) = Hears(SawAll(v.blocks), s.channel, deltas)
  <2>1. CASE Len(deltas) = 0
    <3>1. deltas = <<>>
      BY <1>11, <2>1
    <3>2. w = a
      BY <1>17, <3>1, Writing!FoldEmpty, WritingFold
    <3> QED
      BY <1>16, <2>1, <3>2 DEF Sees, Hears
  <2>2. CASE Len(deltas) = 1
    <3>1. PICK d : d = deltas[1]
      OBVIOUS
    <3>2. d \in DeltaRecs /\ deltas = <<d>>
      BY <1>11, <2>2, <3>1
    <3>3. w = writeDelta(a, d)
      BY <1>17, <3>2, Writing!FoldOne, WritingFold
    <3>4. /\ w.state.channel = d.channel
          /\ SawAll(ClaudeReads(v, w.events).blocks) = Heard(SawAll(v.blocks), s.channel, d)
      BY <1>16, <3>2, <3>3, WriteKeeps
    <3> QED
      BY <2>2, <3>1, <3>4 DEF Sees, Hears
  <2>3. CASE Len(deltas) = 2
    <3>1. PICK d, e : d = deltas[1] /\ e = deltas[2]
      OBVIOUS
    <3>2. d \in DeltaRecs /\ e \in DeltaRecs /\ DOMAIN deltas = 1 .. 2
      BY <1>11, <2>3, <3>1
    <3>3. w = writeDelta(writeDelta(a, d), e)
      BY <1>17, <3>1, <3>2, Writing!FoldTwo, WritingFold
    <3>4. PICK b : b = writeDelta(a, d)
      OBVIOUS
    <3>5. /\ Keeps(v, b) /\ b.state.started = "yes" /\ b.state.channel = d.channel
          /\ SawAll(ClaudeReads(v, b.events).blocks) = Heard(SawAll(v.blocks), s.channel, d)
      BY <1>16, <3>2, <3>4, WriteKeeps
    <3>6. /\ w.state.channel = e.channel
          /\ SawAll(ClaudeReads(v, w.events).blocks)
               = Heard(SawAll(ClaudeReads(v, b.events).blocks), b.state.channel, e)
      BY <3>2, <3>3, <3>4, <3>5, WriteKeeps
    <3> QED
      BY <2>3, <3>1, <3>5, <3>6 DEF Sees, Hears
  <2> QED
    BY <1>18, <2>1, <2>2, <2>3
<1>19. ClaudeEncode(s, c) = w
  BY <1>14, <1>15, <1>17
<1> QED
  BY <1>10, <1>13, <1>14, <1>18, <1>19

\* end() of the Claude encoder: the reader is at message_stop, with the stop reason
\* and the usage the encoder last saw.
LEMMA EndCloses ==
  ASSUME NEW s, NEW v, Sync(s, v)
  PROVE  LET w == ClaudeEncodeEnd(s)
             r == ClaudeReads(v, w.events)
         IN  /\ w.state \in Encoders /\ r \in Readers
             /\ r.legal = "yes" /\ r.at = "stop"
             /\ r.stop = openAIFinishToAnthropic(s.finish) /\ r.usage = s.usage
             /\ r.blocks = v.blocks
<1>1. PICK begun : begun = startMessage(s)
  OBVIOUS
<1>2. begun.events \in Seq(ClaudeEvents) /\ Sync(begun.state, ClaudeReads(v, begun.events))
  BY <1>1, StartKeeps DEF Keeps
<1>3. begun.state = [s EXCEPT !.started = "yes"]
  BY <1>1, StartKeeps
<1>4. PICK closed : closed = closeActive(begun.state)
  OBVIOUS
<1>5. /\ closed.events \in Seq(ClaudeEvents)
      /\ Sync(closed.state, ClaudeReads(ClaudeReads(v, begun.events), closed.events))
      /\ closed.state = [begun.state EXCEPT !.block = NoBlock, !.channel = NoChannel]
  BY <1>2, <1>4, CloseKeeps DEF Keeps
<1>6. PICK f : f = begun.events \o closed.events
  OBVIOUS
<1>7. PICK u : u = ClaudeReads(v, f)
  OBVIOUS
<1>8. f \in Seq(ClaudeEvents) /\ Sync(closed.state, u)
  BY <1>2, <1>5, <1>6, <1>7, ReadBoth
<1>24. u.blocks = v.blocks
  <2>1. ClaudeReads(v, begun.events).blocks = v.blocks
    BY <1>1, StartKeeps
  <2>2. PICK x, y : x = begun.state /\ y = ClaudeReads(v, begun.events)
    OBVIOUS
  <2>3. ClaudeReads(y, closeActive(x).events).blocks = y.blocks
    BY <1>2, <2>2, CloseKeeps
  <2> QED
    BY <1>2, <1>4, <1>5, <1>6, <1>7, <2>1, <2>2, <2>3, ReadBoth
<1> DEFINE stop  == openAIFinishToAnthropic(s.finish)
           delta == [type |-> "message_delta", stop |-> stop, usage |-> s.usage]
           last  == [type |-> "message_stop"]
<1>9. ClaudeEncodeEnd(s) = Written(closed.state, f \o <<delta, last>>)
  BY <1>1, <1>4, <1>6 DEF ClaudeEncodeEnd
<1>10. /\ u \in Readers /\ u.legal = "yes" /\ u.at = "message" /\ u.open = NoBlock
       /\ closed.state \in Encoders
  <2>1. s \in Encoders /\ begun.state \in Encoders
    BY <1>2 DEF Sync
  <2>2. closed.state.started = "yes" /\ closed.state.block = NoBlock
    BY <1>3, <1>5, <2>1 DEF Encoders
  <2> QED
    BY <1>8, <2>2 DEF Sync
<1>11. s.usage \in Usages /\ s.finish \in Finishes
  BY DEF Sync, Encoders
<1>12. stop \in Stops
  BY DEF openAIFinishToAnthropic, Stops, NoFinish
<1>13. delta \in ClaudeEvents /\ last \in ClaudeEvents
  <2> HIDE DEF stop
  <2> QED
    BY <1>11, <1>12 DEF ClaudeEvents
<1> HIDE DEF stop
<1>14. PICK t : t = [u EXCEPT !.at = "delta", !.stop = stop, !.usage = s.usage]
  OBVIOUS
<1>15. /\ t \in Readers /\ t.at = "delta" /\ t.legal = "yes"
       /\ t.stop = stop /\ t.usage = s.usage /\ t.blocks = u.blocks
  BY <1>10, <1>11, <1>12, <1>14 DEF Readers
<1>16. ClaudeReads(v, Append(Append(f, delta), last)) = [t EXCEPT !.at = "stop"]
  <2>1. Append(f, delta) \in Seq(ClaudeEvents)
    BY <1>8, <1>13
  <2>2. ReadClaude(u, delta) = t
    <3>1. delta.type = "message_delta" /\ delta.stop = stop /\ delta.usage = s.usage
      OBVIOUS
    <3> HIDE DEF delta
    <3>2. ReadClaude(u, delta) = [u EXCEPT !.at = "delta", !.stop = delta.stop,
                                             !.usage = delta.usage]
      BY <1>10, <3>1, ReadMessageDelta, Zenon
    <3> QED
      BY <1>14, <3>1, <3>2, Zenon
  <2>3. ReadClaude(t, last) = [t EXCEPT !.at = "stop"]
    BY <1>15, ReadMessageStop
  <2>4. ClaudeReads(v, Append(f, delta)) = t
    BY <1>7, <1>8, <1>13, <2>2, ReadThen
  <2> HIDE DEF delta, last
  <2>5. PICK h : h = Append(f, delta)
    OBVIOUS
  <2>6. ClaudeReads(v, Append(h, last)) = ReadClaude(ClaudeReads(v, h), last)
    BY <1>13, <2>1, <2>5, ReadThen
  <2> QED
    BY <2>3, <2>4, <2>5, <2>6
<1>17. f \o <<delta, last>> = Append(Append(f, delta), last)
  <2> HIDE DEF delta, last
  <2> QED
    BY <1>8, <1>13
<1>18. [t EXCEPT !.at = "stop"] \in Readers
  BY <1>15 DEF Readers
<1>19. PICK g : g = f \o <<delta, last>>
  OBVIOUS
<1>20. PICK r : r = [t EXCEPT !.at = "stop"]
  OBVIOUS
<1>21. /\ ClaudeEncodeEnd(s).state = closed.state
       /\ ClaudeEncodeEnd(s).events = g
  BY <1>9, <1>19 DEF Written
<1>22. ClaudeReads(v, g) = r
  BY <1>16, <1>17, <1>19, <1>20
<1>23. /\ r \in Readers /\ r.legal = "yes" /\ r.at = "stop" /\ r.stop = stop
       /\ r.usage = s.usage /\ r.blocks = t.blocks
  BY <1>15, <1>18, <1>20 DEF Readers
<1> QED
  BY <1>10, <1>15, <1>21, <1>22, <1>23, <1>24 DEF stop
-----------------------------------------------------------------------------
(* The assembled answer *)

Calls    == [id : Nat \ {0}, name : Nat \ {0}, args : Seq(Int)]
Messages == [text : Seq(Int), reasoning : Seq(Int), calls : Seq(Calls),
             finish : Finishes, usage : Usages, resumed : {"no", "yes"}]

\* The calls by their indices in the pivot.
ByIndex(calls) == [i \in 0 .. Len(calls) - 1 |-> calls[i + 1]]

\* More arguments for the k-th call.
Longer(calls, k, args) == [calls EXCEPT ![k].args = calls[k].args \o args]

Adding == INSTANCE FoldLaws WITH op <- AddFragment

\* The loop over a chunk's fragments is the fold the laws are about.
LEMMA AddingFold ==
  \A tools, calls : Adding!FoldLeft(AddFragment, tools, calls) = FoldLeft(AddFragment, tools, calls)
BY DEF Adding!FoldLeft, FoldLeft, Adding!MapThenFoldSet, MapThenFoldSet, Adding!Max, Max

\* No fragment adds nothing.
LEMMA AddNone == ASSUME NEW tools PROVE FoldLeft(AddFragment, tools, <<>>) = tools
BY Adding!FoldEmpty, AddingFold

\* One fragment.
LEMMA AddOne ==
  ASSUME NEW tools, NEW call
  PROVE  FoldLeft(AddFragment, tools, <<call>>) = AddFragment(tools, call)
BY Adding!FoldOne, AddingFold

\* Two fragments, one after the other.
LEMMA AddTwo ==
  ASSUME NEW tools, NEW calls, DOMAIN calls = 1 .. 2
  PROVE  FoldLeft(AddFragment, tools, calls) = AddFragment(AddFragment(tools, calls[1]), calls[2])
BY Adding!FoldTwo, AddingFold

\* A fragment with the next index, an id and a name is a new call.
LEMMA AddNew ==
  ASSUME NEW calls \in Seq(Calls), NEW id \in Nat \ {0}, NEW name \in Nat \ {0},
         NEW args \in Seq(Int)
  PROVE  AddFragment(ByIndex(calls), Call(Len(calls), id, name, args))
           = ByIndex(Append(calls, [id |-> id, name |-> name, args |-> args]))
<1> DEFINE new == [id |-> id, name |-> name, args |-> args]
           n == Len(calls)
<1>1. n \in Nat /\ n \notin DOMAIN ByIndex(calls) /\ DOMAIN ByIndex(calls) = 0 .. n - 1
  BY DEF ByIndex
<1>2. First(id, Missing) = id /\ First(name, Missing) = name
  BY DEF First, Missing, Absent
<1>3. <<>> \o args = args
  OBVIOUS
<1>4. AddFragment(ByIndex(calls), Call(n, id, name, args)) = Put(ByIndex(calls), n, new)
  BY <1>1, <1>2, <1>3 DEF AddFragment, Get, Call
<1>5. new \in Calls
  BY DEF Calls
<1> HIDE DEF new
<1>6. Put(ByIndex(calls), n, new) = ByIndex(Append(calls, new))
  <2>1. Len(Append(calls, new)) = n + 1 /\ (0 .. n - 1) \cup {n} = 0 .. (n + 1) - 1
    BY <1>1, <1>5
  <2>2. \A i \in 0 .. n - 1 : Append(calls, new)[i + 1] = calls[i + 1]
    BY <1>1, <1>5
  <2>3. Append(calls, new)[n + 1] = new
    BY <1>1, <1>5
  <2> QED
    BY <1>1, <2>1, <2>2, <2>3 DEF Put, ByIndex
<1> QED
  BY <1>4, <1>6 DEF new

\* A call whose arguments are replaced, field by field.
LEMMA CallExtended ==
  ASSUME NEW c \in Calls, NEW x
  PROVE  [c EXCEPT !.args = x] = [id |-> c.id, name |-> c.name, args |-> x]
BY DEF Calls

\* A call with more arguments is a call.
LEMMA CallTyped ==
  ASSUME NEW c \in Calls, NEW f \in Seq(Int)
  PROVE  [c EXCEPT !.args = c.args \o f] \in Calls
<1>1. c.args \o f \in Seq(Int)
  BY DEF Calls
<1> QED
  BY <1>1 DEF Calls

\* A fragment with the index of a call and neither id nor name is more of its
\* arguments.
LEMMA AddArgs ==
  ASSUME NEW calls \in Seq(Calls), NEW k \in 1 .. Len(calls), NEW args \in Seq(Int),
         NEW id \in {Missing, Absent}, NEW name \in {Missing, Absent}
  PROVE  AddFragment(ByIndex(calls), Call(k - 1, id, name, args))
           = ByIndex(Longer(calls, k, args))
<1> DEFINE n == Len(calls)
           new == [calls[k] EXCEPT !.args = calls[k].args \o args]
<1>1. /\ n \in Nat /\ k \in Nat /\ k - 1 \in DOMAIN ByIndex(calls)
      /\ DOMAIN ByIndex(calls) = 0 .. n - 1
      /\ ByIndex(calls)[k - 1] = calls[k] /\ calls[k] \in Calls
  BY DEF ByIndex
<1>2. /\ First(id, calls[k].id) = calls[k].id
      /\ First(name, calls[k].name) = calls[k].name
  BY DEF First
<1>3. new = [id |-> calls[k].id, name |-> calls[k].name, args |-> calls[k].args \o args]
  BY <1>1, CallExtended
<1>4. AddFragment(ByIndex(calls), Call(k - 1, id, name, args)) = Put(ByIndex(calls), k - 1, new)
  BY <1>1, <1>2, <1>3 DEF AddFragment, Get, Call
<1> HIDE DEF new
<1>5. Put(ByIndex(calls), k - 1, new) = ByIndex([calls EXCEPT ![k] = new])
  <2>1. (0 .. n - 1) \cup {k - 1} = 0 .. n - 1
    BY <1>1
  <2>2. PICK after : after = [calls EXCEPT ![k] = new]
    OBVIOUS
  <2>3. Len(after) = n /\ \A i \in 0 .. n - 1 : after[i + 1] = IF i = k - 1 THEN new ELSE calls[i + 1]
    BY <1>1, <2>2
  <2> QED
    BY <1>1, <2>1, <2>2, <2>3 DEF Put, ByIndex
<1>6. Longer(calls, k, args) = [calls EXCEPT ![k] = new]
  BY DEF Longer, new
<1> QED
  BY <1>4, <1>5, <1>6
\* How many indices are below the k-th.
LEMMA BelowIs ==
  ASSUME NEW n \in Nat, NEW x \in 0 .. n - 1
  PROVE  Cardinality({y \in 0 .. n - 1 : y < x}) = x /\ Cardinality(0 .. n - 1) = n
<1>1. {y \in 0 .. n - 1 : y < x} = 0 .. x - 1
  OBVIOUS
<1>2. Cardinality(0 .. x - 1) = x /\ Cardinality(0 .. n - 1) = n
  BY FS_Interval
<1> QED
  BY <1>1, <1>2

\* Calls stored under 0, 1, ... come out in the order in which they were made.
LEMMA InOrderIs ==
  ASSUME NEW calls \in Seq(Calls)
  PROVE  InOrder(ByIndex(calls)) = calls
<1>1. PICK n : n = Len(calls)
  OBVIOUS
<1>2. PICK tools : tools = ByIndex(calls)
  OBVIOUS
<1>3. n \in Nat /\ DOMAIN tools = 0 .. n - 1 /\ \A x \in 0 .. n - 1 : tools[x] = calls[x + 1]
  BY <1>1, <1>2 DEF ByIndex
<1>4. Cardinality(DOMAIN tools) = n
  <2>1. Cardinality(0 .. n - 1) = n
    BY <1>3, FS_Interval
  <2> QED
    BY <1>3, <2>1
<1>5. \A x \in DOMAIN tools : Cardinality({y \in DOMAIN tools : y < x}) = x
  BY <1>3, BelowIs
<1> DEFINE ranked(i) == CHOOSE x \in DOMAIN tools :
                          Cardinality({y \in DOMAIN tools : y < x}) = i - 1
<1>6. \A i \in 1 .. n : ranked(i) = i - 1
  <2> SUFFICES ASSUME NEW i \in 1 .. n
               PROVE  ranked(i) = i - 1
    OBVIOUS
  <2>1. i - 1 \in DOMAIN tools
    BY <1>3
  <2>2. Cardinality({y \in DOMAIN tools : y < i - 1}) = i - 1
    BY <1>5, <2>1
  <2>3. /\ ranked(i) \in DOMAIN tools
        /\ Cardinality({y \in DOMAIN tools : y < ranked(i)}) = i - 1
    BY <2>1, <2>2
  <2> QED
    BY <1>5, <2>3
<1>7. InOrder(tools) = [i \in 1 .. n |-> tools[ranked(i)]]
  BY <1>4 DEF InOrder
<1> HIDE DEF ranked
<1>8. \A i \in 1 .. n : tools[ranked(i)] = calls[i]
  BY <1>3, <1>6
<1>9. [i \in 1 .. n |-> tools[ranked(i)]] = [i \in 1 .. n |-> calls[i]]
  BY <1>8
<1>10. [i \in 1 .. n |-> calls[i]] = calls
  BY <1>1
<1> QED
  BY <1>2, <1>7, <1>9, <1>10
-----------------------------------------------------------------------------
(* What a Claude client has seen of a message *)

\* The message m is seen, with its calls in one piece each unless the provider resumed
\* one; only a call that was told may be open, the last one when none was resumed.
Tells(sight, m) ==
  /\ sight.saw.text = m.text /\ sight.saw.reasoning = m.reasoning
  /\ \A i \in Int : sight.channel = ToolChannel(i) => i \in 0 .. Len(m.calls) - 1
  /\ m.resumed = "no" =>
       /\ sight.saw.calls = m.calls
       /\ \A i \in Int : sight.channel = ToolChannel(i) => i = Len(m.calls) - 1

Sight(s) == [saw |-> SawAll(s.seen.blocks), channel |-> s.enc.channel]

\* The channels are different ones.
LEMMA ChannelsDiffer ==
  /\ TextChannel # ThinkingChannel
  /\ \A i : ToolChannel(i) # TextChannel /\ ToolChannel(i) # ThinkingChannel
            /\ ToolChannel(i) # NoChannel
  /\ \A i, j : ToolChannel(i) = ToolChannel(j) => i = j
BY DEF TextChannel, ThinkingChannel, ToolChannel, NoChannel

TextDelta(f)  == [channel |-> TextChannel, id |-> Missing, name |-> Missing, data |-> f]
ThinkDelta(f) == [channel |-> ThinkingChannel, id |-> Missing, name |-> Missing, data |-> f]
CallDelta(call) ==
  [channel |-> ToolChannel(call.index), id |-> call.id, name |-> call.name, data |-> call.args]

\* The deltas of a chunk with one thing in it.
LEMMA DeltasOf ==
  ASSUME NEW c
  PROVE  /\ c.text = <<>> /\ c.reasoning = <<>> /\ c.calls = <<>> => Deltas(c) = <<>>
         /\ c.text # <<>> /\ c.reasoning = <<>> /\ c.calls = <<>> =>
              Deltas(c) = <<TextDelta(c.text)>>
         /\ c.text = <<>> /\ c.reasoning # <<>> /\ c.calls = <<>> =>
              Deltas(c) = <<ThinkDelta(c.reasoning)>>
         /\ c.text = <<>> /\ c.reasoning = <<>> /\ c.calls \in Seq(Fragments) =>
              /\ Len(Deltas(c)) = Len(c.calls)
              /\ \A i \in 1 .. Len(c.calls) : Deltas(c)[i] = CallDelta(c.calls[i])
<1> DEFINE Asked == [i \in DOMAIN c.calls |->
                       [channel |-> ToolChannel(c.calls[i].index), id |-> c.calls[i].id,
                        name |-> c.calls[i].name, data |-> c.calls[i].args]]
<1>1. Deltas(c) = (IF c.reasoning = <<>> THEN <<>> ELSE <<ThinkDelta(c.reasoning)>>)
                  \o (IF c.text = <<>> THEN <<>> ELSE <<TextDelta(c.text)>>) \o Asked
  BY DEF Deltas, ThinkDelta, TextDelta
<1>2. c.calls = <<>> => Asked = <<>>
  OBVIOUS
<1>3. ASSUME c.calls \in Seq(Fragments)
      PROVE  /\ \E S : Asked \in Seq(S)
             /\ Len(Asked) = Len(c.calls)
             /\ \A i \in 1 .. Len(c.calls) : Asked[i] = CallDelta(c.calls[i])
  <2>1. DOMAIN c.calls = 1 .. Len(c.calls) /\ Len(c.calls) \in Nat
    BY <1>3
  <2>2. Asked = [i \in 1 .. Len(c.calls) |-> CallDelta(c.calls[i])]
    BY <2>1 DEF CallDelta
  <2>3. PICK n \in Nat : n = Len(c.calls)
    BY <2>1
  <2>4. PICK S : S = {CallDelta(c.calls[i]) : i \in 1 .. n}
    OBVIOUS
  <2>5. \A i \in 1 .. n : CallDelta(c.calls[i]) \in S
    BY <2>4
  <2> HIDE DEF Asked
  <2>6. Asked \in Seq(S)
    BY <2>2, <2>3, <2>5
  <2>7. DOMAIN Asked = 1 .. n /\ \A i \in 1 .. n : Asked[i] = CallDelta(c.calls[i])
    BY <2>2, <2>3, Zenon
  <2>8. Len(Asked) = n
    BY <2>6, <2>7
  <2> QED
    BY <2>3, <2>6, <2>7, <2>8
<1> HIDE DEF Asked
<1>4. c.text = <<>> /\ c.reasoning = <<>> => Deltas(c) = <<>> \o <<>> \o Asked
  BY <1>1
<1>5. c.text = <<>> /\ c.reasoning = <<>> /\ c.calls = <<>> => Deltas(c) = <<>>
  BY <1>2, <1>4
<1>6. c.text # <<>> /\ c.reasoning = <<>> /\ c.calls = <<>> => Deltas(c) = <<TextDelta(c.text)>>
  <2>1. PICK d : d = TextDelta(c.text)
    OBVIOUS
  <2>2. <<>> \o <<d>> \o <<>> = <<d>>
    OBVIOUS
  <2> QED
    BY <1>1, <1>2, <2>1, <2>2
<1>7. c.text = <<>> /\ c.reasoning # <<>> /\ c.calls = <<>> =>
        Deltas(c) = <<ThinkDelta(c.reasoning)>>
  <2>1. PICK d : d = ThinkDelta(c.reasoning)
    OBVIOUS
  <2>2. <<d>> \o <<>> \o <<>> = <<d>>
    OBVIOUS
  <2> QED
    BY <1>1, <1>2, <2>1, <2>2
<1>8. ASSUME c.text = <<>>, c.reasoning = <<>>, c.calls \in Seq(Fragments)
      PROVE  /\ Len(Deltas(c)) = Len(c.calls)
             /\ \A i \in 1 .. Len(c.calls) : Deltas(c)[i] = CallDelta(c.calls[i])
  <2>1. <<>> \o <<>> \o Asked = Asked
    BY <1>3, <1>8
  <2> QED
    BY <1>3, <1>4, <1>8, <2>1
<1> QED
  BY <1>5, <1>6, <1>7, <1>8

\* A sequence of one element.
LEMMA OneElement ==
  ASSUME NEW x
  PROVE  Len(<<x>>) = 1 /\ Len(<<x>>) # 0 /\ <<x>>[1] = x
OBVIOUS

\* Text, or none, is seen.
LEMMA TellsText ==
  ASSUME NEW m \in Messages, NEW saw \in Sights, NEW channel,
         Tells([saw |-> saw, channel |-> channel], m), NEW f \in Seq(Int), NEW deltas,
         deltas = IF f = <<>> THEN <<>> ELSE <<TextDelta(f)>>,
         NEW n, n.text = m.text \o f, n.reasoning = m.reasoning, n.calls = m.calls,
         n.resumed = m.resumed
  PROVE  Tells(Hears(saw, channel, deltas), n)
<1>1. CASE f = <<>>
  <2>1. Hears(saw, channel, deltas) = [saw |-> saw, channel |-> channel]
    BY <1>1 DEF Hears
  <2>2. n.text = m.text
    BY <1>1, NothingHeard DEF Messages
  <2> QED
    BY <2>1, <2>2 DEF Tells
<1>2. CASE f # <<>>
  <2>1. PICK d : d = TextDelta(f)
    OBVIOUS
  <2>2. d.channel = TextChannel /\ d.data = f
    BY <2>1 DEF TextDelta
  <2>3. deltas = <<d>>
    BY <1>2, <2>1
  <2>4. Hears(saw, channel, deltas) = [saw |-> Heard(saw, channel, d), channel |-> TextChannel]
    <3>1. Len(deltas) = 1 /\ Len(deltas) # 0 /\ deltas[1] = d
      BY <2>3, OneElement, Zenon
    <3> QED
      BY <2>2, <3>1 DEF Hears
  <2>5. Heard(saw, channel, d) = [text |-> saw.text \o f, reasoning |-> saw.reasoning,
                                  calls |-> saw.calls]
    BY <2>2, ChannelsDiffer DEF Heard
  <2>6. PICK h : h = Heard(saw, channel, d)
    OBVIOUS
  <2>7. h.text = n.text /\ h.reasoning = n.reasoning /\ h.calls = saw.calls
    <3>1. saw.text = m.text /\ saw.reasoning = m.reasoning
      BY DEF Tells
    <3> QED
      BY <2>5, <2>6, <3>1
  <2>8. \A i \in Int : TextChannel # ToolChannel(i)
    BY ChannelsDiffer
  <2>9. n.resumed = "no" => h.calls = n.calls
    BY <2>7 DEF Tells
  <2>10. PICK x : x = [saw |-> h, channel |-> TextChannel]
    OBVIOUS
  <2>11. x.saw = h /\ x.channel = TextChannel
    BY <2>10
  <2>12. Tells(x, n)
    BY <2>7, <2>8, <2>9, <2>11 DEF Tells
  <2> QED
    BY <2>4, <2>6, <2>10, <2>12
<1> QED
  BY <1>1, <1>2

\* Reasoning is seen.
LEMMA TellsReasoning ==
  ASSUME NEW m \in Messages, NEW saw \in Sights, NEW channel,
         Tells([saw |-> saw, channel |-> channel], m), NEW f \in Seq(Int), NEW deltas,
         deltas = IF f = <<>> THEN <<>> ELSE <<ThinkDelta(f)>>,
         NEW n, n.text = m.text, n.reasoning = m.reasoning \o f, n.calls = m.calls,
         n.resumed = m.resumed
  PROVE  Tells(Hears(saw, channel, deltas), n)
<1>1. CASE f = <<>>
  <2>1. Hears(saw, channel, deltas) = [saw |-> saw, channel |-> channel]
    BY <1>1 DEF Hears
  <2>2. n.reasoning = m.reasoning
    BY <1>1, NothingHeard DEF Messages
  <2> QED
    BY <2>1, <2>2 DEF Tells
<1>2. CASE f # <<>>
  <2>1. PICK d : d = ThinkDelta(f)
    OBVIOUS
  <2>2. d.channel = ThinkingChannel /\ d.data = f
    BY <2>1 DEF ThinkDelta
  <2>3. deltas = <<d>>
    BY <1>2, <2>1
  <2>4. Hears(saw, channel, deltas) = [saw |-> Heard(saw, channel, d), channel |-> ThinkingChannel]
    <3>1. Len(deltas) = 1 /\ Len(deltas) # 0 /\ deltas[1] = d
      BY <2>3, OneElement, Zenon
    <3> QED
      BY <2>2, <3>1 DEF Hears
  <2>5. Heard(saw, channel, d) = [text |-> saw.text, reasoning |-> saw.reasoning \o f,
                                  calls |-> saw.calls]
    BY <2>2, ChannelsDiffer DEF Heard
  <2>6. PICK h : h = Heard(saw, channel, d)
    OBVIOUS
  <2>7. h.text = n.text /\ h.reasoning = n.reasoning /\ h.calls = saw.calls
    <3>1. saw.text = m.text /\ saw.reasoning = m.reasoning
      BY DEF Tells
    <3> QED
      BY <2>5, <2>6, <3>1
  <2> QED
    BY <2>4, <2>6, <2>7, ChannelsDiffer, SMTT(30) DEF Tells
<1> QED
  BY <1>1, <1>2

\* A call with the next index is seen as a call of its own, whatever was open.
LEMMA TellsNewCall ==
  ASSUME NEW m \in Messages, NEW saw, NEW channel,
         Tells([saw |-> saw, channel |-> channel], m), NEW c \in Calls, NEW d,
         d = CallDelta(Call(Len(m.calls), c.id, c.name, c.args)),
         NEW n, n.text = m.text, n.reasoning = m.reasoning, n.calls = Append(m.calls, c),
         n.resumed = m.resumed
  PROVE  Tells([saw |-> Heard(saw, channel, d), channel |-> d.channel], n)
<1>1. PICK k \in Nat : k = Len(m.calls) /\ m.calls \in Seq(Calls)
  BY DEF Messages
<1>2. d.channel = ToolChannel(k) /\ d.id = c.id /\ d.name = c.name /\ d.data = c.args
  BY <1>1 DEF CallDelta, Call
<1>3. channel # ToolChannel(k)
  <2>1. k \in Int /\ k \notin 0 .. k - 1
    BY <1>1
  <2> QED
    BY <1>1, <2>1 DEF Tells
<1>4. blockId(c.id) = c.id /\ blockName(c.name) = c.name
  BY DEF blockId, blockName, Calls, Absent
<1>5. c = [id |-> c.id, name |-> c.name, args |-> c.args]
  BY DEF Calls
<1>6. Heard(saw, channel, d) = [text |-> saw.text, reasoning |-> saw.reasoning,
                                calls |-> Append(saw.calls, c)]
  BY <1>2, <1>3, <1>4, <1>5, ChannelsDiffer DEF Heard
<1>7. Len(n.calls) = k + 1
  BY <1>1
<1>8. \A i \in Int : d.channel = ToolChannel(i) => i = Len(n.calls) - 1
  <2>1. \A i \in Int : d.channel = ToolChannel(i) => i = k
    BY <1>2, ChannelsDiffer, Zenon
  <2> QED
    BY <1>1, <1>7, <2>1
<1>9. \A i \in Int : d.channel = ToolChannel(i) => i \in 0 .. Len(n.calls) - 1
  BY <1>1, <1>7, <1>8
<1> QED
  BY <1>6, <1>8, <1>9 DEF Tells

\* Arguments of the call that is open are seen as more of them; those of another call
\* change neither text nor reasoning.
LEMMA TellsArgs ==
  ASSUME NEW m \in Messages, NEW saw, NEW channel,
         Tells([saw |-> saw, channel |-> channel], m), NEW k \in 1 .. Len(m.calls),
         NEW args \in Seq(Int), NEW id, NEW name, NEW d,
         d = CallDelta(Call(k - 1, id, name, args)),
         m.resumed = "no" => channel = ToolChannel(k - 1),
         NEW n, n.text = m.text, n.reasoning = m.reasoning,
         n.calls = Longer(m.calls, k, args), n.resumed = m.resumed
  PROVE  Tells([saw |-> Heard(saw, channel, d), channel |-> d.channel], n)
<1>1. m.calls \in Seq(Calls) /\ k \in Int /\ k - 1 \in Int
  BY DEF Messages
<1>2. d.channel = ToolChannel(k - 1) /\ d.data = args
  BY DEF CallDelta, Call
<1>3. Len(n.calls) = Len(m.calls)
  BY <1>1 DEF Longer
<1>4. \A i \in Int : d.channel = ToolChannel(i) => i = k - 1
  BY <1>2, ChannelsDiffer
<1>5. k - 1 \in 0 .. Len(n.calls) - 1
  BY <1>1, <1>3
<1>6. Heard(saw, channel, d).text = saw.text /\ Heard(saw, channel, d).reasoning = saw.reasoning
  BY <1>2, ChannelsDiffer DEF Heard
<1>7. ASSUME m.resumed = "no"
      PROVE  k = Len(m.calls) /\ Heard(saw, channel, d).calls = n.calls
  <2>1. k = Len(m.calls)
    BY <1>1, <1>7 DEF Tells
  <2>2. PICK c \in Calls : c = m.calls[k]
    BY <1>1
  <2>3. [c EXCEPT !.args = c.args \o args] = WithArgs(c, args)
    BY CallExtended DEF WithArgs
  <2>4. n.calls = [m.calls EXCEPT ![k] = WithArgs(c, args)]
    BY <2>2, <2>3 DEF Longer
  <2>5. Heard(saw, channel, d).calls = MoreAsked(saw.calls, args)
    BY <1>2, <1>7, ChannelsDiffer DEF Heard
  <2>6. saw.calls = m.calls
    BY <1>7 DEF Tells
  <2> QED
    BY <2>1, <2>2, <2>4, <2>5, <2>6 DEF MoreAsked
<1>8. n.resumed = "no" => \A i \in Int : d.channel = ToolChannel(i) => i = Len(n.calls) - 1
  BY <1>3, <1>4, <1>7
<1> QED
  BY <1>4, <1>5, <1>6, <1>7, <1>8 DEF Tells
-----------------------------------------------------------------------------
(* What a Gemini client has seen of a message *)

Functions == [name : Nat \ {0}, args : Seq(Int)]

\* What is flushed of a message's calls: one function call for each.
LEMMA FlushTyped ==
  ASSUME NEW calls \in Seq(Calls)
  PROVE  /\ FunctionCalls(ByIndex(calls)) \in Seq(Functions)
         /\ FunctionCalls(ByIndex(calls)) =
              [i \in DOMAIN calls |-> [name |-> calls[i].name, args |-> safeParse(calls[i].args)]]
<1>1. InOrder(ByIndex(calls)) = calls
  BY InOrderIs
<1>2. FunctionCalls(ByIndex(calls)) =
        [i \in DOMAIN calls |-> [name |-> calls[i].name, args |-> safeParse(calls[i].args)]]
  BY <1>1 DEF FunctionCalls
<1>3. ASSUME NEW i \in DOMAIN calls
      PROVE  [name |-> calls[i].name, args |-> safeParse(calls[i].args)] \in Functions
  <2>1. PICK c \in Calls : c = calls[i]
    OBVIOUS
  <2>2. safeParse(c.args) \in Seq(Int)
    BY DEF safeParse, Calls
  <2> QED
    BY <2>1, <2>2 DEF Functions, Calls
<1>4. PICK n \in Nat : n = Len(calls) /\ DOMAIN calls = 1 .. n
  OBVIOUS
<1> DEFINE F(i) == [name |-> calls[i].name, args |-> safeParse(calls[i].args)]
<1>5. \A i \in 1 .. n : F(i) \in Functions
  BY <1>3, <1>4
<1>6. FunctionCalls(ByIndex(calls)) = [i \in 1 .. n |-> F(i)]
  BY <1>2, <1>4
<1> HIDE DEF F
<1>7. FunctionCalls(ByIndex(calls)) \in Seq(Functions)
  BY <1>4, <1>5, <1>6
<1> QED
  BY <1>2, <1>7

Hearing == INSTANCE FoldLaws WITH op <- ReadGemini

GeminiReads(v, events) == FoldLeft(ReadGemini, v, events)

\* The reader's loop is the fold the laws are about.
LEMMA HearingFold ==
  \A v, events : Hearing!FoldLeft(ReadGemini, v, events) = GeminiReads(v, events)
BY DEF GeminiReads, Hearing!FoldLeft, FoldLeft, Hearing!MapThenFoldSet, MapThenFoldSet,
       Hearing!Max, Max

\* Reading no candidate, or one.
LEMMA ReadCandidate ==
  ASSUME NEW v, NEW e
  PROVE  GeminiReads(v, <<>>) = v /\ GeminiReads(v, <<e>>) = ReadGemini(v, e)
BY Hearing!FoldEmpty, Hearing!FoldOne, HearingFold

\* Reading two batches of candidates is reading one after the other.
LEMMA ReadBatches ==
  ASSUME NEW v, NEW E, NEW e \in Seq(E), NEW f \in Seq(E)
  PROVE  GeminiReads(v, e \o f) = GeminiReads(GeminiReads(v, e), f)
BY Hearing!FoldConcat, HearingFold

\* And three.
LEMMA ReadThree ==
  ASSUME NEW v, NEW E, NEW e \in Seq(E), NEW f \in Seq(E), NEW g \in Seq(E)
  PROVE  GeminiReads(v, e \o f \o g) = GeminiReads(GeminiReads(GeminiReads(v, e), f), g)
<1>1. e \o f \in Seq(E)
  OBVIOUS
<1>2. \A h \in Seq(E) : GeminiReads(v, h \o g) = GeminiReads(GeminiReads(v, h), g)
  BY ReadBatches
<1>3. GeminiReads(v, e \o f) = GeminiReads(GeminiReads(v, e), f)
  BY ReadBatches
<1> QED
  BY <1>1, <1>2, <1>3

GeminiView(v) ==
  v.text \in Seq(Int) /\ v.reasoning \in Seq(Int) /\ v.calls \in Seq(Functions)

\* r is v after c, when the calls are then tools.
GeminiAfter(v, c, tools, r) ==
  /\ r.text = v.text \o c.text /\ r.reasoning = v.reasoning \o c.reasoning
  /\ r.calls = IF c.finish = NoFinish THEN v.calls ELSE v.calls \o FunctionCalls(tools)

\* What is read of the candidates of one chunk.
LEMMA GeminiHears ==
  ASSUME NEW s, NEW v, GeminiView(v), NEW c \in Chunks, c.choices # "none"
  PROVE  LET tools == FoldLeft(AddFragment, s.toolsByIndex, c.calls)
             w     == GeminiEncode(s, c)
         IN  /\ w.state.toolsByIndex = tools
             /\ GeminiAfter(v, c, tools, GeminiReads(v, w.events))
<1>0. PICK tools : tools = FoldLeft(AddFragment, s.toolsByIndex, c.calls)
  OBVIOUS
<1>1. PICK w : w = GeminiEncode(s, c)
  OBVIOUS
<1>2. PICK used : used = IF c.usage # NoUsage THEN c.usage ELSE s.usage
  OBVIOUS
<1>3. PICK x : x = candidate(<<>>, c.reasoning, <<>>, NoFinish, NoUsage)
  OBVIOUS
<1>4. PICK y : y = candidate(c.text, <<>>, <<>>, NoFinish, NoUsage)
  OBVIOUS
<1>5. PICK z : z = candidate(<<>>, <<>>, FunctionCalls(tools),
                             openAIFinishToGemini(c.finish), used)
  OBVIOUS
<1>6. PICK e : e = IF c.reasoning = <<>> THEN <<>> ELSE <<x>>
  OBVIOUS
<1>7. PICK f : f = IF c.text = <<>> THEN <<>> ELSE <<y>>
  OBVIOUS
<1>8. PICK g : g = IF c.finish = NoFinish THEN <<>> ELSE <<z>>
  OBVIOUS
<1>9. w = Written([toolsByIndex |-> tools, usage |-> used], e \o f \o g)
  BY <1>0, <1>1, <1>2, <1>3, <1>4, <1>5, <1>6, <1>7, <1>8 DEF GeminiEncode, Flush
<1>10. w.state.toolsByIndex = tools /\ w.events = e \o f \o g
  BY <1>9 DEF Written
<1>11. e \in Seq({x, y, z}) /\ f \in Seq({x, y, z}) /\ g \in Seq({x, y, z})
  <2>1. <<>> \in Seq({x, y, z})
    OBVIOUS
  <2>2. <<x>> \in Seq({x, y, z}) /\ <<y>> \in Seq({x, y, z}) /\ <<z>> \in Seq({x, y, z})
    OBVIOUS
  <2> QED
    BY <1>6, <1>7, <1>8, <2>1, <2>2, Zenon
<1>12. PICK a : a = GeminiReads(v, e)
  OBVIOUS
<1>13. PICK b : b = GeminiReads(a, f)
  OBVIOUS
<1>14. PICK r : r = GeminiReads(b, g)
  OBVIOUS
<1>15. GeminiReads(v, w.events) = r
  BY <1>14, <1>10, <1>11, <1>12, <1>13, ReadThree
<1>16. /\ c.text \in Seq(Int) /\ c.reasoning \in Seq(Int) /\ v.text \in Seq(Int)
       /\ v.reasoning \in Seq(Int) /\ v.calls \in Seq(Functions)
  BY DEF Chunks, GeminiView
<1>17. a.text = v.text /\ a.reasoning = v.reasoning \o c.reasoning /\ a.calls = v.calls
  <2>1. CASE c.reasoning = <<>>
    <3>1. a = v
      BY <1>6, <1>12, <2>1, ReadCandidate
    <3> QED
      BY <2>1, <3>1
  <2>2. CASE c.reasoning # <<>>
    <3>1. a = ReadGemini(v, x)
      BY <1>6, <1>12, <2>2, ReadCandidate
    <3>2. x.text = <<>> /\ x.reasoning = c.reasoning /\ x.calls = <<>>
      BY <1>3 DEF candidate
    <3>3. v.text \o <<>> = v.text /\ v.calls \o <<>> = v.calls
      BY DEF GeminiView
    <3> QED
      BY <3>1, <3>2, <3>3 DEF ReadGemini
  <2> QED
    BY <2>1, <2>2
<1>18. b.text = v.text \o c.text /\ b.reasoning = v.reasoning \o c.reasoning /\ b.calls = v.calls
  <2>1. CASE c.text = <<>>
    <3>1. b = a
      BY <1>7, <1>13, <2>1, ReadCandidate
    <3>2. v.text \o <<>> = v.text
      BY DEF GeminiView
    <3> QED
      BY <1>17, <2>1, <3>1, <3>2
  <2>2. CASE c.text # <<>>
    <3>1. b = ReadGemini(a, y)
      BY <1>7, <1>13, <2>2, ReadCandidate
    <3>2. y.text = c.text /\ y.reasoning = <<>> /\ y.calls = <<>>
      BY <1>4 DEF candidate
    <3>3. (v.reasoning \o c.reasoning) \o <<>> = v.reasoning \o c.reasoning
          /\ v.calls \o <<>> = v.calls
      BY <1>16
    <3> QED
      BY <1>17, <3>1, <3>2, <3>3 DEF ReadGemini
  <2> QED
    BY <2>1, <2>2
<1>19. /\ r.text = v.text \o c.text /\ r.reasoning = v.reasoning \o c.reasoning
       /\ r.calls = IF c.finish = NoFinish THEN v.calls
                    ELSE v.calls \o FunctionCalls(tools)
  <2>1. CASE c.finish = NoFinish
    <3>1. r = b
      BY <1>8, <1>14, <2>1, ReadCandidate
    <3> QED
      BY <1>18, <2>1, <3>1
  <2>2. CASE c.finish # NoFinish
    <3>1. r = ReadGemini(b, z)
      BY <1>8, <1>14, <2>2, ReadCandidate
    <3>2. z.text = <<>> /\ z.reasoning = <<>> /\ z.calls = FunctionCalls(tools)
      BY <1>5 DEF candidate
    <3>3. (v.reasoning \o c.reasoning) \o <<>> = v.reasoning \o c.reasoning
          /\ (v.text \o c.text) \o <<>> = v.text \o c.text
      BY <1>16
    <3>4. /\ r.text = b.text \o z.text /\ r.reasoning = b.reasoning \o z.reasoning
          /\ r.calls = b.calls \o z.calls
      BY <3>1 DEF ReadGemini
    <3> QED
      BY <1>18, <2>2, <3>2, <3>3, <3>4
  <2> QED
    BY <2>1, <2>2
<1> QED
  BY <1>0, <1>1, <1>10, <1>15, <1>19 DEF GeminiAfter
-----------------------------------------------------------------------------
(* One chunk on its way *)

\* A Gemini client has the text and the reasoning, its encoder the calls; the client
\* gets them with the finish reason.
Gathered(s, m) ==
  /\ s.seen.text = m.text /\ s.seen.reasoning = m.reasoning
  /\ s.enc.toolsByIndex = ByIndex(m.calls)
  /\ s.seen.calls = IF m.finish = NoFinish THEN <<>> ELSE FunctionCalls(ByIndex(m.calls))

\* Chunks that say m have passed: the OpenAI client has m, the encoder has
\* taken note of its end, the Claude client is in step with the encoder and has
\* seen m, and a Gemini client has gathered it.
Carried(s, m) ==
  /\ m \in Messages
  /\ s = [dec |-> s.dec, pivot |-> s.pivot, enc |-> s.enc, seen |-> s.seen]
  /\ s.pivot = [text |-> m.text, reasoning |-> m.reasoning, toolsByIndex |-> ByIndex(m.calls),
                finish |-> s.pivot.finish, usage |-> s.pivot.usage]
  /\ client = "claude" =>
       /\ Sync(s.enc, s.seen) /\ s.enc.finish = m.finish /\ s.enc.usage = m.usage
       /\ Tells(Sight(s), m)
  /\ client # "claude" => Gathered(s, m)

\* m, and what c adds to it; calls are those of both.
Extended(m, c, calls) ==
  [text      |-> m.text \o c.text,
   reasoning |-> m.reasoning \o c.reasoning,
   calls     |-> calls,
   finish    |-> Noted(m.finish, c.finish, NoFinish),
   usage     |-> Noted(m.usage, c.usage, NoUsage),
   resumed   |-> m.resumed]

\* What a chunk makes of a message is a message.
LEMMA ExtendedTyped ==
  ASSUME NEW m \in Messages, NEW c \in Chunks, NEW calls \in Seq(Calls)
  PROVE  Extended(m, c, calls) \in Messages
<1>1. m.text \o c.text \in Seq(Int) /\ m.reasoning \o c.reasoning \in Seq(Int)
  BY DEF Messages, Chunks
<1>2. Noted(m.finish, c.finish, NoFinish) \in Finishes
  BY DEF Noted, Messages, Chunks
<1>3. Noted(m.usage, c.usage, NoUsage) \in Usages
  BY DEF Noted, Messages, Chunks
<1> QED
  BY <1>1, <1>2, <1>3 DEF Extended, Messages

\* Pass, field by field.
LEMMA PassShape ==
  ASSUME NEW s, NEW c, s = [dec |-> s.dec, pivot |-> s.pivot, enc |-> s.enc, seen |-> s.seen]
  PROVE  Pass(s, c) = [dec   |-> s.dec,
                       pivot |-> AddChunk(s.pivot, c),
                       enc   |-> Encode(s.enc, c).state,
                       seen  |-> ReadAll(s.seen, Encode(s.enc, c).events)]
<1>1. PICK d, p, e, v : s = [dec |-> d, pivot |-> p, enc |-> e, seen |-> v]
  OBVIOUS
<1>2. PICK w : w = Encode(e, c)
  OBVIOUS
<1>3. PICK a : a = AddChunk(p, c)
  OBVIOUS
<1>4. PICK u : u = ReadAll(v, w.events)
  OBVIOUS
<1>5. Pass(s, c) = [s EXCEPT !.pivot = a, !.enc = w.state, !.seen = u]
  BY <1>1, <1>2, <1>3, <1>4 DEF Pass
<1>6. Pass(s, c) = [dec |-> d, pivot |-> a, enc |-> w.state, seen |-> u]
  BY <1>1, <1>5
<1>7. s.dec = d /\ s.pivot = p /\ s.enc = e /\ s.seen = v
  BY <1>1
<1> QED
  BY <1>2, <1>3, <1>4, <1>6, <1>7

\* AddChunk, field by field, for a chunk that has choices.
LEMMA AddChunkShape ==
  ASSUME NEW p, NEW c, c.choices # "none",
         p = [text |-> p.text, reasoning |-> p.reasoning, toolsByIndex |-> p.toolsByIndex,
              finish |-> p.finish, usage |-> p.usage]
  PROVE  AddChunk(p, c) = [text         |-> p.text \o c.text,
                           reasoning    |-> p.reasoning \o c.reasoning,
                           toolsByIndex |-> FoldLeft(AddFragment, p.toolsByIndex, c.calls),
                           finish       |-> Noted(p.finish, c.finish, NoFinish),
                           usage        |-> Noted(p.usage, c.usage, NoUsage)]
<1>1. PICK t, r, x, f, u :
        p = [text |-> t, reasoning |-> r, toolsByIndex |-> x, finish |-> f, usage |-> u]
  OBVIOUS
<1> QED
  BY <1>1 DEF AddChunk, Noted

\* What a Gemini client and its encoder have after one chunk.
LEMMA PassGathers ==
  ASSUME NEW s, NEW m \in Messages, Gathered(s, m), NEW c \in Chunks, c.choices # "none",
         NEW calls \in Seq(Calls),
         FoldLeft(AddFragment, ByIndex(m.calls), c.calls) = ByIndex(calls),
         m.finish = NoFinish \/ (c.finish = NoFinish /\ calls = m.calls),
         NEW t, t.enc = GeminiEncode(s.enc, c).state,
         t.seen = GeminiReads(s.seen, GeminiEncode(s.enc, c).events)
  PROVE  Gathered(t, Extended(m, c, calls))
<1>1. PICK v : v = s.seen
  OBVIOUS
<1>2. /\ v.text = m.text /\ v.reasoning = m.reasoning
      /\ s.enc.toolsByIndex = ByIndex(m.calls)
      /\ v.calls = IF m.finish = NoFinish THEN <<>> ELSE FunctionCalls(ByIndex(m.calls))
  BY <1>1 DEF Gathered
<1>3. /\ v.text \in Seq(Int) /\ v.reasoning \in Seq(Int) /\ m.calls \in Seq(Calls)
      /\ FunctionCalls(ByIndex(m.calls)) \in Seq(Functions)
      /\ FunctionCalls(ByIndex(calls)) \in Seq(Functions)
  BY <1>2, FlushTyped DEF Messages
<1>4. v.calls \in Seq(Functions)
  <2>1. <<>> \in Seq(Functions)
    OBVIOUS
  <2> QED
    BY <1>2, <1>3, <2>1
<1>5. /\ t.enc.toolsByIndex = ByIndex(calls)
      /\ t.seen.text = v.text \o c.text /\ t.seen.reasoning = v.reasoning \o c.reasoning
      /\ t.seen.calls = IF c.finish = NoFinish THEN v.calls
                        ELSE v.calls \o FunctionCalls(ByIndex(calls))
  <2>1. PICK e : e = s.enc
    OBVIOUS
  <2>2. FoldLeft(AddFragment, e.toolsByIndex, c.calls) = ByIndex(calls)
    BY <1>2, <2>1
  <2>3. PICK w : w = GeminiEncode(e, c)
    OBVIOUS
  <2>4. PICK r : r = GeminiReads(v, w.events)
    OBVIOUS
  <2>5. t.enc = w.state /\ t.seen = r
    BY <1>1, <2>1, <2>3, <2>4
  <2>6. GeminiView(v)
    BY <1>3, <1>4 DEF GeminiView
  <2>7. w.state.toolsByIndex = ByIndex(calls) /\ GeminiAfter(v, c, ByIndex(calls), r)
    BY <2>2, <2>3, <2>4, <2>6, GeminiHears
  <2> QED
    BY <2>5, <2>7 DEF GeminiAfter
<1>6. t.seen.calls = IF Noted(m.finish, c.finish, NoFinish) = NoFinish THEN <<>>
                     ELSE FunctionCalls(ByIndex(calls))
  <2>1. CASE m.finish = NoFinish
    <3>1. v.calls = <<>>
      BY <1>2, <2>1
    <3>2. <<>> \o FunctionCalls(ByIndex(calls)) = FunctionCalls(ByIndex(calls))
      BY <1>3
    <3> QED
      BY <1>5, <2>1, <3>1, <3>2 DEF Noted
  <2>2. CASE m.finish # NoFinish
    BY <1>2, <1>5, <2>2 DEF Noted
  <2> QED
    BY <2>1, <2>2
<1> QED
  BY <1>2, <1>5, <1>6 DEF Gathered, Extended

\* A chunk on its way: the OpenAI client and the Gemini client have what it adds, and
\* the Claude client is in step and has it, when that is what its deltas say.
LEMMA PassCarries ==
  ASSUME NEW s, NEW m, Carried(s, m), NEW c \in Chunks, c.choices # "none",
         NEW calls \in Seq(Calls),
         FoldLeft(AddFragment, ByIndex(m.calls), c.calls) = ByIndex(calls),
         m.finish = NoFinish \/ (c.finish = NoFinish /\ calls = m.calls),
         client = "claude" =>
           /\ Len(Deltas(c)) \in 0 .. 2
           /\ Tells(Hears(SawAll(s.seen.blocks), s.enc.channel, Deltas(c)),
                    Extended(m, c, calls))
  PROVE  /\ Carried(Pass(s, c), Extended(m, c, calls)) /\ Pass(s, c).dec = s.dec
         /\ client = "claude" =>
              Sight(Pass(s, c)) = Hears(SawAll(s.seen.blocks), s.enc.channel, Deltas(c))
<1>1. PICK t : t = Pass(s, c)
  OBVIOUS
<1>2. PICK w : w = Encode(s.enc, c)
  OBVIOUS
<1>3. t = [dec |-> s.dec, pivot |-> AddChunk(s.pivot, c), enc |-> w.state,
           seen |-> ReadAll(s.seen, w.events)]
  BY <1>1, <1>2, PassShape DEF Carried
<1>4. PICK x : x = Extended(m, c, calls)
  OBVIOUS
<1>5. /\ x.text = m.text \o c.text /\ x.reasoning = m.reasoning \o c.reasoning
      /\ x.calls = calls /\ x.finish = Noted(m.finish, c.finish, NoFinish)
      /\ x.usage = Noted(m.usage, c.usage, NoUsage)
  BY <1>4 DEF Extended
<1>6. x \in Messages
  BY <1>4, ExtendedTyped DEF Carried
<1>7. t.pivot = [text |-> x.text, reasoning |-> x.reasoning, toolsByIndex |-> ByIndex(x.calls),
                 finish |-> t.pivot.finish, usage |-> t.pivot.usage]
  <2>1. PICK p : p = s.pivot
    OBVIOUS
  <2>2. /\ p = [text |-> p.text, reasoning |-> p.reasoning, toolsByIndex |-> p.toolsByIndex,
                finish |-> p.finish, usage |-> p.usage]
        /\ p.text = m.text /\ p.reasoning = m.reasoning /\ p.toolsByIndex = ByIndex(m.calls)
    BY <2>1 DEF Carried
  <2>3. PICK f, u : f = Noted(p.finish, c.finish, NoFinish) /\ u = Noted(p.usage, c.usage, NoUsage)
    OBVIOUS
  <2>4. AddChunk(p, c) = [text |-> p.text \o c.text, reasoning |-> p.reasoning \o c.reasoning,
                          toolsByIndex |-> FoldLeft(AddFragment, p.toolsByIndex, c.calls),
                          finish |-> f, usage |-> u]
    BY <2>2, <2>3, AddChunkShape
  <2>5. AddChunk(p, c) = [text |-> x.text, reasoning |-> x.reasoning,
                          toolsByIndex |-> ByIndex(x.calls), finish |-> f, usage |-> u]
    BY <1>5, <2>2, <2>4
  <2> QED
    BY <1>3, <2>1, <2>5
<1>8. ASSUME client = "claude"
      PROVE  /\ Sync(t.enc, t.seen) /\ t.enc.finish = x.finish /\ t.enc.usage = x.usage
             /\ Tells(Sight(t), x)
             /\ Sight(t) = Hears(SawAll(s.seen.blocks), s.enc.channel, Deltas(c))
  <2>1. Sync(s.enc, s.seen) /\ s.enc.finish = m.finish /\ s.enc.usage = m.usage
    BY <1>8 DEF Carried
  <2>2. w = ClaudeEncode(s.enc, c) /\ ReadAll(s.seen, w.events) = ClaudeReads(s.seen, w.events)
    BY <1>2, <1>8 DEF Encode, ReadAll, ClaudeReads
  <2>3. Keeps(s.seen, w)
        /\ w.state.finish = x.finish /\ w.state.usage = x.usage
        /\ Sees(s.seen, w) = Hears(SawAll(s.seen.blocks), s.enc.channel, Deltas(c))
    BY <1>5, <1>8, <2>1, <2>2, EncodeKeeps
  <2>4. t.enc = w.state /\ t.seen = ClaudeReads(s.seen, w.events)
    BY <1>3, <2>2
  <2>5. Sight(t) = Sees(s.seen, w)
    BY <2>4 DEF Sight, Sees
  <2> QED
    BY <1>4, <1>8, <2>3, <2>4, <2>5 DEF Keeps
<1>10. ASSUME client # "claude" PROVE Gathered(t, x)
  <2>1. w = GeminiEncode(s.enc, c) /\ ReadAll(s.seen, w.events) = GeminiReads(s.seen, w.events)
    BY <1>2, <1>10 DEF Encode, ReadAll, GeminiReads
  <2>2. /\ t.enc = GeminiEncode(s.enc, c).state
        /\ t.seen = GeminiReads(s.seen, GeminiEncode(s.enc, c).events)
    BY <1>3, <2>1
  <2>3. m \in Messages /\ Gathered(s, m)
    BY <1>10 DEF Carried
  <2> QED
    BY <1>4, <2>2, <2>3, PassGathers
<1>11. Carried(t, x)
  BY <1>3, <1>6, <1>7, <1>8, <1>10 DEF Carried
<1> QED
  BY <1>1, <1>3, <1>4, <1>8, <1>11

WithText(m, f)      == [m EXCEPT !.text = m.text \o f]
WithReasoning(m, f) == [m EXCEPT !.reasoning = m.reasoning \o f]
WithCalls(m, calls) == [m EXCEPT !.calls = calls]
WithEnd(m, r, used) ==
  [text |-> m.text, reasoning |-> m.reasoning, calls |-> m.calls,
   finish |-> r, usage |-> Noted(m.usage, used, NoUsage), resumed |-> m.resumed]

\* The empty chunk is a chunk.
LEMMA ChunkTyped == Chunk \in Chunks
<1>1. NoUsage \in Usages
  BY DEF NoUsage, Usages, Missing
<1>2. NoFinish \in Finishes
  BY DEF Finishes
<1>3. <<>> \in Seq(Int) /\ <<>> \in Seq(Fragments)
  OBVIOUS
<1> QED
  BY <1>1, <1>2, <1>3 DEF Chunk, Chunks

\* A message is its fields.
LEMMA MessageShape ==
  ASSUME NEW m \in Messages
  PROVE  m = [text |-> m.text, reasoning |-> m.reasoning, calls |-> m.calls,
              finish |-> m.finish, usage |-> m.usage, resumed |-> m.resumed]
BY DEF Messages

\* A message with another text or reasoning, field by field.
LEMMA MessageChanged ==
  ASSUME NEW m \in Messages, NEW x
  PROVE  /\ [m EXCEPT !.text = x] =
              [text |-> x, reasoning |-> m.reasoning, calls |-> m.calls,
               finish |-> m.finish, usage |-> m.usage, resumed |-> m.resumed]
         /\ [m EXCEPT !.reasoning = x] =
              [text |-> m.text, reasoning |-> x, calls |-> m.calls,
               finish |-> m.finish, usage |-> m.usage, resumed |-> m.resumed]
<1>1. PICK t, r, c, f, u, p : m = [text |-> t, reasoning |-> r, calls |-> c,
                                   finish |-> f, usage |-> u, resumed |-> p]
  BY MessageShape
<1>2. [m EXCEPT !.text = x] =
        [text |-> x, reasoning |-> r, calls |-> c, finish |-> f, usage |-> u, resumed |-> p]
  BY <1>1
<1>3. [m EXCEPT !.reasoning = x] =
        [text |-> t, reasoning |-> x, calls |-> c, finish |-> f, usage |-> u, resumed |-> p]
  BY <1>1
<1>4. m.text = t /\ m.reasoning = r /\ m.calls = c /\ m.finish = f /\ m.usage = u
      /\ m.resumed = p
  BY <1>1
<1> QED
  BY <1>2, <1>3, <1>4, Zenon

\* Adding nothing to a message.
LEMMA NothingAdded ==
  ASSUME NEW m \in Messages
  PROVE  /\ m.text \o <<>> = m.text /\ m.reasoning \o <<>> = m.reasoning
         /\ Noted(m.finish, NoFinish, NoFinish) = m.finish
         /\ Noted(m.usage, NoUsage, NoUsage) = m.usage
         /\ m.calls \in Seq(Calls)
<1>1. m.text \in Seq(Int) /\ m.reasoning \in Seq(Int) /\ m.calls \in Seq(Calls)
  BY DEF Messages
<1> QED
  BY <1>1 DEF Noted

\* What the Claude client has seen of a message that has passed.
LEMMA Noticed ==
  ASSUME NEW s, NEW m, Carried(s, m), client = "claude"
  PROVE  /\ m \in Messages /\ SawAll(s.seen.blocks) \in Sights
         /\ Tells([saw |-> SawAll(s.seen.blocks), channel |-> s.enc.channel], m)
<1>1. Sync(s.enc, s.seen)
  BY DEF Carried
<1>2. s.seen.blocks \in Seq(Blocks)
  BY <1>1 DEF Sync, Readers
<1> QED
  BY <1>2, SawTyped DEF Carried, Sight

\* A text chunk on its way adds its text to the message, and nothing else.
LEMMA PassText ==
  ASSUME NEW s, NEW m, Carried(s, m), NEW f \in Seq(Int)
  PROVE  /\ TextChunk(f) \in Chunks
         /\ Carried(Pass(s, TextChunk(f)), WithText(m, f))
         /\ Pass(s, TextChunk(f)).dec = s.dec
<1>1. PICK c : c = TextChunk(f)
  OBVIOUS
<1>2. c \in Chunks
  BY <1>1, ChunkTyped DEF TextChunk, Chunks
<1>3. /\ c.choices # "none" /\ c.text = f /\ c.reasoning = <<>> /\ c.calls = <<>>
      /\ c.finish = NoFinish /\ c.usage = NoUsage
  BY <1>1 DEF TextChunk, Chunk
<1>4. m \in Messages
  BY DEF Carried
<1>5. Extended(m, c, m.calls) = WithText(m, f)
  <2>1. PICK x : x = m.text \o f
    OBVIOUS
  <2>2. Extended(m, c, m.calls) =
          [text |-> x, reasoning |-> m.reasoning, calls |-> m.calls, finish |-> m.finish,
           usage |-> m.usage, resumed |-> m.resumed]
    BY <1>3, <1>4, <2>1, NothingAdded DEF Extended
  <2> QED
    BY <1>4, <2>1, <2>2, MessageChanged DEF WithText
<1>6. Carried(Pass(s, c), Extended(m, c, m.calls)) /\ Pass(s, c).dec = s.dec
  <2>1. FoldLeft(AddFragment, ByIndex(m.calls), c.calls) = ByIndex(m.calls)
    BY <1>3, AddNone
  <2>2. ASSUME client = "claude"
        PROVE  /\ Len(Deltas(c)) \in 0 .. 2
               /\ Tells(Hears(SawAll(s.seen.blocks), s.enc.channel, Deltas(c)),
                        Extended(m, c, m.calls))
    <3>1. PICK x : x = Extended(m, c, m.calls)
      OBVIOUS
    <3>2. /\ x.text = m.text \o f /\ x.reasoning = m.reasoning /\ x.calls = m.calls
          /\ x.resumed = m.resumed
      BY <1>3, <1>4, <3>1, NothingAdded DEF Extended
    <3>3. Deltas(c) = IF f = <<>> THEN <<>> ELSE <<TextDelta(f)>>
      BY <1>3, DeltasOf
    <3>4. PICK saw \in Sights : saw = SawAll(s.seen.blocks)
      BY <2>2, Noticed
    <3>5. PICK channel : channel = s.enc.channel
      OBVIOUS
    <3>6. Tells([saw |-> saw, channel |-> channel], m)
      BY <2>2, <3>4, <3>5, Noticed
    <3>7. Tells(Hears(saw, channel, Deltas(c)), x)
      BY <1>4, <3>2, <3>3, <3>6, TellsText
    <3>8. Len(<<>>) = 0
      OBVIOUS
    <3>9. Len(Deltas(c)) \in {0, 1}
      BY <3>3, <3>8, OneElement, Zenon
    <3> QED
      BY <3>1, <3>4, <3>5, <3>7, <3>9
  <2> QED
    BY <1>2, <1>3, <1>4, <2>1, <2>2, NothingAdded, PassCarries
<1> QED
  BY <1>1, <1>2, <1>5, <1>6

\* A reasoning chunk on its way adds its reasoning to the message.
LEMMA PassReasoning ==
  ASSUME NEW s, NEW m, Carried(s, m), NEW f \in Seq(Int)
  PROVE  /\ ReasoningChunk(f) \in Chunks
         /\ Carried(Pass(s, ReasoningChunk(f)), WithReasoning(m, f))
         /\ Pass(s, ReasoningChunk(f)).dec = s.dec
<1>1. PICK c : c = ReasoningChunk(f)
  OBVIOUS
<1>2. c \in Chunks
  BY <1>1, ChunkTyped DEF ReasoningChunk, Chunks
<1>3. /\ c.choices # "none" /\ c.text = <<>> /\ c.reasoning = f /\ c.calls = <<>>
      /\ c.finish = NoFinish /\ c.usage = NoUsage
  BY <1>1 DEF ReasoningChunk, Chunk
<1>4. m \in Messages
  BY DEF Carried
<1>5. Extended(m, c, m.calls) = WithReasoning(m, f)
  <2>1. PICK x : x = m.reasoning \o f
    OBVIOUS
  <2>2. Extended(m, c, m.calls) =
          [text |-> m.text, reasoning |-> x, calls |-> m.calls, finish |-> m.finish,
           usage |-> m.usage, resumed |-> m.resumed]
    BY <1>3, <1>4, <2>1, NothingAdded DEF Extended
  <2> QED
    BY <1>4, <2>1, <2>2, MessageChanged DEF WithReasoning
<1>6. Carried(Pass(s, c), Extended(m, c, m.calls)) /\ Pass(s, c).dec = s.dec
  <2>1. FoldLeft(AddFragment, ByIndex(m.calls), c.calls) = ByIndex(m.calls)
    BY <1>3, AddNone
  <2>2. ASSUME client = "claude"
        PROVE  /\ Len(Deltas(c)) \in 0 .. 2
               /\ Tells(Hears(SawAll(s.seen.blocks), s.enc.channel, Deltas(c)),
                        Extended(m, c, m.calls))
    <3>1. PICK x : x = Extended(m, c, m.calls)
      OBVIOUS
    <3>2. /\ x.text = m.text /\ x.reasoning = m.reasoning \o f /\ x.calls = m.calls
          /\ x.resumed = m.resumed
      BY <1>3, <1>4, <3>1, NothingAdded DEF Extended
    <3>3. Deltas(c) = IF f = <<>> THEN <<>> ELSE <<ThinkDelta(f)>>
      BY <1>3, DeltasOf
    <3>4. PICK saw \in Sights : saw = SawAll(s.seen.blocks)
      BY <2>2, Noticed
    <3>5. PICK channel : channel = s.enc.channel
      OBVIOUS
    <3>6. Tells([saw |-> saw, channel |-> channel], m)
      BY <2>2, <3>4, <3>5, Noticed
    <3>7. Tells(Hears(saw, channel, Deltas(c)), x)
      BY <1>4, <3>2, <3>3, <3>6, TellsReasoning
    <3>8. Len(<<>>) = 0
      OBVIOUS
    <3>9. Len(Deltas(c)) \in {0, 1}
      BY <3>3, <3>8, OneElement, Zenon
    <3> QED
      BY <3>1, <3>4, <3>5, <3>7, <3>9
  <2> QED
    BY <1>2, <1>3, <1>4, <2>1, <2>2, NothingAdded, PassCarries
<1> QED
  BY <1>1, <1>2, <1>5, <1>6

\* A chunk of calls on its way: the message has the calls its fragments make, and the
\* Claude client has them when that is what its deltas say.
LEMMA PassCalls ==
  ASSUME NEW s, NEW m, Carried(s, m), m.finish = NoFinish, NEW fragments \in Seq(Fragments),
         NEW calls \in Seq(Calls),
         FoldLeft(AddFragment, ByIndex(m.calls), fragments) = ByIndex(calls),
         client = "claude" =>
           /\ Len(fragments) \in 0 .. 2
           /\ Tells(Hears(SawAll(s.seen.blocks), s.enc.channel, Deltas(CallsChunk(fragments))),
                    WithCalls(m, calls))
  PROVE  /\ CallsChunk(fragments) \in Chunks
         /\ Carried(Pass(s, CallsChunk(fragments)), WithCalls(m, calls))
         /\ Pass(s, CallsChunk(fragments)).dec = s.dec
         /\ client = "claude" =>
              Sight(Pass(s, CallsChunk(fragments))) =
                Hears(SawAll(s.seen.blocks), s.enc.channel, Deltas(CallsChunk(fragments)))
<1>1. PICK c : c = CallsChunk(fragments)
  OBVIOUS
<1>2. c \in Chunks
  BY <1>1, ChunkTyped DEF CallsChunk, Chunks
<1>3. /\ c.choices # "none" /\ c.text = <<>> /\ c.reasoning = <<>> /\ c.calls = fragments
      /\ c.finish = NoFinish /\ c.usage = NoUsage
  BY <1>1 DEF CallsChunk, Chunk
<1>4. m \in Messages
  BY DEF Carried
<1>5. Extended(m, c, calls) = WithCalls(m, calls)
  <2>1. Extended(m, c, calls) =
          [text |-> m.text, reasoning |-> m.reasoning, calls |-> calls,
           finish |-> m.finish, usage |-> m.usage, resumed |-> m.resumed]
    BY <1>3, <1>4, NothingAdded DEF Extended
  <2> QED
    BY <1>4, <2>1, MessageShape DEF WithCalls
<1>6. /\ Carried(Pass(s, c), Extended(m, c, calls)) /\ Pass(s, c).dec = s.dec
      /\ client = "claude" =>
           Sight(Pass(s, c)) = Hears(SawAll(s.seen.blocks), s.enc.channel, Deltas(c))
  <2>1. ASSUME client = "claude"
        PROVE  /\ Len(Deltas(c)) \in 0 .. 2
               /\ Tells(Hears(SawAll(s.seen.blocks), s.enc.channel, Deltas(c)),
                        Extended(m, c, calls))
    BY <1>1, <1>3, <1>5, <2>1, DeltasOf
  <2> QED
    BY <1>2, <1>3, <2>1, PassCarries
<1> QED
  BY <1>1, <1>2, <1>5, <1>6

\* A final chunk on its way: the message has its finish reason and usage.
LEMMA PassFinish ==
  ASSUME NEW s, NEW m, Carried(s, m), m.finish = NoFinish, NEW r \in Finishes,
         r # NoFinish, NEW used \in Usages
  PROVE  /\ FinishChunk(r, used) \in Chunks
         /\ Carried(Pass(s, FinishChunk(r, used)), WithEnd(m, r, used))
         /\ Pass(s, FinishChunk(r, used)).dec = s.dec
<1>1. PICK c : c = FinishChunk(r, used)
  OBVIOUS
<1>2. c \in Chunks
  <2> DEFINE d == [Chunk EXCEPT !.finish = r]
  <2>1. d \in Chunks
    BY ChunkTyped DEF Chunks
  <2>2. [d EXCEPT !.usage = used] \in Chunks
    BY <2>1 DEF Chunks
  <2> QED
    BY <1>1, <2>2 DEF FinishChunk
<1>3. /\ c.choices # "none" /\ c.text = <<>> /\ c.reasoning = <<>> /\ c.calls = <<>>
      /\ c.finish = r /\ c.usage = used
  BY <1>1 DEF FinishChunk, Chunk
<1>4. m \in Messages
  BY DEF Carried
<1>5. Extended(m, c, m.calls) = WithEnd(m, r, used)
  <2>1. PICK u : u = Noted(m.usage, used, NoUsage)
    OBVIOUS
  <2>2. Noted(m.finish, r, NoFinish) = r
    BY DEF Noted
  <2>3. Extended(m, c, m.calls) = [text |-> m.text, reasoning |-> m.reasoning,
                                   calls |-> m.calls, finish |-> r, usage |-> u,
                                   resumed |-> m.resumed]
    BY <1>3, <1>4, <2>1, <2>2, NothingAdded DEF Extended
  <2> QED
    BY <2>1, <2>3 DEF WithEnd
<1>6. Carried(Pass(s, c), Extended(m, c, m.calls)) /\ Pass(s, c).dec = s.dec
  <2>1. FoldLeft(AddFragment, ByIndex(m.calls), c.calls) = ByIndex(m.calls)
    BY <1>3, AddNone
  <2>2. ASSUME client = "claude"
        PROVE  /\ Len(Deltas(c)) \in 0 .. 2
               /\ Tells(Hears(SawAll(s.seen.blocks), s.enc.channel, Deltas(c)),
                        Extended(m, c, m.calls))
    <3>1. Len(Deltas(c)) = 0
      BY <1>3, DeltasOf
    <3>2. PICK x : x = Extended(m, c, m.calls)
      OBVIOUS
    <3>3. /\ x.text = m.text /\ x.reasoning = m.reasoning /\ x.calls = m.calls
          /\ x.resumed = m.resumed
      BY <1>3, <1>4, <3>2, NothingAdded DEF Extended
    <3>4. Tells([saw |-> SawAll(s.seen.blocks), channel |-> s.enc.channel], x)
      BY <2>2, <3>3, Noticed DEF Tells
    <3> QED
      BY <3>1, <3>2, <3>4 DEF Hears
  <2> QED
    BY <1>2, <1>3, <1>4, <2>1, <2>2, NothingAdded, PassCarries
<1> QED
  BY <1>1, <1>2, <1>5, <1>6
-----------------------------------------------------------------------------
(* The chunks of an event *)

Passing == INSTANCE FoldLaws WITH op <- Pass

\* The chunks, passed on from s, make the message n.
Delivers(s, chunks, n) ==
  /\ chunks \in Seq(Chunks)
  /\ Carried(Forward(s, chunks), n)
  /\ Forward(s, chunks).dec = s.dec

\* Forward is the fold the laws are about.
LEMMA PassingFold ==
  \A s, chunks : Passing!FoldLeft(Pass, s, chunks) = Forward(s, chunks)
BY DEF Forward, Passing!FoldLeft, FoldLeft, Passing!MapThenFoldSet, MapThenFoldSet,
       Passing!Max, Max

\* No chunks deliver nothing.
LEMMA DeliverNone ==
  ASSUME NEW s, NEW m, Carried(s, m)
  PROVE  Delivers(s, <<>>, m)
<1>1. Forward(s, <<>>) = s
  BY Passing!FoldEmpty, PassingFold
<1> QED
  BY <1>1 DEF Delivers

\* One chunk delivers what it makes of the message.
LEMMA DeliverOne ==
  ASSUME NEW s, NEW c \in Chunks, NEW n, Carried(Pass(s, c), n), Pass(s, c).dec = s.dec
  PROVE  Delivers(s, <<c>>, n) /\ Forward(s, <<c>>) = Pass(s, c)
<1>1. Forward(s, <<c>>) = Pass(s, c)
  BY Passing!FoldOne, PassingFold
<1>2. <<c>> \in Seq(Chunks)
  OBVIOUS
<1> QED
  BY <1>1, <1>2 DEF Delivers

\* What two batches of chunks deliver one after the other, they deliver together.
LEMMA DeliverBoth ==
  ASSUME NEW s, NEW c, NEW d, NEW m, NEW n,
         Delivers(s, c, m), Delivers(Forward(s, c), d, n)
  PROVE  Delivers(s, c \o d, n)
<1>1. c \in Seq(Chunks) /\ d \in Seq(Chunks)
  BY DEF Delivers
<1>2. Forward(s, c \o d) = Forward(Forward(s, c), d)
  BY <1>1, Passing!FoldConcat, PassingFold
<1>3. c \o d \in Seq(Chunks)
  BY <1>1
<1> QED
  BY <1>2, <1>3 DEF Delivers

\* A text chunk, or none when there is no text, delivers the text.
LEMMA DeliverText ==
  ASSUME NEW s, NEW m, Carried(s, m), NEW f \in Seq(Int)
  PROVE  /\ Delivers(s, <<TextChunk(f)>>, WithText(m, f))
         /\ Delivers(s, IfAny(f, TextChunk(f)), WithText(m, f))
<1>1. Delivers(s, <<TextChunk(f)>>, WithText(m, f))
  BY PassText, DeliverOne
<1>2. CASE f = <<>>
  <2>1. WithText(m, f) = m
    <3>1. m \in Messages
      BY DEF Carried
    <3> QED
      BY <1>2, <3>1, NothingAdded, MessageChanged, MessageShape DEF WithText
  <2>2. IfAny(f, TextChunk(f)) = <<>>
    BY <1>2 DEF IfAny
  <2> QED
    BY <1>1, <2>1, <2>2, DeliverNone
<1>3. CASE f # <<>>
  BY <1>1, <1>3 DEF IfAny
<1> QED
  BY <1>1, <1>2, <1>3

\* A reasoning chunk, or none, delivers the reasoning.
LEMMA DeliverReasoning ==
  ASSUME NEW s, NEW m, Carried(s, m), NEW f \in Seq(Int)
  PROVE  /\ Delivers(s, <<ReasoningChunk(f)>>, WithReasoning(m, f))
         /\ Delivers(s, IfAny(f, ReasoningChunk(f)), WithReasoning(m, f))
<1>1. Delivers(s, <<ReasoningChunk(f)>>, WithReasoning(m, f))
  BY PassReasoning, DeliverOne
<1>2. CASE f = <<>>
  <2>1. WithReasoning(m, f) = m
    <3>1. m \in Messages
      BY DEF Carried
    <3> QED
      BY <1>2, <3>1, NothingAdded, MessageChanged, MessageShape DEF WithReasoning
  <2>2. IfAny(f, ReasoningChunk(f)) = <<>>
    BY <1>2 DEF IfAny
  <2> QED
    BY <1>1, <2>1, <2>2, DeliverNone
<1>3. CASE f # <<>>
  BY <1>1, <1>3 DEF IfAny
<1> QED
  BY <1>1, <1>2, <1>3

\* A final chunk delivers the end.
LEMMA DeliverFinish ==
  ASSUME NEW s, NEW m, Carried(s, m), m.finish = NoFinish, NEW r \in Finishes,
         r # NoFinish, NEW used \in Usages
  PROVE  Delivers(s, <<FinishChunk(r, used)>>, WithEnd(m, r, used))
BY PassFinish, DeliverOne

\* Replacing the calls of a message.
LEMMA WithCallsOf ==
  ASSUME NEW m \in Messages, NEW a, NEW b
  PROVE  /\ WithCalls(m, m.calls) = m
         /\ WithCalls(WithCalls(m, a), b) = WithCalls(m, b)
         /\ WithCalls(m, a).calls = a
         /\ WithCalls(m, a).text = m.text /\ WithCalls(m, a).reasoning = m.reasoning
         /\ WithCalls(m, a).finish = m.finish /\ WithCalls(m, a).resumed = m.resumed
<1>1. PICK t, r, c, f, u, p : m = [text |-> t, reasoning |-> r, calls |-> c,
                                   finish |-> f, usage |-> u, resumed |-> p]
  BY MessageShape
<1>2. \A x : WithCalls(m, x) = [text |-> t, reasoning |-> r, calls |-> x,
                                finish |-> f, usage |-> u, resumed |-> p]
  BY <1>1 DEF WithCalls
<1>3. WithCalls(WithCalls(m, a), b) =
        [text |-> t, reasoning |-> r, calls |-> b, finish |-> f, usage |-> u, resumed |-> p]
  <2>1. PICK w : w = WithCalls(m, a)
    OBVIOUS
  <2>2. w = [text |-> t, reasoning |-> r, calls |-> a, finish |-> f, usage |-> u, resumed |-> p]
    BY <1>2, <2>1
  <2>3. WithCalls(w, b) =
          [text |-> t, reasoning |-> r, calls |-> b, finish |-> f, usage |-> u, resumed |-> p]
    BY <2>2 DEF WithCalls
  <2> QED
    BY <2>1, <2>3
<1>4. m.calls = c /\ WithCalls(m, c) = m
  BY <1>1, <1>2
<1>5. /\ m.text = t /\ m.reasoning = r /\ m.finish = f /\ m.resumed = p
  BY <1>1
<1>6. PICK n : n = WithCalls(m, a)
  OBVIOUS
<1>7. n = [text |-> t, reasoning |-> r, calls |-> a, finish |-> f, usage |-> u, resumed |-> p]
  BY <1>2, <1>6
<1>8. n.calls = a /\ n.text = t /\ n.reasoning = r /\ n.finish = f /\ n.resumed = p
  BY <1>7
<1>9. WithCalls(m, b) = WithCalls(WithCalls(m, a), b)
  BY <1>2, <1>3
<1> QED
  BY <1>4, <1>5, <1>6, <1>8, <1>9

\* A chunk of fragments delivers the calls they make.
LEMMA DeliverCalls ==
  ASSUME NEW s, NEW m, Carried(s, m), m.finish = NoFinish, NEW fragments \in Seq(Fragments),
         NEW calls \in Seq(Calls),
         FoldLeft(AddFragment, ByIndex(m.calls), fragments) = ByIndex(calls),
         client = "claude" =>
           /\ Len(fragments) \in 0 .. 2
           /\ Tells(Hears(SawAll(s.seen.blocks), s.enc.channel, Deltas(CallsChunk(fragments))),
                    WithCalls(m, calls))
  PROVE  /\ Delivers(s, <<CallsChunk(fragments)>>, WithCalls(m, calls))
         /\ client = "claude" =>
              Sight(Forward(s, <<CallsChunk(fragments)>>)) =
                Hears(SawAll(s.seen.blocks), s.enc.channel, Deltas(CallsChunk(fragments)))
<1>1. PICK c : c = CallsChunk(fragments)
  OBVIOUS
<1>2. /\ c \in Chunks /\ Carried(Pass(s, c), WithCalls(m, calls)) /\ Pass(s, c).dec = s.dec
      /\ client = "claude" =>
           Sight(Pass(s, c)) = Hears(SawAll(s.seen.blocks), s.enc.channel, Deltas(c))
  BY <1>1, PassCalls
<1>3. Delivers(s, <<c>>, WithCalls(m, calls)) /\ Forward(s, <<c>>) = Pass(s, c)
  BY <1>2, DeliverOne
<1> QED
  BY <1>1, <1>2, <1>3

\* A fragment of a call is typed.
LEMMA FragmentTyped ==
  ASSUME NEW index \in Int, NEW id \in Int, NEW name \in Int, NEW args \in Seq(Int)
  PROVE  /\ Call(index, id, name, args) \in Fragments
         /\ <<Call(index, id, name, args)>> \in Seq(Fragments)
<1>1. Call(index, id, name, args) \in Fragments
  BY DEF Call, Fragments
<1> QED
  BY <1>1

\* What the client hears of one fragment.
LEMMA HearsOne ==
  ASSUME NEW saw, NEW channel, NEW call \in Fragments
  PROVE  Hears(saw, channel, Deltas(CallsChunk(<<call>>))) =
           [saw |-> Heard(saw, channel, CallDelta(call)), channel |-> CallDelta(call).channel]
<1>1. PICK f : f = <<call>>
  OBVIOUS
<1>2. f \in Seq(Fragments) /\ Len(f) = 1 /\ f[1] = call
  BY <1>1
<1>3. PICK c : c = CallsChunk(f)
  OBVIOUS
<1>4. c.text = <<>> /\ c.reasoning = <<>> /\ c.calls = f
  BY <1>3 DEF CallsChunk, Chunk
<1>5. Len(Deltas(c)) = 1 /\ Deltas(c)[1] = CallDelta(call)
  BY <1>2, <1>4, DeltasOf
<1> QED
  BY <1>1, <1>3, <1>5 DEF Hears

\* What it hears of two.
LEMMA HearsTwo ==
  ASSUME NEW saw, NEW channel, NEW x \in Fragments, NEW y \in Fragments
  PROVE  Hears(saw, channel, Deltas(CallsChunk(<<x, y>>))) =
           [saw     |-> Heard(Heard(saw, channel, CallDelta(x)), CallDelta(x).channel,
                              CallDelta(y)),
            channel |-> CallDelta(y).channel]
<1>1. PICK f : f = <<x, y>>
  OBVIOUS
<1>2. f \in Seq(Fragments) /\ Len(f) = 2 /\ f[1] = x /\ f[2] = y
  BY <1>1
<1>3. PICK c : c = CallsChunk(f)
  OBVIOUS
<1>4. c.text = <<>> /\ c.reasoning = <<>> /\ c.calls = f
  BY <1>3 DEF CallsChunk, Chunk
<1>5. Len(Deltas(c)) = 2 /\ Deltas(c)[1] = CallDelta(x) /\ Deltas(c)[2] = CallDelta(y)
  BY <1>2, <1>4, DeltasOf
<1> QED
  BY <1>1, <1>3, <1>5 DEF Hears

\* A Claude client is being told of the k-th call.
Telling(s, k) == client = "claude" => s.enc.channel = ToolChannel(k - 1)

\* A fragment with the next index delivers a new call.
LEMMA DeliverNewCall ==
  ASSUME NEW s, NEW m, Carried(s, m), m.finish = NoFinish, NEW id \in Nat \ {0},
         NEW name \in Nat \ {0}, NEW args \in Seq(Int)
  PROVE  /\ Delivers(s, <<CallsChunk(<<Call(Len(m.calls), id, name, args)>>)>>,
                     WithCalls(m, Append(m.calls, [id |-> id, name |-> name, args |-> args])))
         /\ Telling(Forward(s, <<CallsChunk(<<Call(Len(m.calls), id, name, args)>>)>>),
                    Len(m.calls) + 1)
<1>1. m.calls \in Seq(Calls)
  BY NothingAdded DEF Carried
<1>2. Append(m.calls, [id |-> id, name |-> name, args |-> args]) \in Seq(Calls)
  <2>1. [id |-> id, name |-> name, args |-> args] \in Calls
    BY DEF Calls
  <2> QED
    BY <1>1, <2>1
<1>3. <<Call(Len(m.calls), id, name, args)>> \in Seq(Fragments)
  BY <1>1, FragmentTyped
<1>4. FoldLeft(AddFragment, ByIndex(m.calls), <<Call(Len(m.calls), id, name, args)>>)
        = ByIndex(Append(m.calls, [id |-> id, name |-> name, args |-> args]))
  <2>1. PICK call : call = Call(Len(m.calls), id, name, args)
    OBVIOUS
  <2>2. FoldLeft(AddFragment, ByIndex(m.calls), <<call>>) = AddFragment(ByIndex(m.calls), call)
    BY AddOne
  <2> QED
    BY <1>1, <2>1, <2>2, AddNew
<1>5. PICK call : call = Call(Len(m.calls), id, name, args)
  OBVIOUS
<1>6. PICK calls : calls = Append(m.calls, [id |-> id, name |-> name, args |-> args])
  OBVIOUS
<1>7. call \in Fragments
  BY <1>1, <1>5, FragmentTyped
<1>8. PICK f : f = <<call>>
  OBVIOUS
<1>9. Len(f) = 1
  BY <1>8
<1>10. ASSUME client = "claude"
       PROVE  Tells(Hears(SawAll(s.seen.blocks), s.enc.channel, Deltas(CallsChunk(f))),
                    WithCalls(m, calls))
  <2>1. PICK saw, channel : saw = SawAll(s.seen.blocks) /\ channel = s.enc.channel
    OBVIOUS
  <2>2. m \in Messages /\ Tells([saw |-> saw, channel |-> channel], m)
    BY <1>10, <2>1, Noticed
  <2>3. PICK c : c = [id |-> id, name |-> name, args |-> args]
    OBVIOUS
  <2>4. c \in Calls /\ c.id = id /\ c.name = name /\ c.args = args
    BY <2>3 DEF Calls
  <2>5. PICK n : n = WithCalls(m, calls)
    OBVIOUS
  <2>6. /\ n.text = m.text /\ n.reasoning = m.reasoning /\ n.calls = Append(m.calls, c)
        /\ n.resumed = m.resumed
    BY <1>6, <2>2, <2>3, <2>5, WithCallsOf
  <2>7. PICK d : d = CallDelta(call)
    OBVIOUS
  <2>8. d = CallDelta(Call(Len(m.calls), c.id, c.name, c.args))
    BY <1>5, <2>4, <2>7
  <2>9. Tells([saw |-> Heard(saw, channel, d), channel |-> d.channel], n)
    BY <2>2, <2>4, <2>6, <2>8, TellsNewCall
  <2> QED
    BY <1>7, <1>8, <2>1, <2>5, <2>7, <2>9, HearsOne
<1>11. /\ f \in Seq(Fragments) /\ calls \in Seq(Calls)
       /\ FoldLeft(AddFragment, ByIndex(m.calls), f) = ByIndex(calls)
  BY <1>2, <1>3, <1>4, <1>5, <1>6, <1>8
<1>12. PICK t : t = Forward(s, <<CallsChunk(f)>>)
  OBVIOUS
<1>13. PICK h : h = Hears(SawAll(s.seen.blocks), s.enc.channel, Deltas(CallsChunk(f)))
  OBVIOUS
<1>14. /\ Delivers(s, <<CallsChunk(f)>>, WithCalls(m, calls))
       /\ client = "claude" => Sight(t) = h
  <2>1. client = "claude" => Len(f) \in 0 .. 2 /\ Tells(h, WithCalls(m, calls))
    BY <1>9, <1>10, <1>13
  <2> QED
    BY <1>11, <1>12, <1>13, <2>1, DeliverCalls
<1>15. Telling(t, Len(m.calls) + 1)
  <2>1. CallDelta(call).channel = ToolChannel(Len(m.calls))
    BY <1>5 DEF CallDelta, Call
  <2>2. h.channel = CallDelta(call).channel
    <3>1. PICK saw, channel : saw = SawAll(s.seen.blocks) /\ channel = s.enc.channel
      OBVIOUS
    <3>2. Hears(saw, channel, Deltas(CallsChunk(<<call>>))) =
            [saw |-> Heard(saw, channel, CallDelta(call)), channel |-> CallDelta(call).channel]
      BY <1>7, HearsOne
    <3>3. h = [saw |-> Heard(saw, channel, CallDelta(call)), channel |-> CallDelta(call).channel]
      BY <1>8, <1>13, <3>1, <3>2
    <3> QED
      BY <3>3
  <2>3. client = "claude" => t.enc.channel = h.channel
    BY <1>14 DEF Sight
  <2> QED
    BY <1>1, <2>1, <2>2, <2>3 DEF Telling
<1> QED
  BY <1>5, <1>6, <1>8, <1>12, <1>14, <1>15

\* A fragment of the k-th call delivers more of its arguments, and of no other's; a
\* Claude client needs to be at that call, unless it was resumed.
LEMMA DeliverArgs ==
  ASSUME NEW s, NEW m, Carried(s, m), m.finish = NoFinish, NEW k \in 1 .. Len(m.calls),
         NEW args \in Seq(Int), NEW id \in {Missing, Absent}, NEW name \in {Missing, Absent},
         m.resumed = "no" => Telling(s, k)
  PROVE  /\ Delivers(s, <<CallsChunk(<<Call(k - 1, id, name, args)>>)>>,
                     WithCalls(m, Longer(m.calls, k, args)))
         /\ Telling(Forward(s, <<CallsChunk(<<Call(k - 1, id, name, args)>>)>>), k)
<1>1. m.calls \in Seq(Calls) /\ k \in Nat
  BY NothingAdded DEF Carried
<1>2. Longer(m.calls, k, args) \in Seq(Calls)
  <2>1. m.calls[k] \in Calls
    BY <1>1
  <2>2. [m.calls[k] EXCEPT !.args = m.calls[k].args \o args] \in Calls
    BY <2>1, CallTyped
  <2> QED
    BY <1>1, <2>2 DEF Longer
<1>3. <<Call(k - 1, id, name, args)>> \in Seq(Fragments)
  <2>1. id \in Int /\ name \in Int
    BY DEF Missing, Absent
  <2> QED
    BY <1>1, <2>1, FragmentTyped
<1>4. FoldLeft(AddFragment, ByIndex(m.calls), <<Call(k - 1, id, name, args)>>)
        = ByIndex(Longer(m.calls, k, args))
  <2>1. PICK call : call = Call(k - 1, id, name, args)
    OBVIOUS
  <2>2. FoldLeft(AddFragment, ByIndex(m.calls), <<call>>) = AddFragment(ByIndex(m.calls), call)
    BY AddOne
  <2> QED
    BY <1>1, <2>1, <2>2, AddArgs, Zenon
<1>5. PICK call : call = Call(k - 1, id, name, args)
  OBVIOUS
<1>6. PICK calls : calls = Longer(m.calls, k, args)
  OBVIOUS
<1>7. call \in Fragments
  <2>1. id \in Int /\ name \in Int /\ k - 1 \in Int
    BY <1>1 DEF Missing, Absent
  <2> QED
    BY <1>5, <2>1, FragmentTyped
<1>8. PICK f : f = <<call>>
  OBVIOUS
<1>9. Len(f) = 1
  BY <1>8
<1>10. ASSUME client = "claude"
       PROVE  Tells(Hears(SawAll(s.seen.blocks), s.enc.channel, Deltas(CallsChunk(f))),
                    WithCalls(m, calls))
  <2>1. PICK saw, channel : saw = SawAll(s.seen.blocks) /\ channel = s.enc.channel
    OBVIOUS
  <2>2. m \in Messages /\ Tells([saw |-> saw, channel |-> channel], m)
    BY <1>10, <2>1, Noticed
  <2>3. m.resumed = "no" => channel = ToolChannel(k - 1)
    BY <1>10, <2>1 DEF Telling
  <2>5. PICK n : n = WithCalls(m, calls)
    OBVIOUS
  <2>6. /\ n.text = m.text /\ n.reasoning = m.reasoning /\ n.calls = Longer(m.calls, k, args)
        /\ n.resumed = m.resumed
    BY <1>6, <2>2, <2>5, WithCallsOf
  <2>7. PICK d : d = CallDelta(call)
    OBVIOUS
  <2>8. d = CallDelta(Call(k - 1, id, name, args))
    BY <1>5, <2>7
  <2>9. Tells([saw |-> Heard(saw, channel, d), channel |-> d.channel], n)
    BY <2>2, <2>3, <2>6, <2>8, TellsArgs
  <2> QED
    BY <1>7, <1>8, <2>1, <2>5, <2>7, <2>9, HearsOne
<1>11. /\ f \in Seq(Fragments) /\ calls \in Seq(Calls)
       /\ FoldLeft(AddFragment, ByIndex(m.calls), f) = ByIndex(calls)
  BY <1>2, <1>3, <1>4, <1>5, <1>6, <1>8
<1>12. PICK t : t = Forward(s, <<CallsChunk(f)>>)
  OBVIOUS
<1>13. PICK h : h = Hears(SawAll(s.seen.blocks), s.enc.channel, Deltas(CallsChunk(f)))
  OBVIOUS
<1>14. /\ Delivers(s, <<CallsChunk(f)>>, WithCalls(m, calls))
       /\ client = "claude" => Sight(t) = h
  <2>1. client = "claude" => Len(f) \in 0 .. 2 /\ Tells(h, WithCalls(m, calls))
    BY <1>9, <1>10, <1>13
  <2> QED
    BY <1>11, <1>12, <1>13, <2>1, DeliverCalls
<1>15. Telling(t, k)
  <2>1. CallDelta(call).channel = ToolChannel(k - 1)
    BY <1>5 DEF CallDelta, Call
  <2>2. h.channel = CallDelta(call).channel
    <3>1. PICK saw, channel : saw = SawAll(s.seen.blocks) /\ channel = s.enc.channel
      OBVIOUS
    <3>2. Hears(saw, channel, Deltas(CallsChunk(<<call>>))) =
            [saw |-> Heard(saw, channel, CallDelta(call)), channel |-> CallDelta(call).channel]
      BY <1>7, HearsOne
    <3>3. h = [saw |-> Heard(saw, channel, CallDelta(call)), channel |-> CallDelta(call).channel]
      BY <1>8, <1>13, <3>1, <3>2
    <3> QED
      BY <3>3
  <2>3. client = "claude" => t.enc.channel = h.channel
    BY <1>14 DEF Sight
  <2> QED
    BY <2>1, <2>2, <2>3 DEF Telling
<1> QED
  BY <1>5, <1>6, <1>8, <1>12, <1>14, <1>15

\* A call is its fields.
LEMMA CallShape ==
  ASSUME NEW c \in Calls
  PROVE  /\ c = [id |-> c.id, name |-> c.name, args |-> c.args]
         /\ c.id \in Nat \ {0} /\ c.name \in Nat \ {0} /\ c.args \in Seq(Int)
BY DEF Calls

\* A whole call in one fragment delivers the call.
LEMMA DeliverCall ==
  ASSUME NEW s, NEW m, Carried(s, m), m.finish = NoFinish, NEW c \in Calls
  PROVE  /\ Delivers(s, <<CallsChunk(<<Call(Len(m.calls), c.id, c.name, c.args)>>)>>,
                     WithCalls(m, Append(m.calls, c)))
         /\ Append(m.calls, c) \in Seq(Calls)
<1>1. PICK id, name, args : /\ c = [id |-> id, name |-> name, args |-> args]
                            /\ id \in Nat \ {0} /\ name \in Nat \ {0} /\ args \in Seq(Int)
  BY CallShape
<1>2. Delivers(s, <<CallsChunk(<<Call(Len(m.calls), id, name, args)>>)>>,
               WithCalls(m, Append(m.calls, [id |-> id, name |-> name, args |-> args])))
  BY <1>1, DeliverNewCall
<1>3. c.id = id /\ c.name = name /\ c.args = args
  BY <1>1
<1>4. m.calls \in Seq(Calls)
  BY NothingAdded DEF Carried
<1> QED
  BY <1>1, <1>2, <1>3, <1>4

\* None, one or two calls.
AtMostTwo(calls) ==
  \/ calls = <<>>
  \/ \E c \in Calls : calls = <<c>>
  \/ \E c, d \in Calls : calls = <<c, d>>

\* Appending none, one or two calls.
LEMMA AppendTwo ==
  ASSUME NEW before \in Seq(Calls), NEW c \in Calls, NEW d \in Calls
  PROVE  /\ before \o <<>> = before
         /\ before \o <<c>> = Append(before, c)
         /\ before \o <<c, d>> = Append(Append(before, c), d)
         /\ Append(before, c) \in Seq(Calls) /\ Len(Append(before, c)) = Len(before) + 1
OBVIOUS

\* mapToolCalls numbers the calls from k and makes up their ids.
LEMMA OllamaCalls ==
  ASSUME NEW c \in Calls, NEW d \in Calls, NEW k \in Nat
  PROVE  /\ mapToolCalls(<<c>>, k) = <<Call(k, k + 1, c.name, c.args)>>
         /\ mapToolCalls(<<c, d>>, k) =
              <<Call(k, k + 1, c.name, c.args), Call(k + 1, k + 2, d.name, d.args)>>
<1>1. k + 1 - 1 = k /\ k + 2 - 1 = k + 1
  OBVIOUS
<1>2. DOMAIN <<c>> = 1 .. 1 /\ <<c>>[1] = c
  OBVIOUS
<1>3. DOMAIN <<c, d>> = 1 .. 2 /\ <<c, d>>[1] = c /\ <<c, d>>[2] = d
  OBVIOUS
<1>4. mapToolCalls(<<c>>, k) = <<Call(k, k + 1, c.name, c.args)>>
  <2>1. PICK s : s = <<c>>
    OBVIOUS
  <2>2. mapToolCalls(s, k) =
          [i \in 1 .. 1 |-> Call(k + i - 1, k + i, s[i].name, s[i].args)]
    BY <1>2, <2>1 DEF mapToolCalls
  <2>3. Call(k + 1 - 1, k + 1, s[1].name, s[1].args) = Call(k, k + 1, c.name, c.args)
    BY <1>1, <1>2, <2>1
  <2> QED
    BY <2>1, <2>2, <2>3
<1>5. mapToolCalls(<<c, d>>, k) =
        <<Call(k, k + 1, c.name, c.args), Call(k + 1, k + 2, d.name, d.args)>>
  <2>1. PICK s : s = <<c, d>>
    OBVIOUS
  <2>2. mapToolCalls(s, k) =
          [i \in 1 .. 2 |-> Call(k + i - 1, k + i, s[i].name, s[i].args)]
    BY <1>3, <2>1 DEF mapToolCalls
  <2>3. /\ Call(k + 1 - 1, k + 1, s[1].name, s[1].args) = Call(k, k + 1, c.name, c.args)
        /\ Call(k + 2 - 1, k + 2, s[2].name, s[2].args) = Call(k + 1, k + 2, d.name, d.args)
    BY <1>1, <1>3, <2>1
  <2> QED
    BY <2>1, <2>2, <2>3
<1> QED
  BY <1>4, <1>5

\* The chunk that tells of c, as the k-th call from zero.
Tale(k, c) == CallsChunk(<<Call(k, c.id, c.name, c.args)>>)

\* Two sequences of one element, joined.
LEMMA Joined ==
  ASSUME NEW x, NEW y
  PROVE  <<x>> \o <<y>> = <<x, y>>
<1> DEFINE S == {x, y}
<1>1. x \in S /\ y \in S
  OBVIOUS
<1> HIDE DEF S
<1>2. <<x>> \in Seq(S) /\ <<y>> \in Seq(S)
  BY <1>1
<1>3. PICK z : z = <<x>> \o <<y>>
  OBVIOUS
<1>4. z \in Seq(S) /\ Len(z) = 2 /\ z[1] = x /\ z[2] = y
  BY <1>2, <1>3
<1>5. z = [i \in 1 .. 2 |-> z[i]]
  BY <1>4
<1>6. z = <<x, y>>
  BY <1>4, <1>5
<1> QED
  BY <1>3, <1>6

\* Two whole calls, a chunk for each, deliver both in order.
LEMMA DeliverTwo ==
  ASSUME NEW s, NEW m, Carried(s, m), m.finish = NoFinish, NEW c \in Calls, NEW d \in Calls
  PROVE  Delivers(s, <<Tale(Len(m.calls), c), Tale(Len(m.calls) + 1, d)>>,
                  WithCalls(m, Append(Append(m.calls, c), d)))
<1>1. PICK t : t = Forward(s, <<Tale(Len(m.calls), c)>>)
  OBVIOUS
<1>2. PICK n : n = WithCalls(m, Append(m.calls, c))
  OBVIOUS
<1>3. m \in Messages /\ m.calls \in Seq(Calls)
  BY NothingAdded DEF Carried
<1>4. n.calls = Append(m.calls, c) /\ Len(n.calls) = Len(m.calls) + 1 /\ n.finish = NoFinish
  <2>1. PICK b : b = Append(m.calls, c)
    OBVIOUS
  <2>2. WithCalls(m, b).calls = b /\ WithCalls(m, b).finish = NoFinish
    BY <1>3, WithCallsOf
  <2> QED
    BY <1>2, <1>3, <2>1, <2>2, AppendTwo
<1>5. Delivers(s, <<Tale(Len(m.calls), c)>>, n)
  BY <1>2, DeliverCall DEF Tale
<1>6. Carried(t, n)
  BY <1>1, <1>5 DEF Delivers
<1>7. Delivers(t, <<Tale(Len(m.calls) + 1, d)>>, WithCalls(n, Append(n.calls, d)))
  BY <1>4, <1>6, DeliverCall DEF Tale
<1>8. WithCalls(n, Append(n.calls, d)) = WithCalls(m, Append(Append(m.calls, c), d))
  BY <1>2, <1>3, <1>4, WithCallsOf
<1>9. Delivers(s, <<Tale(Len(m.calls), c)>> \o <<Tale(Len(m.calls) + 1, d)>>,
               WithCalls(m, Append(Append(m.calls, c), d)))
  BY <1>1, <1>5, <1>7, <1>8, DeliverBoth
<1> QED
  BY <1>9, Joined

\* Ollama's calls, all in one chunk, deliver the calls that were said.
LEMMA DeliverOllama ==
  ASSUME NEW s, NEW m, Carried(s, m), m.finish = NoFinish, NEW calls, AtMostTwo(calls),
         \A i \in DOMAIN calls : calls[i].id = Len(m.calls) + i
  PROVE  Delivers(s, IfAny(calls, CallsChunk(mapToolCalls(calls, Len(m.calls)))),
                  WithCalls(m, m.calls \o calls))
<1>0. m \in Messages /\ m.calls \in Seq(Calls) /\ Len(m.calls) \in Nat
  BY NothingAdded DEF Carried
<1>1. CASE calls = <<>>
  <2>1. WithCalls(m, m.calls \o calls) = m
    BY <1>0, <1>1, WithCallsOf, AppendTwo
  <2> QED
    BY <1>1, <2>1, DeliverNone DEF IfAny
<1>2. ASSUME NEW c \in Calls, calls = <<c>>
      PROVE  Delivers(s, IfAny(calls, CallsChunk(mapToolCalls(calls, Len(m.calls)))),
                      WithCalls(m, m.calls \o calls))
  <2>1. DOMAIN calls = 1 .. 1 /\ calls[1] = c /\ calls # <<>>
    BY <1>2
  <2>2. mapToolCalls(calls, Len(m.calls)) = <<Call(Len(m.calls), c.id, c.name, c.args)>>
    <3>1. c.id = Len(m.calls) + 1
      BY <2>1
    <3> QED
      BY <1>0, <1>2, <3>1, OllamaCalls
  <2>3. m.calls \o calls = Append(m.calls, c)
    BY <1>0, <1>2, AppendTwo
  <2> QED
    BY <2>1, <2>2, <2>3, DeliverCall DEF IfAny
<1>3. ASSUME NEW c \in Calls, NEW d \in Calls, calls = <<c, d>>
      PROVE  Delivers(s, IfAny(calls, CallsChunk(mapToolCalls(calls, Len(m.calls)))),
                      WithCalls(m, m.calls \o calls))
  <2>1. DOMAIN calls = 1 .. 2 /\ calls[1] = c /\ calls[2] = d /\ calls # <<>>
    BY <1>3
  <2>2. c.id = Len(m.calls) + 1 /\ d.id = Len(m.calls) + 2
    BY <2>1
  <2>3. PICK x, y : /\ x = Call(Len(m.calls), c.id, c.name, c.args)
                    /\ y = Call(Len(m.calls) + 1, d.id, d.name, d.args)
    OBVIOUS
  <2>4. mapToolCalls(calls, Len(m.calls)) = <<x, y>>
    BY <1>0, <1>3, <2>2, <2>3, OllamaCalls
  <2>5. <<x, y>> \in Seq(Fragments) /\ x \in Fragments /\ y \in Fragments
    <3>1. x \in Fragments /\ y \in Fragments
      <4>1. /\ c.id \in Int /\ c.name \in Int /\ c.args \in Seq(Int)
            /\ d.id \in Int /\ d.name \in Int /\ d.args \in Seq(Int)
        BY CallShape
      <4>2. Len(m.calls) \in Int /\ Len(m.calls) + 1 \in Int
        BY <1>0
      <4> QED
        BY <2>3, <4>1, <4>2, FragmentTyped
    <3> QED
      BY <3>1
  <2>6. /\ m.calls \o calls = Append(Append(m.calls, c), d)
        /\ Append(m.calls, c) \in Seq(Calls) /\ Len(Append(m.calls, c)) = Len(m.calls) + 1
        /\ m.calls \o calls \in Seq(Calls)
    BY <1>0, <1>3, AppendTwo
  <2>7. FoldLeft(AddFragment, ByIndex(m.calls), <<x, y>>) = ByIndex(m.calls \o calls)
    <3>1. PICK p : p = <<x, y>>
      OBVIOUS
    <3>2. DOMAIN p = 1 .. 2 /\ p[1] = x /\ p[2] = y
      BY <3>1
    <3>3. FoldLeft(AddFragment, ByIndex(m.calls), p)
            = AddFragment(AddFragment(ByIndex(m.calls), x), y)
      BY <3>2, AddTwo
    <3>4. AddFragment(ByIndex(m.calls), x) = ByIndex(Append(m.calls, c))
      BY <1>0, <2>3, CallShape, AddNew
    <3>5. AddFragment(ByIndex(Append(m.calls, c)), y) = ByIndex(Append(Append(m.calls, c), d))
      <4>1. PICK b : b = Append(m.calls, c)
        OBVIOUS
      <4>2. y = Call(Len(b), d.id, d.name, d.args) /\ b \in Seq(Calls)
        BY <2>3, <2>6, <4>1
      <4>3. AddFragment(ByIndex(b), y) = ByIndex(Append(b, d))
        BY <4>2, CallShape, AddNew
      <4> QED
        BY <4>1, <4>3
    <3> QED
      BY <2>6, <3>1, <3>3, <3>4, <3>5
  <2>8. Delivers(s, <<CallsChunk(<<x, y>>)>>, WithCalls(m, m.calls \o calls))
    <3>1. PICK p : p = <<x, y>>
      OBVIOUS
    <3>3. /\ p \in Seq(Fragments) /\ Len(p) = 2
          /\ FoldLeft(AddFragment, ByIndex(m.calls), p) = ByIndex(m.calls \o calls)
      BY <2>5, <2>7, <3>1
    <3>4. ASSUME client = "claude"
          PROVE  Tells(Hears(SawAll(s.seen.blocks), s.enc.channel, Deltas(CallsChunk(p))),
                       WithCalls(m, m.calls \o calls))
      <4>1. PICK saw, channel : saw = SawAll(s.seen.blocks) /\ channel = s.enc.channel
        OBVIOUS
      <4>2. Tells([saw |-> saw, channel |-> channel], m)
        BY <3>4, <4>1, Noticed
      <4>3. PICK b : b = Append(m.calls, c)
        OBVIOUS
      <4>4. PICK n : n = WithCalls(m, b)
        OBVIOUS
      <4>5. /\ n.text = m.text /\ n.reasoning = m.reasoning /\ n.calls = b
            /\ n.resumed = m.resumed
        BY <1>0, <4>4, WithCallsOf
      <4>6. PICK f, g : f = CallDelta(x) /\ g = CallDelta(y)
        OBVIOUS
      <4>7. Tells([saw |-> Heard(saw, channel, f), channel |-> f.channel], n)
        <5>1. f = CallDelta(Call(Len(m.calls), c.id, c.name, c.args))
          BY <2>3, <4>6
        <5> QED
          BY <1>0, <4>2, <4>3, <4>5, <5>1, TellsNewCall
      <4>8. n \in Messages
        BY <1>0, <2>6, <4>3, <4>4 DEF WithCalls, Messages
      <4>9. PICK z : z = WithCalls(m, m.calls \o calls)
        OBVIOUS
      <4>10. /\ z.text = n.text /\ z.reasoning = n.reasoning
             /\ z.calls = Append(n.calls, d) /\ z.resumed = n.resumed
        <5>1. PICK a : a = m.calls \o calls
          OBVIOUS
        <5>2. /\ z.text = m.text /\ z.reasoning = m.reasoning /\ z.calls = a
              /\ z.resumed = m.resumed
          BY <1>0, <4>9, <5>1, WithCallsOf
        <5>3. a = Append(b, d)
          BY <2>6, <4>3, <5>1
        <5> QED
          BY <4>5, <5>2, <5>3
      <4>11. PICK w : w = Heard(saw, channel, f)
        OBVIOUS
      <4>12. Tells([saw |-> Heard(w, f.channel, g), channel |-> g.channel], z)
        <5>1. g = CallDelta(Call(Len(n.calls), d.id, d.name, d.args))
          BY <2>3, <2>6, <4>3, <4>5, <4>6
        <5>2. Tells([saw |-> w, channel |-> f.channel], n)
          BY <4>7, <4>11
        <5> QED
          BY <4>8, <4>10, <5>1, <5>2, TellsNewCall
      <4>13. Hears(saw, channel, Deltas(CallsChunk(<<x, y>>))) =
               [saw |-> Heard(w, f.channel, g), channel |-> g.channel]
        BY <2>5, <4>6, <4>11, HearsTwo
      <4> QED
        BY <3>1, <4>1, <4>9, <4>12, <4>13
    <3>2. Delivers(s, <<CallsChunk(p)>>, WithCalls(m, m.calls \o calls))
      <4>1. client = "claude" =>
              /\ Len(p) \in 0 .. 2
              /\ Tells(Hears(SawAll(s.seen.blocks), s.enc.channel, Deltas(CallsChunk(p))),
                       WithCalls(m, m.calls \o calls))
        BY <3>3, <3>4
      <4> QED
        BY <2>6, <3>3, <4>1, DeliverCalls
    <3> QED
      BY <3>1, <3>2
  <2> QED
    BY <2>1, <2>4, <2>8 DEF IfAny
<1> QED
  BY <1>1, <1>2, <1>3 DEF AtMostTwo

\* Gemini's calls, a chunk for each, deliver the calls that were said.
LEMMA DeliverGemini ==
  ASSUME NEW s, NEW m, Carried(s, m), m.finish = NoFinish, NEW k, k = Len(m.calls),
         NEW calls, AtMostTwo(calls),
         \A i \in DOMAIN calls : calls[i].id = calls[i].name
  PROVE  Delivers(s, [i \in DOMAIN calls |->
                        CallsChunk(<<Call(k + i - 1, calls[i].name, calls[i].name,
                                          calls[i].args)>>)],
                  WithCalls(m, m.calls \o calls))
<1> DEFINE Chunk1(i) == CallsChunk(<<Call(k + i - 1, calls[i].name, calls[i].name,
                                          calls[i].args)>>)
           chunks == [i \in DOMAIN calls |-> Chunk1(i)]
<1>0. m \in Messages /\ m.calls \in Seq(Calls) /\ k \in Nat
  BY NothingAdded DEF Carried
<1>1. k + 1 - 1 = k /\ k + 2 - 1 = k + 1
  BY <1>0
<1>2. CASE calls = <<>>
  <2>1. WithCalls(m, m.calls \o calls) = m
    BY <1>0, <1>2, WithCallsOf, AppendTwo
  <2>2. chunks = <<>>
    <3> HIDE DEF Chunk1
    <3>1. DOMAIN calls = {}
      BY <1>2
    <3> QED
      BY <3>1
  <2> QED
    BY <2>1, <2>2, DeliverNone
<1>3. ASSUME NEW c \in Calls, calls = <<c>>
      PROVE  Delivers(s, chunks, WithCalls(m, m.calls \o calls))
  <2>1. DOMAIN calls = 1 .. 1 /\ calls[1] = c
    BY <1>3
  <2>2. chunks = <<Tale(Len(m.calls), c)>>
    <3>1. Chunk1(1) = Tale(Len(m.calls), c)
      BY <1>1, <2>1 DEF Tale
    <3> HIDE DEF Chunk1
    <3> QED
      BY <2>1, <3>1
  <2>3. m.calls \o calls = Append(m.calls, c)
    BY <1>0, <1>3, AppendTwo
  <2>4. Delivers(s, <<Tale(Len(m.calls), c)>>, WithCalls(m, Append(m.calls, c)))
    BY DeliverCall DEF Tale
  <2> HIDE DEF chunks
  <2> QED
    BY <2>2, <2>3, <2>4
<1>4. ASSUME NEW c \in Calls, NEW d \in Calls, calls = <<c, d>>
      PROVE  Delivers(s, chunks, WithCalls(m, m.calls \o calls))
  <2>1. DOMAIN calls = 1 .. 2 /\ calls[1] = c /\ calls[2] = d
    BY <1>4
  <2>2. chunks = <<Tale(Len(m.calls), c), Tale(Len(m.calls) + 1, d)>>
    <3>1. Chunk1(1) = Tale(Len(m.calls), c) /\ Chunk1(2) = Tale(Len(m.calls) + 1, d)
      BY <1>1, <2>1 DEF Tale
    <3> HIDE DEF Chunk1
    <3> QED
      BY <2>1, <3>1
  <2>3. m.calls \o calls = Append(Append(m.calls, c), d)
    BY <1>0, <1>4, AppendTwo
  <2> HIDE DEF chunks
  <2> QED
    BY <2>2, <2>3, DeliverTwo
<1> QED
  BY <1>2, <1>3, <1>4 DEF AtMostTwo

\* Cursor's call delivers the call that was said.
LEMMA DeliverCursor ==
  ASSUME NEW s, NEW m, Carried(s, m), m.finish = NoFinish, NEW k, k = Len(m.calls),
         NEW calls, calls = <<>> \/ \E c \in Calls : calls = <<c>>
  PROVE  Delivers(s, [i \in DOMAIN calls |->
                        CallsChunk(<<Call(k, calls[i].id, calls[i].name, calls[i].args)>>)],
                  WithCalls(m, m.calls \o calls))
<1> DEFINE Chunk1(i) == CallsChunk(<<Call(k, calls[i].id, calls[i].name, calls[i].args)>>)
           chunks == [i \in DOMAIN calls |-> Chunk1(i)]
<1>0. m \in Messages /\ m.calls \in Seq(Calls)
  BY NothingAdded DEF Carried
<1>1. CASE calls = <<>>
  <2>1. WithCalls(m, m.calls \o calls) = m
    BY <1>0, <1>1, WithCallsOf, AppendTwo
  <2>2. chunks = <<>>
    <3> HIDE DEF Chunk1
    <3>1. DOMAIN calls = {}
      BY <1>1
    <3> QED
      BY <3>1
  <2> QED
    BY <2>1, <2>2, DeliverNone
<1>2. ASSUME NEW c \in Calls, calls = <<c>>
      PROVE  Delivers(s, chunks, WithCalls(m, m.calls \o calls))
  <2>1. DOMAIN calls = 1 .. 1 /\ calls[1] = c
    BY <1>2
  <2>2. chunks = <<Tale(Len(m.calls), c)>>
    <3>1. Chunk1(1) = Tale(Len(m.calls), c)
      BY <2>1 DEF Tale
    <3> HIDE DEF Chunk1
    <3> QED
      BY <2>1, <3>1
  <2>3. m.calls \o calls = Append(m.calls, c)
    BY <1>0, <1>2, AppendTwo
  <2>4. Delivers(s, <<Tale(Len(m.calls), c)>>, WithCalls(m, Append(m.calls, c)))
    BY DeliverCall DEF Tale
  <2> HIDE DEF chunks
  <2> QED
    BY <2>2, <2>3, <2>4
<1> QED
  BY <1>1, <1>2
-----------------------------------------------------------------------------
(* The decoders *)

\* The registry: the decoder of each format.
LEMMA DecodeOf ==
  ASSUME NEW d, NEW e
  PROVE  /\ format = "openai"     => Decode(format, d, e) = Emit(d, <<e>>)
         /\ format = "claude"     => Decode(format, d, e) = ClaudeDecode(d, e)
         /\ format = "responses"  => Decode(format, d, e) = ResponsesDecode(d, e)
         /\ format = "kiro"       => Decode(format, d, e) = KiroDecode(d, e)
         /\ format = "ollama"     => Decode(format, d, e) = OllamaDecode(d, e)
         /\ format = "cursor"     => Decode(format, d, e) = CursorDecode(d, e)
         /\ format = "gemini"     => Decode(format, d, e) = GeminiDecode(d, e)
         /\ format = "perplexity" => Decode(format, d, e) = WebDecode(d, e)
         /\ format = "grok"       => Decode(format, d, e) = WebDecode(d, e)
<1>1. format = "openai" => Decode(format, d, e) = Emit(d, <<e>>)
  BY DEF Decode
<1>2. format = "claude" => Decode(format, d, e) = ClaudeDecode(d, e)
  BY DEF Decode
<1>3. format = "responses" => Decode(format, d, e) = ResponsesDecode(d, e)
  BY DEF Decode
<1>4. format = "kiro" => Decode(format, d, e) = KiroDecode(d, e)
  BY DEF Decode
<1>5. format = "ollama" => Decode(format, d, e) = OllamaDecode(d, e)
  BY DEF Decode
<1>6. format = "cursor" => Decode(format, d, e) = CursorDecode(d, e)
  BY DEF Decode
<1>7. format = "gemini" => Decode(format, d, e) = GeminiDecode(d, e)
  BY DEF Decode
<1>8. format = "perplexity" => Decode(format, d, e) = WebDecode(d, e)
  BY DEF Decode
<1>9. format = "grok" => Decode(format, d, e) = WebDecode(d, e)
  BY DEF Decode
<1> QED
  BY <1>1, <1>2, <1>3, <1>4, <1>5, <1>6, <1>7, <1>8, <1>9

\* The Claude decoder, event by event.
LEMMA ClaudeDecodeOf ==
  ASSUME NEW d, NEW e
  PROVE  /\ e.type = "message_start" => ClaudeDecode(d, e) = Quiet([d EXCEPT !.usage = e.usage])
         /\ e.type = "tool_use_start" => ClaudeDecode(d, e) = NewCall(d, e.index, e.id, e.name)
         /\ e.type = "text_delta" => ClaudeDecode(d, e) = Emit(d, <<TextChunk(e.delta)>>)
         /\ e.type = "thinking_delta" =>
              ClaudeDecode(d, e) = Emit(d, <<ReasoningChunk(e.delta)>>)
         /\ e.type = "input_json_delta" =>
              ClaudeDecode(d, e) =
                Emit(d, OneCall(ArgsOf(Get(d.toolIndex, e.index, 0), e.delta)))
         /\ e.type = "message_delta" =>
              ClaudeDecode(d, e) =
                Emit([d EXCEPT !.usage = MergeUsage(d.usage, e.usage)],
                     <<FinishChunk(OrStop(anthropicStopToOpenAI(e.stop)),
                                   MergeUsage(d.usage, e.usage))>>)
<1>1. e.type = "message_start" => ClaudeDecode(d, e) = Quiet([d EXCEPT !.usage = e.usage])
  BY DEF ClaudeDecode
<1>2. e.type = "tool_use_start" => ClaudeDecode(d, e) = NewCall(d, e.index, e.id, e.name)
  BY DEF ClaudeDecode
<1>3. e.type = "text_delta" => ClaudeDecode(d, e) = Emit(d, <<TextChunk(e.delta)>>)
  BY DEF ClaudeDecode
<1>4. e.type = "thinking_delta" => ClaudeDecode(d, e) = Emit(d, <<ReasoningChunk(e.delta)>>)
  BY DEF ClaudeDecode
<1>5. e.type = "input_json_delta" =>
        ClaudeDecode(d, e) = Emit(d, OneCall(ArgsOf(Get(d.toolIndex, e.index, 0), e.delta)))
  BY DEF ClaudeDecode
<1>6. e.type = "message_delta" =>
        ClaudeDecode(d, e) =
          Emit([d EXCEPT !.usage = MergeUsage(d.usage, e.usage)],
               <<FinishChunk(OrStop(anthropicStopToOpenAI(e.stop)),
                             MergeUsage(d.usage, e.usage))>>)
  BY DEF ClaudeDecode
<1> QED
  BY <1>1, <1>2, <1>3, <1>4, <1>5, <1>6

\* The Responses decoder, event by event.
LEMMA ResponsesDecodeOf ==
  ASSUME NEW d, NEW e
  PROVE  /\ e.type = "output_text.delta" =>
              ResponsesDecode(d, e) = Emit(d, <<TextChunk(e.delta)>>)
         /\ e.type = "reasoning_text.delta" =>
              ResponsesDecode(d, e) = Emit(d, <<ReasoningChunk(e.delta)>>)
         /\ e.type = "function_call.added" =>
              ResponsesDecode(d, e) = NewCall(d, e.item, e.id, e.name)
         /\ e.type = "function_call_arguments.delta" =>
              ResponsesDecode(d, e) =
                Emit(d, OneCall(ArgsOf(Get(d.toolIndex, e.item, 0), e.delta)))
         /\ e.type \in {"completed", "incomplete"} =>
              ResponsesDecode(d, e) = Emit(d, <<FinishChunk(CallsOrStop(d), e.usage)>>)
<1>1. e.type = "output_text.delta" => ResponsesDecode(d, e) = Emit(d, <<TextChunk(e.delta)>>)
  BY DEF ResponsesDecode
<1>2. e.type = "reasoning_text.delta" =>
        ResponsesDecode(d, e) = Emit(d, <<ReasoningChunk(e.delta)>>)
  BY DEF ResponsesDecode
<1>3. e.type = "function_call.added" => ResponsesDecode(d, e) = NewCall(d, e.item, e.id, e.name)
  BY DEF ResponsesDecode
<1>4. e.type = "function_call_arguments.delta" =>
        ResponsesDecode(d, e) = Emit(d, OneCall(ArgsOf(Get(d.toolIndex, e.item, 0), e.delta)))
  BY DEF ResponsesDecode
<1>5. e.type \in {"completed", "incomplete"} =>
        ResponsesDecode(d, e) = Emit(d, <<FinishChunk(CallsOrStop(d), e.usage)>>)
  BY DEF ResponsesDecode
<1> QED
  BY <1>1, <1>2, <1>3, <1>4, <1>5

\* The Kiro decoder, event by event.
LEMMA KiroDecodeOf ==
  ASSUME NEW d, NEW e
  PROVE  /\ e.type = "assistantResponseEvent" =>
              KiroDecode(d, e) = Emit(d, IfAny(e.content, TextChunk(e.content)))
         /\ e.type = "toolUseEvent" => KiroDecode(d, e) = KiroToolUse(d, e)
<1>1. e.type = "assistantResponseEvent" =>
        KiroDecode(d, e) = Emit(d, IfAny(e.content, TextChunk(e.content)))
  BY DEF KiroDecode
<1>2. e.type = "toolUseEvent" => KiroDecode(d, e) = KiroToolUse(d, e)
  BY DEF KiroDecode
<1> QED
  BY <1>1, <1>2

\* A decoder's state.
DecShape(d) ==
  d = [toolIndex |-> d.toolIndex, next |-> d.next, usage |-> d.usage] /\ d.next \in Nat

\* Only the decoder's state changes when a decoder is done: the message is carried
\* still.
LEMMA Decoding ==
  ASSUME NEW s, NEW m, Carried(s, m), NEW d
  PROVE  Carried([s EXCEPT !.dec = d], m) /\ [s EXCEPT !.dec = d].dec = d
<1>1. PICK x, p, e, v : s = [dec |-> x, pivot |-> p, enc |-> e, seen |-> v]
  BY DEF Carried
<1>2. PICK t : t = [s EXCEPT !.dec = d]
  OBVIOUS
<1>3. t = [dec |-> d, pivot |-> p, enc |-> e, seen |-> v]
  BY <1>1, <1>2
<1>4. /\ s.pivot = p /\ s.enc = e /\ s.seen = v
      /\ t.pivot = p /\ t.enc = e /\ t.seen = v /\ t.dec = d
      /\ t = [dec |-> t.dec, pivot |-> t.pivot, enc |-> t.enc, seen |-> t.seen]
  BY <1>1, <1>3
<1>5. client = "claude" => Tells(Sight(t), m)
  BY <1>4 DEF Carried, Sight
<1>6. client # "claude" => Gathered(t, m)
  BY <1>4 DEF Carried, Gathered
<1> QED
  BY <1>2, <1>4, <1>5, <1>6 DEF Carried

\* Translate, from what the decoder emits and what that delivers.
LEMMA Translated ==
  ASSUME NEW s, NEW m, Carried(s, m), NEW e, NEW d, NEW chunks, NEW n,
         Decode(format, s.dec, e) = Emit(d, chunks),
         Delivers([s EXCEPT !.dec = d], chunks, n)
  PROVE  Carried(Translate(s, e), n) /\ Translate(s, e).dec = d
<1>1. Translate(s, e) = Forward([s EXCEPT !.dec = d], chunks)
  BY DEF Translate, Emit
<1> QED
  BY <1>1, Decoding DEF Delivers

\* One element and nothing.
LEMMA Alone ==
  ASSUME NEW c
  PROVE  <<c>> \o <<>> = <<c>> /\ <<>> \o <<c>> = <<c>>
<1> DEFINE S == {c}
<1>1. <<c>> \in Seq(S)
  OBVIOUS
<1>2. PICK s : s = <<c>>
  OBVIOUS
<1>3. s \in Seq(S)
  BY <1>1, <1>2
<1> HIDE DEF S
<1>4. s \o <<>> = s /\ <<>> \o s = s
  BY <1>3
<1> QED
  BY <1>2, <1>4

\* Nothing of anything.
LEMMA NothingOf ==
  /\ \A chunk : IfAny(<<>>, chunk) = <<>>
  /\ <<>> \o <<>> = <<>>
  /\ Len(<<>>) = 0
  /\ DOMAIN <<>> = {}
BY DEF IfAny

\* A decoder that counts no calls does not change.
LEMMA Uncounted ==
  ASSUME NEW d, DecShape(d)
  PROVE  [d EXCEPT !.next = d.next + Len(<<>>)] = d
<1>1. d.next + Len(<<>>) = d.next
  BY DEF DecShape
<1>2. PICK t, n, u : d = [toolIndex |-> t, next |-> n, usage |-> u]
  BY DEF DecShape
<1>3. [d EXCEPT !.next = d.next] = d
  BY <1>2
<1> QED
  BY <1>1, <1>3

\* Every format has an event for text, and its decoder emits just that text.
LEMMA DecodeText ==
  ASSUME format \in Formats, NEW d, DecShape(d), NEW f \in Seq(Int), f # <<>>
  PROVE  \E e : TextEvents(f) = <<e>> /\ Decode(format, d, e) = Emit(d, <<TextChunk(f)>>)
<1>0. \A chunk : IfAny(f, chunk) = <<chunk>>
  BY DEF IfAny
<1>1. CASE format = "openai"
  <2>1. TextEvents(f) = <<TextChunk(f)>>
    BY <1>1 DEF TextEvents
  <2> QED
    BY <1>1, <2>1, DecodeOf
<1>2. CASE format = "claude"
  <2> DEFINE e == [type |-> "text_delta", delta |-> f]
  <2>1. TextEvents(f) = <<e>>
    BY <1>2 DEF TextEvents
  <2>2. Decode(format, d, e) = Emit(d, <<TextChunk(f)>>)
    <3>1. e.type = "text_delta" /\ e.delta = f
      OBVIOUS
    <3> HIDE DEF e
    <3> QED
      <4>1. Decode(format, d, e) = ClaudeDecode(d, e)
        BY <1>2, DecodeOf
      <4> QED
        BY <3>1, <4>1, ClaudeDecodeOf
  <2> QED
    BY <2>1, <2>2
<1>3. CASE format = "responses"
  <2> DEFINE e == [type |-> "output_text.delta", delta |-> f]
  <2>1. TextEvents(f) = <<e>>
    BY <1>3 DEF TextEvents
  <2>2. Decode(format, d, e) = Emit(d, <<TextChunk(f)>>)
    <3>1. e.type = "output_text.delta" /\ e.delta = f
      OBVIOUS
    <3> HIDE DEF e
    <3> QED
      <4>1. Decode(format, d, e) = ResponsesDecode(d, e)
        BY <1>3, DecodeOf
      <4> QED
        BY <3>1, <4>1, ResponsesDecodeOf
  <2> QED
    BY <2>1, <2>2
<1>4. CASE format = "kiro"
  <2> DEFINE e == [type |-> "assistantResponseEvent", content |-> f]
  <2>1. TextEvents(f) = <<e>>
    BY <1>4 DEF TextEvents
  <2>2. Decode(format, d, e) = Emit(d, <<TextChunk(f)>>)
    <3>1. e.type = "assistantResponseEvent" /\ e.content = f
      OBVIOUS
    <3> HIDE DEF e
    <3> QED
      BY <1>0, <1>4, <3>1, DecodeOf, KiroDecodeOf
  <2> QED
    BY <2>1, <2>2
<1>5. CASE format = "ollama"
  <2> DEFINE e == Object(f, <<>>, "no", NoUsage)
  <2>1. TextEvents(f) = <<e>>
    BY <1>5 DEF TextEvents
  <2>2. Decode(format, d, e) = Emit(d, <<TextChunk(f)>>)
    <3>1. e.text = f /\ e.calls = <<>> /\ e.done = "no"
      BY DEF Object
    <3> HIDE DEF e
    <3>2. OllamaDecode(d, e) = Emit(d, <<>> \o <<TextChunk(f)>> \o <<>>)
      BY <1>0, <3>1, NothingOf, Uncounted DEF OllamaDecode
    <3> QED
      BY <1>5, <3>2, DecodeOf, Alone
  <2> QED
    BY <2>1, <2>2
<1>6. CASE format = "cursor"
  <2> DEFINE e == Object(f, <<>>, "no", NoUsage)
  <2>1. TextEvents(f) = <<e>>
    BY <1>6 DEF TextEvents
  <2>2. Decode(format, d, e) = Emit(d, <<TextChunk(f)>>)
    <3>1. e.text = f /\ e.calls = <<>> /\ e.done = "no"
      BY DEF Object
    <3> HIDE DEF e
    <3>2. [i \in DOMAIN e.calls |->
             CallsChunk(<<Call(d.next, e.calls[i].id, e.calls[i].name, e.calls[i].args)>>)] = <<>>
      BY <3>1
    <3>3. CursorDecode(d, e) = Emit(d, <<TextChunk(f)>> \o <<>> \o <<>>)
      BY <1>0, <3>1, <3>2, NothingOf, Uncounted DEF CursorDecode
    <3> QED
      BY <1>6, <3>3, DecodeOf, Alone
  <2> QED
    BY <2>1, <2>2
<1>7. CASE format = "gemini"
  <2> DEFINE e == Candidate(f, <<>>, <<>>, NoFinish, NoUsage)
  <2>1. TextEvents(f) = <<e>>
    BY <1>7 DEF TextEvents
  <2>2. Decode(format, d, e) = Emit(d, <<TextChunk(f)>>)
    <3>1. e.text = f /\ e.reasoning = <<>> /\ e.calls = <<>> /\ e.finishReason = NoFinish
      BY DEF Candidate
    <3> HIDE DEF e
    <3>2. [i \in DOMAIN e.calls |->
             CallsChunk(<<Call(d.next + i - 1, e.calls[i].name, e.calls[i].name,
                               e.calls[i].args)>>)] = <<>>
      BY <3>1
    <3>3. GeminiDecode(d, e) = Emit(d, <<>> \o <<>> \o <<TextChunk(f)>> \o <<>>)
      BY <1>0, <3>1, <3>2, NothingOf, Uncounted DEF GeminiDecode
    <3> QED
      BY <1>7, <3>3, NothingOf, DecodeOf, Alone
  <2> QED
    BY <2>1, <2>2
<1>8. CASE format \in {"perplexity", "grok"}
  <2> DEFINE e == [token |-> f, message |-> <<>>]
  <2>1. TextEvents(f) = <<e>>
    BY <1>8 DEF TextEvents
  <2>2. Decode(format, d, e) = Emit(d, <<TextChunk(f)>>)
    <3>1. e.token = f
      OBVIOUS
    <3> HIDE DEF e
    <3>2. WebDecode(d, e) = Emit(d, <<TextChunk(f)>>)
      BY <1>0, <3>1 DEF WebDecode
    <3> QED
      BY <1>8, <3>2, DecodeOf
  <2> QED
    BY <2>1, <2>2
<1> QED
  BY <1>1, <1>2, <1>3, <1>4, <1>5, <1>6, <1>7, <1>8 DEF Formats

\* Every format with reasoning has an event for it, and its decoder emits just that.
LEMMA DecodeReasoning ==
  ASSUME format \in Reasoning, NEW d, DecShape(d), NEW f \in Seq(Int), f # <<>>
  PROVE  \E e : /\ ReasoningEvents(f) = <<e>>
                /\ Decode(format, d, e) = Emit(d, <<ReasoningChunk(f)>>)
<1>0. \A chunk : IfAny(f, chunk) = <<chunk>>
  BY DEF IfAny
<1>1. CASE format = "openai"
  <2>1. ReasoningEvents(f) = <<ReasoningChunk(f)>>
    BY <1>1 DEF ReasoningEvents
  <2> QED
    BY <1>1, <2>1, DecodeOf
<1>2. CASE format = "claude"
  <2> DEFINE e == [type |-> "thinking_delta", delta |-> f]
  <2>1. ReasoningEvents(f) = <<e>>
    BY <1>2 DEF ReasoningEvents
  <2>2. Decode(format, d, e) = Emit(d, <<ReasoningChunk(f)>>)
    <3>1. e.type = "thinking_delta" /\ e.delta = f
      OBVIOUS
    <3> HIDE DEF e
    <3> QED
      <4>1. Decode(format, d, e) = ClaudeDecode(d, e)
        BY <1>2, DecodeOf
      <4> QED
        BY <3>1, <4>1, ClaudeDecodeOf
  <2> QED
    BY <2>1, <2>2
<1>3. CASE format = "responses"
  <2> DEFINE e == [type |-> "reasoning_text.delta", delta |-> f]
  <2>1. ReasoningEvents(f) = <<e>>
    BY <1>3 DEF ReasoningEvents
  <2>2. Decode(format, d, e) = Emit(d, <<ReasoningChunk(f)>>)
    <3>1. e.type = "reasoning_text.delta" /\ e.delta = f
      OBVIOUS
    <3> HIDE DEF e
    <3> QED
      <4>1. Decode(format, d, e) = ResponsesDecode(d, e)
        BY <1>3, DecodeOf
      <4> QED
        BY <3>1, <4>1, ResponsesDecodeOf
  <2> QED
    BY <2>1, <2>2
<1>4. CASE format = "gemini"
  <2> DEFINE e == Candidate(<<>>, f, <<>>, NoFinish, NoUsage)
  <2>1. ReasoningEvents(f) = <<e>>
    BY <1>4 DEF ReasoningEvents
  <2>2. Decode(format, d, e) = Emit(d, <<ReasoningChunk(f)>>)
    <3>1. e.text = <<>> /\ e.reasoning = f /\ e.calls = <<>> /\ e.finishReason = NoFinish
      BY DEF Candidate
    <3> HIDE DEF e
    <3>2. [i \in DOMAIN e.calls |->
             CallsChunk(<<Call(d.next + i - 1, e.calls[i].name, e.calls[i].name,
                               e.calls[i].args)>>)] = <<>>
      BY <3>1
    <3>3. GeminiDecode(d, e) = Emit(d, <<>> \o <<ReasoningChunk(f)>> \o <<>> \o <<>>)
      BY <1>0, <3>1, <3>2, NothingOf, Uncounted DEF GeminiDecode
    <3> QED
      BY <1>4, <3>3, DecodeOf, Alone
  <2> QED
    BY <2>1, <2>2
<1> QED
  BY <1>1, <1>2, <1>3, <1>4 DEF Reasoning

\* The decoder after a call has begun.
WithCall(d, key, k) ==
  [toolIndex |-> Put(d.toolIndex, key, k - 1), next |-> k, usage |-> d.usage]

\* Its fields changed.
Indexed(d, put, k) == [d EXCEPT !.toolIndex = put, !.next = k]
Counted(d, k)      == [d EXCEPT !.next = k]
Charged(d, used)   == [d EXCEPT !.usage = used]

\* A decoder's state with a field changed, field by field.
LEMMA DecoderChanged ==
  ASSUME NEW d, DecShape(d), NEW put, NEW k
  PROVE  /\ Indexed(d, put, k) = [toolIndex |-> put, next |-> k, usage |-> d.usage]
         /\ Counted(d, k) = [toolIndex |-> d.toolIndex, next |-> k, usage |-> d.usage]
         /\ Charged(d, k) = [toolIndex |-> d.toolIndex, next |-> d.next, usage |-> k]
<1>1. PICK t, n, u : d = [toolIndex |-> t, next |-> n, usage |-> u]
  BY DEF DecShape
<1>2. d.toolIndex = t /\ d.next = n /\ d.usage = u
  BY <1>1
<1>3. PICK e : e = [d EXCEPT !.toolIndex = put]
  OBVIOUS
<1>4. e = [toolIndex |-> put, next |-> n, usage |-> u]
  BY <1>1, <1>3
<1>5. [e EXCEPT !.next = k] = [toolIndex |-> put, next |-> k, usage |-> u]
  BY <1>4
<1>6. [d EXCEPT !.toolIndex = put, !.next = k] = [e EXCEPT !.next = k]
  BY <1>3
<1>7. [d EXCEPT !.next = k] = [toolIndex |-> t, next |-> k, usage |-> u]
  BY <1>1
<1>8. [d EXCEPT !.usage = k] = [toolIndex |-> t, next |-> n, usage |-> k]
  BY <1>1
<1> QED
  BY <1>2, <1>5, <1>6, <1>7, <1>8 DEF Indexed, Counted, Charged

\* newToolCall: the k-th call to begin gets the index k - 1.
LEMMA Numbered ==
  ASSUME NEW d, DecShape(d), NEW k \in Nat \ {0}, d.next = k - 1, NEW key, NEW id, NEW name
  PROVE  NewCall(d, key, id, name) =
           Emit(WithCall(d, key, k), <<CallsChunk(<<Call(k - 1, id, name, <<>>)>>)>>)
<1>1. PICK t, n, u : d = [toolIndex |-> t, next |-> n, usage |-> u]
  BY DEF DecShape
<1>2. PICK put : put = Put(t, key, k - 1)
  OBVIOUS
<1>3. Indexed(d, put, k) = [toolIndex |-> put, next |-> k, usage |-> d.usage]
  BY DecoderChanged
<1>4. d.toolIndex = t /\ d.usage = u /\ d.next + 1 = k
  BY <1>1
<1> QED
  BY <1>2, <1>3, <1>4 DEF NewCall, WithCall, OneCall, Indexed

\* The event that begins the k-th call becomes a fragment with the index k - 1, and
\* the decoder remembers the call under the format's key.
LEMMA DecodeCall ==
  ASSUME format \in Fragmenting, NEW d, DecShape(d), NEW k \in Nat \ {0}, NEW block,
         format # "openai" => d.next = k - 1,
         format = "kiro" => k \notin DOMAIN d.toolIndex
  PROVE  \E e : /\ CallEvents(k, block) = <<e>>
                /\ Decode(format, d, e) =
                     Emit(IF format = "openai" THEN d
                          ELSE WithCall(d, IF format = "claude" THEN block ELSE k, k),
                          <<CallsChunk(<<Call(k - 1, k, k, <<>>)>>)>>)
<1>1. CASE format = "openai"
  <2>1. CallEvents(k, block) = <<CallsChunk(<<Call(k - 1, k, k, <<>>)>>)>>
    BY <1>1 DEF CallEvents
  <2> QED
    BY <1>1, <2>1, DecodeOf
<1>2. CASE format = "claude"
  <2> DEFINE e == [type |-> "tool_use_start", index |-> block, id |-> k, name |-> k]
  <2>1. CallEvents(k, block) = <<e>>
    BY <1>2 DEF CallEvents
  <2>2. Decode(format, d, e) =
          Emit(WithCall(d, block, k), <<CallsChunk(<<Call(k - 1, k, k, <<>>)>>)>>)
    <3>1. e.type = "tool_use_start" /\ e.index = block /\ e.id = k /\ e.name = k
      OBVIOUS
    <3> HIDE DEF e
    <3>2. Decode(format, d, e) = NewCall(d, block, k, k)
      <4>1. Decode(format, d, e) = ClaudeDecode(d, e)
        BY <1>2, DecodeOf
      <4> QED
        BY <3>1, <4>1, ClaudeDecodeOf
    <3> QED
      BY <1>2, <3>2, Numbered
  <2> QED
    BY <1>2, <2>1, <2>2
<1>3. CASE format = "responses"
  <2> DEFINE e == [type |-> "function_call.added", item |-> k, id |-> k, name |-> k]
  <2>1. CallEvents(k, block) = <<e>>
    BY <1>3 DEF CallEvents
  <2>2. Decode(format, d, e) =
          Emit(WithCall(d, k, k), <<CallsChunk(<<Call(k - 1, k, k, <<>>)>>)>>)
    <3>1. e.type = "function_call.added" /\ e.item = k /\ e.id = k /\ e.name = k
      OBVIOUS
    <3> HIDE DEF e
    <3>2. Decode(format, d, e) = NewCall(d, k, k, k)
      <4>1. Decode(format, d, e) = ResponsesDecode(d, e)
        BY <1>3, DecodeOf
      <4> QED
        BY <3>1, <4>1, ResponsesDecodeOf
    <3> QED
      BY <1>3, <3>2, Numbered
  <2> QED
    BY <1>3, <2>1, <2>2
<1>4. CASE format = "kiro"
  <2> DEFINE e == [type |-> "toolUseEvent", id |-> k, name |-> k, input |-> <<>>]
  <2>1. CallEvents(k, block) = <<e>>
    BY <1>4 DEF CallEvents
  <2>2. Decode(format, d, e) =
          Emit(WithCall(d, k, k), <<CallsChunk(<<Call(k - 1, k, k, <<>>)>>)>>)
    <3>1. e.type = "toolUseEvent" /\ e.id = k /\ e.name = k /\ e.input = <<>>
      OBVIOUS
    <3> HIDE DEF e
    <3>2. Decode(format, d, e) = KiroToolUse(d, e)
      <4>1. Decode(format, d, e) = KiroDecode(d, e)
        BY <1>4, DecodeOf
      <4> QED
        BY <3>1, <4>1, KiroDecodeOf
    <3>3. PICK t, c : t = WithCall(d, k, k) /\ c = <<CallsChunk(<<Call(k - 1, k, k, <<>>)>>)>>
      OBVIOUS
    <3>4. NewCall(d, k, k, k) = Emit(t, c)
      BY <1>4, <3>3, Numbered
    <3>5. KiroToolUse(d, e) = Emit(t, c \o <<>>)
      <4>1. KiroToolUse(d, e) =
              Emit(Emit(t, c).state,
                   Emit(t, c).chunks
                     \o IfAny(<<>>, CallsChunk(<<ArgsOf(Emit(t, c).state.toolIndex[k], <<>>)>>)))
        BY <1>4, <3>1, <3>4 DEF KiroToolUse
      <4>2. Emit(t, c).state = t /\ Emit(t, c).chunks = c
        BY DEF Emit
      <4> QED
        BY <4>1, <4>2, NothingOf
    <3>6. c \o <<>> = c
      BY <3>3, Alone
    <3> QED
      BY <3>2, <3>3, <3>5, <3>6
  <2> QED
    BY <1>4, <2>1, <2>2
<1> QED
  BY <1>1, <1>2, <1>3, <1>4 DEF Fragmenting

\* A fragment for the k-th call; x stands for the id and the name it does not repeat.
MoreArgs(k, x, f) == <<CallsChunk(<<Call(k - 1, x, x, f)>>)>>

\* Does the decoder know the k-th call?
Knows(d, k, block) ==
  /\ format = "claude" => block \in DOMAIN d.toolIndex /\ d.toolIndex[block] = k - 1
  /\ format \in {"responses", "kiro"} => k \in DOMAIN d.toolIndex /\ d.toolIndex[k] = k - 1

\* The arguments of a call the decoder knows become a fragment with that call's
\* index.
LEMMA DecodeArgs ==
  ASSUME format \in Fragmenting, NEW d, DecShape(d), NEW k \in Nat \ {0}, NEW block,
         NEW f \in Seq(Int), f # <<>>, Knows(d, k, block)
  PROVE  \E e : /\ ArgsEvents(k, block, f) = <<e>>
                /\ \/ Decode(format, d, e) = Emit(d, MoreArgs(k, Missing, f))
                   \/ Decode(format, d, e) = Emit(d, MoreArgs(k, Absent, f))
<1>0. /\ format = "claude" => block \in DOMAIN d.toolIndex /\ d.toolIndex[block] = k - 1
      /\ format \in {"responses", "kiro"} => k \in DOMAIN d.toolIndex /\ d.toolIndex[k] = k - 1
  BY DEF Knows
<1>1. CASE format = "openai"
  <2>1. ArgsEvents(k, block, f) = <<CallsChunk(<<Call(k - 1, Absent, Absent, f)>>)>>
    BY <1>1 DEF ArgsEvents
  <2> QED
    BY <1>1, <2>1, DecodeOf DEF MoreArgs
<1>2. CASE format = "claude"
  <2> DEFINE e == [type |-> "input_json_delta", index |-> block, delta |-> f]
  <2>1. ArgsEvents(k, block, f) = <<e>>
    BY <1>2 DEF ArgsEvents
  <2>2. Decode(format, d, e) = Emit(d, <<CallsChunk(<<Call(k - 1, Missing, Missing, f)>>)>>)
    <3>1. e.type = "input_json_delta" /\ e.index = block /\ e.delta = f
      OBVIOUS
    <3> HIDE DEF e
    <3>2. Decode(format, d, e) = Emit(d, OneCall(ArgsOf(Get(d.toolIndex, block, 0), f)))
      <4>1. Decode(format, d, e) = ClaudeDecode(d, e)
        BY <1>2, DecodeOf
      <4> QED
        BY <3>1, <4>1, ClaudeDecodeOf
    <3> QED
      BY <1>0, <1>2, <3>2 DEF OneCall, ArgsOf, Get
  <2> QED
    BY <2>1, <2>2 DEF MoreArgs
<1>3. CASE format = "responses"
  <2> DEFINE e == [type |-> "function_call_arguments.delta", item |-> k, delta |-> f]
  <2>1. ArgsEvents(k, block, f) = <<e>>
    BY <1>3 DEF ArgsEvents
  <2>2. Decode(format, d, e) = Emit(d, <<CallsChunk(<<Call(k - 1, Missing, Missing, f)>>)>>)
    <3>1. e.type = "function_call_arguments.delta" /\ e.item = k /\ e.delta = f
      OBVIOUS
    <3> HIDE DEF e
    <3>2. Decode(format, d, e) = Emit(d, OneCall(ArgsOf(Get(d.toolIndex, k, 0), f)))
      <4>1. Decode(format, d, e) = ResponsesDecode(d, e)
        BY <1>3, DecodeOf
      <4> QED
        BY <3>1, <4>1, ResponsesDecodeOf
    <3> QED
      BY <1>0, <1>3, <3>2 DEF OneCall, ArgsOf, Get
  <2> QED
    BY <2>1, <2>2 DEF MoreArgs
<1>4. CASE format = "kiro"
  <2> DEFINE e == [type |-> "toolUseEvent", id |-> k, name |-> k, input |-> f]
  <2>1. ArgsEvents(k, block, f) = <<e>>
    BY <1>4 DEF ArgsEvents
  <2>2. Decode(format, d, e) = Emit(d, <<CallsChunk(<<Call(k - 1, Missing, Missing, f)>>)>>)
    <3>1. e.type = "toolUseEvent" /\ e.id = k /\ e.name = k /\ e.input = f
      OBVIOUS
    <3> HIDE DEF e
    <3>2. Decode(format, d, e) = KiroToolUse(d, e)
      <4>1. Decode(format, d, e) = KiroDecode(d, e)
        BY <1>4, DecodeOf
      <4> QED
        BY <3>1, <4>1, KiroDecodeOf
    <3>3. PICK c : c = CallsChunk(<<Call(k - 1, Missing, Missing, f)>>)
      OBVIOUS
    <3>4. IfAny(f, CallsChunk(<<ArgsOf(d.toolIndex[k], f)>>)) = <<c>>
      BY <1>0, <1>4, <3>3 DEF IfAny, ArgsOf
    <3>5. KiroToolUse(d, e) = Emit(d, <<>> \o <<c>>)
      BY <1>0, <1>4, <3>1, <3>4 DEF KiroToolUse, Emit, Quiet
    <3> QED
      BY <3>2, <3>3, <3>5, Alone
  <2> QED
    BY <2>1, <2>2 DEF MoreArgs
<1> QED
  BY <1>1, <1>2, <1>3, <1>4 DEF Fragmenting

-----------------------------------------------------------------------------
(* The events of a step *)

Relaying == INSTANCE FoldLaws WITH op <- Translate

Relayed(s, events) == FoldLeft(Translate, s, events)

\* Relay is the fold the laws are about.
LEMMA RelayingFold ==
  \A s, events : Relaying!FoldLeft(Translate, s, events) = Relayed(s, events)
BY DEF Relayed, Relaying!FoldLeft, FoldLeft, Relaying!MapThenFoldSet, MapThenFoldSet,
       Relaying!Max, Max

\* No events change nothing.
LEMMA RelayNone == ASSUME NEW s PROVE Relayed(s, <<>>) = s
BY Relaying!FoldEmpty, RelayingFold

\* One event.
LEMMA RelayOne == ASSUME NEW s, NEW e PROVE Relayed(s, <<e>>) = Translate(s, e)
BY Relaying!FoldOne, RelayingFold

\* Two events, one after the other.
LEMMA RelayTwo ==
  ASSUME NEW s, NEW a, NEW b
  PROVE  Relayed(s, <<a, b>>) = Translate(Translate(s, a), b)
<1>1. PICK q : q = <<a, b>>
  OBVIOUS
<1>2. DOMAIN q = 1 .. 2 /\ q[1] = a /\ q[2] = b
  BY <1>1
<1>3. Relayed(s, q) = Translate(Translate(s, q[1]), q[2])
  BY <1>2, Relaying!FoldTwo, RelayingFold
<1> QED
  BY <1>1, <1>2, <1>3

\* What message_start says, and what message_delta adds.
AtStart == [prompt |-> 3, completion |-> 0]

\* The token counts of the events: what message_start and message_delta say, merged,
\* is what the provider counted.
LEMMA TokensAre ==
  /\ Tokens = [prompt |-> 3, completion |-> 5]
  /\ [Tokens EXCEPT !.completion = 0] = AtStart
  /\ [Tokens EXCEPT !.prompt = 0] = [prompt |-> 0, completion |-> 5]
  /\ MergeUsage(AtStart, [prompt |-> 0, completion |-> 5]) = Tokens
  /\ Tokens \in Usages /\ NoUsage \in Usages /\ Tokens # NoUsage
<1>1. /\ Tokens = [prompt |-> 3, completion |-> 5]
      /\ [Tokens EXCEPT !.completion = 0] = AtStart
      /\ [Tokens EXCEPT !.prompt = 0] = [prompt |-> 0, completion |-> 5]
  BY DEF Tokens, AtStart
<1>2. NoUsage = [prompt |-> 0, completion |-> 0]
  BY DEF NoUsage, Missing
<1>3. PICK x, y : x = AtStart /\ y = [prompt |-> 0, completion |-> 5]
  OBVIOUS
<1>4. x # NoUsage /\ y # NoUsage /\ y.completion = 5
  <2>1. x.prompt = 3 /\ y.completion = 5 /\ NoUsage.prompt = 0 /\ NoUsage.completion = 0
    BY <1>2, <1>3 DEF AtStart
  <2> QED
    BY <2>1
<1>5. MergeUsage(x, y) = [x EXCEPT !.completion = y.completion]
  BY <1>4 DEF MergeUsage
<1>6. [x EXCEPT !.completion = 5] = [prompt |-> 3, completion |-> 5]
  BY <1>3 DEF AtStart
<1>7. Tokens # NoUsage
  <2>1. Tokens.prompt = 3 /\ NoUsage.prompt = 0
    BY <1>1, <1>2
  <2> QED
    BY <2>1
<1>8. Tokens \in Usages /\ NoUsage \in Usages
  BY <1>1, <1>2 DEF Usages
<1> QED
  BY <1>1, <1>3, <1>4, <1>5, <1>6, <1>7, <1>8

\* A Claude stream begins with message_start, another one with nothing.
LEMMA OpeningIs ==
  /\ format = "claude" /\ wire.sent = 0 =>
       Opening = <<[type |-> "message_start", usage |-> AtStart]>>
  /\ ~(format = "claude" /\ wire.sent = 0) => Opening = <<>>
BY TokensAre DEF Opening

\* message_start tells the decoder the usage, and the client nothing.
LEMMA DecodeStart ==
  ASSUME format = "claude", NEW d, NEW used
  PROVE  Decode(format, d, [type |-> "message_start", usage |-> used])
           = Emit(Charged(d, used), <<>>)
<1>1. PICK e : e = [type |-> "message_start", usage |-> used]
  OBVIOUS
<1>2. e.type = "message_start" /\ e.usage = used
  BY <1>1
<1>3. Decode(format, d, e) = ClaudeDecode(d, e)
  BY DecodeOf
<1>4. ClaudeDecode(d, e) = Quiet([d EXCEPT !.usage = used])
  BY <1>2, ClaudeDecodeOf
<1> QED
  BY <1>1, <1>3, <1>4 DEF Quiet, Charged

\* The first event of a Claude stream changes nothing but the usage.
LEMMA Opened ==
  ASSUME NEW s, NEW m, Carried(s, m), DecShape(s.dec), NEW e
  PROVE  \E b : /\ Carried(b, m)
                /\ b.dec = IF Opening = <<>> THEN s.dec ELSE Charged(s.dec, AtStart)
                /\ DecShape(b.dec)
                /\ Relayed(s, Opening \o <<e>>) = Translate(b, e)
<1>1. CASE format = "claude" /\ wire.sent = 0
  <2>1. PICK o : o = [type |-> "message_start", usage |-> AtStart]
    OBVIOUS
  <2>2. Opening = <<o>>
    BY <1>1, <2>1, OpeningIs
  <2>3. Opening \o <<e>> = <<o, e>>
    BY <2>2, Joined
  <2>4. PICK b : b = Translate(s, o)
    OBVIOUS
  <2>5. Decode(format, s.dec, o) = Emit(Charged(s.dec, AtStart), <<>>)
    BY <1>1, <2>1, DecodeStart
  <2>6. PICK d : d = Charged(s.dec, AtStart)
    OBVIOUS
  <2>7. Delivers([s EXCEPT !.dec = d], <<>>, m)
    BY Decoding, DeliverNone
  <2>8. Carried(b, m) /\ b.dec = d
    BY <2>4, <2>5, <2>6, <2>7, Translated
  <2>9. DecShape(d)
    BY <2>6, DecoderChanged DEF DecShape
  <2>10. Opening # <<>>
    BY <2>2
  <2>11. Relayed(s, Opening \o <<e>>) = Translate(b, e)
    <3>1. Relayed(s, <<o, e>>) = Translate(b, e)
      BY <2>4, RelayTwo
    <3>2. PICK q : q = <<o, e>>
      OBVIOUS
    <3> QED
      BY <2>3, <3>1, <3>2
  <2>12. b.dec = IF Opening = <<>> THEN s.dec ELSE Charged(s.dec, AtStart)
    BY <2>6, <2>8, <2>10
  <2>13. DecShape(b.dec)
    BY <2>8, <2>9
  <2> HIDE <2>6
  <2> QED
    BY <2>8, <2>11, <2>12, <2>13
<1>2. CASE ~(format = "claude" /\ wire.sent = 0)
  <2>1. Opening = <<>>
    BY <1>2, OpeningIs
  <2>2. Opening \o <<e>> = <<e>>
    BY <2>1, Alone
  <2> QED
    BY <2>1, <2>2, RelayOne
<1> QED
  BY <1>1, <1>2

\* The usage chunk that an OpenAI provider sends by itself.
LateUsage == [Chunk EXCEPT !.choices = "none", !.usage = Tokens]

\* The usage chunk openai sends by itself, field by field.
LEMMA LateUsageIs ==
  LateUsage \in Chunks /\ LateUsage.choices = "none" /\ LateUsage.usage = Tokens
<1>1. PICK c : c = [Chunk EXCEPT !.choices = "none"]
  OBVIOUS
<1>2. c \in Chunks /\ c.choices = "none"
  BY <1>1, ChunkTyped DEF Chunks
<1>3. PICK d : d = [c EXCEPT !.usage = Tokens]
  OBVIOUS
<1>4. d \in Chunks /\ d.choices = "none" /\ d.usage = Tokens
  BY <1>2, <1>3, TokensAre DEF Chunks
<1>5. LateUsage = d
  BY <1>1, <1>3 DEF LateUsage
<1> QED
  BY <1>4, <1>5

\* A chunk without choices leaves the Claude encoder as it was, and writes nothing.
LEMMA UsageOnly ==
  ASSUME NEW p, NEW c, c.choices = "none",
         p = [text |-> p.text, reasoning |-> p.reasoning, toolsByIndex |-> p.toolsByIndex,
              finish |-> p.finish, usage |-> p.usage]
  PROVE  \E u : AddChunk(p, c) = [text |-> p.text, reasoning |-> p.reasoning,
                                 toolsByIndex |-> p.toolsByIndex, finish |-> p.finish,
                                 usage |-> u]
<1>1. PICK t, r, x, f, u :
        p = [text |-> t, reasoning |-> r, toolsByIndex |-> x, finish |-> f, usage |-> u]
  OBVIOUS
<1>2. PICK y : y = IF c.usage # NoUsage THEN c.usage ELSE p.usage
  OBVIOUS
<1>3. AddChunk(p, c) = [p EXCEPT !.usage = y]
  BY <1>2 DEF AddChunk
<1>4. [p EXCEPT !.usage = y] =
        [text |-> t, reasoning |-> r, toolsByIndex |-> x, finish |-> f, usage |-> y]
  BY <1>1
<1>5. p.text = t /\ p.reasoning = r /\ p.toolsByIndex = x /\ p.finish = f
  BY <1>1
<1> QED
  BY <1>3, <1>4, <1>5

\* The usage chunk on its way changes nothing of what was carried.
LEMMA PassLateUsage ==
  ASSUME NEW s, NEW m, Carried(s, m)
  PROVE  Carried(Pass(s, LateUsage), m) /\ Pass(s, LateUsage).dec = s.dec
<1>1. PICK c : c = LateUsage
  OBVIOUS
<1>2. c.choices = "none"
  BY <1>1, LateUsageIs
<1>3. Encode(s.enc, c) = Written(s.enc, <<>>)
  BY <1>2 DEF Encode, ClaudeEncode, GeminiEncode
<1>4. Encode(s.enc, c).state = s.enc /\ Encode(s.enc, c).events = <<>>
  BY <1>3 DEF Written
<1>5. PICK t : t = Pass(s, c)
  OBVIOUS
<1>6. t = [dec |-> s.dec, pivot |-> AddChunk(s.pivot, c), enc |-> s.enc,
           seen |-> ReadAll(s.seen, <<>>)]
  BY <1>4, <1>5, PassShape DEF Carried
<1>7. PICK u : AddChunk(s.pivot, c) = [text |-> s.pivot.text, reasoning |-> s.pivot.reasoning,
                                       toolsByIndex |-> s.pivot.toolsByIndex,
                                       finish |-> s.pivot.finish, usage |-> u]
  <2>1. PICK p : p = s.pivot
    OBVIOUS
  <2>2. PICK x, f, v : p = [text |-> m.text, reasoning |-> m.reasoning, toolsByIndex |-> x,
                            finish |-> f, usage |-> v]
    BY <2>1 DEF Carried
  <2>3. p = [text |-> p.text, reasoning |-> p.reasoning, toolsByIndex |-> p.toolsByIndex,
             finish |-> p.finish, usage |-> p.usage]
    BY <2>2
  <2> QED
    BY <1>2, <2>1, <2>3, UsageOnly
<1>8. /\ s.pivot.text = m.text /\ s.pivot.reasoning = m.reasoning
      /\ s.pivot.toolsByIndex = ByIndex(m.calls)
  <2>1. PICK x, f, v : s.pivot = [text |-> m.text, reasoning |-> m.reasoning, toolsByIndex |-> x,
                                  finish |-> f, usage |-> v] /\ x = ByIndex(m.calls)
    BY DEF Carried
  <2> QED
    BY <2>1
<1>9. t.pivot = [text |-> m.text, reasoning |-> m.reasoning, toolsByIndex |-> ByIndex(m.calls),
                 finish |-> t.pivot.finish, usage |-> t.pivot.usage]
  <2>1. PICK q : q = t.pivot
    OBVIOUS
  <2>2. q = [text |-> m.text, reasoning |-> m.reasoning, toolsByIndex |-> ByIndex(m.calls),
             finish |-> s.pivot.finish, usage |-> u]
    BY <1>6, <1>7, <1>8, <2>1
  <2>3. q.finish = s.pivot.finish /\ q.usage = u
    BY <2>2
  <2> QED
    BY <2>1, <2>2, <2>3
<1>10. ReadAll(s.seen, <<>>) = s.seen
  BY ReadNone, ReadCandidate DEF ReadAll, ClaudeReads, GeminiReads
<1>11. /\ t = [dec |-> t.dec, pivot |-> t.pivot, enc |-> t.enc, seen |-> t.seen]
       /\ t.dec = s.dec /\ t.enc = s.enc /\ t.seen = s.seen
  BY <1>6, <1>10
<1>12. client = "claude" => Tells(Sight(t), m)
  BY <1>11 DEF Carried, Sight
<1>13. client # "claude" => Gathered(t, m)
  BY <1>11 DEF Carried, Gathered
<1>14. Carried(t, m)
  BY <1>9, <1>11, <1>12, <1>13 DEF Carried
<1> QED
  BY <1>1, <1>5, <1>11, <1>14

\* The usage chunk leaves the end of the answer as it was.
LEMMA TranslateLateUsage ==
  ASSUME format = "openai", NEW s, NEW m, Carried(s, m)
  PROVE  Carried(Translate(s, LateUsage), m) /\ Translate(s, LateUsage).dec = s.dec
<1>1. Decode(format, s.dec, LateUsage) = Emit(s.dec, <<LateUsage>>)
  BY DecodeOf
<1>2. PICK b : b = [s EXCEPT !.dec = s.dec]
  OBVIOUS
<1>3. Carried(b, m)
  BY <1>2, Decoding
<1>4. Delivers(b, <<LateUsage>>, m)
  BY <1>3, LateUsageIs, PassLateUsage, DeliverOne
<1> QED
  BY <1>1, <1>2, <1>4, Translated
-----------------------------------------------------------------------------
(* Objects and candidates: whole calls, words and an end in one event *)

\* A message with its fields.
Message(t, r, c, f, u, p) ==
  [text |-> t, reasoning |-> r, calls |-> c, finish |-> f, usage |-> u, resumed |-> p]

\* A message with its text or its calls changed, by its fields.
LEMMA MessageFields ==
  ASSUME NEW t, NEW r, NEW c, NEW f, NEW u, NEW p, NEW x
  PROVE  /\ WithText(Message(t, r, c, f, u, p), x) = Message(t \o x, r, c, f, u, p)
         /\ WithCalls(Message(t, r, c, f, u, p), x) = Message(t, r, x, f, u, p)
<1>1. PICK m : m = Message(t, r, c, f, u, p)
  OBVIOUS
<1>2. m = [text |-> t, reasoning |-> r, calls |-> c, finish |-> f, usage |-> u, resumed |-> p]
  BY <1>1 DEF Message
<1>3. PICK y : y = t \o x
  OBVIOUS
<1>4. m.text = t
  BY <1>2
<1>5. WithText(m, x) = [m EXCEPT !.text = y]
  BY <1>3, <1>4 DEF WithText
<1>6. [m EXCEPT !.text = y] = Message(y, r, c, f, u, p)
  BY <1>2 DEF Message
<1>7. WithCalls(m, x) = Message(t, r, x, f, u, p)
  BY <1>2 DEF WithCalls, Message
<1> QED
  BY <1>1, <1>3, <1>5, <1>6, <1>7

\* Whole calls, and words.
Told(m, calls, words) == WithText(WithCalls(m, m.calls \o calls), words)

\* Words and calls may be told in either order.
LEMMA InEitherOrder ==
  ASSUME NEW m \in Messages, NEW words \in Seq(Int), NEW calls
  PROVE  /\ WithText(m, words).calls = m.calls
         /\ WithCalls(WithText(m, words), m.calls \o calls) = Told(m, calls, words)
         /\ WithText(m, words).finish = m.finish /\ Told(m, calls, words).finish = m.finish
<1>1. PICK a : a = m.calls \o calls
  OBVIOUS
<1>2. PICK t, r, c, f, u, p : m = Message(t, r, c, f, u, p)
  BY DEF Messages, Message
<1>3. WithText(m, words) = Message(t \o words, r, c, f, u, p)
  BY <1>2, MessageFields
<1>4. WithCalls(WithText(m, words), a) = Message(t \o words, r, a, f, u, p)
  BY <1>3, MessageFields
<1>5. WithCalls(m, a) = Message(t, r, a, f, u, p)
  BY <1>2, MessageFields
<1>6. WithText(WithCalls(m, a), words) = Message(t \o words, r, a, f, u, p)
  BY <1>5, MessageFields
<1>7. WithText(m, words).calls = c /\ m.calls = c
  BY <1>2, <1>3 DEF Message
<1>8. m.finish = f /\ WithText(m, words).finish = f
  BY <1>2, <1>3 DEF Message
<1>9. WithText(WithCalls(m, a), words).finish = f
  BY <1>6 DEF Message
<1> QED
  BY <1>1, <1>4, <1>6, <1>7, <1>8, <1>9 DEF Told

\* A batch of chunks, and then a final one or none.
LEMMA ThenEnd ==
  ASSUME NEW s, NEW chunks, NEW n, Delivers(s, chunks, n)
  PROVE  /\ Delivers(s, chunks \o <<>>, n)
         /\ n.finish = NoFinish => \A r \in Finishes \ {NoFinish}, used \in Usages :
              Delivers(s, chunks \o <<FinishChunk(r, used)>>, WithEnd(n, r, used))
<1>1. Carried(Forward(s, chunks), n)
  BY DEF Delivers
<1>2. Delivers(s, chunks \o <<>>, n)
  BY <1>1, DeliverNone, DeliverBoth
<1>3. ASSUME n.finish = NoFinish, NEW r \in Finishes \ {NoFinish}, NEW used \in Usages
      PROVE  Delivers(s, chunks \o <<FinishChunk(r, used)>>, WithEnd(n, r, used))
  <2>1. Delivers(Forward(s, chunks), <<FinishChunk(r, used)>>, WithEnd(n, r, used))
    BY <1>1, <1>3, DeliverFinish
  <2> QED
    BY <2>1, DeliverBoth
<1> QED
  BY <1>2, <1>3

\* What a decoder makes of its count is a finish reason.
LEMMA CallsOrStopTyped ==
  ASSUME NEW d
  PROVE  CallsOrStop(d) \in Finishes \ {NoFinish}
BY DEF CallsOrStop, Finishes, NoFinish

\* The chunks of an Ollama object deliver its calls and its words.
LEMMA OllamaBody ==
  ASSUME NEW s, NEW m, Carried(s, m), m.finish = NoFinish, NEW calls, AtMostTwo(calls), NEW words \in Seq(Int),
         \A i \in DOMAIN calls : calls[i].id = Len(m.calls) + i
  PROVE  Delivers(s, IfAny(calls, CallsChunk(mapToolCalls(calls, Len(m.calls))))
                       \o IfAny(words, TextChunk(words)), Told(m, calls, words))
<1>1. PICK c : c = IfAny(calls, CallsChunk(mapToolCalls(calls, Len(m.calls))))
  OBVIOUS
<1>2. PICK n : n = WithCalls(m, m.calls \o calls)
  OBVIOUS
<1>3. Delivers(s, c, n)
  BY <1>1, <1>2, DeliverOllama
<1>4. Delivers(Forward(s, c), IfAny(words, TextChunk(words)), WithText(n, words))
  BY <1>3, DeliverText DEF Delivers
<1> QED
  BY <1>1, <1>2, <1>3, <1>4, DeliverBoth DEF Told

\* The chunks of a Gemini candidate deliver its calls and its words.
LEMMA GeminiBody ==
  ASSUME NEW s, NEW m, Carried(s, m), m.finish = NoFinish, NEW k, k = Len(m.calls), NEW calls, AtMostTwo(calls),
         NEW words \in Seq(Int), \A i \in DOMAIN calls : calls[i].id = calls[i].name
  PROVE  Delivers(s, [i \in DOMAIN calls |->
                        CallsChunk(<<Call(k + i - 1, calls[i].name, calls[i].name,
                                          calls[i].args)>>)]
                       \o <<>> \o IfAny(words, TextChunk(words)), Told(m, calls, words))
<1>1. PICK c : c = [i \in DOMAIN calls |->
                      CallsChunk(<<Call(k + i - 1, calls[i].name, calls[i].name,
                                        calls[i].args)>>)]
  OBVIOUS
<1>2. PICK n : n = WithCalls(m, m.calls \o calls)
  OBVIOUS
<1>3. Delivers(s, c \o <<>>, n)
  BY <1>1, <1>2, DeliverGemini, ThenEnd
<1>4. PICK b : b = c \o <<>>
  OBVIOUS
<1>5. Delivers(Forward(s, b), IfAny(words, TextChunk(words)), WithText(n, words))
  BY <1>3, <1>4, DeliverText DEF Delivers
<1>6. Delivers(s, b \o IfAny(words, TextChunk(words)), WithText(n, words))
  BY <1>3, <1>4, <1>5, DeliverBoth
<1> QED
  BY <1>1, <1>2, <1>4, <1>6 DEF Told

\* The chunks of a Cursor object deliver its words and its call.
LEMMA CursorBody ==
  ASSUME NEW s, NEW m, Carried(s, m), m.finish = NoFinish, NEW k, k = Len(m.calls), NEW calls,
         calls = <<>> \/ \E c \in Calls : calls = <<c>>, NEW words \in Seq(Int)
  PROVE  Delivers(s, IfAny(words, TextChunk(words))
                       \o [i \in DOMAIN calls |->
                             CallsChunk(<<Call(k, calls[i].id, calls[i].name, calls[i].args)>>)],
                  Told(m, calls, words))
<1>1. PICK c : c = [i \in DOMAIN calls |->
                      CallsChunk(<<Call(k, calls[i].id, calls[i].name, calls[i].args)>>)]
  OBVIOUS
<1>2. PICK w : w = IfAny(words, TextChunk(words))
  OBVIOUS
<1>3. PICK n : n = WithText(m, words)
  OBVIOUS
<1>4. Delivers(s, w, n)
  BY <1>2, <1>3, DeliverText
<1>5. Carried(Forward(s, w), n)
  BY <1>4 DEF Delivers
<1>6. m \in Messages
  BY DEF Carried
<1>7. n.calls = m.calls /\ n.finish = NoFinish
  BY <1>3, <1>6, InEitherOrder
<1>8. Delivers(Forward(s, w), c, WithCalls(n, n.calls \o calls))
  BY <1>1, <1>5, <1>7, DeliverCursor
<1>9. WithCalls(n, n.calls \o calls) = Told(m, calls, words)
  BY <1>3, <1>6, <1>7, InEitherOrder
<1> QED
  BY <1>1, <1>2, <1>4, <1>8, <1>9, DeliverBoth

\* A decoder that has counted calls.
LEMMA CountedTyped ==
  ASSUME NEW d, DecShape(d), NEW k \in Nat
  PROVE  /\ DecShape(Counted(d, k))
         /\ Counted(d, k).toolIndex = d.toolIndex /\ Counted(d, k).next = k
         /\ Counted(d, k).usage = d.usage
BY DecoderChanged DEF DecShape

\* An Ollama object on its way: its calls, its words and its end have arrived.
LEMMA OllamaTranslates ==
  ASSUME format = "ollama", NEW s, NEW m, Carried(s, m), m.finish = NoFinish, DecShape(s.dec),
         s.dec.next = Len(m.calls), NEW e, AtMostTwo(e.calls), e.text \in Seq(Int),
         \A i \in DOMAIN e.calls : e.calls[i].id = Len(m.calls) + i
  PROVE  LET d == Counted(s.dec, s.dec.next + Len(e.calls))
             n == Told(m, e.calls, e.text)
         IN  /\ e.done # "yes" => Carried(Translate(s, e), n) /\ Translate(s, e).dec = d
             /\ e.done = "yes" /\ e.usage \in Usages =>
                  /\ Carried(Translate(s, e), WithEnd(n, CallsOrStop(d), e.usage))
                  /\ Translate(s, e).dec = d
<1>1. PICK d : d = Counted(s.dec, s.dec.next + Len(e.calls))
  OBVIOUS
<1>2. PICK n : n = Told(m, e.calls, e.text)
  OBVIOUS
<1>3. PICK b : b = [s EXCEPT !.dec = d]
  OBVIOUS
<1>4. Carried(b, m)
  BY <1>3, Decoding
<1>0. n.finish = NoFinish
  BY <1>2, InEitherOrder DEF Carried
<1>5. PICK body : body = IfAny(e.calls, CallsChunk(mapToolCalls(e.calls, s.dec.next)))
                           \o IfAny(e.text, TextChunk(e.text))
  OBVIOUS
<1>6. Delivers(b, body, n)
  BY <1>2, <1>4, <1>5, OllamaBody
<1>7. Decode(format, s.dec, e) =
        Emit(d, body \o IF e.done = "yes" THEN <<FinishChunk(CallsOrStop(d), e.usage)>> ELSE <<>>)
  <2>1. Decode(format, s.dec, e) = OllamaDecode(s.dec, e)
    BY DecodeOf
  <2> QED
    BY <1>1, <1>5, <2>1 DEF OllamaDecode, Counted
<1>8. CASE e.done # "yes"
  <2>1. Decode(format, s.dec, e) = Emit(d, body \o <<>>)
    BY <1>7, <1>8
  <2>2. Delivers(b, body \o <<>>, n)
    BY <1>6, ThenEnd
  <2> QED
    BY <1>1, <1>2, <1>3, <1>8, <2>1, <2>2, Translated
<1>9. CASE e.done = "yes" /\ e.usage \in Usages
  <2>1. PICK c : c = body \o <<FinishChunk(CallsOrStop(d), e.usage)>>
    OBVIOUS
  <2>2. Decode(format, s.dec, e) = Emit(d, c)
    BY <1>7, <1>9, <2>1
  <2>3. Delivers(b, c, WithEnd(n, CallsOrStop(d), e.usage))
    BY <1>0, <1>6, <1>9, <2>1, ThenEnd, CallsOrStopTyped
  <2> QED
    BY <1>1, <1>2, <1>3, <1>9, <2>2, <2>3, Translated
<1> QED
  BY <1>1, <1>2, <1>8, <1>9

\* A Cursor object on its way: its words, its call and its end have arrived.
LEMMA CursorTranslates ==
  ASSUME format = "cursor", NEW s, NEW m, Carried(s, m), m.finish = NoFinish, DecShape(s.dec),
         s.dec.next = Len(m.calls), NEW e, e.calls = <<>> \/ \E c \in Calls : e.calls = <<c>>,
         e.text \in Seq(Int)
  PROVE  LET d == Counted(s.dec, s.dec.next + Len(e.calls))
             n == Told(m, e.calls, e.text)
         IN  /\ e.done # "yes" => Carried(Translate(s, e), n) /\ Translate(s, e).dec = d
             /\ e.done = "yes" =>
                  /\ Carried(Translate(s, e), WithEnd(n, CallsOrStop(d), NoUsage))
                  /\ Translate(s, e).dec = d
<1>1. PICK d : d = Counted(s.dec, s.dec.next + Len(e.calls))
  OBVIOUS
<1>2. PICK n : n = Told(m, e.calls, e.text)
  OBVIOUS
<1>3. PICK b : b = [s EXCEPT !.dec = d]
  OBVIOUS
<1>4. Carried(b, m)
  BY <1>3, Decoding
<1>0. n.finish = NoFinish
  BY <1>2, InEitherOrder DEF Carried
<1>5. PICK body : body = IfAny(e.text, TextChunk(e.text))
                           \o [i \in DOMAIN e.calls |->
                                 CallsChunk(<<Call(s.dec.next, e.calls[i].id, e.calls[i].name,
                                                   e.calls[i].args)>>)]
  OBVIOUS
<1>6. Delivers(b, body, n)
  BY <1>2, <1>4, <1>5, CursorBody
<1>7. Decode(format, s.dec, e) =
        Emit(d, body \o IF e.done = "yes" THEN <<FinishChunk(CallsOrStop(d), NoUsage)>> ELSE <<>>)
  <2>1. Decode(format, s.dec, e) = CursorDecode(s.dec, e)
    BY DecodeOf
  <2> QED
    BY <1>1, <1>5, <2>1 DEF CursorDecode, Counted
<1>8. CASE e.done # "yes"
  <2>1. Decode(format, s.dec, e) = Emit(d, body \o <<>>)
    BY <1>7, <1>8
  <2>2. Delivers(b, body \o <<>>, n)
    BY <1>6, ThenEnd
  <2>3. Carried(Translate(s, e), n) /\ Translate(s, e).dec = d
    <3>1. PICK c : c = body \o <<>>
      OBVIOUS
    <3> QED
      BY <1>3, <2>1, <2>2, <3>1, Translated
  <2> QED
    BY <1>1, <1>2, <1>8, <2>3
<1>9. CASE e.done = "yes"
  <2>1. PICK c : c = body \o <<FinishChunk(CallsOrStop(d), NoUsage)>>
    OBVIOUS
  <2>2. Decode(format, s.dec, e) = Emit(d, c)
    BY <1>7, <1>9, <2>1
  <2>3. Delivers(b, c, WithEnd(n, CallsOrStop(d), NoUsage))
    BY <1>0, <1>6, <1>9, <2>1, ThenEnd, CallsOrStopTyped, TokensAre
  <2> QED
    BY <1>1, <1>2, <1>3, <1>9, <2>2, <2>3, Translated
<1> QED
  BY <1>1, <1>2, <1>8, <1>9

\* A Gemini candidate on its way: its calls, its words and its end have arrived.
LEMMA GeminiTranslates ==
  ASSUME format = "gemini", NEW s, NEW m, Carried(s, m), m.finish = NoFinish, DecShape(s.dec),
         s.dec.next = Len(m.calls), NEW e, AtMostTwo(e.calls), e.text \in Seq(Int),
         e.reasoning = <<>>, \A i \in DOMAIN e.calls : e.calls[i].id = e.calls[i].name
  PROVE  LET d == Counted(s.dec, s.dec.next + Len(e.calls))
             n == Told(m, e.calls, e.text)
             r == geminiFinishToOpenAI(e.finishReason)
         IN  /\ e.finishReason = NoFinish =>
                  Carried(Translate(s, e), n) /\ Translate(s, e).dec = d
             /\ e.finishReason # NoFinish /\ e.usage \in Usages =>
                  Carried(Translate(s, e), WithEnd(n, r, e.usage)) /\ Translate(s, e).dec = d
<1>1. PICK d : d = Counted(s.dec, s.dec.next + Len(e.calls))
  OBVIOUS
<1>2. PICK n : n = Told(m, e.calls, e.text)
  OBVIOUS
<1>3. PICK b : b = [s EXCEPT !.dec = d]
  OBVIOUS
<1>4. Carried(b, m)
  BY <1>3, Decoding
<1>0. n.finish = NoFinish
  BY <1>2, InEitherOrder DEF Carried
<1>5. PICK body : body = [i \in DOMAIN e.calls |->
                            CallsChunk(<<Call(s.dec.next + i - 1, e.calls[i].name,
                                              e.calls[i].name, e.calls[i].args)>>)]
                           \o <<>> \o IfAny(e.text, TextChunk(e.text))
  OBVIOUS
<1>6. Delivers(b, body, n)
  BY <1>2, <1>4, <1>5, GeminiBody
<1>7. PICK r : r = geminiFinishToOpenAI(e.finishReason)
  OBVIOUS
<1>8. r \in Finishes \ {NoFinish}
  BY <1>7 DEF geminiFinishToOpenAI, Finishes, NoFinish
<1>9. Decode(format, s.dec, e) =
        Emit(d, body \o IF e.finishReason = NoFinish THEN <<>> ELSE <<FinishChunk(r, e.usage)>>)
  <2>1. Decode(format, s.dec, e) = GeminiDecode(s.dec, e)
    BY DecodeOf
  <2>2. IfAny(e.reasoning, ReasoningChunk(e.reasoning)) = <<>>
    BY NothingOf
  <2> QED
    BY <1>1, <1>5, <1>7, <2>1, <2>2 DEF GeminiDecode, Counted
<1>10. CASE e.finishReason = NoFinish
  <2>1. Decode(format, s.dec, e) = Emit(d, body \o <<>>)
    BY <1>9, <1>10
  <2>2. Delivers(b, body \o <<>>, n)
    BY <1>6, ThenEnd
  <2> QED
    BY <1>1, <1>2, <1>3, <1>10, <2>1, <2>2, Translated, ZenonT(60)
<1>11. CASE e.finishReason # NoFinish /\ e.usage \in Usages
  <2>1. PICK c : c = body \o <<FinishChunk(r, e.usage)>>
    OBVIOUS
  <2>2. Decode(format, s.dec, e) = Emit(d, c)
    BY <1>9, <1>11, <2>1
  <2>3. Delivers(b, c, WithEnd(n, r, e.usage))
    BY <1>0, <1>6, <1>8, <1>11, <2>1, ThenEnd
  <2> QED
    BY <1>1, <1>2, <1>3, <1>7, <1>11, <2>2, <2>3, Translated
<1> QED
  BY <1>1, <1>2, <1>7, <1>10, <1>11
-----------------------------------------------------------------------------
(* The events of the provider's steps, relayed *)

\* An object is its fields.
LEMMA ObjectFields ==
  ASSUME NEW words, NEW calls, NEW done, NEW used
  PROVE  \E e : /\ e = Object(words, calls, done, used)
                /\ e.text = words /\ e.calls = calls /\ e.done = done /\ e.usage = used
<1>1. PICK e : e = Object(words, calls, done, used)
  OBVIOUS
<1>2. e.text = words /\ e.calls = calls /\ e.done = done /\ e.usage = used
  BY <1>1 DEF Object
<1> QED
  BY <1>1, <1>2

\* A candidate is its fields.
LEMMA CandidateFields ==
  ASSUME NEW words, NEW calls, NEW finish, NEW used
  PROVE  \E e : /\ e = Candidate(words, <<>>, calls, finish, used)
                /\ e.text = words /\ e.reasoning = <<>> /\ e.calls = calls
                /\ e.finishReason = finish /\ e.usage = used
<1>1. PICK e : e = Candidate(words, <<>>, calls, finish, used)
  OBVIOUS
<1>2. /\ e.text = words /\ e.reasoning = <<>> /\ e.calls = calls
      /\ e.finishReason = finish /\ e.usage = used
  BY <1>1 DEF Candidate
<1> QED
  BY <1>1, <1>2

\* An event with whole calls, in the three formats that have one: the calls and the
\* words have arrived, and the decoder has counted the calls.
LEMMA WholeRelayed ==
  ASSUME format \in Whole, NEW s, NEW m, Carried(s, m), m.finish = NoFinish,
         DecShape(s.dec), s.dec.next = Len(m.calls), NEW calls, AtMostTwo(calls),
         \A i \in DOMAIN calls : calls[i].id = Len(m.calls) + i /\ calls[i].name = calls[i].id,
         format = "cursor" => \E c \in Calls : calls = <<c>>, NEW words \in Seq(Int)
  PROVE  /\ Carried(Relayed(s, WholeCallEvents(words, calls)), Told(m, calls, words))
         /\ Relayed(s, WholeCallEvents(words, calls)).dec
              = Counted(s.dec, s.dec.next + Len(calls))
<1>1. PICK e : /\ e = Object(words, calls, "no", NoUsage)
               /\ e.text = words /\ e.calls = calls /\ e.done = "no"
  BY ObjectFields
<1>2. PICK g : /\ g = Candidate(words, <<>>, calls, NoFinish, NoUsage)
               /\ g.text = words /\ g.reasoning = <<>> /\ g.calls = calls
               /\ g.finishReason = NoFinish
  BY CandidateFields
<1>3. CASE format = "ollama"
  <2>1. WholeCallEvents(words, calls) = <<e>>
    BY <1>1, <1>3 DEF WholeCallEvents
  <2>2. /\ Carried(Translate(s, e), Told(m, calls, words))
        /\ Translate(s, e).dec = Counted(s.dec, s.dec.next + Len(calls))
    <3>1. /\ AtMostTwo(e.calls) /\ e.text \in Seq(Int) /\ e.done # "yes"
          /\ \A i \in DOMAIN e.calls : e.calls[i].id = Len(m.calls) + i
      BY <1>1
    <3>2. /\ Carried(Translate(s, e), Told(m, e.calls, e.text))
          /\ Translate(s, e).dec = Counted(s.dec, s.dec.next + Len(e.calls))
      BY <1>3, <3>1, OllamaTranslates
    <3> QED
      BY <1>1, <3>2
  <2> QED
    BY <2>1, <2>2, RelayOne
<1>4. CASE format = "cursor"
  <2>1. WholeCallEvents(words, calls) = <<e>>
    BY <1>1, <1>4 DEF WholeCallEvents
  <2>2. /\ Carried(Translate(s, e), Told(m, calls, words))
        /\ Translate(s, e).dec = Counted(s.dec, s.dec.next + Len(calls))
    <3>1. /\ \E c \in Calls : e.calls = <<c>>
          /\ e.text \in Seq(Int) /\ e.done # "yes"
      BY <1>1, <1>4
    <3>2. /\ Carried(Translate(s, e), Told(m, e.calls, e.text))
          /\ Translate(s, e).dec = Counted(s.dec, s.dec.next + Len(e.calls))
      BY <1>4, <3>1, CursorTranslates
    <3> QED
      BY <1>1, <3>2
  <2> QED
    BY <2>1, <2>2, RelayOne
<1>5. CASE format = "gemini"
  <2>1. WholeCallEvents(words, calls) = <<g>>
    BY <1>2, <1>5 DEF WholeCallEvents
  <2>2. /\ Carried(Translate(s, g), Told(m, calls, words))
        /\ Translate(s, g).dec = Counted(s.dec, s.dec.next + Len(calls))
    <3>1. /\ AtMostTwo(g.calls) /\ g.text \in Seq(Int) /\ g.reasoning = <<>>
          /\ g.finishReason = NoFinish
          /\ \A i \in DOMAIN g.calls : g.calls[i].id = g.calls[i].name
      BY <1>2
    <3>2. /\ Carried(Translate(s, g), Told(m, g.calls, g.text))
          /\ Translate(s, g).dec = Counted(s.dec, s.dec.next + Len(g.calls))
      BY <1>5, <3>1, GeminiTranslates
    <3> QED
      BY <1>2, <3>2
  <2> QED
    BY <2>1, <2>2, RelayOne
<1> QED
  BY <1>3, <1>4, <1>5 DEF Whole

\* The end of an answer, in the pivot's terms.
Ends(stop, calls) ==
  IF stop = "limit" /\ format \in {"openai", "claude", "gemini"} THEN "length"
  ELSE IF calls /\ format # "gemini" THEN "tool_calls" ELSE "stop"

Uses(late) == IF late = "yes" \/ format = "cursor" THEN NoUsage ELSE Tokens

Ended(m, words, r, used) == 
  Message(m.text \o words, m.reasoning, m.calls, r, used, m.resumed)

\* An end without words.
LEMMA EndedAlone ==
  ASSUME NEW m \in Messages, m.usage = NoUsage, NEW r, NEW used
  PROVE  WithEnd(m, r, used) = Ended(m, <<>>, r, used)
<1>1. Noted(m.usage, used, NoUsage) = used
  BY DEF Noted
<1>2. m.text \in Seq(Int)
  BY DEF Messages
<1>3. m.text \o <<>> = m.text
  BY <1>2
<1> QED
  BY <1>1, <1>3 DEF WithEnd, Ended, Message

\* An end with words, as told and then ended.
LEMMA EndedIs ==
  ASSUME NEW m \in Messages, m.usage = NoUsage, NEW words \in Seq(Int), NEW r, NEW used
  PROVE  /\ WithEnd(WithText(m, words), r, used) = Ended(m, words, r, used)
         /\ WithEnd(Told(m, <<>>, words), r, used) = Ended(m, words, r, used)
<1>1. PICK t, x, c, f, p : m = Message(t, x, c, f, NoUsage, p)
  BY DEF Messages, Message
<1>2. m.text = t /\ m.reasoning = x /\ m.calls = c /\ m.resumed = p
  BY <1>1 DEF Message
<1>3. Noted(NoUsage, used, NoUsage) = used
  BY DEF Noted
<1>4. t \in Seq(Int) /\ c \in Seq(Calls)
  BY <1>2 DEF Messages
<1>5. c \o <<>> = c
  BY <1>4
<1>6. \A y : WithEnd(Message(y, x, c, f, NoUsage, p), r, used) = Message(y, x, c, r, used, p)
  BY <1>3 DEF WithEnd, Message
<1>8. WithText(m, words) = Message(t \o words, x, c, f, NoUsage, p)
  BY <1>1, MessageFields
<1>9. WithCalls(m, c) = m
  BY <1>1, MessageFields
<1>10. Told(m, <<>>, words) = WithText(m, words)
  BY <1>2, <1>5, <1>9 DEF Told
<1>11. WithEnd(WithText(m, words), r, used) = Ended(m, words, r, used)
  BY <1>2, <1>6, <1>8 DEF Ended
<1> QED
  BY <1>10, <1>11

\* How the formats spell a stop, and what their decoders make of it.
LEMMA StopTyped ==
  ASSUME NEW stop \in {"complete", "limit"}, NEW calls \in BOOLEAN
  PROVE  /\ format = "openai" => Stop(stop, calls) = Ends(stop, calls)
         /\ format = "claude" =>
              OrStop(anthropicStopToOpenAI(Stop(stop, calls))) = Ends(stop, calls)
         /\ format = "gemini" => /\ Stop(stop, calls) # NoFinish
                                 /\ geminiFinishToOpenAI(Stop(stop, calls)) = Ends(stop, calls)
         /\ Ends(stop, calls) \in Finishes \ {NoFinish}
<1>1. format = "openai" => Stop(stop, calls) = Ends(stop, calls)
  BY DEF Stop, Ends
<1>2. ASSUME format = "claude"
      PROVE  OrStop(anthropicStopToOpenAI(Stop(stop, calls))) = Ends(stop, calls)
  <2>1. Stop(stop, calls) = IF stop = "limit" THEN "max_tokens"
                            ELSE IF calls THEN "tool_use" ELSE "end_turn"
    BY <1>2 DEF Stop
  <2>2. /\ anthropicStopToOpenAI("max_tokens") = "length"
        /\ anthropicStopToOpenAI("tool_use") = "tool_calls"
        /\ anthropicStopToOpenAI("end_turn") = "stop"
    BY DEF anthropicStopToOpenAI
  <2>3. /\ OrStop("length") = "length" /\ OrStop("tool_calls") = "tool_calls"
        /\ OrStop("stop") = "stop"
    BY DEF OrStop, NoFinish
  <2> QED
    BY <1>2, <2>1, <2>2, <2>3 DEF Ends
<1>3. ASSUME format = "gemini"
      PROVE  /\ Stop(stop, calls) # NoFinish
             /\ geminiFinishToOpenAI(Stop(stop, calls)) = Ends(stop, calls)
  <2>1. Stop(stop, calls) = IF stop = "limit" THEN "MAX_TOKENS" ELSE "STOP"
    BY <1>3 DEF Stop
  <2>2. geminiFinishToOpenAI("MAX_TOKENS") = "length" /\ geminiFinishToOpenAI("STOP") = "stop"
    BY DEF geminiFinishToOpenAI
  <2> QED
    BY <1>3, <2>1, <2>2 DEF Ends, NoFinish
<1>4. Ends(stop, calls) \in Finishes \ {NoFinish}
  BY DEF Ends, Finishes, NoFinish
<1> QED
  BY <1>1, <1>2, <1>3, <1>4

\* b has passed m on, and is ready for the end of the answer.
Ready(b, m) ==
  /\ Carried(b, m) /\ m.finish = NoFinish /\ m.usage = NoUsage
  /\ DecShape(b.dec)
  /\ format # "openai" => b.dec.next = Len(m.calls)

\* The answer m has ended in t with the words, the reason and the usage.
EndedIn(t, d, m, words, r, used) ==
  /\ Carried(t, Ended(m, words, r, used))
  /\ DecShape(t.dec) /\ t.dec.next = d.next

\* An event that comes down to a final chunk ends the answer.
LEMMA TranslateFinish ==
  ASSUME NEW b, NEW m, Ready(b, m), NEW e, NEW d, DecShape(d), d.next = b.dec.next,
         NEW r \in Finishes \ {NoFinish}, NEW used \in Usages,
         Decode(format, b.dec, e) = Emit(d, <<FinishChunk(r, used)>>)
  PROVE  EndedIn(Translate(b, e), b.dec, m, <<>>, r, used)
<1>1. PICK c : c = [b EXCEPT !.dec = d]
  OBVIOUS
<1>2. Carried(c, m)
  BY <1>1, Decoding DEF Ready
<1>3. Delivers(c, <<FinishChunk(r, used)>>, WithEnd(m, r, used))
  BY <1>2, DeliverFinish DEF Ready
<1>4. Carried(b, m) /\ m \in Messages /\ m.usage = NoUsage
  BY DEF Ready, Carried
<1>5. Carried(Translate(b, e), WithEnd(m, r, used)) /\ Translate(b, e).dec = d
  BY <1>1, <1>3, <1>4, Translated
<1>6. WithEnd(m, r, used) = Ended(m, <<>>, r, used)
  BY <1>4, EndedAlone
<1> QED
  BY <1>5, <1>6 DEF EndedIn

\* message_delta ends the answer of a Claude provider.
LEMMA FinalClaude ==
  ASSUME format = "claude", NEW b, NEW m, Ready(b, m), b.dec.usage = AtStart,
         NEW stop \in {"complete", "limit"}, NEW late, late # "yes", NEW words, words = <<>>,
         NEW calls, calls = (m.calls # <<>>)
  PROVE  \E e : /\ FinalEvents(stop, late, words, calls) = <<e>>
                /\ EndedIn(Translate(b, e), b.dec, m, words, Ends(stop, calls), Uses(late))
<1>0. calls \in BOOLEAN
  OBVIOUS
<1>1. PICK e : e = [type |-> "message_delta", stop |-> Stop(stop, calls),
                    usage |-> [Tokens EXCEPT !.prompt = 0]]
  OBVIOUS
<1>2. FinalEvents(stop, late, words, calls) = <<e>>
  BY <1>1 DEF FinalEvents
<1>3. /\ e.type = "message_delta" /\ e.stop = Stop(stop, calls)
      /\ e.usage = [prompt |-> 0, completion |-> 5]
  BY <1>1, TokensAre
<1>4. Decode(format, b.dec, e) = ClaudeDecode(b.dec, e)
  BY DecodeOf
<1>5. ClaudeDecode(b.dec, e) =
        Emit([b.dec EXCEPT !.usage = MergeUsage(b.dec.usage, e.usage)],
             <<FinishChunk(OrStop(anthropicStopToOpenAI(e.stop)),
                           MergeUsage(b.dec.usage, e.usage))>>)
  BY <1>3, ClaudeDecodeOf
<1>6. MergeUsage(b.dec.usage, e.usage) = Tokens
  BY <1>3, TokensAre
<1>7. OrStop(anthropicStopToOpenAI(e.stop)) = Ends(stop, calls)
  BY <1>0, <1>3, StopTyped
<1>8. PICK d : d = Charged(b.dec, Tokens)
  OBVIOUS
<1>9. Decode(format, b.dec, e) = Emit(d, <<FinishChunk(Ends(stop, calls), Tokens)>>)
  BY <1>4, <1>5, <1>6, <1>7, <1>8 DEF Charged
<1>10. DecShape(d) /\ d.next = b.dec.next
  BY <1>8, DecoderChanged DEF DecShape, Ready
<1>11. Uses(late) = Tokens
  BY DEF Uses
<1>12. Ends(stop, calls) \in Finishes \ {NoFinish}
  BY <1>0, StopTyped
<1>13. EndedIn(Translate(b, e), b.dec, m, <<>>, Ends(stop, calls), Tokens)
  BY <1>9, <1>10, <1>12, TokensAre, TranslateFinish
<1> QED
  BY <1>2, <1>11, <1>13

\* The completed or incomplete event ends the answer of a Responses provider.
LEMMA FinalResponses ==
  ASSUME format = "responses", NEW b, NEW m, Ready(b, m),
         NEW stop \in {"complete", "limit"}, NEW late, late # "yes", NEW words, words = <<>>,
         NEW calls, calls = (m.calls # <<>>)
  PROVE  \E e : /\ FinalEvents(stop, late, words, calls) = <<e>>
                /\ EndedIn(Translate(b, e), b.dec, m, words, Ends(stop, calls), Uses(late))
<1>1. PICK e : e = [type |-> IF stop = "limit" THEN "incomplete" ELSE "completed",
                    usage |-> Tokens]
  OBVIOUS
<1>2. FinalEvents(stop, late, words, calls) = <<e>>
  BY <1>1 DEF FinalEvents
<1>3. e.type \in {"completed", "incomplete"} /\ e.usage = Tokens
  BY <1>1
<1>4. Decode(format, b.dec, e) = ResponsesDecode(b.dec, e)
  BY DecodeOf
<1>5. ResponsesDecode(b.dec, e) = Emit(b.dec, <<FinishChunk(CallsOrStop(b.dec), Tokens)>>)
  BY <1>3, ResponsesDecodeOf
<1>6. CallsOrStop(b.dec) = Ends(stop, calls)
  <2>1. m.calls \in Seq(Calls) /\ b.dec.next = Len(m.calls)
    BY DEF Ready, Carried, Messages
  <2>2. b.dec.next > 0 <=> m.calls # <<>>
    BY <2>1
  <2> QED
    BY <2>2 DEF CallsOrStop, Ends
<1>7. Uses(late) = Tokens
  BY DEF Uses
<1>8. EndedIn(Translate(b, e), b.dec, m, <<>>, CallsOrStop(b.dec), Tokens)
  BY <1>4, <1>5, CallsOrStopTyped, TokensAre, TranslateFinish DEF Ready
<1> QED
  BY <1>2, <1>6, <1>7, <1>8

\* No calls at all.
LEMMA Nothing == AtMostTwo(<<>>) /\ Len(<<>>) = 0 /\ DOMAIN <<>> = {}
BY DEF AtMostTwo

\* The final object or candidate ends the answer of ollama, cursor and gemini, and
\* brings its last words.
LEMMA FinalWhole ==
  ASSUME format \in Whole, NEW b, NEW m, Ready(b, m),
         NEW stop \in {"complete", "limit"}, NEW late, late # "yes", NEW words \in Seq(Int),
         NEW calls, calls = (m.calls # <<>>)
  PROVE  \E e : /\ FinalEvents(stop, late, words, calls) = <<e>>
                /\ EndedIn(Translate(b, e), b.dec, m, words, Ends(stop, calls), Uses(late))
<1>1. PICK e : /\ e = Object(words, <<>>, "yes", Tokens)
               /\ e.text = words /\ e.calls = <<>> /\ e.done = "yes" /\ e.usage = Tokens
  BY ObjectFields
<1>2. PICK g : /\ g = Candidate(words, <<>>, <<>>, Stop(stop, calls), Tokens)
               /\ g.text = words /\ g.reasoning = <<>> /\ g.calls = <<>>
               /\ g.finishReason = Stop(stop, calls) /\ g.usage = Tokens
  BY CandidateFields
<1>3. /\ Carried(b, m) /\ m \in Messages /\ DecShape(b.dec)
      /\ m.finish = NoFinish /\ m.usage = NoUsage
      /\ b.dec.next = Len(m.calls) /\ m.calls \in Seq(Calls)
  BY DEF Ready, Carried, Messages, Whole
<1>4. PICK d : d = Counted(b.dec, b.dec.next + Len(<<>>))
  OBVIOUS
<1>5. DecShape(d) /\ d.next = b.dec.next
  <2>1. b.dec.next + Len(<<>>) = b.dec.next /\ b.dec.next \in Nat
    BY <1>3 DEF DecShape
  <2> QED
    BY <1>3, <1>4, <2>1, CountedTyped
<1>6. CallsOrStop(d) = IF calls THEN "tool_calls" ELSE "stop"
  <2>1. d.next > 0 <=> m.calls # <<>>
    BY <1>3, <1>5
  <2> QED
    BY <2>1 DEF CallsOrStop
<1>7. \A r, used : WithEnd(Told(m, <<>>, words), r, used) = Ended(m, words, r, used)
  BY <1>3, EndedIs
<1>8. CASE format = "ollama"
  <2>1. FinalEvents(stop, late, words, calls) = <<e>>
    BY <1>1, <1>8 DEF FinalEvents
  <2>2. AtMostTwo(e.calls) /\ e.text \in Seq(Int) /\ e.done = "yes" /\ e.usage \in Usages
        /\ \A i \in DOMAIN e.calls : e.calls[i].id = Len(m.calls) + i
    BY <1>1, Nothing, TokensAre
  <2>3. /\ Carried(Translate(b, e), WithEnd(Told(m, <<>>, words), CallsOrStop(d), Tokens))
        /\ Translate(b, e).dec = d
    <3>1. /\ Carried(Translate(b, e), WithEnd(Told(m, e.calls, e.text),
                       CallsOrStop(Counted(b.dec, b.dec.next + Len(e.calls))), e.usage))
          /\ Translate(b, e).dec = Counted(b.dec, b.dec.next + Len(e.calls))
      BY <1>3, <1>8, <2>2, OllamaTranslates
    <3> QED
      BY <1>1, <1>4, <3>1
  <2>4. CallsOrStop(d) = Ends(stop, calls) /\ Uses(late) = Tokens
    BY <1>6, <1>8 DEF Ends, Uses
  <2> QED
    BY <1>5, <1>7, <2>1, <2>3, <2>4 DEF EndedIn
<1>9. CASE format = "cursor"
  <2>1. FinalEvents(stop, late, words, calls) = <<e>>
    BY <1>1, <1>9 DEF FinalEvents
  <2>2. e.calls = <<>> /\ e.text \in Seq(Int) /\ e.done = "yes"
    BY <1>1
  <2>3. /\ Carried(Translate(b, e), WithEnd(Told(m, <<>>, words), CallsOrStop(d), NoUsage))
        /\ Translate(b, e).dec = d
    <3>1. /\ Carried(Translate(b, e), WithEnd(Told(m, e.calls, e.text),
                       CallsOrStop(Counted(b.dec, b.dec.next + Len(e.calls))), NoUsage))
          /\ Translate(b, e).dec = Counted(b.dec, b.dec.next + Len(e.calls))
      BY <1>3, <1>9, <2>2, CursorTranslates
    <3> QED
      BY <1>1, <1>4, <3>1
  <2>4. CallsOrStop(d) = Ends(stop, calls) /\ Uses(late) = NoUsage
    BY <1>6, <1>9 DEF Ends, Uses
  <2> QED
    BY <1>5, <1>7, <2>1, <2>3, <2>4 DEF EndedIn
<1>10. CASE format = "gemini"
  <2>1. FinalEvents(stop, late, words, calls) = <<g>>
    BY <1>2, <1>10 DEF FinalEvents
  <2>2. /\ AtMostTwo(g.calls) /\ g.text \in Seq(Int) /\ g.reasoning = <<>>
        /\ g.finishReason # NoFinish /\ g.usage \in Usages
        /\ \A i \in DOMAIN g.calls : g.calls[i].id = g.calls[i].name
    BY <1>2, <1>10, Nothing, TokensAre, StopTyped
  <2>3. geminiFinishToOpenAI(g.finishReason) = Ends(stop, calls)
    BY <1>2, <1>10, StopTyped
  <2>4. /\ Carried(Translate(b, g), WithEnd(Told(m, <<>>, words), Ends(stop, calls), Tokens))
        /\ Translate(b, g).dec = d
    <3>1. /\ Carried(Translate(b, g), WithEnd(Told(m, g.calls, g.text),
                       geminiFinishToOpenAI(g.finishReason), g.usage))
          /\ Translate(b, g).dec = Counted(b.dec, b.dec.next + Len(g.calls))
      BY <1>3, <1>10, <2>2, GeminiTranslates
    <3> QED
      BY <1>2, <1>4, <2>3, <3>1
  <2>5. Uses(late) = Tokens
    BY <1>10 DEF Uses
  <2> QED
    BY <1>5, <1>7, <2>1, <2>4, <2>5 DEF EndedIn
<1> QED
  BY <1>8, <1>9, <1>10 DEF Whole

\* The finish chunk ends the answer of an openai provider, wherever its usage comes.
LEMMA FinalOpenai ==
  ASSUME format = "openai", NEW b, NEW m, Ready(b, m),
         NEW stop \in {"complete", "limit"}, NEW late \in {"no", "yes"}, NEW words,
         NEW calls \in BOOLEAN
  PROVE  /\ FinalEvents(stop, late, words, calls) \in Seq(Chunks)
         /\ EndedIn(Relayed(b, FinalEvents(stop, late, words, calls)), b.dec, m, <<>>,
                    Ends(stop, calls), Uses(late))
<1>1. PICK used : used = Uses(late)
  OBVIOUS
<1>2. PICK e : e = FinishChunk(Ends(stop, calls), used)
  OBVIOUS
<1>3. Stop(stop, calls) = Ends(stop, calls) /\ Ends(stop, calls) \in Finishes \ {NoFinish}
  BY StopTyped
<1>4. used = IF late = "yes" THEN NoUsage ELSE Tokens
  BY <1>1 DEF Uses
<1>5. Decode(format, b.dec, e) = Emit(b.dec, <<e>>)
  BY DecodeOf
<1>6. EndedIn(Translate(b, e), b.dec, m, <<>>, Ends(stop, calls), used)
  <2>1. used \in Usages /\ DecShape(b.dec)
    BY <1>4, TokensAre DEF Ready
  <2> QED
    BY <1>2, <1>3, <1>5, <2>1, TranslateFinish
<1>7. e \in Chunks
  <2>1. used \in Usages /\ Carried(b, m) /\ m.finish = NoFinish
    BY <1>4, TokensAre DEF Ready
  <2> QED
    BY <1>2, <1>3, <2>1, PassFinish
<1>8. CASE late = "yes"
  <2>0. <<e, LateUsage>> \in Seq(Chunks)
    BY <1>7, LateUsageIs
  <2>1. FinalEvents(stop, late, words, calls) = <<e, LateUsage>>
    BY <1>2, <1>3, <1>4, <1>8 DEF FinalEvents, LateUsage
  <2>2. PICK t : t = Translate(b, e)
    OBVIOUS
  <2>3. Relayed(b, <<e, LateUsage>>) = Translate(t, LateUsage)
    BY <2>2, RelayTwo
  <2>4. /\ Carried(Translate(t, LateUsage), Ended(m, <<>>, Ends(stop, calls), used))
        /\ Translate(t, LateUsage).dec = t.dec
    BY <1>6, <2>2, TranslateLateUsage DEF EndedIn
  <2> QED
    BY <1>1, <1>6, <2>0, <2>1, <2>2, <2>3, <2>4 DEF EndedIn
<1>9. CASE late # "yes"
  <2>1. FinalEvents(stop, late, words, calls) = <<e>>
    BY <1>2, <1>3, <1>4, <1>9 DEF FinalEvents
  <2>2. <<e>> \in Seq(Chunks)
    BY <1>7
  <2> QED
    BY <1>1, <1>6, <2>1, <2>2, RelayOne
<1> QED
  BY <1>8, <1>9

\* A final event, or two, after what was said: the answer ends as it should.
LEMMA FinalRelayed ==
  ASSUME format \in Terminated, NEW s, NEW m, Ready(s, m),
         format = "claude" /\ wire.sent # 0 => s.dec.usage = AtStart,
         NEW stop \in {"complete", "limit"}, NEW late \in {"no", "yes"},
         late = "yes" => format = "openai", NEW words \in Seq(Int),
         words # <<>> => format \in Whole, NEW calls, calls = (m.calls # <<>>)
  PROVE  EndedIn(Relayed(s, Opening \o FinalEvents(stop, late, words, calls)), s.dec, m, words,
                 Ends(stop, calls), Uses(late))
<1>0. calls \in BOOLEAN
  OBVIOUS
<1>1. CASE format = "openai"
  <2>1. Opening = <<>> /\ words = <<>>
    BY <1>1, OpeningIs DEF Whole
  <2>2. PICK q : q = FinalEvents(stop, late, words, calls)
    OBVIOUS
  <2>3. q \in Seq(Chunks) /\ EndedIn(Relayed(s, q), s.dec, m, <<>>, Ends(stop, calls), Uses(late))
    BY <1>0, <1>1, <2>2, FinalOpenai
  <2>4. <<>> \o q = q
    BY <2>3
  <2> QED
    BY <2>1, <2>2, <2>3, <2>4
<1>2. CASE format # "openai"
  <2>1. late # "yes"
    BY <1>2
  <2>2. PICK e : FinalEvents(stop, late, words, calls) = <<e>>
    BY <1>2 DEF FinalEvents, Terminated, Formats
  <2>3. PICK b : /\ Carried(b, m)
                 /\ b.dec = IF Opening = <<>> THEN s.dec ELSE Charged(s.dec, AtStart)
                 /\ DecShape(b.dec)
                 /\ Relayed(s, Opening \o <<e>>) = Translate(b, e)
    BY Opened DEF Ready
  <2>4. b.dec.next = s.dec.next /\ (format = "claude" => b.dec.usage = AtStart)
    <3>1. CASE Opening = <<>>
      BY <2>3, <3>1, OpeningIs
    <3>2. CASE Opening # <<>>
      BY <2>3, <3>2, DecoderChanged DEF Ready
    <3> QED
      BY <3>1, <3>2
  <2>5. Ready(b, m)
    BY <2>3, <2>4 DEF Ready
  <2>6. EndedIn(Translate(b, e), b.dec, m, words, Ends(stop, calls), Uses(late))
    <3>1. CASE format = "claude"
      <4>1. words = <<>>
        BY <3>1 DEF Whole
      <4>2. b.dec.usage = AtStart
        BY <2>4, <3>1
      <4>3. PICK f : /\ FinalEvents(stop, late, words, calls) = <<f>>
                     /\ EndedIn(Translate(b, f), b.dec, m, words, Ends(stop, calls), Uses(late))
        BY <2>1, <2>5, <3>1, <4>1, <4>2, FinalClaude
      <4> QED
        BY <2>2, <4>3
    <3>2. CASE format = "responses"
      <4>1. words = <<>>
        BY <3>2 DEF Whole
      <4>2. PICK f : /\ FinalEvents(stop, late, words, calls) = <<f>>
                     /\ EndedIn(Translate(b, f), b.dec, m, words, Ends(stop, calls), Uses(late))
        BY <2>1, <2>5, <3>2, <4>1, FinalResponses
      <4> QED
        BY <2>2, <4>2
    <3>3. CASE format \in Whole
      <4>1. PICK f : /\ FinalEvents(stop, late, words, calls) = <<f>>
                     /\ EndedIn(Translate(b, f), b.dec, m, words, Ends(stop, calls), Uses(late))
        BY <2>1, <2>5, <3>3, FinalWhole
      <4> QED
        BY <2>2, <4>1
    <3> QED
      BY <1>2, <3>1, <3>2, <3>3 DEF Terminated, Formats, Whole
  <2> QED
    BY <2>2, <2>3, <2>4, <2>6 DEF EndedIn
<1> QED
  BY <1>1, <1>2
-----------------------------------------------------------------------------
(* The end of the stream *)

\* The finish reason when the decoder's end() has had its say.
LastFinish(d, m) ==
  IF format = "kiro" THEN CallsOrStop(d)
  ELSE IF format \in {"perplexity", "grok"} THEN "stop" ELSE m.finish

\* What the decoder's end() adds changes nothing of the answer but the finish reason.
LEMMA EndDelivers ==
  ASSUME NEW s, NEW m, Carried(s, m),
         format \in {"kiro", "perplexity", "grok"} => m.finish = NoFinish
  PROVE  \E n : /\ Delivers(s, DecodeEnd(format, s.dec), n)
                /\ n.text = m.text /\ n.reasoning = m.reasoning /\ n.calls = m.calls
                /\ n.finish = LastFinish(s.dec, m) /\ n.usage = m.usage
                /\ n.resumed = m.resumed
<1>1. ASSUME NEW r \in Finishes \ {NoFinish}, DecodeEnd(format, s.dec) = <<FinishChunk(r, NoUsage)>>,
             LastFinish(s.dec, m) = r, m.finish = NoFinish
      PROVE  \E n : /\ Delivers(s, DecodeEnd(format, s.dec), n)
                    /\ n.text = m.text /\ n.reasoning = m.reasoning /\ n.calls = m.calls
                    /\ n.finish = LastFinish(s.dec, m) /\ n.usage = m.usage
                    /\ n.resumed = m.resumed
  <2>1. PICK n : n = WithEnd(m, r, NoUsage)
    OBVIOUS
  <2>2. Delivers(s, <<FinishChunk(r, NoUsage)>>, n)
    BY <1>1, <2>1, TokensAre, DeliverFinish
  <2>3. n = [text |-> m.text, reasoning |-> m.reasoning, calls |-> m.calls, finish |-> r,
             usage |-> m.usage, resumed |-> m.resumed]
    BY <2>1 DEF WithEnd, Noted
  <2>4. /\ n.text = m.text /\ n.reasoning = m.reasoning /\ n.calls = m.calls
        /\ n.finish = r /\ n.usage = m.usage /\ n.resumed = m.resumed
    BY <2>3
  <2> QED
    BY <1>1, <2>2, <2>4
<1>2. CASE format = "kiro"
  <2>1. DecodeEnd(format, s.dec) = <<FinishChunk(CallsOrStop(s.dec), NoUsage)>>
    BY <1>2 DEF DecodeEnd
  <2>2. LastFinish(s.dec, m) = CallsOrStop(s.dec)
    BY <1>2 DEF LastFinish
  <2> QED
    BY <1>1, <1>2, <2>1, <2>2, CallsOrStopTyped
<1>3. CASE format \in {"perplexity", "grok"}
  <2>1. DecodeEnd(format, s.dec) = <<FinishChunk("stop", NoUsage)>>
    BY <1>3 DEF DecodeEnd
  <2>2. LastFinish(s.dec, m) = "stop"
    BY <1>3 DEF LastFinish
  <2>3. "stop" \in Finishes \ {NoFinish}
    BY DEF Finishes, NoFinish
  <2> QED
    BY <1>1, <1>3, <2>1, <2>2, <2>3
<1>4. CASE format \notin {"kiro", "perplexity", "grok"}
  <2>1. DecodeEnd(format, s.dec) = <<>>
    BY <1>4 DEF DecodeEnd
  <2>2. LastFinish(s.dec, m) = m.finish
    BY <1>4 DEF LastFinish
  <2>3. Delivers(s, <<>>, m)
    BY DeliverNone
  <2> QED
    BY <2>1, <2>2, <2>3
<1> QED
  BY <1>2, <1>3, <1>4

\* The Claude client has seen m, its calls whole unless the provider resumed one.
SeenIn(saw, m) ==
  /\ saw.text = m.text /\ saw.reasoning = m.reasoning
  /\ m.resumed = "no" => saw.calls = m.calls

\* The stream is over: the readers have m, and a Claude client has its end; a Gemini
\* client has the calls if there was a finish reason.
Over(t, m, r) ==
  /\ t.pivot.text = m.text /\ t.pivot.reasoning = m.reasoning
  /\ t.pivot.toolsByIndex = ByIndex(m.calls)
  /\ client = "claude" =>
       /\ t.seen.legal = "yes" /\ t.seen.at = "stop"
       /\ t.seen.stop = openAIFinishToAnthropic(r) /\ t.seen.usage = m.usage
       /\ SeenIn(SawAll(t.seen.blocks), m)
  /\ client # "claude" =>
       /\ t.seen.text = m.text /\ t.seen.reasoning = m.reasoning
       /\ t.seen.calls = IF r = NoFinish THEN <<>> ELSE FunctionCalls(ByIndex(m.calls))

\* When a stream is closed, the clients have the answer that was carried, and a Claude
\* client has its message_stop, with the last finish reason.
LEMMA CloseEnds ==
  ASSUME NEW s, NEW m, Carried(s, m),
         format \in {"kiro", "perplexity", "grok"} => m.finish = NoFinish
  PROVE  Over(Close(s), m, LastFinish(s.dec, m)) /\ Close(s).dec = s.dec
<1>1. PICK n : /\ Delivers(s, DecodeEnd(format, s.dec), n)
               /\ n.text = m.text /\ n.reasoning = m.reasoning /\ n.calls = m.calls
               /\ n.finish = LastFinish(s.dec, m) /\ n.usage = m.usage
               /\ n.resumed = m.resumed
  BY EndDelivers
<1>2. PICK t : t = Forward(s, DecodeEnd(format, s.dec))
  OBVIOUS
<1>3. Carried(t, n) /\ t.dec = s.dec
  BY <1>1, <1>2 DEF Delivers
<1>4. PICK d, p, e, v : t = [dec |-> d, pivot |-> p, enc |-> e, seen |-> v]
  BY <1>3 DEF Carried
<1>5. t.dec = d /\ t.pivot = p /\ t.enc = e /\ t.seen = v
  BY <1>4
<1>6. p.text = m.text /\ p.reasoning = m.reasoning /\ p.toolsByIndex = ByIndex(m.calls)
  <2>1. PICK x, y, f, u : p = [text |-> n.text, reasoning |-> n.reasoning, toolsByIndex |-> x,
                               finish |-> f, usage |-> u] /\ x = ByIndex(n.calls)
    BY <1>3, <1>5 DEF Carried
  <2> QED
    BY <1>1, <2>1
<1>7. CASE client = "claude"
  <2>1. PICK w : w = ClaudeEncodeEnd(e)
    OBVIOUS
  <2>2. PICK u : u = ReadAll(v, w.events)
    OBVIOUS
  <2>3. Close(s) = [t EXCEPT !.enc = w.state, !.seen = u]
    BY <1>2, <1>5, <1>7, <2>1, <2>2 DEF Close
  <2>4. PICK c : c = [t EXCEPT !.enc = w.state]
    OBVIOUS
  <2>5. c = [dec |-> d, pivot |-> p, enc |-> w.state, seen |-> v]
    BY <1>4, <2>4
  <2>6. [c EXCEPT !.seen = u] = [dec |-> d, pivot |-> p, enc |-> w.state, seen |-> u]
    BY <2>5
  <2>7. Close(s) = [c EXCEPT !.seen = u]
    BY <2>3, <2>4
  <2>8. Close(s).dec = d /\ Close(s).pivot = p /\ Close(s).seen = u
    BY <2>6, <2>7
  <2>9. u = ClaudeReads(v, w.events)
    BY <1>7, <2>2 DEF ReadAll, ClaudeReads
  <2>10. Sync(e, v) /\ e.finish = n.finish /\ e.usage = n.usage
    BY <1>3, <1>5, <1>7 DEF Carried
  <2>11. /\ u.legal = "yes" /\ u.at = "stop"
         /\ u.stop = openAIFinishToAnthropic(e.finish) /\ u.usage = e.usage
         /\ u.blocks = v.blocks
    BY <2>1, <2>9, <2>10, EndCloses
  <2>12. SeenIn(SawAll(v.blocks), m)
    <3>1. Tells(Sight(t), n)
      BY <1>3, <1>7 DEF Carried
    <3>2. SeenIn(SawAll(t.seen.blocks), n)
      BY <3>1 DEF Tells, Sight, SeenIn
    <3> QED
      BY <1>1, <1>5, <3>2 DEF SeenIn
  <2> QED
    BY <1>1, <1>3, <1>5, <1>6, <1>7, <2>8, <2>10, <2>11, <2>12 DEF Over
<1>8. CASE client # "claude"
  <2>1. Close(s) = t
    BY <1>2, <1>8 DEF Close
  <2>2. /\ v.text = n.text /\ v.reasoning = n.reasoning
        /\ v.calls = IF n.finish = NoFinish THEN <<>> ELSE FunctionCalls(ByIndex(n.calls))
    BY <1>3, <1>5, <1>8 DEF Carried, Gathered
  <2> QED
    BY <1>1, <1>3, <1>5, <1>6, <1>8, <2>1, <2>2 DEF Over
<1> QED
  BY <1>7, <1>8
-----------------------------------------------------------------------------
(* Words, thoughts, calls and their arguments, relayed *)

\* The decoder once a Claude stream has begun.
Began(d) == IF Opening = <<>> THEN d ELSE Charged(d, AtStart)

\* What the opening of a stream changes in the decoder.
LEMMA BeganIs ==
  ASSUME NEW d, DecShape(d)
  PROVE  /\ DecShape(Began(d)) /\ Began(d).toolIndex = d.toolIndex /\ Began(d).next = d.next
         /\ format = "claude" /\ wire.sent = 0 => Began(d).usage = AtStart
         /\ ~(format = "claude" /\ wire.sent = 0) => Began(d) = d
<1>1. CASE format = "claude" /\ wire.sent = 0
  <2>1. Opening # <<>>
    <3>1. Opening = <<[type |-> "message_start", usage |-> AtStart]>>
      BY <1>1, OpeningIs
    <3> QED
      BY <3>1
  <2> QED
    BY <1>1, <2>1, DecoderChanged DEF Began, DecShape
<1>2. CASE ~(format = "claude" /\ wire.sent = 0)
  BY <1>2, OpeningIs DEF Began
<1> QED
  BY <1>1, <1>2

\* An event that comes down to chunks, first or not: from where they were passed on, and
\* what they deliver.
LEMMA OpenedBy ==
  ASSUME NEW s, NEW m, Carried(s, m), DecShape(s.dec), NEW e, NEW d, NEW chunks, NEW n,
         Decode(format, Began(s.dec), e) = Emit(d, chunks),
         \A b : Carried(b, m) => Delivers(b, chunks, n)
  PROVE  /\ Carried(Relayed(s, Opening \o <<e>>), n)
         /\ Relayed(s, Opening \o <<e>>).dec = d
         /\ \E c : Carried(c, m) /\ Relayed(s, Opening \o <<e>>) = Forward(c, chunks)
<1>1. PICK b : /\ Carried(b, m) /\ b.dec = Began(s.dec)
               /\ Relayed(s, Opening \o <<e>>) = Translate(b, e)
  BY Opened DEF Began
<1>2. PICK c : c = [b EXCEPT !.dec = d]
  OBVIOUS
<1>3. Carried(c, m)
  BY <1>1, <1>2, Decoding
<1>4. Delivers(c, chunks, n)
  BY <1>3
<1>5. Decode(format, b.dec, e) = Emit(d, chunks)
  BY <1>1
<1>6. Carried(Translate(b, e), n) /\ Translate(b, e).dec = d
  BY <1>1, <1>2, <1>4, <1>5, Translated
<1>7. Translate(b, e) = Forward(c, chunks)
  BY <1>2, <1>5 DEF Translate, Emit
<1> QED
  BY <1>1, <1>3, <1>6, <1>7

\* What the chunks deliver has arrived, and the decoder is in its next state.
LEMMA OpenedThen ==
  ASSUME NEW s, NEW m, Carried(s, m), DecShape(s.dec), NEW e, NEW d, NEW chunks, NEW n,
         Decode(format, Began(s.dec), e) = Emit(d, chunks),
         \A b : Carried(b, m) => Delivers(b, chunks, n)
  PROVE  /\ Carried(Relayed(s, Opening \o <<e>>), n)
         /\ Relayed(s, Opening \o <<e>>).dec = d
BY OpenedBy

\* The text of an event, first or not, has arrived when the event is relayed.
LEMMA TextRelayed ==
  ASSUME format \in Formats, NEW s, NEW m, Carried(s, m), DecShape(s.dec),
         NEW f \in Seq(Int), f # <<>>
  PROVE  /\ Carried(Relayed(s, Opening \o TextEvents(f)), WithText(m, f))
         /\ Relayed(s, Opening \o TextEvents(f)).dec = Began(s.dec)
<1>1. PICK d : d = Began(s.dec)
  OBVIOUS
<1>2. DecShape(d)
  BY <1>1, BeganIs
<1>3. PICK e : TextEvents(f) = <<e>> /\ Decode(format, d, e) = Emit(d, <<TextChunk(f)>>)
  BY <1>2, DecodeText
<1>4. \A b : Carried(b, m) => Delivers(b, <<TextChunk(f)>>, WithText(m, f))
  BY DeliverText
<1>5. PICK c, n : c = <<TextChunk(f)>> /\ n = WithText(m, f)
  OBVIOUS
<1>6. /\ Carried(Relayed(s, Opening \o <<e>>), n)
      /\ Relayed(s, Opening \o <<e>>).dec = d
  BY <1>1, <1>3, <1>4, <1>5, OpenedThen
<1> QED
  BY <1>1, <1>3, <1>5, <1>6

\* The reasoning of an event has arrived when the event is relayed.
LEMMA ReasoningRelayed ==
  ASSUME format \in Reasoning, NEW s, NEW m, Carried(s, m), DecShape(s.dec),
         NEW f \in Seq(Int), f # <<>>
  PROVE  /\ Carried(Relayed(s, Opening \o ReasoningEvents(f)), WithReasoning(m, f))
         /\ Relayed(s, Opening \o ReasoningEvents(f)).dec = Began(s.dec)
<1>1. PICK d : d = Began(s.dec)
  OBVIOUS
<1>2. DecShape(d)
  BY <1>1, BeganIs
<1>3. PICK e : ReasoningEvents(f) = <<e>> /\ Decode(format, d, e) = Emit(d, <<ReasoningChunk(f)>>)
  BY <1>2, DecodeReasoning
<1>4. \A b : Carried(b, m) => Delivers(b, <<ReasoningChunk(f)>>, WithReasoning(m, f))
  BY DeliverReasoning
<1>5. PICK c, n : c = <<ReasoningChunk(f)>> /\ n = WithReasoning(m, f)
  OBVIOUS
<1>6. /\ Carried(Relayed(s, Opening \o <<e>>), n)
      /\ Relayed(s, Opening \o <<e>>).dec = d
  BY <1>1, <1>3, <1>4, <1>5, OpenedThen
<1> QED
  BY <1>1, <1>3, <1>5, <1>6

\* A call that has begun.
NewlyMade(k) == [id |-> k, name |-> k, args |-> <<>>]

\* The key under which a decoder remembers the k-th call.
KeyOf(k, block) == IF format = "claude" THEN block ELSE k

\* A call that begins has arrived, last of the calls, when its event is relayed, and a
\* Claude client is at that call.
LEMMA CallRelayed ==
  ASSUME format \in Fragmenting, NEW s, NEW m, Carried(s, m), DecShape(s.dec),
         NEW k \in Nat \ {0}, Len(m.calls) = k - 1, NEW block,
         m.finish = NoFinish, format # "openai" => s.dec.next = k - 1,
         format = "kiro" => k \notin DOMAIN s.dec.toolIndex
  PROVE  /\ Telling(Relayed(s, Opening \o CallEvents(k, block)), k)
         /\ Carried(Relayed(s, Opening \o CallEvents(k, block)),
                    WithCalls(m, Append(m.calls, NewlyMade(k))))
         /\ Relayed(s, Opening \o CallEvents(k, block)).dec
              = IF format = "openai" THEN s.dec ELSE WithCall(Began(s.dec), KeyOf(k, block), k)
<1>1. PICK d : d = Began(s.dec)
  OBVIOUS
<1>2. DecShape(d) /\ d.next = s.dec.next /\ d.toolIndex = s.dec.toolIndex
  BY <1>1, BeganIs
<1>3. PICK x : x = IF format = "openai" THEN d ELSE WithCall(d, KeyOf(k, block), k)
  OBVIOUS
<1>4. PICK c : c = <<CallsChunk(<<Call(k - 1, k, k, <<>>)>>)>>
  OBVIOUS
<1>5. PICK e : CallEvents(k, block) = <<e>> /\ Decode(format, d, e) = Emit(x, c)
  BY <1>2, <1>3, <1>4, DecodeCall DEF KeyOf
<1>6. PICK n : n = WithCalls(m, Append(m.calls, NewlyMade(k)))
  OBVIOUS
<1>7. \A b : Carried(b, m) => Delivers(b, c, n) /\ Telling(Forward(b, c), k)
  <2>1. <<>> \in Seq(Int)
    OBVIOUS
  <2>2. \A b : Carried(b, m) =>
          /\ Delivers(b, <<CallsChunk(<<Call(Len(m.calls), k, k, <<>>)>>)>>, n)
          /\ Telling(Forward(b, <<CallsChunk(<<Call(Len(m.calls), k, k, <<>>)>>)>>),
                     Len(m.calls) + 1)
    BY <1>6, <2>1, DeliverNewCall DEF NewlyMade
  <2>3. Len(m.calls) + 1 = k
    OBVIOUS
  <2> QED
    BY <1>4, <2>2, <2>3
<1>8. /\ Carried(Relayed(s, Opening \o <<e>>), n)
      /\ Relayed(s, Opening \o <<e>>).dec = x
      /\ \E b : Carried(b, m) /\ Relayed(s, Opening \o <<e>>) = Forward(b, c)
  BY <1>1, <1>5, <1>7, OpenedBy
<1>9. Telling(Relayed(s, Opening \o <<e>>), k)
  BY <1>7, <1>8
<1>10. format = "openai" => d = s.dec
  BY <1>1, BeganIs
<1> QED
  BY <1>1, <1>3, <1>5, <1>6, <1>8, <1>10, <1>9

\* More arguments of the k-th call have arrived in that call when their event is
\* relayed, whatever call was sent before; a Claude client is at that call.
LEMMA ArgsRelayed ==
  ASSUME format \in Fragmenting, NEW s, NEW m, Carried(s, m), DecShape(s.dec),
         NEW k \in 1 .. Len(m.calls), NEW block, NEW f \in Seq(Int), f # <<>>,
         Knows(s.dec, k, block), m.finish = NoFinish, m.resumed = "no" => Telling(s, k)
  PROVE  /\ Telling(Relayed(s, ArgsEvents(k, block, f)), k)
         /\ Carried(Relayed(s, ArgsEvents(k, block, f)), WithCalls(m, Longer(m.calls, k, f)))
         /\ Relayed(s, ArgsEvents(k, block, f)).dec = s.dec
<1>1. k \in Nat \ {0}
  <2>1. m.calls \in Seq(Calls)
    BY DEF Carried, Messages
  <2> QED
    BY <2>1
<1>2. PICK e : /\ ArgsEvents(k, block, f) = <<e>>
               /\ \/ Decode(format, s.dec, e) = Emit(s.dec, MoreArgs(k, Missing, f))
                  \/ Decode(format, s.dec, e) = Emit(s.dec, MoreArgs(k, Absent, f))
  BY <1>1, DecodeArgs
<1>3. PICK n : n = WithCalls(m, Longer(m.calls, k, f))
  OBVIOUS
<1>4. PICK b : b = [s EXCEPT !.dec = s.dec]
  OBVIOUS
<1>5. Carried(b, m) /\ (m.resumed = "no" => Telling(b, k))
  <2>1. Carried(b, m)
    BY <1>4, Decoding
  <2>2. b.enc = s.enc
    <3>1. PICK d, p, x, y : s = [dec |-> d, pivot |-> p, enc |-> x, seen |-> y]
      BY DEF Carried
    <3>2. b = [dec |-> d, pivot |-> p, enc |-> x, seen |-> y]
      BY <1>4, <3>1
    <3> QED
      BY <3>1, <3>2
  <2> QED
    BY <2>1, <2>2 DEF Telling
<1>6. \A x \in {Missing, Absent} :
        Delivers(b, MoreArgs(k, x, f), n) /\ Telling(Forward(b, MoreArgs(k, x, f)), k)
  BY <1>3, <1>5, DeliverArgs DEF MoreArgs
<1>7. PICK x \in {Missing, Absent} : Decode(format, s.dec, e) = Emit(s.dec, MoreArgs(k, x, f))
  BY <1>2
<1>8. Carried(Translate(s, e), n) /\ Translate(s, e).dec = s.dec
  BY <1>4, <1>6, <1>7, Translated
<1>9. Translate(s, e) = Forward(b, MoreArgs(k, x, f))
  BY <1>4, <1>7 DEF Translate, Emit
<1> QED
  BY <1>2, <1>3, <1>6, <1>8, <1>9, RelayOne
-----------------------------------------------------------------------------
(* The inductive invariant *)

Saids == [text : Seq(Int), reasoning : Seq(Int), calls : Seq(Calls),
          stop : {"none", "complete", "limit"}, late : {"no", "yes"}]
Wires == [sent : 0 .. MaxEvents, item : {"none", "text", "reasoning", "call"} \X Int,
          block : Int, resumed : {"no", "yes"}]

\* What has been said so far, as a message without an end.
SoFar ==
  Message(said.text, said.reasoning, said.calls, NoFinish, NoUsage, wire.resumed)

SaidInv ==
  /\ said \in Saids
  /\ Len(said.calls) <= MaxCalls
  /\ format \notin Fragmenting \cup Whole => said.calls = <<>>

WireInv ==
  /\ wire \in Wires
  /\ wire.sent = 0 => wire.item = <<"none", 0>>

\* The decoder knows the calls, and a Claude decoder the open block.
DecoderInv ==
  /\ DecShape(dec)
  /\ dec.next = IF format = "openai" THEN 0 ELSE Len(said.calls)
  /\ format \in {"responses", "kiro"} =>
       dec.toolIndex = [k \in 1 .. Len(said.calls) |-> k - 1]
  /\ format = "claude" =>
       /\ wire.sent # 0 => dec.usage = AtStart
       /\ \A k \in 1 .. Len(said.calls) : wire.item = <<"call", k>> => Knows(dec, k, wire.block)

\* A Claude client is at the call whose arguments a provider may send in fragments.
TellingInv ==
  format \in Fragmenting =>
    \A k \in 1 .. Len(said.calls) : wire.item = <<"call", k>> => Telling(Now, k)

\* While the answer streams: what was said has arrived.
StreamingInv == phase = "streaming" => Carried(Now, SoFar) /\ DecoderInv /\ TellingInv

\* After its end.
OverInv ==
  phase # "streaming" =>
    /\ dec.next \in 0 .. MaxCalls
    /\ pivot.toolsByIndex = ByIndex(said.calls)
    /\ pivot.reasoning = said.reasoning
    /\ format # "grok" => pivot.text = said.text
    /\ client = "claude" =>
         /\ seen.legal = "yes" /\ seen.at = "stop"
         /\ SawAll(seen.blocks).reasoning = said.reasoning
         /\ format # "grok" => SawAll(seen.blocks).text = said.text
         /\ wire.resumed = "no" => SawAll(seen.blocks).calls = said.calls
    /\ client # "claude" =>
         /\ seen.reasoning = said.reasoning
         /\ format # "grok" => seen.text = said.text
         /\ seen.calls \in {<<>>, FunctionCalls(ByIndex(said.calls))}
         /\ phase = "finished" => seen.calls = FunctionCalls(ByIndex(said.calls))

StreamInv ==
  /\ format \in Providers /\ client \in {"claude", "gemini"}
  /\ phase \in {"streaming", "finished", "cut"}
  /\ SaidInv /\ WireInv /\ StreamingInv /\ OverInv /\ OutcomeReported
-----------------------------------------------------------------------------
(* The invariant holds at first *)

\* No calls, by their indices.
LEMMA NoCalls == ByIndex(<<>>) = <<>>
<1>1. DOMAIN ByIndex(<<>>) = {}
  BY DEF ByIndex
<1>2. ByIndex(<<>>) = [i \in {} |-> i]
  BY <1>1 DEF ByIndex
<1> QED
  BY <1>2

\* At first the reader and the encoder are in step.
LEMMA FirstSync == Sync(ClaudeEncoder, NewClaudeReader)
<1>1. NoUsage \in Usages /\ NoFinish \in Finishes /\ NoFinish \in Stops
  BY TokensAre DEF Finishes, Stops
<1>2. NoBlock \in Int
  BY DEF NoBlock
<1>3. ClaudeEncoder \in Encoders
  BY <1>1, <1>2 DEF ClaudeEncoder, Encoders
<1>4. <<>> \in Seq(Blocks) /\ Len(<<>>) = 0
  OBVIOUS
<1>5. NewClaudeReader \in Readers
  BY <1>1, <1>2, <1>4 DEF NewClaudeReader, Readers
<1> QED
  BY <1>3, <1>4, <1>5 DEF Sync, ClaudeEncoder, NewClaudeReader

\* At first nothing is seen, and nothing is told.
LEMMA FirstSight ==
  ASSUME NEW m, m.text = <<>>, m.reasoning = <<>>, m.calls = <<>>, NEW s,
         s.enc = ClaudeEncoder, s.seen = NewClaudeReader
  PROVE  Tells(Sight(s), m)
<1>1. SawAll(<<>>) = NothingSeen
  BY SeeingFold, Seeing!FoldEmpty DEF SawAll
<1>2. s.seen.blocks = <<>> /\ s.enc.channel = NoChannel
  BY DEF NewClaudeReader, ClaudeEncoder
<1>3. Sight(s).saw = NothingSeen /\ Sight(s).channel = NoChannel
  BY <1>1, <1>2 DEF Sight
<1>4. \A i : ToolChannel(i) # NoChannel
  <2>1. NoChannel[1] = "none" /\ \A i : ToolChannel(i)[1] = "tool"
    BY DEF ToolChannel, NoChannel
  <2> QED
    BY <2>1
<1> QED
  BY <1>3, <1>4 DEF Tells, NothingSeen

\* At first a Gemini client has nothing, and its encoder no calls.
LEMMA FirstGathered ==
  ASSUME NEW m, m.text = <<>>, m.reasoning = <<>>, m.calls = <<>>, m.finish = NoFinish, NEW s,
         s.enc = GeminiEncoder, s.seen = NewGeminiReader
  PROVE  Gathered(s, m)
<1>1. s.enc.toolsByIndex = <<>>
  BY DEF GeminiEncoder
<1>2. s.seen.text = <<>> /\ s.seen.reasoning = <<>> /\ s.seen.calls = <<>>
  BY DEF NewGeminiReader
<1> QED
  BY <1>1, <1>2, NoCalls DEF Gathered

\* The invariant holds at first.
LEMMA InitHolds == Init => StreamInv
<1> SUFFICES ASSUME Init
             PROVE  StreamInv
  OBVIOUS
<1>1. <<>> \in Seq(Int) /\ <<>> \in Seq(Calls) /\ Len(<<>>) = 0 /\ 1 .. 0 = {}
  OBVIOUS
<1>2. SaidInv
  BY <1>1, StreamAssumption DEF Init, SaidInv, Saids
<1>3. WireInv
  BY StreamAssumption DEF Init, WireInv, Wires, NoBlock
<1>4. Carried(Now, SoFar)
  <2>1. SoFar = Message(<<>>, <<>>, <<>>, NoFinish, NoUsage, "no")
    BY DEF Init, SoFar
  <2>2. SoFar \in Messages
    BY <1>1, <2>1, TokensAre DEF Message, Messages, Finishes
  <2>3. SoFar.text = <<>> /\ SoFar.reasoning = <<>> /\ SoFar.calls = <<>>
        /\ SoFar.finish = NoFinish /\ SoFar.usage = NoUsage
    BY <2>1 DEF Message
  <2>4. pivot = [text |-> <<>>, reasoning |-> <<>>, toolsByIndex |-> <<>>,
                 finish |-> pivot.finish, usage |-> pivot.usage]
    BY DEF Init, NothingAssembled
  <2>5. client = "claude" => Sync(enc, seen) /\ enc.finish = NoFinish /\ enc.usage = NoUsage
    BY FirstSync DEF Init, NewEncoder, ClaudeEncoder
  <2>6. Now.dec = dec /\ Now.pivot = pivot /\ Now.enc = enc /\ Now.seen = seen
    BY DEF Now
  <2>7. Now = [dec |-> Now.dec, pivot |-> Now.pivot, enc |-> Now.enc, seen |-> Now.seen]
    BY DEF Now
  <2>8. client = "claude" => Tells(Sight(Now), SoFar)
    BY <2>3, <2>6, FirstSight DEF Init, NewEncoder
  <2>9. client # "claude" => Gathered(Now, SoFar)
    BY <2>3, <2>6, FirstGathered DEF Init, NewEncoder
  <2> QED
    BY <2>2, <2>3, <2>4, <2>5, <2>6, <2>7, <2>8, <2>9, NoCalls DEF Carried
<1>5. DecoderInv
  <2>1. dec = [toolIndex |-> <<>>, next |-> 0, usage |-> NoUsage] /\ said.calls = <<>>
    BY DEF Init, Decoder
  <2>2. DecShape(dec) /\ dec.next = 0 /\ dec.toolIndex = <<>>
    BY <2>1 DEF DecShape
  <2>3. [k \in 1 .. Len(<<>>) |-> k - 1] = <<>>
    OBVIOUS
  <2> QED
    BY <2>1, <2>2, <2>3 DEF DecoderInv, Init
<1>6. TellingInv
  BY DEF TellingInv, Init
<1> QED
  BY <1>2, <1>3, <1>4, <1>5, <1>6
     DEF Init, StreamInv, StreamingInv, OverInv, OutcomeReported
-----------------------------------------------------------------------------
(* Every step keeps it *)

\* When the relay's state becomes s, and what has been said becomes m, the invariant
\* of s and m holds of the variables.
LEMMA Becoming ==
  ASSUME NEW s, NEW m, Carried(s, m), Becomes(s), client' = client, SoFar' = m
  PROVE  Carried(Now, SoFar)' /\ dec' = s.dec
<1>1. s = [dec |-> s.dec, pivot |-> s.pivot, enc |-> s.enc, seen |-> s.seen]
  BY DEF Carried
<1>2. Now' = s
  BY <1>1 DEF Becomes, Now
<1>3. dec' = s.dec
  BY DEF Becomes
<1>4. (Carried(Now, SoFar))' = /\ SoFar' \in Messages
                               /\ Now' = [dec |-> Now'.dec, pivot |-> Now'.pivot,
                                          enc |-> Now'.enc, seen |-> Now'.seen]
                               /\ Now'.pivot = [text |-> SoFar'.text,
                                                reasoning |-> SoFar'.reasoning,
                                                toolsByIndex |-> ByIndex(SoFar'.calls),
                                                finish |-> Now'.pivot.finish,
                                                usage |-> Now'.pivot.usage]
                               /\ client' = "claude" =>
                                    /\ Sync(Now'.enc, Now'.seen)
                                    /\ Now'.enc.finish = SoFar'.finish
                                    /\ Now'.enc.usage = SoFar'.usage
                                    /\ Tells(Sight(Now'), SoFar')
                               /\ client' # "claude" => Gathered(Now', SoFar')
  BY DEF Carried
<1>5. Carried(s, m)
  OBVIOUS
<1> QED
  BY <1>2, <1>3, <1>4, <1>5 DEF Carried

\* The Claude client stays at its call when the relay's state becomes s.
LEMMA StillTelling ==
  ASSUME NEW s, NEW m, Carried(s, m), NEW k, Telling(s, k), Becomes(s), client' = client
  PROVE  Telling(Now, k)'
<1>1. Now'.enc = enc' /\ enc' = s.enc
  BY DEF Now, Becomes
<1> QED
  BY <1>1 DEF Telling

\* Relay starts from the variables.
LEMMA RelayIs == \A events : Relay(events) = Relayed(Now, events)
BY DEF Relay, Relayed

\* What was said is its fields.
LEMMA SaidFields ==
  ASSUME SaidInv
  PROVE  /\ said = [text |-> said.text, reasoning |-> said.reasoning, calls |-> said.calls,
                    stop |-> said.stop, late |-> said.late]
         /\ said.text \in Seq(Int) /\ said.reasoning \in Seq(Int) /\ said.calls \in Seq(Calls)
         /\ said.stop \in {"none", "complete", "limit"} /\ said.late \in {"no", "yes"}
BY DEF SaidInv, Saids

\* The provider's side of the connection is its fields.
LEMMA WireFields ==
  ASSUME WireInv
  PROVE  /\ wire = [sent |-> wire.sent, item |-> wire.item, block |-> wire.block,
                    resumed |-> wire.resumed]
         /\ wire.sent \in 0 .. MaxEvents /\ wire.block \in Int /\ wire.resumed \in {"no", "yes"}
BY DEF WireInv, Wires

\* Sending an item keeps the type of the wire.
LEMMA SentKeeps ==
  ASSUME WireInv, wire.sent < MaxEvents, NEW kind \in {"text", "reasoning", "call"}, NEW k \in Int,
         Sent(<<kind, k>>)
  PROVE  /\ WireInv' /\ wire'.item = <<kind, k>> /\ wire'.sent # 0
         /\ wire'.block = Block(<<kind, k>>) /\ wire'.resumed = wire.resumed
<1>1. PICK item, block : item = <<kind, k>> /\ block = Block(<<kind, k>>)
  OBVIOUS
<1>2. PICK n, i, b, r : wire = [sent |-> n, item |-> i, block |-> b, resumed |-> r]
  BY WireFields
<1>3. n \in 0 .. MaxEvents /\ b \in Int /\ r \in {"no", "yes"} /\ wire.sent = n
      /\ wire.block = b /\ wire.resumed = r
  BY <1>2, WireFields
<1>4. n + 1 \in 0 .. MaxEvents /\ n + 1 # 0
  BY <1>3, StreamAssumption
<1>5. block \in Int
  BY <1>1, <1>3 DEF Block
<1>6. item \in {"none", "text", "reasoning", "call"} \X Int
  BY <1>1
<1>7. wire' = [wire EXCEPT !.sent = n + 1, !.item = item, !.block = block]
  BY <1>1, <1>3 DEF Sent
<1>8. PICK w : w = [wire EXCEPT !.sent = n + 1]
  OBVIOUS
<1>9. w = [sent |-> n + 1, item |-> i, block |-> b, resumed |-> r]
  BY <1>2, <1>8
<1>10. PICK x : x = [w EXCEPT !.item = item]
  OBVIOUS
<1>11. x = [sent |-> n + 1, item |-> item, block |-> b, resumed |-> r]
  BY <1>9, <1>10
<1>12. [x EXCEPT !.block = block] = [sent |-> n + 1, item |-> item, block |-> block, resumed |-> r]
  BY <1>11
<1>13. wire' = [x EXCEPT !.block = block]
  BY <1>7, <1>8, <1>10
<1>14. wire' = [sent |-> n + 1, item |-> item, block |-> block, resumed |-> r]
  BY <1>12, <1>13
<1>15. wire'.sent = n + 1 /\ wire'.item = item /\ wire'.block = block /\ wire'.resumed = r
  BY <1>14
<1>16. wire' \in Wires
  BY <1>3, <1>4, <1>5, <1>6, <1>14 DEF Wires
<1> QED
  BY <1>1, <1>3, <1>4, <1>15, <1>16 DEF WireInv

\* What is left of a step when the said, the wire and the state of the relay are settled.
LEMMA StillStreaming ==
  ASSUME StreamInv, phase = "streaming", UNCHANGED <<format, client, phase>>,
         SaidInv', WireInv', (Carried(Now, SoFar))', DecoderInv', TellingInv'
  PROVE  StreamInv'
BY DEF StreamInv, StreamingInv, OverInv, OutcomeReported

\* The format is one of the formats.
LEMMA FormatTyped == ASSUME StreamInv PROVE format \in Formats
BY StreamAssumption DEF StreamInv

\* Saying text keeps the invariant.
LEMMA TextKeeps == ASSUME StreamInv, SayText PROVE StreamInv'
<1>1. /\ SaidInv /\ WireInv /\ Carried(Now, SoFar) /\ DecoderInv
      /\ phase = "streaming" /\ wire.sent < MaxEvents
      /\ UNCHANGED <<format, client, phase>>
  BY DEF SayText, Sending, StreamInv, StreamingInv
<1>2. WireInv' /\ wire'.item = <<"text", 0>> /\ wire'.resumed = wire.resumed
  BY <1>1, SentKeeps DEF SayText
<1>3. PICK f : f = <<Fresh>>
  OBVIOUS
<1>4. f \in Seq(Int) /\ f # <<>>
  <2>1. Fresh \in Int
    BY <1>1, WireFields DEF Fresh
  <2> QED
    BY <1>3, <2>1
<1>5. PICK t, r, c, st, l : said = [text |-> t, reasoning |-> r, calls |-> c, stop |-> st, late |-> l]
  BY <1>1, SaidFields
<1>6. said.text = t /\ said.reasoning = r /\ said.calls = c /\ said.stop = st /\ said.late = l
  BY <1>5
<1>7. t \in Seq(Int) /\ r \in Seq(Int) /\ c \in Seq(Calls)
      /\ st \in {"none", "complete", "limit"} /\ l \in {"no", "yes"}
  BY <1>1, <1>6, SaidFields
<1>8. PICK x : x = t \o f
  OBVIOUS
<1>9. Append(t, Fresh) = x /\ x \in Seq(Int)
  <2>1. Fresh \in Int
    BY <1>1, WireFields DEF Fresh
  <2> QED
    BY <1>3, <1>7, <1>8, <2>1
<1>10. said' = [text |-> x, reasoning |-> r, calls |-> c, stop |-> st, late |-> l]
  <2>1. said' = [said EXCEPT !.text = x]
    BY <1>6, <1>9 DEF SayText
  <2> QED
    BY <1>5, <2>1
<1>11. SaidInv'
  <2>1. said' \in Saids
    BY <1>7, <1>9, <1>10 DEF Saids
  <2>2. said'.calls = said.calls
    BY <1>6, <1>10
  <2> QED
    BY <1>1, <2>1, <2>2 DEF SaidInv
<1>12. SoFar' = WithText(SoFar, f)
  <2>1. SoFar = Message(t, r, c, NoFinish, NoUsage, wire.resumed)
    BY <1>6 DEF SoFar
  <2>2. WithText(SoFar, f) = Message(x, r, c, NoFinish, NoUsage, wire.resumed)
    BY <1>8, <2>1, MessageFields
  <2>3. said'.text = x /\ said'.reasoning = r /\ said'.calls = c
    BY <1>10
  <2> QED
    BY <1>2, <2>2, <2>3 DEF SoFar
<1>13. PICK s : s = Relayed(Now, Opening \o TextEvents(f))
  OBVIOUS
<1>14. Becomes(s)
  BY <1>3, <1>13, RelayIs DEF SayText
<1>15. Now.dec = dec /\ DecShape(dec)
  BY <1>1 DEF Now, DecoderInv
<1>16. Carried(s, WithText(SoFar, f)) /\ s.dec = Began(dec)
  BY <1>1, <1>4, <1>13, <1>15, FormatTyped, TextRelayed
<1>17. (Carried(Now, SoFar))' /\ dec' = Began(dec)
  BY <1>1, <1>12, <1>14, <1>16, Becoming
<1>18. DecoderInv'
  <2>1. said'.calls = said.calls /\ \A k : wire'.item # <<"call", k>>
    BY <1>2, <1>6, <1>10
  <2>2. /\ DecShape(dec') /\ dec'.toolIndex = dec.toolIndex /\ dec'.next = dec.next
        /\ format = "claude" => dec'.usage = AtStart
    BY <1>1, <1>15, <1>17, BeganIs DEF DecoderInv
  <2> QED
    BY <1>1, <2>1, <2>2 DEF DecoderInv
<1>19. TellingInv'
  <2>1. \A k : wire'.item # <<"call", k>>
    BY <1>2
  <2> QED
    BY <2>1 DEF TellingInv
<1> QED
  BY <1>2, <1>1, <1>11, <1>17, <1>18, <1>19, StillStreaming

\* A message with more reasoning, by its fields.
LEMMA ReasoningField ==
  ASSUME NEW t, NEW r, NEW c, NEW f, NEW u, NEW p, NEW x
  PROVE  WithReasoning(Message(t, r, c, f, u, p), x) = Message(t, r \o x, c, f, u, p)
<1>1. PICK m : m = Message(t, r, c, f, u, p)
  OBVIOUS
<1>2. m = [text |-> t, reasoning |-> r, calls |-> c, finish |-> f, usage |-> u, resumed |-> p]
  BY <1>1 DEF Message
<1>3. PICK y : y = r \o x
  OBVIOUS
<1>4. m.reasoning = r
  BY <1>2
<1>5. WithReasoning(m, x) = [m EXCEPT !.reasoning = y]
  BY <1>3, <1>4 DEF WithReasoning
<1>6. [m EXCEPT !.reasoning = y] = Message(t, y, c, f, u, p)
  BY <1>2 DEF Message
<1> QED
  BY <1>1, <1>3, <1>5, <1>6

\* Saying reasoning keeps the invariant.
LEMMA ReasoningStepKeeps == ASSUME StreamInv, SayReasoning PROVE StreamInv'
<1>1. /\ SaidInv /\ WireInv /\ Carried(Now, SoFar) /\ DecoderInv
      /\ phase = "streaming" /\ wire.sent < MaxEvents /\ format \in Reasoning
      /\ UNCHANGED <<format, client, phase>>
  BY DEF SayReasoning, Sending, StreamInv, StreamingInv
<1>2. WireInv' /\ wire'.item = <<"reasoning", 0>> /\ wire'.resumed = wire.resumed
  BY <1>1, SentKeeps DEF SayReasoning
<1>3. PICK f : f = <<Fresh>>
  OBVIOUS
<1>4. Fresh \in Int
  BY <1>1, WireFields DEF Fresh
<1>5. PICK t, r, c, st, l : said = [text |-> t, reasoning |-> r, calls |-> c, stop |-> st, late |-> l]
  BY <1>1, SaidFields
<1>6. said.text = t /\ said.reasoning = r /\ said.calls = c /\ said.stop = st /\ said.late = l
  BY <1>5
<1>7. t \in Seq(Int) /\ r \in Seq(Int) /\ c \in Seq(Calls)
      /\ st \in {"none", "complete", "limit"} /\ l \in {"no", "yes"}
  BY <1>1, <1>6, SaidFields
<1>8. PICK x : x = r \o f
  OBVIOUS
<1>9. Append(r, Fresh) = x /\ x \in Seq(Int) /\ f \in Seq(Int) /\ f # <<>>
  BY <1>3, <1>4, <1>7, <1>8
<1>10. said' = [text |-> t, reasoning |-> x, calls |-> c, stop |-> st, late |-> l]
  <2>1. said' = [said EXCEPT !.reasoning = x]
    BY <1>6, <1>9 DEF SayReasoning
  <2> QED
    BY <1>5, <2>1
<1>11. SaidInv'
  <2>1. said' \in Saids
    BY <1>7, <1>9, <1>10 DEF Saids
  <2>2. said'.calls = said.calls
    BY <1>6, <1>10
  <2> QED
    BY <1>1, <2>1, <2>2 DEF SaidInv
<1>12. SoFar' = WithReasoning(SoFar, f)
  <2>1. SoFar = Message(t, r, c, NoFinish, NoUsage, wire.resumed)
    BY <1>6 DEF SoFar
  <2>2. WithReasoning(SoFar, f) = Message(t, x, c, NoFinish, NoUsage, wire.resumed)
    BY <1>8, <2>1, ReasoningField
  <2>3. said'.text = t /\ said'.reasoning = x /\ said'.calls = c
    BY <1>10
  <2> QED
    BY <1>2, <2>2, <2>3 DEF SoFar
<1>13. PICK s : s = Relayed(Now, Opening \o ReasoningEvents(f))
  OBVIOUS
<1>14. Becomes(s)
  BY <1>3, <1>13, RelayIs DEF SayReasoning
<1>15. Now.dec = dec /\ DecShape(dec)
  BY <1>1 DEF Now, DecoderInv
<1>16. Carried(s, WithReasoning(SoFar, f)) /\ s.dec = Began(dec)
  BY <1>1, <1>9, <1>13, <1>15, ReasoningRelayed
<1>17. (Carried(Now, SoFar))' /\ dec' = Began(dec)
  BY <1>1, <1>12, <1>14, <1>16, Becoming
<1>18. DecoderInv'
  <2>1. said'.calls = said.calls /\ \A k : wire'.item # <<"call", k>>
    BY <1>2, <1>6, <1>10
  <2>2. /\ DecShape(dec') /\ dec'.toolIndex = dec.toolIndex /\ dec'.next = dec.next
        /\ format = "claude" => dec'.usage = AtStart
    BY <1>1, <1>15, <1>17, BeganIs DEF DecoderInv
  <2> QED
    BY <1>1, <2>1, <2>2 DEF DecoderInv
<1>19. TellingInv'
  <2>1. \A k : wire'.item # <<"call", k>>
    BY <1>2
  <2> QED
    BY <2>1 DEF TellingInv
<1> QED
  BY <1>2, <1>1, <1>11, <1>17, <1>18, <1>19, StillStreaming

\* What has been said so far, as a message, field by field.
LEMMA SoFarIs ==
  SoFar.calls = said.calls /\ SoFar.text = said.text /\ SoFar.reasoning = said.reasoning
  /\ SoFar.finish = NoFinish /\ SoFar.usage = NoUsage /\ SoFar.resumed = wire.resumed
BY DEF SoFar, Message

\* The message m, with a call resumed or not.
Resumed(m, resumed) == Message(m.text, m.reasoning, m.calls, m.finish, m.usage, resumed)

\* What was carried is carried still when a call is resumed: less is then promised.
LEMMA ResumedIs ==
  ASSUME NEW s, NEW m, Carried(s, m), NEW resumed \in {m.resumed, "yes"}
  PROVE  /\ Carried(s, Resumed(m, resumed))
         /\ Resumed(m, resumed).calls = m.calls /\ Resumed(m, resumed).finish = m.finish
         /\ Resumed(m, resumed).resumed = resumed
<1>1. PICK n : n = Resumed(m, resumed)
  OBVIOUS
<1>2. /\ n.text = m.text /\ n.reasoning = m.reasoning /\ n.calls = m.calls
      /\ n.finish = m.finish /\ n.usage = m.usage /\ n.resumed = resumed
  BY <1>1 DEF Resumed, Message
<1>3. n \in Messages
  <2>1. m \in Messages
    BY DEF Carried
  <2>2. resumed \in {"no", "yes"}
    BY <2>1 DEF Messages
  <2> QED
    BY <1>1, <2>1, <2>2 DEF Resumed, Message, Messages
<1>4. client = "claude" => Tells(Sight(s), n)
  BY <1>2 DEF Carried, Tells
<1>5. client # "claude" => Gathered(s, n)
  BY <1>2 DEF Carried, Gathered
<1>6. Carried(s, n)
  BY <1>2, <1>3, <1>4, <1>5 DEF Carried
<1> QED
  BY <1>1, <1>2, <1>6

\* The type of what was said.
LEMMA SaidTyped ==
  ASSUME NEW t \in Seq(Int), NEW r \in Seq(Int), NEW c \in Seq(Calls),
         NEW st \in {"none", "complete", "limit"}, NEW l \in {"no", "yes"}
  PROVE  [text |-> t, reasoning |-> r, calls |-> c, stop |-> st, late |-> l] \in Saids
BY DEF Saids

\* The calls of the answer change, and nothing else of it.
LEMMA CallsChange ==
  ASSUME SaidInv, NEW calls \in Seq(Calls), Len(calls) <= MaxCalls,
         format \in Fragmenting \cup Whole, format' = format,
         said' = [said EXCEPT !.calls = calls], NEW m, m = Resumed(SoFar, wire'.resumed)
  PROVE  /\ SaidInv' /\ said'.calls = calls /\ said'.text = said.text
         /\ SoFar' = WithCalls(m, calls)
<1>1. PICK t, r, c, st, l : said = [text |-> t, reasoning |-> r, calls |-> c, stop |-> st, late |-> l]
  BY SaidFields
<1>2. said.text = t /\ said.reasoning = r /\ said.calls = c /\ said.stop = st /\ said.late = l
  BY <1>1
<1>3. t \in Seq(Int) /\ r \in Seq(Int) /\ c \in Seq(Calls)
      /\ st \in {"none", "complete", "limit"} /\ l \in {"no", "yes"}
  BY <1>2, SaidFields
<1>4. said' = [text |-> t, reasoning |-> r, calls |-> calls, stop |-> st, late |-> l]
  BY <1>1
<1>5. SaidInv' /\ said'.calls = calls /\ said'.text = said.text
  <2>0. [text |-> t, reasoning |-> r, calls |-> calls, stop |-> st, late |-> l] \in Saids
    BY <1>3, SaidTyped
  <2>1. said' \in Saids
    BY <1>4, <2>0, Zenon
  <2>2. said'.calls = calls /\ said'.text = t
    BY <1>4
  <2> QED
    BY <1>2, <2>1, <2>2 DEF SaidInv
<1>6. SoFar' = WithCalls(m, calls)
  <2>1. m = Message(t, r, c, NoFinish, NoUsage, wire'.resumed)
    BY <1>2, SoFarIs DEF Resumed
  <2>2. WithCalls(m, calls) = Message(t, r, calls, NoFinish, NoUsage, wire'.resumed)
    BY <2>1, MessageFields
  <2>3. said'.text = t /\ said'.reasoning = r /\ said'.calls = calls
    BY <1>4
  <2> QED
    BY <2>2, <2>3 DEF SoFar
<1> QED
  BY <1>5, <1>6

\* The decoder after a call has begun, field by field.
LEMMA WithCallIs ==
  ASSUME NEW d, NEW key, NEW k \in Nat \ {0}
  PROVE  /\ DecShape(WithCall(d, key, k))
         /\ WithCall(d, key, k).next = k
         /\ WithCall(d, key, k).usage = d.usage
         /\ WithCall(d, key, k).toolIndex = Put(d.toolIndex, key, k - 1)
<1>1. PICK t : t = Put(d.toolIndex, key, k - 1)
  OBVIOUS
<1>2. PICK u : u = d.usage
  OBVIOUS
<1>3. PICK x : x = WithCall(d, key, k)
  OBVIOUS
<1>4. x = [toolIndex |-> t, next |-> k, usage |-> u]
  BY <1>1, <1>2, <1>3 DEF WithCall
<1>5. x.toolIndex = t /\ x.next = k /\ x.usage = u
  BY <1>4
<1> QED
  BY <1>1, <1>2, <1>3, <1>4, <1>5 DEF DecShape

\* Beginning a call keeps the invariant: the decoder knows the new call, and a Claude
\* decoder the block it was opened in.
LEMMA BeginKeeps == ASSUME StreamInv, BeginCall PROVE StreamInv'
<1>1. /\ SaidInv /\ WireInv /\ Carried(Now, SoFar) /\ DecoderInv
      /\ phase = "streaming" /\ wire.sent < MaxEvents /\ format \in Fragmenting
      /\ Len(said.calls) < MaxCalls
      /\ UNCHANGED <<format, client, phase>>
  BY DEF BeginCall, Sending, StreamInv, StreamingInv
<1>2. PICK k : k = Len(said.calls) + 1
  OBVIOUS
<1>3. said.calls \in Seq(Calls) /\ k \in Nat \ {0} /\ Len(said.calls) = k - 1 /\ k <= MaxCalls
  <2>1. said.calls \in Seq(Calls)
    BY <1>1, SaidFields
  <2> QED
    BY <1>1, <1>2, <2>1, StreamAssumption
<1>4. PICK calls : calls = Append(said.calls, NewlyMade(k))
  OBVIOUS
<1>5. calls \in Seq(Calls) /\ Len(calls) = k
  <2>1. NewlyMade(k) \in Calls
    BY <1>3 DEF NewlyMade, Calls
  <2> QED
    BY <1>3, <1>4, <2>1
<1>6. said' = [said EXCEPT !.calls = calls]
  BY <1>2, <1>4 DEF BeginCall, NewlyMade
<1>7. PICK block : block = Block(<<"call", k>>)
  OBVIOUS
<1>8. /\ WireInv' /\ wire'.item = <<"call", k>> /\ wire'.block = block /\ wire'.sent # 0
      /\ wire'.resumed = wire.resumed
  <2>1. Sent(<<"call", k>>)
    BY <1>2 DEF BeginCall
  <2> QED
    BY <1>1, <1>3, <1>7, <2>1, SentKeeps
<1>9. SaidInv' /\ said'.calls = calls /\ SoFar' = WithCalls(SoFar, calls)
  <2>1. SoFar = Resumed(SoFar, wire'.resumed)
    BY <1>8, SoFarIs DEF SoFar, Resumed
  <2> QED
    BY <1>1, <1>3, <1>5, <1>6, <2>1, CallsChange
<1>10. PICK s : s = Relayed(Now, Opening \o CallEvents(k, block))
  OBVIOUS
<1>11. Becomes(s)
  BY <1>2, <1>7, <1>10, RelayIs DEF BeginCall
<1>12. Now.dec = dec /\ DecShape(dec)
  BY <1>1 DEF Now, DecoderInv
<1>13. /\ format # "openai" => dec.next = k - 1
       /\ format \in {"responses", "kiro"} => dec.toolIndex = [j \in 1 .. k - 1 |-> j - 1]
  BY <1>1, <1>3 DEF DecoderInv
<1>14. PICK d : d = IF format = "openai" THEN dec ELSE WithCall(Began(dec), KeyOf(k, block), k)
  OBVIOUS
<1>15. Carried(s, WithCalls(SoFar, calls)) /\ s.dec = d /\ Telling(s, k)
  <2>1. format = "kiro" => k \notin DOMAIN dec.toolIndex
    BY <1>3, <1>13
  <2>2. Len(SoFar.calls) = k - 1 /\ SoFar.calls = said.calls /\ SoFar.finish = NoFinish
    BY <1>3, SoFarIs
  <2> QED
    BY <1>1, <1>3, <1>4, <1>10, <1>12, <1>13, <1>14, <2>1, <2>2, CallRelayed
<1>16. (Carried(Now, SoFar))' /\ dec' = d
  BY <1>1, <1>9, <1>11, <1>15, Becoming
<1>17. DecoderInv'
  <2>1. CASE format = "openai"
    <3>1. dec' = dec
      BY <1>14, <1>16, <2>1
    <3> QED
      BY <1>1, <2>1, <3>1 DEF DecoderInv
  <2>2. CASE format # "openai"
    <3>1. dec' = WithCall(Began(dec), KeyOf(k, block), k)
      BY <1>14, <1>16, <2>2
    <3>2. /\ DecShape(dec') /\ dec'.next = k /\ dec'.usage = Began(dec).usage
          /\ dec'.toolIndex = Put(Began(dec).toolIndex, KeyOf(k, block), k - 1)
      BY <1>3, <3>1, WithCallIs
    <3>3. dec'.toolIndex = Put(dec.toolIndex, KeyOf(k, block), k - 1)
      BY <1>12, <3>2, BeganIs
    <3>4. CASE format \in {"responses", "kiro"}
      <4>1. dec'.toolIndex = Put([j \in 1 .. k - 1 |-> j - 1], k, k - 1)
        BY <1>13, <3>3, <3>4 DEF KeyOf
      <4>2. (1 .. k - 1) \cup {k} = 1 .. k
        BY <1>3
      <4>3. Put([j \in 1 .. k - 1 |-> j - 1], k, k - 1) = [j \in 1 .. k |-> j - 1]
        BY <1>3, <4>2 DEF Put
      <4> QED
        BY <1>1, <1>5, <1>9, <3>2, <3>4, <4>1, <4>3 DEF DecoderInv
    <3>5. CASE format = "claude"
      <4>1. dec'.usage = AtStart
        BY <1>1, <1>12, <3>2, <3>5, BeganIs DEF DecoderInv
      <4>2. block \in DOMAIN dec'.toolIndex /\ dec'.toolIndex[block] = k - 1
        BY <3>3, <3>5 DEF KeyOf, Put
      <4>3. \A j : wire'.item = <<"call", j>> => j = k
        BY <1>8
      <4> QED
        BY <1>1, <1>5, <1>9, <3>2, <3>5, <4>1, <4>2, <4>3, <1>8 DEF DecoderInv, Knows
    <3> QED
      BY <1>1, <2>2, <3>4, <3>5 DEF Fragmenting
  <2> QED
    BY <2>1, <2>2
<1>18. TellingInv'
  <2>1. Telling(Now, k)'
    BY <1>1, <1>11, <1>15, StillTelling
  <2>2. \A j : wire'.item = <<"call", j>> => j = k
    BY <1>8
  <2> QED
    BY <2>1, <2>2 DEF TellingInv
<1> QED
  BY <1>1, <1>9, <1>8, <1>16, <1>17, <1>18, StillStreaming

\* Calls with more arguments in one of them.
LEMMA LongerIs ==
  ASSUME NEW calls \in Seq(Calls), NEW k \in DOMAIN calls, NEW f \in Seq(Int)
  PROVE  Longer(calls, k, f) \in Seq(Calls) /\ Len(Longer(calls, k, f)) = Len(calls)
<1>1. PICK c : c = [calls[k] EXCEPT !.args = calls[k].args \o f]
  OBVIOUS
<1>2. calls[k] \in Calls
  OBVIOUS
<1>3. c \in Calls
  BY <1>1, <1>2, CallTyped
<1>4. Longer(calls, k, f) = [calls EXCEPT ![k] = c]
  BY <1>1 DEF Longer
<1>5. [calls EXCEPT ![k] = c] \in Seq(Calls) /\ Len([calls EXCEPT ![k] = c]) = Len(calls)
  BY <1>3
<1> QED
  BY <1>4, <1>5

\* Saying more of a call's arguments keeps the invariant, whichever call it is.
LEMMA ArgsKeep ==
  ASSUME StreamInv, NEW k \in 1 .. MaxCalls, NEW closes \in {1, -1}, SayArgs(k, closes)
  PROVE  StreamInv'
<1>1. /\ SaidInv /\ WireInv /\ Carried(Now, SoFar) /\ DecoderInv /\ TellingInv
      /\ phase = "streaming" /\ wire.sent < MaxEvents /\ format \in Fragmenting
      /\ k \in DOMAIN said.calls /\ (format = "claude" => wire.item = <<"call", k>>)
      /\ UNCHANGED <<format, client, phase>>
  BY DEF SayArgs, Sending, StreamInv, StreamingInv
<1>2. PICK f : f = <<closes * Fresh>>
  OBVIOUS
<1>3. f \in Seq(Int) /\ f # <<>>
  <2>1. Fresh \in Int
    BY <1>1, WireFields DEF Fresh
  <2>2. closes * Fresh \in Int
    BY <2>1
  <2> QED
    BY <1>2, <2>2
<1>4. said.calls \in Seq(Calls) /\ k \in 1 .. Len(said.calls)
  BY <1>1, SaidFields
<1>5. PICK calls : calls = Longer(said.calls, k, f)
  OBVIOUS
<1>6. calls \in Seq(Calls) /\ Len(calls) = Len(said.calls)
  BY <1>1, <1>3, <1>4, <1>5, LongerIs
<1>7. said' = [said EXCEPT !.calls = calls]
  BY <1>2, <1>5 DEF SayArgs, Longer
<1>8. /\ WireInv' /\ wire'.item = <<"call", k>> /\ wire'.block = wire.block /\ wire'.sent # 0
      /\ wire'.resumed = IF wire.item # <<"call", k>> THEN "yes" ELSE wire.resumed
  <2>1. PICK n, i, b, r : wire = [sent |-> n, item |-> i, block |-> b, resumed |-> r]
    BY <1>1, WireFields
  <2>2. n \in 0 .. MaxEvents /\ b \in Int /\ r \in {"no", "yes"} /\ wire.sent = n
        /\ wire.block = b /\ wire.resumed = r /\ wire.item = i
    BY <1>1, <2>1, WireFields
  <2>3. n + 1 \in 0 .. MaxEvents /\ n + 1 # 0
    BY <1>1, <2>2, StreamAssumption
  <2>4. PICK item, x : item = <<"call", k>> /\ x = IF i # <<"call", k>> THEN "yes" ELSE r
    OBVIOUS
  <2>5. wire' = [wire EXCEPT !.sent = n + 1, !.item = item, !.resumed = x]
    BY <2>2, <2>4 DEF SayArgs
  <2>6. PICK w : w = [wire EXCEPT !.sent = n + 1]
    OBVIOUS
  <2>7. w = [sent |-> n + 1, item |-> i, block |-> b, resumed |-> r]
    BY <2>1, <2>6
  <2>8. PICK v : v = [w EXCEPT !.item = item]
    OBVIOUS
  <2>9. v = [sent |-> n + 1, item |-> item, block |-> b, resumed |-> r]
    BY <2>7, <2>8
  <2>10. [v EXCEPT !.resumed = x] = [sent |-> n + 1, item |-> item, block |-> b, resumed |-> x]
    BY <2>9
  <2>11. wire' = [v EXCEPT !.resumed = x]
    BY <2>5, <2>6, <2>8
  <2>12. wire' = [sent |-> n + 1, item |-> item, block |-> b, resumed |-> x]
    BY <2>10, <2>11
  <2>13. item \in {"none", "text", "reasoning", "call"} \X Int /\ x \in {"no", "yes"}
    BY <2>2, <2>4
  <2>14. wire' \in Wires
    BY <2>2, <2>3, <2>12, <2>13 DEF Wires
  <2>15. wire'.sent = n + 1 /\ wire'.item = item /\ wire'.block = b /\ wire'.resumed = x
    BY <2>12
  <2> QED
    BY <2>2, <2>3, <2>4, <2>14, <2>15 DEF WireInv
<1>9. PICK m : m = Resumed(SoFar, wire'.resumed)
  OBVIOUS
<1>10. /\ Carried(Now, m) /\ m.calls = said.calls /\ m.finish = NoFinish
       /\ m.resumed = "no" => wire.item = <<"call", k>>
  <2>1. wire'.resumed \in {SoFar.resumed, "yes"}
    BY <1>8, SoFarIs
  <2>2. /\ Carried(Now, m) /\ m.calls = SoFar.calls /\ m.finish = SoFar.finish
        /\ m.resumed = wire'.resumed
    BY <1>1, <1>9, <2>1, ResumedIs
  <2> QED
    BY <1>8, <2>2, SoFarIs
<1>11. SaidInv' /\ said'.calls = calls /\ SoFar' = WithCalls(m, calls)
  <2>1. Len(calls) <= MaxCalls
    BY <1>1, <1>6 DEF SaidInv
  <2> QED
    BY <1>1, <1>6, <1>7, <1>9, <2>1, CallsChange
<1>12. PICK s : s = Relayed(Now, ArgsEvents(k, wire.block, f))
  OBVIOUS
<1>13. Becomes(s)
  BY <1>2, <1>12, RelayIs DEF SayArgs
<1>14. Now.dec = dec /\ DecShape(dec)
  BY <1>1 DEF Now, DecoderInv
<1>15. Knows(dec, k, wire.block)
  <2>1. CASE format = "claude"
    <3>1. Knows(dec, k, wire.block)
      BY <1>1, <1>4, <2>1 DEF DecoderInv
    <3> QED
      BY <3>1
  <2>2. CASE format # "claude"
    BY <1>1, <1>4, <2>2 DEF DecoderInv, Knows
  <2> QED
    BY <2>1, <2>2
<1>16. Carried(s, WithCalls(m, calls)) /\ s.dec = dec /\ Telling(s, k)
  <2>1. m.resumed = "no" => Telling(Now, k)
    BY <1>1, <1>4, <1>10 DEF TellingInv
  <2> QED
    BY <1>1, <1>3, <1>4, <1>5, <1>12, <1>14, <1>15, <1>10, <2>1, ArgsRelayed
<1>17. (Carried(Now, SoFar))' /\ dec' = dec
  BY <1>1, <1>11, <1>13, <1>16, Becoming
<1>18. DecoderInv'
  <2>1. Len(said'.calls) = Len(said.calls)
    BY <1>6, <1>11
  <2>2. ASSUME format = "claude"
        PROVE  dec.usage = AtStart /\ Knows(dec, k, wire.block)
    <3>1. wire.item # <<"none", 0>>
      BY <1>1, <2>2
    <3>2. wire.sent # 0
      BY <1>1, <3>1 DEF WireInv
    <3> QED
      BY <1>1, <1>15, <2>2, <3>2 DEF DecoderInv
  <2>3. \A j : wire'.item = <<"call", j>> => j = k
    BY <1>8
  <2> QED
    BY <1>1, <1>8, <1>17, <2>1, <2>2, <2>3 DEF DecoderInv, Knows
<1>19. TellingInv'
  <2>1. Telling(Now, k)'
    BY <1>1, <1>13, <1>16, StillTelling
  <2>2. \A j : wire'.item = <<"call", j>> => j = k
    BY <1>8
  <2> QED
    BY <2>1, <2>2 DEF TellingInv
<1> QED
  BY <1>1, <1>11, <1>8, <1>17, <1>18, <1>19, StillStreaming

\* n whole calls after the k-th.
WholeCalls(k, n) == [i \in 1 .. n |-> [id |-> k + i, name |-> k + i, args |-> <<-(Fresh + i)>>]]

\* n calls after the k-th: none, one or two, with the numbers that follow.
LEMMA WholeCallsAre ==
  ASSUME Fresh \in Int, NEW k \in Nat, NEW n \in 1 .. 2
  PROVE  /\ AtMostTwo(WholeCalls(k, n)) /\ WholeCalls(k, n) \in Seq(Calls)
         /\ Len(WholeCalls(k, n)) = n
         /\ n = 1 => \E c \in Calls : WholeCalls(k, n) = <<c>>
         /\ \A i \in DOMAIN WholeCalls(k, n) :
              WholeCalls(k, n)[i].id = k + i /\ WholeCalls(k, n)[i].name = WholeCalls(k, n)[i].id
<1>1. PICK calls : calls = WholeCalls(k, n)
  OBVIOUS
<1>2. DOMAIN calls = 1 .. n
  BY <1>1 DEF WholeCalls
<1>3. ASSUME NEW i \in 1 .. n
      PROVE  /\ calls[i] \in Calls
             /\ calls[i].id = k + i /\ calls[i].name = calls[i].id
  <2>1. PICK a : a = <<-(Fresh + i)>>
    OBVIOUS
  <2>2. a \in Seq(Int)
    <3>1. -(Fresh + i) \in Int
      OBVIOUS
    <3> QED
      BY <2>1, <3>1
  <2>3. calls[i] = [id |-> k + i, name |-> k + i, args |-> a]
    BY <1>1, <2>1 DEF WholeCalls
  <2>4. k + i \in Int
    OBVIOUS
  <2>5. calls[i] \in Calls
    BY <2>2, <2>3, <2>4 DEF Calls
  <2>6. calls[i].id = k + i /\ calls[i].name = k + i
    BY <2>3
  <2> QED
    BY <2>5, <2>6
<1>4. calls = [i \in 1 .. n |-> calls[i]]
  BY <1>1 DEF WholeCalls
<1>5. calls \in Seq(Calls) /\ Len(calls) = n
  BY <1>3, <1>4
<1>6. n = 1 => calls = <<calls[1]>> /\ calls[1] \in Calls
  BY <1>3, <1>5
<1>7. n = 2 => calls = <<calls[1], calls[2]>> /\ calls[1] \in Calls /\ calls[2] \in Calls
  BY <1>3, <1>5
<1>8. AtMostTwo(calls)
  BY <1>6, <1>7 DEF AtMostTwo
<1> QED
  BY <1>1, <1>2, <1>3, <1>5, <1>6, <1>8

\* Saying whole calls keeps the invariant.
LEMMA CallsKeep ==
  ASSUME StreamInv, NEW n \in 1 .. 2, NEW words \in Words, SayCalls(n, words)
  PROVE  StreamInv'
<1>1. /\ SaidInv /\ WireInv /\ Carried(Now, SoFar) /\ DecoderInv
      /\ phase = "streaming" /\ wire.sent < MaxEvents /\ format \in Whole
      /\ format = "cursor" => n = 1
      /\ Len(said.calls) + n <= MaxCalls
      /\ UNCHANGED <<format, client, phase>>
  BY DEF SayCalls, Sending, StreamInv, StreamingInv
<1>2. Fresh \in Int /\ words \in Seq(Int)
  <2>1. Fresh \in Int
    BY <1>1, WireFields DEF Fresh
  <2>2. <<Fresh>> \in Seq(Int) /\ <<>> \in Seq(Int)
    BY <2>1
  <2>3. words = <<>> \/ words = <<Fresh>>
    BY DEF Words
  <2> QED
    BY <2>1, <2>2, <2>3
<1>3. PICK k : k = Len(said.calls)
  OBVIOUS
<1>4. k \in Nat /\ k + n \in Int /\ k + n \in Nat
  BY <1>1, <1>3, SaidFields
<1>5. PICK calls : calls = WholeCalls(k, n)
  OBVIOUS
<1>6. /\ AtMostTwo(calls) /\ calls \in Seq(Calls) /\ Len(calls) = n
      /\ n = 1 => \E c \in Calls : calls = <<c>>
      /\ \A i \in DOMAIN calls : calls[i].id = k + i /\ calls[i].name = calls[i].id
  BY <1>2, <1>4, <1>5, WholeCallsAre
<1>7. PICK t, r, c, st, l : said = [text |-> t, reasoning |-> r, calls |-> c, stop |-> st, late |-> l]
  BY <1>1, SaidFields
<1>8. said.text = t /\ said.reasoning = r /\ said.calls = c /\ said.stop = st /\ said.late = l
  BY <1>7
<1>9. t \in Seq(Int) /\ r \in Seq(Int) /\ c \in Seq(Calls)
      /\ st \in {"none", "complete", "limit"} /\ l \in {"no", "yes"}
  BY <1>1, <1>8, SaidFields
<1>10. PICK x, y : x = t \o words /\ y = c \o calls
  OBVIOUS
<1>11. x \in Seq(Int) /\ y \in Seq(Calls) /\ Len(y) = k + n
  BY <1>2, <1>3, <1>6, <1>8, <1>9, <1>10
<1>12. said' = [text |-> x, reasoning |-> r, calls |-> y, stop |-> st, late |-> l]
  <2>1. said' = [said EXCEPT !.text = x, !.calls = y]
    BY <1>3, <1>5, <1>8, <1>10 DEF SayCalls, WholeCalls
  <2>2. PICK z : z = [said EXCEPT !.text = x]
    OBVIOUS
  <2>3. z = [text |-> x, reasoning |-> r, calls |-> c, stop |-> st, late |-> l]
    BY <1>7, <2>2
  <2>4. [z EXCEPT !.calls = y] = [text |-> x, reasoning |-> r, calls |-> y, stop |-> st, late |-> l]
    BY <2>3
  <2>5. said' = [z EXCEPT !.calls = y]
    BY <2>1, <2>2
  <2> QED
    BY <2>4, <2>5
<1>13. said'.text = x /\ said'.reasoning = r /\ said'.calls = y
  BY <1>12
<1>14. SaidInv'
  <2>1. [text |-> x, reasoning |-> r, calls |-> y, stop |-> st, late |-> l] \in Saids
    BY <1>9, <1>11, SaidTyped
  <2>2. said' \in Saids
    BY <1>12, <2>1, Zenon
  <2>3. Len(said'.calls) <= MaxCalls /\ format' \in Fragmenting \cup Whole
    BY <1>1, <1>3, <1>11, <1>13
  <2> QED
    BY <2>2, <2>3 DEF SaidInv
<1>15. WireInv' /\ wire'.resumed = wire.resumed
  <2>1. Sent(<<"call", k + n>>)
    BY <1>3 DEF SayCalls
  <2> QED
    BY <1>1, <1>4, <2>1, SentKeeps
<1>16. SoFar' = Told(SoFar, calls, words)
  <2>1. SoFar = Message(t, r, c, NoFinish, NoUsage, wire.resumed) /\ SoFar.calls = c
    BY <1>8, SoFarIs DEF SoFar
  <2>2. WithCalls(SoFar, y) = Message(t, r, y, NoFinish, NoUsage, wire.resumed)
    BY <2>1, MessageFields
  <2>3. WithText(WithCalls(SoFar, y), words) = Message(x, r, y, NoFinish, NoUsage, wire.resumed)
    BY <1>10, <2>2, MessageFields
  <2>4. Told(SoFar, calls, words) = Message(x, r, y, NoFinish, NoUsage, wire.resumed)
    BY <1>10, <2>1, <2>3 DEF Told
  <2> QED
    BY <1>13, <1>15, <2>4 DEF SoFar
<1>17. PICK s : s = Relayed(Now, WholeCallEvents(words, calls))
  OBVIOUS
<1>18. Becomes(s)
  BY <1>3, <1>5, <1>17, RelayIs DEF SayCalls, WholeCalls
<1>19. Now.dec = dec /\ DecShape(dec) /\ dec.next = k
  BY <1>1, <1>3 DEF Now, DecoderInv, Whole
<1>20. Carried(s, Told(SoFar, calls, words)) /\ s.dec = Counted(dec, k + n)
  <2>1. Len(SoFar.calls) = k
    BY <1>3, SoFarIs
  <2>2. format = "cursor" => \E d \in Calls : calls = <<d>>
    BY <1>1, <1>6
  <2>3. DecShape(Now.dec) /\ Now.dec.next = Len(SoFar.calls)
    BY <1>19, <2>1
  <2>4. \A i \in DOMAIN calls : calls[i].id = Len(SoFar.calls) + i /\ calls[i].name = calls[i].id
    BY <1>6, <2>1
  <2>5. /\ Carried(Relayed(Now, WholeCallEvents(words, calls)), Told(SoFar, calls, words))
        /\ Relayed(Now, WholeCallEvents(words, calls)).dec
             = Counted(Now.dec, Now.dec.next + Len(calls))
    <3>1. format \in Whole /\ Carried(Now, SoFar) /\ AtMostTwo(calls) /\ words \in Seq(Int)
      BY <1>1, <1>2, <1>6
    <3> QED
      BY <2>2, <2>3, <2>4, <3>1, SoFarIs, WholeRelayed
  <2> QED
    BY <1>6, <1>17, <1>19, <2>5
<1>21. (Carried(Now, SoFar))' /\ dec' = Counted(dec, k + n)
  BY <1>1, <1>16, <1>18, <1>20, Becoming
<1>22. DecoderInv'
  <2>1. DecShape(dec') /\ dec'.next = k + n
    BY <1>4, <1>19, <1>21, CountedTyped
  <2>2. Len(said'.calls) = k + n
    BY <1>11, <1>13
  <2> QED
    BY <1>1, <2>1, <2>2 DEF DecoderInv, Whole
<1>23. TellingInv'
  BY <1>1 DEF TellingInv, Whole, Fragmenting
<1> QED
  BY <1>1, <1>14, <1>21, <1>15, <1>22, <1>23, StillStreaming

-----------------------------------------------------------------------------
(* The end of an answer *)

\* What the end of a stream leaves: m has arrived, with the last finish reason r.
Ending(s, m, r, words, late, calls, stop) ==
  /\ Over(s, m, r) /\ s.dec.next = dec.next
  /\ m.reasoning = said.reasoning /\ m.calls = said.calls /\ m.resumed = wire.resumed
  /\ format # "grok" => m.text = said.text \o words
  /\ format \in Terminated => r = Ends(stop, calls) /\ m.usage = Uses(late)
  /\ format = "kiro" => r = CallsOrStop(dec)
  /\ format \in {"perplexity", "grok"} => r = "stop"

\* While the answer streams, the relay is ready for its end.
LEMMA ReadyToEnd ==
  ASSUME StreamInv, phase = "streaming"
  PROVE  /\ Carried(Now, SoFar) /\ Now.dec = dec /\ DecShape(dec)
         /\ Ready(Now, SoFar)
         /\ format = "claude" /\ wire.sent # 0 => dec.usage = AtStart
<1>1. Carried(Now, SoFar) /\ DecoderInv
  BY DEF StreamInv, StreamingInv
<1>2. Now.dec = dec
  BY DEF Now
<1> QED
  BY <1>1, <1>2, SoFarIs DEF DecoderInv, Ready

\* The end of an answer in a format that has an event for it.
LEMMA TerminatedEnding ==
  ASSUME StreamInv, phase = "streaming", format \in Terminated,
         NEW stop \in {"complete", "limit"}, NEW late \in {"no", "yes"},
         late = "yes" => format = "openai", NEW words \in Seq(Int),
         words # <<>> => format \in Whole, NEW calls, calls = (said.calls # <<>>)
  PROVE  \E m, r : Ending(Close(Relayed(Now, Opening \o FinalEvents(stop, late, words, calls))),
                          m, r, words, late, calls, stop)
<1>1. PICK b : b = Relayed(Now, Opening \o FinalEvents(stop, late, words, calls))
  OBVIOUS
<1>2. PICK r : r = Ends(stop, calls)
  OBVIOUS
<1>3. PICK m : m = Ended(SoFar, words, r, Uses(late))
  OBVIOUS
<1>4. EndedIn(b, dec, SoFar, words, r, Uses(late))
  <2>1. calls = (SoFar.calls # <<>>)
    BY SoFarIs
  <2>2. EndedIn(Relayed(Now, Opening \o FinalEvents(stop, late, words, calls)), Now.dec, SoFar,
                words, Ends(stop, calls), Uses(late))
    BY <2>1, ReadyToEnd, FinalRelayed
  <2> QED
    BY <1>1, <1>2, <2>2, ReadyToEnd
<1>5. Carried(b, m) /\ b.dec.next = dec.next
  BY <1>3, <1>4 DEF EndedIn
<1>6. format \notin {"kiro", "perplexity", "grok"}
  BY DEF Terminated
<1>7. Over(Close(b), m, LastFinish(b.dec, m)) /\ Close(b).dec = b.dec
  BY <1>5, <1>6, CloseEnds
<1>8. m = [text |-> SoFar.text \o words, reasoning |-> SoFar.reasoning, calls |-> SoFar.calls,
           finish |-> r, usage |-> Uses(late), resumed |-> SoFar.resumed]
  BY <1>3 DEF Ended, Message
<1>9. m.text = said.text \o words /\ m.reasoning = said.reasoning /\ m.calls = said.calls
      /\ m.finish = r /\ m.usage = Uses(late) /\ m.resumed = wire.resumed
  <2>1. PICK t : t = SoFar.text \o words
    OBVIOUS
  <2>2. m.text = t /\ m.reasoning = SoFar.reasoning /\ m.calls = SoFar.calls
        /\ m.finish = r /\ m.usage = Uses(late) /\ m.resumed = SoFar.resumed
    BY <1>8, <2>1
  <2> QED
    BY <2>1, <2>2, SoFarIs
<1>10. LastFinish(b.dec, m) = r
  BY <1>9, <1>6 DEF LastFinish
<1> QED
  BY <1>1, <1>2, <1>5, <1>7, <1>9, <1>6, <1>10 DEF Ending

\* A connection that ends without a final event.
LEMMA SilentEnding ==
  ASSUME StreamInv, phase = "streaming"
  PROVE  /\ Over(Close(Now), SoFar, LastFinish(dec, SoFar)) /\ Close(Now).dec = dec
         /\ format \in Terminated => LastFinish(dec, SoFar) = NoFinish
<1>1. format \in Terminated => LastFinish(dec, SoFar) = NoFinish
  BY SoFarIs DEF LastFinish, Terminated
<1> QED
  BY <1>1, ReadyToEnd, SoFarIs, CloseEnds

\* The end of an answer in a format without a final event.
LEMMA QuietEnding ==
  ASSUME StreamInv, phase = "streaming", format \in {"kiro", "perplexity"},
         NEW stop, NEW late, NEW calls
  PROVE  \E m, r : Ending(Close(Relayed(Now, Opening \o FinalEvents(stop, late, <<>>, calls))),
                          m, r, <<>>, late, calls, stop)
<1>1. FinalEvents(stop, late, <<>>, calls) = <<>>
  BY DEF FinalEvents
<1>2. Opening \o <<>> = <<>>
  BY OpeningIs
<1>3. Relayed(Now, Opening \o FinalEvents(stop, late, <<>>, calls)) = Now
  BY <1>1, <1>2, RelayNone
<1>4. said.text \o <<>> = said.text
  <2>1. said.text \in Seq(Int)
    BY SaidFields DEF StreamInv
  <2> QED
    BY <2>1
<1>5. PICK r : r = LastFinish(dec, SoFar)
  OBVIOUS
<1>6. /\ format = "kiro" => r = CallsOrStop(dec)
      /\ format = "perplexity" => r = "stop"
  BY <1>5 DEF LastFinish
<1>7. format \notin Terminated /\ format # "grok"
  BY DEF Terminated
<1> QED
  BY <1>3, <1>4, <1>5, <1>6, <1>7, SilentEnding, SoFarIs DEF Ending

\* Grok ends by repeating the whole answer.
LEMMA GrokEnding ==
  ASSUME StreamInv, phase = "streaming", format = "grok",
         NEW stop, NEW late, NEW calls
  PROVE  \E m, r : Ending(Close(Relayed(Now, Opening \o FinalEvents(stop, late, <<>>, calls))),
                          m, r, <<>>, late, calls, stop)
<1>1. PICK e : e = [token |-> <<>>, message |-> said.text]
  OBVIOUS
<1>2. PICK t : t = said.text
  OBVIOUS
<1>3. FinalEvents(stop, late, <<>>, calls) = <<e>>
  BY <1>1 DEF FinalEvents
<1>4. t \in Seq(Int)
  BY <1>2, SaidFields DEF StreamInv
<1>5. e.token = <<>> /\ e.message = t
  BY <1>1, <1>2
<1>6. PICK c, n : c = IfAny(t, TextChunk(t)) /\ n = WithText(SoFar, t)
  OBVIOUS
<1>7. Began(dec) = dec
  BY ReadyToEnd, BeganIs
<1>8. Decode(format, dec, e) = Emit(dec, c)
  BY <1>5, <1>6 DEF Decode, WebDecode
<1>9. \A b : Carried(b, SoFar) => Delivers(b, c, n)
  BY <1>4, <1>6, DeliverText
<1>10. PICK b : b = Relayed(Now, Opening \o <<e>>)
  OBVIOUS
<1>11. Carried(b, n) /\ b.dec = dec
  BY <1>7, <1>8, <1>9, <1>10, ReadyToEnd, OpenedThen
<1>12. PICK r : r = LastFinish(b.dec, n)
  OBVIOUS
<1>13. r = "stop"
  BY <1>12 DEF LastFinish
<1>14. n.reasoning = said.reasoning /\ n.calls = said.calls /\ n.resumed = wire.resumed
       /\ n.finish = NoFinish
  <2>1. SoFar = Message(said.text, said.reasoning, said.calls, NoFinish, NoUsage, wire.resumed)
    BY DEF SoFar
  <2>2. n = Message(said.text \o t, said.reasoning, said.calls, NoFinish, NoUsage, wire.resumed)
    BY <1>6, <2>1, MessageFields
  <2> QED
    BY <2>2 DEF Message
<1>15. Over(Close(b), n, r) /\ Close(b).dec = dec
  BY <1>11, <1>12, <1>14, CloseEnds
<1>16. format \notin Terminated
  BY DEF Terminated
<1> QED
  BY <1>3, <1>10, <1>15, <1>13, <1>14, <1>16 DEF Ending

\* However a provider finishes, its answer ends as Ending says.
LEMMA FinishEnds ==
  ASSUME StreamInv, NEW stop \in {"complete", "limit"}, NEW late \in {"no", "yes"},
         NEW words \in Words, Finish(stop, late, words)
  PROVE  \E s, m, r : Becomes(s) /\ Ending(s, m, r, words, late, said.calls # <<>>, stop)
<1>1. phase = "streaming" /\ (words # <<>> => format \in Whole) /\ (late = "yes" => format = "openai")
  BY DEF Finish
<1>2. PICK calls : calls = (said.calls # <<>>)
  OBVIOUS
<1>3. PICK s : s = Close(Relayed(Now, Opening \o FinalEvents(stop, late, words, calls)))
  OBVIOUS
<1>4. Becomes(s)
  BY <1>2, <1>3, RelayIs DEF Finish
<1>5. CASE format \in Terminated
  <2>1. words \in Seq(Int)
    <3>1. Fresh \in Int
      BY WireFields DEF Fresh, StreamInv
    <3>2. <<Fresh>> \in Seq(Int) /\ <<>> \in Seq(Int)
      BY <3>1
    <3> QED
      BY <3>2 DEF Words
  <2>2. \E m, r : Ending(s, m, r, words, late, calls, stop)
    BY <1>1, <1>2, <1>3, <1>5, <2>1, TerminatedEnding
  <2> QED
    BY <1>2, <1>4, <2>2
<1>6. CASE format \notin Terminated
  <2>1. format \in {"kiro", "perplexity", "grok"}
    BY <1>6, FormatTyped DEF Terminated
  <2>2. words = <<>>
    BY <1>1, <2>1 DEF Whole
  <2>3. \E m, r : Ending(s, m, r, words, late, calls, stop)
    BY <1>1, <1>3, <2>1, <2>2, QuietEnding, GrokEnding
  <2> QED
    BY <1>2, <1>4, <2>3
<1> QED
  BY <1>5, <1>6

\* The finish reasons in Claude's words.
LEMMA StopsAre ==
  /\ openAIFinishToAnthropic("length") = "max_tokens"
  /\ openAIFinishToAnthropic("tool_calls") = "tool_use"
  /\ openAIFinishToAnthropic("stop") = "end_turn"
  /\ openAIFinishToAnthropic(NoFinish) = NoFinish
BY DEF openAIFinishToAnthropic, NoFinish

\* The decoder's count stays within the bound on calls.
LEMMA NextBound ==
  ASSUME StreamInv, phase = "streaming"
  PROVE  dec.next \in 0 .. MaxCalls /\ (format # "openai" => (dec.next > 0) = (said.calls # <<>>))
<1>1. SaidInv /\ DecoderInv
  BY DEF StreamInv, StreamingInv
<1>2. said.calls \in Seq(Calls) /\ Len(said.calls) \in 0 .. MaxCalls
  BY <1>1, SaidFields, StreamAssumption DEF SaidInv
<1>3. (Len(said.calls) > 0) = (said.calls # <<>>)
  BY <1>2
<1>4. 0 \in 0 .. MaxCalls
  BY StreamAssumption
<1> QED
  BY <1>1, <1>2, <1>3, <1>4 DEF DecoderInv

\* Finishing keeps the invariant: the answer has arrived, and its outcome is reported.
LEMMA FinishKeeps ==
  ASSUME StreamInv, NEW stop \in {"complete", "limit"}, NEW late \in {"no", "yes"},
         NEW words \in Words, Finish(stop, late, words)
  PROVE  StreamInv'
<1>1. /\ phase = "streaming" /\ phase' = "finished" /\ UNCHANGED <<format, client, wire>>
      /\ SaidInv /\ WireInv /\ format \in Formats
      /\ stop = "limit" => format \in Limited
      /\ words # <<>> => format \in Whole
  BY FormatTyped DEF Finish, StreamInv
<1>2. PICK t, r, c, st, l : said = [text |-> t, reasoning |-> r, calls |-> c, stop |-> st, late |-> l]
  BY <1>1, SaidFields
<1>3. said.text = t /\ said.reasoning = r /\ said.calls = c /\ said.stop = st /\ said.late = l
  BY <1>2
<1>4. t \in Seq(Int) /\ r \in Seq(Int) /\ c \in Seq(Calls)
  BY <1>1, <1>3, SaidFields
<1>5. PICK x : x = t \o words
  OBVIOUS
<1>6. x \in Seq(Int)
  <2>1. Fresh \in Int
    BY <1>1, WireFields DEF Fresh
  <2>2. <<Fresh>> \in Seq(Int) /\ <<>> \in Seq(Int)
    BY <2>1
  <2>3. words \in Seq(Int)
    BY <2>2 DEF Words
  <2> QED
    BY <1>4, <1>5, <2>3
<1>7. said' = [text |-> x, reasoning |-> r, calls |-> c, stop |-> stop, late |-> late]
  <2>1. said' = [said EXCEPT !.text = x, !.stop = stop, !.late = late]
    BY <1>3, <1>5 DEF Finish
  <2>2. PICK y : y = [said EXCEPT !.text = x]
    OBVIOUS
  <2>3. y = [text |-> x, reasoning |-> r, calls |-> c, stop |-> st, late |-> l]
    BY <1>2, <2>2
  <2>4. PICK z : z = [y EXCEPT !.stop = stop]
    OBVIOUS
  <2>5. z = [text |-> x, reasoning |-> r, calls |-> c, stop |-> stop, late |-> l]
    BY <2>3, <2>4
  <2>6. [z EXCEPT !.late = late] = [text |-> x, reasoning |-> r, calls |-> c, stop |-> stop, late |-> late]
    BY <2>5
  <2>7. said' = [z EXCEPT !.late = late]
    BY <2>1, <2>2, <2>4
  <2> QED
    BY <2>6, <2>7
<1>8. said'.text = x /\ said'.reasoning = r /\ said'.calls = c /\ said'.stop = stop /\ said'.late = late
  BY <1>7
<1>9. SaidInv'
  <2>1. stop \in {"none", "complete", "limit"}
    OBVIOUS
  <2>2. [text |-> x, reasoning |-> r, calls |-> c, stop |-> stop, late |-> late] \in Saids
    BY <1>4, <1>6, <2>1, SaidTyped
  <2>3. said' \in Saids
    BY <1>7, <2>2, Zenon
  <2> QED
    BY <1>1, <1>3, <1>8, <2>3 DEF SaidInv
<1>10. WireInv'
  BY <1>1 DEF WireInv
<1>11. PICK s, m, f : Becomes(s) /\ Ending(s, m, f, words, late, said.calls # <<>>, stop)
  BY FinishEnds
<1>12. dec' = s.dec /\ pivot' = s.pivot /\ seen' = s.seen
  BY <1>11 DEF Becomes
<1>13. /\ Over(s, m, f) /\ s.dec.next = dec.next
       /\ m.reasoning = r /\ m.calls = c /\ m.resumed = wire.resumed
       /\ format # "grok" => m.text = x
       /\ format \in Terminated => f = Ends(stop, c # <<>>) /\ m.usage = Uses(late)
       /\ format = "kiro" => f = CallsOrStop(dec)
       /\ format \in {"perplexity", "grok"} => f = "stop"
  BY <1>3, <1>5, <1>11 DEF Ending
<1>14. (f = "length") \/ (f = "tool_calls") \/ (f = "stop")
  BY <1>1, <1>13 DEF Terminated, Formats, Ends, CallsOrStop
<1>15. OverInv'
  <2>1. dec'.next \in 0 .. MaxCalls
    BY <1>1, <1>12, <1>13, NextBound
  <2>2. /\ pivot'.toolsByIndex = ByIndex(said'.calls)
        /\ pivot'.reasoning = said'.reasoning
        /\ format' # "grok" => pivot'.text = said'.text
    BY <1>1, <1>8, <1>12, <1>13 DEF Over
  <2>3. client' = "claude" =>
          /\ seen'.legal = "yes" /\ seen'.at = "stop"
          /\ SawAll(seen'.blocks).reasoning = said'.reasoning
          /\ format' # "grok" => SawAll(seen'.blocks).text = said'.text
          /\ wire'.resumed = "no" => SawAll(seen'.blocks).calls = said'.calls
    BY <1>1, <1>8, <1>12, <1>13 DEF Over, SeenIn
  <2>4. client' # "claude" =>
          /\ seen'.reasoning = said'.reasoning
          /\ format' # "grok" => seen'.text = said'.text
          /\ seen'.calls = FunctionCalls(ByIndex(said'.calls))
    <3>1. f # NoFinish
      BY <1>14 DEF NoFinish
    <3> QED
      BY <1>1, <1>8, <1>12, <1>13, <3>1 DEF Over
  <2> QED
    BY <2>1, <2>2, <2>3, <2>4 DEF OverInv
<1>16. OutcomeReported'
  <2> SUFFICES ASSUME client = "claude"
               PROVE  OutcomeReported'
    BY <1>1 DEF OutcomeReported
  <2>1. seen'.stop = openAIFinishToAnthropic(f) /\ seen'.usage = m.usage
    BY <1>12, <1>13 DEF Over
  <2>3. /\ (seen'.stop = "max_tokens") = (f = "length")
        /\ (seen'.stop = "tool_use") = (f = "tool_calls")
    BY <1>14, <2>1, StopsAre
  <2>4. ASSUME format \in {"openai", "claude", "gemini"}
        PROVE  (f = "length") = (stop = "limit")
    BY <1>13, <2>4 DEF Ends, Terminated, Formats
  <2>5. ASSUME stop = "complete", format # "gemini"
        PROVE  (f = "tool_calls") = (c # <<>>)
    <3>1. CASE format \in Terminated
      BY <1>13, <2>5, <3>1 DEF Ends
    <3>2. CASE format = "kiro"
      BY <1>1, <1>3, <1>13, <3>2, NextBound DEF CallsOrStop
    <3>3. CASE format \in {"perplexity", "grok"}
      <4>1. c = <<>>
        BY <1>1, <1>3, <3>3 DEF SaidInv, Fragmenting, Whole
      <4> QED
        BY <1>13, <3>3, <4>1
    <3> QED
      BY <1>1, <3>1, <3>2, <3>3 DEF Terminated
  <2>6. ASSUME format \in Terminated \ {"cursor"}, late = "no"
        PROVE  seen'.usage = Tokens
    BY <1>13, <2>1, <2>6 DEF Uses
  <2> QED
    BY <1>1, <1>8, <2>3, <2>4, <2>5, <2>6 DEF OutcomeReported
<1> QED
  BY <1>1, <1>9, <1>10, <1>15, <1>16 DEF StreamInv, StreamingInv

\* A cut keeps the invariant: what was said has arrived, and no stop reason is made up.
LEMMA CutKeeps == ASSUME StreamInv, Cut PROVE StreamInv'
<1>1. /\ phase = "streaming" /\ phase' = "cut" /\ UNCHANGED <<format, client, said, wire>>
      /\ Becomes(Close(Now)) /\ SaidInv /\ WireInv
  BY DEF Cut, StreamInv
<1>2. PICK s, f : s = Close(Now) /\ f = LastFinish(dec, SoFar)
  OBVIOUS
<1>3. Over(s, SoFar, f) /\ s.dec = dec /\ (format \in Terminated => f = NoFinish)
  BY <1>1, <1>2, SilentEnding
<1>4. dec' = s.dec /\ pivot' = s.pivot /\ seen' = s.seen
  BY <1>1, <1>2 DEF Becomes
<1>5. OverInv'
  <2>1. dec'.next \in 0 .. MaxCalls
    BY <1>1, <1>3, <1>4, NextBound
  <2>2. /\ pivot'.toolsByIndex = ByIndex(said'.calls)
        /\ pivot'.reasoning = said'.reasoning /\ pivot'.text = said'.text
    BY <1>1, <1>3, <1>4, SoFarIs DEF Over
  <2>3. client' = "claude" =>
          /\ seen'.legal = "yes" /\ seen'.at = "stop"
          /\ SawAll(seen'.blocks).reasoning = said'.reasoning
          /\ format' # "grok" => SawAll(seen'.blocks).text = said'.text
          /\ wire'.resumed = "no" => SawAll(seen'.blocks).calls = said'.calls
    BY <1>1, <1>3, <1>4, SoFarIs DEF Over, SeenIn
  <2>4. client' # "claude" =>
          /\ seen'.reasoning = said'.reasoning
          /\ format' # "grok" => seen'.text = said'.text
          /\ seen'.calls \in {<<>>, FunctionCalls(ByIndex(said'.calls))}
    BY <1>1, <1>3, <1>4, SoFarIs DEF Over
  <2>5. phase' # "finished"
    BY <1>1
  <2> QED
    BY <2>1, <2>2, <2>3, <2>4, <2>5 DEF OverInv
<1>6. OutcomeReported'
  <2>1. client = "claude" /\ format \in Terminated => seen'.stop = NoFinish
    BY <1>3, <1>4, StopsAre DEF Over
  <2> QED
    BY <1>1, <2>1 DEF OutcomeReported
<1>7. SaidInv' /\ WireInv'
  BY <1>1 DEF SaidInv, WireInv
<1> QED
  BY <1>1, <1>5, <1>6, <1>7 DEF StreamInv, StreamingInv

\* Every step keeps the invariant.
LEMMA StepKeeps == StreamInv /\ [Next]_vars => StreamInv'
<1> SUFFICES ASSUME StreamInv, [Next]_vars
             PROVE  StreamInv'
  OBVIOUS
<1>1. CASE SayText
  BY <1>1, TextKeeps
<1>2. CASE SayReasoning
  BY <1>2, ReasoningStepKeeps
<1>3. CASE BeginCall
  BY <1>3, BeginKeeps
<1>4. ASSUME NEW k \in 1 .. MaxCalls, NEW closes \in {1, -1}, SayArgs(k, closes)
      PROVE  StreamInv'
  BY <1>4, ArgsKeep
<1>5. ASSUME NEW n \in 1 .. 2, NEW words \in Words, SayCalls(n, words)
      PROVE  StreamInv'
  BY <1>5, CallsKeep
<1>6. ASSUME NEW stop \in {"complete", "limit"}, NEW late \in {"no", "yes"},
             NEW words \in Words, Finish(stop, late, words)
      PROVE  StreamInv'
  BY <1>6, FinishKeeps
<1>7. CASE Cut
  BY <1>7, CutKeeps
<1>8. CASE UNCHANGED vars
  BY <1>8 DEF vars, StreamInv, SaidInv, WireInv, StreamingInv, Now, Carried, SoFar, DecoderInv,
              Knows, TellingInv, Telling, OverInv, OutcomeReported
<1> QED
  BY <1>1, <1>2, <1>3, <1>4, <1>5, <1>6, <1>7, <1>8 DEF Next

-----------------------------------------------------------------------------
(* The theorems *)

\* What was said has arrived: while an answer streams, the chunks assemble to what the
\* provider has said, the Claude client is in step with the encoder and has seen it, and a
\* Gemini client and its encoder have it; after its end, the assembled answer is the said
\* one, the clients have it, and its outcome is reported.
THEOREM Invariance == Spec => []StreamInv
BY InitHolds, StepKeeps, PTL DEF Spec

\* The pipeline's state is typed: the decoder counts no more calls than were said, and
\* the pivot's indices are those of the calls.
THEOREM TypeCorrect == Spec => []TypeOK
<1>1. StreamInv => TypeOK
  <2> SUFFICES ASSUME StreamInv
               PROVE  TypeOK
    OBVIOUS
  <2>1. /\ format \in Providers /\ client \in {"claude", "gemini"}
        /\ phase \in {"streaming", "finished", "cut"} /\ SaidInv /\ WireInv
    BY DEF StreamInv
  <2>2. dec.next \in 0 .. MaxCalls /\ pivot.toolsByIndex = ByIndex(said.calls)
    <3>1. CASE phase = "streaming"
      <4>1. pivot = [text |-> SoFar.text, reasoning |-> SoFar.reasoning,
                     toolsByIndex |-> ByIndex(SoFar.calls),
                     finish |-> pivot.finish, usage |-> pivot.usage]
        BY <3>1 DEF StreamInv, StreamingInv, Carried, Now
      <4>2. pivot.toolsByIndex = ByIndex(SoFar.calls)
        BY <4>1
      <4> QED
        BY <3>1, <4>2, NextBound, SoFarIs
    <3>2. CASE phase # "streaming"
      BY <3>2 DEF StreamInv, OverInv
    <3> QED
      BY <3>1, <3>2
  <2>3. DOMAIN pivot.toolsByIndex \subseteq 0 .. (MaxCalls - 1)
    <3>1. DOMAIN pivot.toolsByIndex = 0 .. Len(said.calls) - 1
      BY <2>2 DEF ByIndex
    <3>2. Len(said.calls) <= MaxCalls /\ Len(said.calls) \in Nat
      BY <2>1, SaidFields DEF SaidInv
    <3> QED
      BY <3>1, <3>2, StreamAssumption
  <2> QED
    BY <2>1, <2>2, <2>3, WireFields DEF TypeOK
<1> QED
  BY <1>1, Invariance, PTL

\* Whatever a provider of any format says, however long, and wherever the connection is
\* cut, a Claude client gets a well-formed event stream, ended by one message_stop
\* (openai-to-claude.ts).
THEOREM GrammarHolds == Spec => []AnthropicGrammar
<1>1. StreamInv => AnthropicGrammar
  <2> SUFFICES ASSUME StreamInv, client = "claude"
               PROVE  seen.legal = "yes" /\ (phase # "streaming" => seen.at = "stop")
    BY DEF AnthropicGrammar
  <2>1. CASE phase = "streaming"
    <3>1. Sync(enc, seen)
      BY <2>1 DEF StreamInv, StreamingInv, Carried, Now
    <3> QED
      BY <2>1, <3>1 DEF Sync
  <2>2. CASE phase # "streaming"
    BY <2>2 DEF StreamInv, OverInv
  <2> QED
    BY <2>1, <2>2
<1> QED
  BY <1>1, Invariance, PTL

\* assembleChunks gives the answer the provider gave, however the fragments of its calls
\* came interleaved, for every format but grok, whose last message repeats the text.
THEOREM AssembledWhole == Spec => [](format # "grok" => AssembledIsWhole)
<1>1. StreamInv => (format # "grok" => AssembledIsWhole)
  <2> SUFFICES ASSUME StreamInv, format # "grok", phase = "finished"
               PROVE  /\ assembleChunks(pivot).text = said.text
                      /\ assembleChunks(pivot).reasoning = said.reasoning
                      /\ assembleChunks(pivot).calls = said.calls
    BY DEF AssembledIsWhole
  <2>1. /\ pivot.toolsByIndex = ByIndex(said.calls) /\ pivot.reasoning = said.reasoning
        /\ pivot.text = said.text
    BY DEF StreamInv, OverInv
  <2>2. said.calls \in Seq(Calls)
    BY SaidFields DEF StreamInv
  <2>3. InOrder(pivot.toolsByIndex) = said.calls
    BY <2>1, <2>2, InOrderIs
  <2> QED
    BY <2>1, <2>3 DEF assembleChunks
<1> QED
  BY <1>1, Invariance, PTL

\* A Claude client can tell how the answer ended: by the provider's stop reason and usage
\* when it ended, and by no stop reason when it was cut.
THEOREM OutcomeHolds == Spec => []OutcomeReported
<1>1. StreamInv => OutcomeReported
  BY DEF StreamInv
<1> QED
  BY <1>1, Invariance, PTL

\* What a client has: the words and the thoughts that were said, and the calls as far as
\* its format gives them.
LEMMA SawIs ==
  ASSUME StreamInv, format # "grok"
  PROVE  /\ Saw.text = said.text /\ Saw.reasoning = said.reasoning
         /\ client = "claude" /\ ~Reopened => Saw.calls = said.calls
         /\ client # "claude" =>
              /\ Saw.calls \in {<<>>, FunctionCalls(ByIndex(said.calls))}
              /\ phase = "finished" => Saw.calls = FunctionCalls(ByIndex(said.calls))
<1>1. phase = "streaming" => Carried(Now, SoFar)
  BY DEF StreamInv, StreamingInv
<1>2. wire.resumed \in {"no", "yes"}
  BY WireFields DEF StreamInv
<1>3. CASE client = "claude"
  <2>1. Saw = SawAll(seen.blocks)
    BY <1>3 DEF Saw, ClaudeSaw, SawAll
  <2>2. ~Reopened => wire.resumed = "no"
    BY <1>2, <1>3 DEF Reopened
  <2>3. CASE phase = "streaming"
    <3>1. Tells(Sight(Now), SoFar)
      BY <1>1, <1>3, <2>3 DEF Carried
    <3>2. SeenIn(SawAll(seen.blocks), SoFar)
      BY <3>1 DEF Tells, Sight, Now, SeenIn
    <3> QED
      BY <1>3, <2>1, <2>2, <3>2, SoFarIs DEF SeenIn
  <2>4. CASE phase # "streaming"
    BY <1>3, <2>1, <2>2, <2>4 DEF StreamInv, OverInv
  <2> QED
    BY <2>3, <2>4
<1>4. CASE client # "claude"
  <2>1. Saw.text = seen.text /\ Saw.reasoning = seen.reasoning /\ Saw.calls = seen.calls
    BY <1>4 DEF Saw
  <2>2. CASE phase = "streaming"
    <3>1. Gathered(Now, SoFar)
      BY <1>1, <1>4, <2>2 DEF Carried
    <3>2. seen.text = SoFar.text /\ seen.reasoning = SoFar.reasoning /\ seen.calls = <<>>
      BY <3>1, SoFarIs DEF Gathered, Now
    <3> QED
      BY <1>4, <2>1, <2>2, <3>2, SoFarIs
  <2>3. CASE phase # "streaming"
    BY <1>4, <2>1, <2>3 DEF StreamInv, OverInv
  <2> QED
    BY <2>2, <2>3
<1> QED
  BY <1>3, <1>4

\* What safeParse and the flush make of the calls that were said.
LEMMA FlushedIs ==
  ASSUME StreamInv, NEW calls, calls = FunctionCalls(ByIndex(said.calls))
  PROVE  /\ Len(calls) = Len(said.calls) /\ DOMAIN calls = DOMAIN said.calls
         /\ \A k \in DOMAIN said.calls :
              /\ calls[k] = [name |-> said.calls[k].name, args |-> safeParse(said.calls[k].args)]
              /\ said.calls[k].args \in Seq(Int)
              /\ safeParse(said.calls[k].args) \in {<<>>, said.calls[k].args}
              /\ ~CutShort(said.calls[k]) => safeParse(said.calls[k].args) = said.calls[k].args
<1>1. said.calls \in Seq(Calls)
  BY SaidFields DEF StreamInv
<1>2. PICK c \in Seq(Calls) : c = said.calls
  BY <1>1
<1>3. /\ calls \in Seq(Functions)
      /\ calls = [i \in DOMAIN c |-> [name |-> c[i].name, args |-> safeParse(c[i].args)]]
  BY <1>2, FlushTyped
<1>4. DOMAIN calls = DOMAIN c
  BY <1>3
<1>5. Len(calls) = Len(c)
  BY <1>2, <1>3, <1>4
<1>6. ASSUME NEW k \in DOMAIN c
      PROVE  /\ calls[k] = [name |-> c[k].name, args |-> safeParse(c[k].args)]
             /\ c[k].args \in Seq(Int)
             /\ safeParse(c[k].args) \in {<<>>, c[k].args}
             /\ ~CutShort(c[k]) => safeParse(c[k].args) = c[k].args
  <2>1. calls[k] = [name |-> c[k].name, args |-> safeParse(c[k].args)]
    BY <1>3
  <2>2. c[k] \in Calls
    BY <1>2
  <2>3. c[k].args \in Seq(Int)
    BY <2>2 DEF Calls
  <2>4. safeParse(c[k].args) \in {<<>>, c[k].args}
    BY DEF safeParse
  <2>5. ~CutShort(c[k]) => safeParse(c[k].args) = c[k].args
    BY DEF safeParse, CutShort
  <2> QED
    BY <2>1, <2>3, <2>4, <2>5
<1> QED
  BY <1>2, <1>4, <1>5, <1>6

\* A finished answer reaches a Claude or a Gemini client whole: the text, the reasoning and
\* every call with its name and its arguments, but for the pieces of a call that the
\* provider resumed, which a Claude client gets apart, and the arguments that the limit cut
\* short, which a Gemini client does not get.  Grok, which repeats its text, is left out.
THEOREM ClientWhole == Spec => [](format # "grok" => ClientSeesWhole)
<1>1. StreamInv => (format # "grok" => ClientSeesWhole)
  <2> SUFFICES ASSUME StreamInv, format # "grok", phase = "finished", ~Reopened
               PROVE  /\ Saw.text = said.text /\ Saw.reasoning = said.reasoning
                      /\ Len(Saw.calls) = Len(said.calls)
                      /\ \A k \in DOMAIN said.calls :
                           (client = "gemini" => ~CutShort(said.calls[k])) =>
                             Saw.calls[k] = SaidCalls[k]
    BY DEF ClientSeesWhole
  <2>1. CASE client = "claude"
    BY <2>1, SawIs DEF SaidCalls
  <2>2. CASE client # "claude"
    <3>1. client = "gemini"
      BY <2>2 DEF StreamInv
    <3>2. PICK calls : calls = FunctionCalls(ByIndex(said.calls)) /\ calls = Saw.calls
      BY <2>2, SawIs
    <3>3. ASSUME NEW k \in DOMAIN said.calls, ~CutShort(said.calls[k])
          PROVE  calls[k] = SaidCalls[k]
      <4>1. SaidCalls[k] = [name |-> said.calls[k].name, args |-> said.calls[k].args]
        BY <2>2 DEF SaidCalls
      <4>2. /\ calls[k] = [name |-> said.calls[k].name, args |-> safeParse(said.calls[k].args)]
            /\ safeParse(said.calls[k].args) = said.calls[k].args
        BY <3>2, <3>3, FlushedIs
      <4> QED
        BY <4>1, <4>2
    <3>4. Len(calls) = Len(said.calls)
      BY <3>2, FlushedIs
    <3> QED
      BY <3>1, <3>2, <3>3, <3>4, SawIs
  <2> QED
    BY <2>1, <2>2
<1> QED
  BY <1>1, Invariance, PTL

\* A sequence begins with itself, and with nothing.
LEMMA Begins == ASSUME NEW s \in Seq(Int) PROVE IsPrefix(s, s) /\ IsPrefix(<<>>, s)
<1>1. IsPrefix(s, s)
  BY DEF IsPrefix
<1>2. Len(<<>>) = 0 /\ Len(s) \in Nat
  OBVIOUS
<1>3. SubSeq(<<>>, 1, 0) = SubSeq(s, 1, 0)
  OBVIOUS
<1>4. IsPrefix(<<>>, s)
  BY <1>2, <1>3 DEF IsPrefix
<1> QED
  BY <1>1, <1>4

\* At every moment, and after a cut, what a client has is the beginning of what the provider
\* said: nothing is repeated or reordered, and no argument is in another call than its own,
\* however many events and calls there are.  Left out are grok, which repeats its text, and
\* a Claude client for which the provider resumed a call.
THEOREM NothingIsInvented == Spec => [](format # "grok" => NothingInvented)
<1>1. StreamInv => (format # "grok" => NothingInvented)
  <2> SUFFICES ASSUME StreamInv, format # "grok", ~Reopened
               PROVE  /\ IsPrefix(Saw.text, said.text) /\ IsPrefix(Saw.reasoning, said.reasoning)
                      /\ Len(Saw.calls) <= Len(said.calls)
                      /\ \A k \in DOMAIN Saw.calls : PartOf(Saw.calls[k], said.calls[k])
    BY DEF NothingInvented
  <2>1. /\ said.text \in Seq(Int) /\ said.reasoning \in Seq(Int) /\ said.calls \in Seq(Calls)
    BY SaidFields DEF StreamInv
  <2>2. IsPrefix(Saw.text, said.text) /\ IsPrefix(Saw.reasoning, said.reasoning)
    BY <2>1, SawIs, Begins
  <2>3. PICK c \in Seq(Calls) : c = said.calls
    BY <2>1
  <2>4. CASE client = "claude"
    <3>1. Saw.calls = c
      BY <2>3, <2>4, SawIs
    <3>2. ASSUME NEW k \in DOMAIN c
          PROVE  PartOf(c[k], c[k])
      <4>1. c[k] \in Calls
        OBVIOUS
      <4>2. c[k].args \in Seq(Int)
        BY <4>1 DEF Calls
      <4> QED
        BY <4>2, Begins DEF PartOf
    <3>3. Len(c) <= Len(c)
      BY <2>3
    <3> QED
      BY <2>2, <2>3, <3>1, <3>2, <3>3
  <2>5. CASE client # "claude" /\ Saw.calls = <<>>
    <3>1. Len(<<>>) = 0 /\ DOMAIN <<>> = {} /\ Len(c) \in Nat
      BY <2>3
    <3>2. Len(Saw.calls) <= Len(said.calls) /\ DOMAIN Saw.calls = {}
      BY <2>3, <2>5, <3>1
    <3> QED
      BY <2>2, <3>2
  <2>6. CASE client # "claude" /\ Saw.calls # <<>>
    <3>1. PICK calls : calls = FunctionCalls(ByIndex(said.calls)) /\ calls = Saw.calls
      BY <2>6, SawIs
    <3>2. Len(calls) = Len(c) /\ DOMAIN calls = DOMAIN c /\ Len(c) \in Nat
      BY <2>3, <3>1, FlushedIs
    <3>3. ASSUME NEW k \in DOMAIN c
          PROVE  PartOf(calls[k], c[k])
      <4>1. PICK a : a = safeParse(c[k].args)
        OBVIOUS
      <4>2. /\ calls[k] = [name |-> c[k].name, args |-> a]
            /\ c[k].args \in Seq(Int) /\ a \in {<<>>, c[k].args}
        BY <2>3, <3>1, <4>1, FlushedIs
      <4>3. IsPrefix(a, c[k].args)
        BY <4>2, Begins
      <4>4. calls[k].name = c[k].name /\ calls[k].args = a
        BY <4>2
      <4> QED
        BY <4>3, <4>4 DEF PartOf
    <3> QED
      BY <2>2, <2>3, <3>1, <3>2, <3>3
  <2> QED
    BY <2>4, <2>5, <2>6
<1> QED
  BY <1>1, Invariance, PTL
=============================================================================
