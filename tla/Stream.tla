------------------------------- MODULE Stream -------------------------------
(***************************************************************************)
(* One streamed answer on its way from a provider to a client              *)
(* (open-sse/translator): the provider's decoder turns every event into    *)
(* pivot chunks, the client's encoder turns every chunk into events of the *)
(* client's format.  Three readers look at the result: an OpenAI client,   *)
(* which assembles the chunks, a Claude client and a Gemini client.        *)
(*                                                                         *)
(* A provider says text, reasoning and tool calls in any order its format  *)
(* allows, and finishes, or the connection is cut.  What it said is kept   *)
(* in said, to compare with what the readers saw.                          *)
(***************************************************************************)
EXTENDS StreamDecoders, StreamClients

CONSTANTS
  Providers,    \* the formats under consideration
  MaxEvents,    \* bound: events of a provider before the end
  MaxCalls      \* bound: tool calls in an answer

ASSUME StreamAssumption ==
  /\ Providers \subseteq Formats
  /\ MaxEvents \in Nat \ {0}
  /\ MaxCalls \in Nat

VARIABLES
  format,   \* the provider's format
  client,   \* the client's: "claude" or "gemini"
  phase,    \* "streaming", "finished", "cut"
  said,     \* what the provider said
  wire,     \* the provider's side of the connection
  dec,      \* the decoder's state
  pivot,    \* the OpenAI client: the chunks so far, assembled
  enc,      \* the encoder's state
  seen      \* the Claude or Gemini client's side

vars == <<format, client, phase, said, wire, dec, pivot, enc, seen>>

\* Formats whose calls come in fragments, and those whose calls come whole.
Fragmenting == {"openai", "claude", "responses", "kiro"}
Whole       == {"ollama", "cursor", "gemini"}
Reasoning   == {"openai", "claude", "responses", "gemini"}

\* Formats with an event that ends the answer, and with one for the limit.
Terminated == Formats \ {"kiro", "perplexity", "grok"}
Limited    == {"openai", "claude", "responses", "ollama", "gemini"}

Tokens == [prompt |-> 3, completion |-> 5]

-----------------------------------------------------------------------------
(* The relay: decode, then encode *)

NewEncoder == IF client = "claude" THEN ClaudeEncoder ELSE GeminiEncoder

Encode(s, c) == IF client = "claude" THEN ClaudeEncode(s, c) ELSE GeminiEncode(s, c)

ReadAll(v, events) ==
  IF client = "claude" THEN FoldLeft(ReadClaude, v, events)
  ELSE FoldLeft(ReadGemini, v, events)

\* One chunk on its way: the OpenAI client assembles it, the encoder turns it
\* into events, and the other client reads those.
Pass(s, c) ==
  LET w == Encode(s.enc, c)
  IN  [s EXCEPT !.pivot = AddChunk(@, c),
                !.enc   = w.state,
                !.seen  = ReadAll(@, w.events)]

Forward(s, chunks) == FoldLeft(Pass, s, chunks)

Translate(s, e) ==
  LET d == Decode(format, s.dec, e)
  IN  Forward([s EXCEPT !.dec = d.state], d.chunks)

\* The provider's stream is over: end() of the decoder, then of the encoder.
Close(s) ==
  LET t == Forward(s, DecodeEnd(format, s.dec))
  IN  IF client = "claude"
      THEN LET w == ClaudeEncodeEnd(t.enc)
           IN  [t EXCEPT !.enc = w.state, !.seen = ReadAll(@, w.events)]
      ELSE t

Now == [dec |-> dec, pivot |-> pivot, enc |-> enc, seen |-> seen]

Becomes(s) ==
  /\ dec'   = s.dec
  /\ pivot' = s.pivot
  /\ enc'   = s.enc
  /\ seen'  = s.seen

Relay(events) == FoldLeft(Translate, Now, events)
-----------------------------------------------------------------------------
(* The providers' events *)

\* An object of an Ollama or Cursor stream, a Gemini candidate.
Object(text, calls, done, used) ==
  [text |-> text, calls |-> calls, done |-> done, usage |-> used]

Candidate(text, reasoning, calls, finish, used) ==
  [text |-> text, reasoning |-> reasoning, calls |-> calls,
   finishReason |-> finish, usage |-> used]

\* A Claude stream begins with message_start.
Opening ==
  IF format = "claude" /\ wire.sent = 0
  THEN <<[type |-> "message_start", usage |-> [Tokens EXCEPT !.completion = 0]]>>
  ELSE <<>>

TextEvents(fragments) ==
  CASE format = "openai"                 -> <<TextChunk(fragments)>>
    [] format = "claude"                 -> <<[type |-> "text_delta", delta |-> fragments]>>
    [] format = "responses"              -> <<[type |-> "output_text.delta", delta |-> fragments]>>
    [] format = "kiro"                   ->
         <<[type |-> "assistantResponseEvent", content |-> fragments]>>
    [] format \in {"ollama", "cursor"}   -> <<Object(fragments, <<>>, "no", NoUsage)>>
    [] format = "gemini"                 ->
         <<Candidate(fragments, <<>>, <<>>, NoFinish, NoUsage)>>
    [] format \in {"perplexity", "grok"} -> <<[token |-> fragments, message |-> <<>>]>>

ReasoningEvents(fragments) ==
  CASE format = "openai"    -> <<ReasoningChunk(fragments)>>
    [] format = "claude"    -> <<[type |-> "thinking_delta", delta |-> fragments]>>
    [] format = "responses" -> <<[type |-> "reasoning_text.delta", delta |-> fragments]>>
    [] format = "gemini"    -> <<Candidate(<<>>, fragments, <<>>, NoFinish, NoUsage)>>

\* The k-th call begins; block is the index of its block in a Claude stream.
CallEvents(k, block) ==
  CASE format = "openai"    -> <<CallsChunk(<<Call(k - 1, k, k, <<>>)>>)>>
    [] format = "claude"    ->
         <<[type |-> "tool_use_start", index |-> block, id |-> k, name |-> k]>>
    [] format = "responses" ->
         <<[type |-> "function_call.added", item |-> k, id |-> k, name |-> k]>>
    [] format = "kiro"      ->
         <<[type |-> "toolUseEvent", id |-> k, name |-> k, input |-> <<>>]>>

ArgsEvents(k, block, fragments) ==
  CASE format = "openai"    -> <<CallsChunk(<<Call(k - 1, Absent, Absent, fragments)>>)>>
    [] format = "claude"    ->
         <<[type |-> "input_json_delta", index |-> block, delta |-> fragments]>>
    [] format = "responses" ->
         <<[type |-> "function_call_arguments.delta", item |-> k, delta |-> fragments]>>
    [] format = "kiro"      ->
         <<[type |-> "toolUseEvent", id |-> k, name |-> k, input |-> fragments]>>

WholeCallEvents(text, calls) ==
  CASE format \in {"ollama", "cursor"} -> <<Object(text, calls, "no", NoUsage)>>
    [] format = "gemini"               -> <<Candidate(text, <<>>, calls, NoFinish, NoUsage)>>

\* How a stop is spelled by the format; calls tells whether there are any.
Stop(stop, calls) ==
  CASE format = "openai" -> IF stop = "limit" THEN "length"
                            ELSE IF calls THEN "tool_calls" ELSE "stop"
    [] format = "claude" -> IF stop = "limit" THEN "max_tokens"
                            ELSE IF calls THEN "tool_use" ELSE "end_turn"
    [] format = "gemini" -> IF stop = "limit" THEN "MAX_TOKENS" ELSE "STOP"

\* The event that ends an answer.  late: an OpenAI usage chunk of its own;
\* text: the last words, where the final event may carry some.
FinalEvents(stop, late, text, calls) ==
  CASE format = "openai" ->
         IF late = "yes"
         THEN <<FinishChunk(Stop(stop, calls), NoUsage),
                [Chunk EXCEPT !.choices = "none", !.usage = Tokens]>>
         ELSE <<FinishChunk(Stop(stop, calls), Tokens)>>
    [] format = "claude" ->
         <<[type |-> "message_delta", stop |-> Stop(stop, calls),
            usage |-> [Tokens EXCEPT !.prompt = 0]]>>
    [] format = "responses" ->
         <<[type |-> IF stop = "limit" THEN "incomplete" ELSE "completed", usage |-> Tokens]>>
    [] format \in {"ollama", "cursor"} -> <<Object(text, <<>>, "yes", Tokens)>>
    [] format = "gemini" -> <<Candidate(text, <<>>, <<>>, Stop(stop, calls), Tokens)>>
    [] format = "kiro" -> <<>>
    [] format = "perplexity" -> <<>>
    [] format = "grok" -> <<[token |-> <<>>, message |-> said.text]>>
-----------------------------------------------------------------------------

Init ==
  /\ format \in Providers
  /\ client \in {"claude", "gemini"}
  /\ phase  = "streaming"
  /\ said   = [text |-> <<>>, reasoning |-> <<>>, calls |-> <<>>,
               stop |-> "none", late |-> "no"]
  /\ wire   = [sent |-> 0, item |-> <<"none", 0>>, block |-> NoBlock, resumed |-> "no"]
  /\ dec    = Decoder
  /\ pivot  = NothingAssembled
  /\ enc    = NewEncoder
  /\ seen   = IF client = "claude" THEN NewClaudeReader ELSE NewGeminiReader

\* Fragments are told apart by their numbers, three to an event.
Fresh == 3 * wire.sent + 1

Words == {<<>>, <<Fresh>>}

Sending ==
  /\ phase = "streaming"
  /\ wire.sent < MaxEvents

\* A Claude provider opens a block for every new item.
Block(item) == IF wire.item = item THEN wire.block ELSE wire.block + 1

Sent(item) ==
  wire' = [wire EXCEPT !.sent = @ + 1, !.item = item, !.block = Block(item)]

SayText ==
  /\ Sending
  /\ said' = [said EXCEPT !.text = Append(@, Fresh)]
  /\ Sent(<<"text", 0>>)
  /\ Becomes(Relay(Opening \o TextEvents(<<Fresh>>)))
  /\ UNCHANGED <<format, client, phase>>

SayReasoning ==
  /\ Sending
  /\ format \in Reasoning
  /\ said' = [said EXCEPT !.reasoning = Append(@, Fresh)]
  /\ Sent(<<"reasoning", 0>>)
  /\ Becomes(Relay(Opening \o ReasoningEvents(<<Fresh>>)))
  /\ UNCHANGED <<format, client, phase>>

\* A call begins; its arguments follow in fragments.
BeginCall ==
  /\ Sending
  /\ format \in Fragmenting
  /\ Len(said.calls) < MaxCalls
  /\ LET k == Len(said.calls) + 1
     IN  /\ said' = [said EXCEPT !.calls = Append(@, [id |-> k, name |-> k, args |-> <<>>])]
         /\ Sent(<<"call", k>>)
         /\ Becomes(Relay(Opening \o CallEvents(k, Block(<<"call", k>>))))
  /\ UNCHANGED <<format, client, phase>>

Closed(call)   == call.args # <<>> /\ Last(call.args) < 0
CutShort(call) == call.args # <<>> /\ Last(call.args) > 0

\* A fragment of the k-th call's arguments, the last one when closes is -1.
\* Only the block that is open gets fragments in a Claude stream; other
\* formats name the call, and may go back to one after another item.
SayArgs(k, closes) ==
  /\ Sending
  /\ format \in Fragmenting
  /\ k \in DOMAIN said.calls
  /\ ~Closed(said.calls[k])
  /\ format = "claude" => wire.item = <<"call", k>>
  /\ LET fragments == <<closes * Fresh>>
     IN  /\ said' = [said EXCEPT !.calls[k].args = @ \o fragments]
         /\ wire' = [wire EXCEPT !.sent    = @ + 1,
                                 !.item    = <<"call", k>>,
                                 !.resumed = IF wire.item # <<"call", k>> THEN "yes" ELSE @]
         /\ Becomes(Relay(ArgsEvents(k, wire.block, fragments)))
  /\ UNCHANGED <<format, client, phase>>

\* One event with n whole calls, and perhaps some text.
SayCalls(n, words) ==
  /\ Sending
  /\ format \in Whole
  /\ format = "cursor" => n = 1
  /\ Len(said.calls) + n <= MaxCalls
  /\ LET k     == Len(said.calls)
         calls == [i \in 1..n |-> [id |-> k + i, name |-> k + i, args |-> <<-(Fresh + i)>>]]
     IN  /\ said' = [said EXCEPT !.text = @ \o words, !.calls = @ \o calls]
         /\ Sent(<<"call", k + n>>)
         /\ Becomes(Relay(WholeCallEvents(words, calls)))
  /\ UNCHANGED <<format, client, phase>>

\* The provider ends its answer; at the limit, perhaps within a call.
Finish(stop, late, words) ==
  /\ phase = "streaming"
  /\ words # <<>> => format \in Whole
  /\ stop = "limit" => format \in Limited
  /\ late = "yes" => format = "openai"
  /\ stop = "complete" => \A k \in DOMAIN said.calls : ~CutShort(said.calls[k])
  /\ phase' = "finished"
  /\ said' = [said EXCEPT !.text = @ \o words, !.stop = stop, !.late = late]
  /\ Becomes(Close(Relay(Opening \o FinalEvents(stop, late, words, said.calls # <<>>))))
  /\ UNCHANGED <<format, client, wire>>

\* The connection ends without an event that says so.
Cut ==
  /\ phase = "streaming"
  /\ phase' = "cut"
  /\ Becomes(Close(Now))
  /\ UNCHANGED <<format, client, said, wire>>

Next ==
  \/ SayText
  \/ SayReasoning
  \/ BeginCall
  \/ \E k \in 1..MaxCalls, closes \in {1, -1} : SayArgs(k, closes)
  \/ \E n \in 1..2, words \in Words : SayCalls(n, words)
  \/ \E stop \in {"complete", "limit"}, late \in {"no", "yes"}, words \in Words :
       Finish(stop, late, words)
  \/ Cut

Spec == Init /\ [][Next]_vars
-----------------------------------------------------------------------------
(* Properties *)

Saw == IF client = "claude" THEN ClaudeSaw(seen)
       ELSE [text |-> seen.text, reasoning |-> seen.reasoning, calls |-> seen.calls]

\* What the client would have seen of the calls: Gemini calls have no id.
SaidCalls ==
  IF client = "claude" THEN said.calls
  ELSE [k \in DOMAIN said.calls |->
          [name |-> said.calls[k].name, args |-> said.calls[k].args]]

\* Did the provider go back to a call that a Claude client saw closed?
Reopened == client = "claude" /\ wire.resumed = "yes"

\* The types of the pipeline's state.
TypeOK ==
  /\ format \in Providers /\ client \in {"claude", "gemini"}
  /\ phase \in {"streaming", "finished", "cut"}
  /\ wire.sent \in 0..MaxEvents
  /\ dec.next \in 0..MaxCalls
  /\ DOMAIN pivot.toolsByIndex \subseteq 0..(MaxCalls - 1)

\* Whatever a provider says, and wherever it is cut, a Claude client gets a
\* well-formed event stream: one message_start, blocks numbered from zero, one
\* open at a time, deltas of its kind to the open block only, and a
\* message_delta and a message_stop when all blocks are closed.
AnthropicGrammar ==
  client = "claude" =>
    /\ seen.legal = "yes"
    /\ phase # "streaming" => seen.at = "stop"

\* An answer assembled from its chunks is the answer the provider gave: the
\* same text, the same reasoning and the same calls, ids, names and arguments,
\* however their fragments came interleaved.
AssembledIsWhole ==
  phase = "finished" =>
    LET m == assembleChunks(pivot)
    IN  m.text = said.text /\ m.reasoning = said.reasoning /\ m.calls = said.calls

\* A finished answer reaches a Claude or a Gemini client whole, except that a
\* Claude client gets a resumed call in pieces and that a Gemini client gets
\* no arguments of a call the limit cut short.
ClientSeesWhole ==
  phase = "finished" /\ ~Reopened =>
    /\ Saw.text = said.text
    /\ Saw.reasoning = said.reasoning
    /\ Len(Saw.calls) = Len(said.calls)
    /\ \A k \in DOMAIN said.calls :
         (client = "gemini" => ~CutShort(said.calls[k])) => Saw.calls[k] = SaidCalls[k]

PartOf(call, whole) == call.name = whole.name /\ IsPrefix(call.args, whole.args)

\* At every moment, and after a cut, what a client has is the beginning of what
\* the provider said: nothing repeated, nothing reordered, and no argument in
\* another call than its own.
NothingInvented ==
  ~Reopened =>
    /\ IsPrefix(Saw.text, said.text)
    /\ IsPrefix(Saw.reasoning, said.reasoning)
    /\ Len(Saw.calls) <= Len(said.calls)
    /\ \A k \in DOMAIN Saw.calls : PartOf(Saw.calls[k], said.calls[k])

\* A Claude client can tell how the answer ended: the stop reason of the
\* provider, the token counts it gave, and no stop reason when the connection
\* was cut.  Left out are the formats that do not say (kiro and the web ones
\* have no final event; responses, ollama and cursor report a limit as a stop;
\* gemini stops a call with STOP) and the usage that openai sends by itself.
OutcomeReported ==
  client = "claude" =>
    /\ phase = "cut" /\ format \in Terminated => seen.stop = NoFinish
    /\ phase = "finished" /\ format \in {"openai", "claude", "gemini"} =>
         (seen.stop = "max_tokens") = (said.stop = "limit")
    /\ phase = "finished" /\ said.stop = "complete" /\ format # "gemini" =>
         (seen.stop = "tool_use") = (said.calls # <<>>)
    /\ phase = "finished" /\ format \in Terminated \ {"cursor"} /\ said.late = "no" =>
         seen.usage = Tokens

\* What openai-to-claude.ts says of itself: the encoder "serializes the pivot's
\* interleaved text / reasoning / tool_call deltas into ordered blocks", one
\* block for each call, with the call's id and name.
CallsAreSerialized ==
  phase = "finished" /\ client = "claude" => Saw.calls = said.calls
=============================================================================
