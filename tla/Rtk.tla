-------------------------------- MODULE Rtk --------------------------------
(***************************************************************************)
(* The RTK engine on one request and the wrapper that runs it.             *)
(*                                                                         *)
(* The engine (rtk/src/compress.rs, main.rs) walks the body, compresses    *)
(* the text of the tool results and prints the new body.  The wrapper      *)
(* (src/lib/rtk.ts) starts it as a child process, writes the body to it,   *)
(* waits for its output and its exit, kills it when the timer fires, and   *)
(* answers with the engine's body only when all went well.                 *)
(*                                                                         *)
(* A body is a sequence of blocks; every block that can hold a tool result *)
(* is a JSON object of its own, wherever it is nested.                     *)
(***************************************************************************)
EXTENDS RtkTexts

VARIABLES
  request,   \* what the caller passed: [caveman, parses, rest, body]
  call,      \* runRtk: "idle", "waiting", "answered"
  child,     \* "none", "running", "killed" (signalled), "exited"
  timer,     \* "off", "armed", "fired"
  stdout,    \* what the child printed
  code,      \* its exit code
  result     \* runRtk's answer

rtkVars == <<request, call, child, timer, stdout, code, result>>

-----------------------------------------------------------------------------
(* compress_request *)

ResultShapes == {"tool", "tool_result", "function_call_output", "toolResult"}

\* The fields the walk compresses.  It looks at every object of the body, so
\* also at an object in the arguments of a call that has the form of a tool
\* message; a call's output in the Responses format is not asked for an error.
IsToolResult(b) ==
  \/ b.shape \in {"tool", "tool_result", "toolResult", "arguments"} /\ ~b.is_error
  \/ b.shape = "function_call_output"

compress_in_place(text, caveman) ==
  IF Size(text) < MinBlock THEN text ELSE compress_block(text, caveman)

walk(body, caveman) ==
  [i \in DOMAIN body |->
     IF IsToolResult(body[i])
     THEN [body[i] EXCEPT !.text = compress_in_place(@, caveman)] ELSE body[i]]

BodySize(body) == FoldLeft(LAMBDA s, b : s + Size(b.text), 0, body)

\* rest: how much longer the rest of the body is when it is written anew.
compress_request(r) ==
  LET out == walk(r.body, r.caveman)
  IN  IF BodySize(out) + r.rest <= BodySize(r.body) THEN out ELSE r.body

passthrough == [body |-> request.body, compressed |-> FALSE]
-----------------------------------------------------------------------------
(* runRtk *)

Nothing == <<>>
Pending == [body |-> Nothing, compressed |-> FALSE]

RtkInit ==
  /\ call = "idle"
  /\ child = "none"
  /\ timer = "off"
  /\ stdout = Nothing
  /\ code = 0
  /\ result = Pending

Answer(r) ==
  /\ call' = "answered"
  /\ result' = r

Spawn ==
  /\ call = "idle"
  /\ call' = "waiting"
  /\ child' = "running"
  /\ timer' = "armed"
  /\ UNCHANGED <<request, stdout, code, result>>

SpawnFails ==
  /\ call = "idle"
  /\ Answer(passthrough)
  /\ UNCHANGED <<request, child, timer, stdout, code>>

\* run_compress: 0 and the new body, or 1 and the body as it came.
EngineFinishes ==
  /\ child = "running"
  /\ child' = "exited"
  /\ code' = IF request.parses THEN 0 ELSE 1
  /\ stdout' = IF request.parses THEN compress_request(request) ELSE request.body
  /\ UNCHANGED <<request, call, timer, result>>

\* A crash; part of the output may be in the pipe.
EngineDies ==
  /\ child \in {"running", "killed"}
  /\ child' = "exited"
  /\ code' = 101
  /\ stdout' \in {Nothing, SubSeq(request.body, 1, 1)}
  /\ UNCHANGED <<request, call, timer, result>>

\* Defect: the timer marks the call and leaves the child alone.
TimerOnlyMarks ==
  /\ timer = "armed"
  /\ timer' = "fired"
  /\ UNCHANGED <<request, call, child, stdout, code, result>>

TimerFires ==
  /\ timer = "armed"
  /\ timer' = "fired"
  /\ child' = IF child = "running" THEN "killed" ELSE child
  /\ UNCHANGED <<request, call, stdout, code, result>>

\* Writing or reading a pipe throws: the timer is cleared, the child is left alone.
PipeFails ==
  /\ call = "waiting"
  /\ Answer(passthrough)
  /\ timer' = "off"
  /\ UNCHANGED <<request, child, stdout, code>>

\* A string's length counts UTF-16 units, the engine's sizes are bytes: how the
\* lengths of two different bodies compare is open.
Lengths == IF stdout = request.body THEN {"same"} ELSE {"shorter", "same", "longer"}

\* Defect: the exit code is not looked at.
VerdictByOutput(length) ==
  IF timer = "fired" \/ stdout = Nothing \/ length = "longer" THEN passthrough
  ELSE [body |-> stdout, compressed |-> length = "shorter"]

Verdict(length) ==
  IF timer = "fired" \/ code # 0 \/ stdout = Nothing \/ length = "longer" THEN passthrough
  ELSE [body |-> stdout, compressed |-> length = "shorter"]

\* The streams have ended and the child has exited.
Collect ==
  /\ call = "waiting"
  /\ child = "exited"
  /\ \E length \in Lengths : Answer(Verdict(length))
  /\ timer' = "off"
  /\ UNCHANGED <<request, child, stdout, code>>

RtkNext ==
  \/ Spawn \/ SpawnFails \/ EngineFinishes \/ EngineDies
  \/ TimerFires \/ PipeFails \/ Collect
=============================================================================
