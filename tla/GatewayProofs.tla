--------------------------- MODULE GatewayProofs ---------------------------
(***************************************************************************)
(* What the wrapper answers (Gateway, Rtk, Executor), proved for every set *)
(* of requests and tools' texts, every size and every set of statuses.     *)
(*                                                                         *)
(* The wrapper's answer is right because of what it may conclude from the  *)
(* child: one that has exited with 0 has read the whole body and printed   *)
(* all of its answer.  ChildInv says so in every state, also while the     *)
(* child runs, is signalled or is left alone; AnswerInv says the same of   *)
(* the answer, which no later step of the child changes.  How the filters  *)
(* work is not looked at: compress_block is any function that keeps the    *)
(* text when its result is empty.                                          *)
(***************************************************************************)
EXTENDS Gateway, TLAPS

USE DEF Nothing

-----------------------------------------------------------------------------
(* The engine *)

\* compress_in_place does not empty a text.
LEMMA TextKept ==
  ASSUME NEW text, NEW caveman, text # <<>>
  PROVE  compress_in_place(text, caveman) # <<>>
BY DEF compress_in_place, compress_block

\* In a new body no text is emptied (walk).
LEMMA WalkKeeps ==
  ASSUME NEW body, NEW caveman, NEW i \in DOMAIN body, BlockAssumption(body[i])
  PROVE  body[i].text # <<>> => walk(body, caveman)[i].text # <<>>
<1>1. CASE ~IsToolResult(body[i])
  BY <1>1 DEF walk
<1>2. CASE IsToolResult(body[i])
  <2>1. PICK text : text = compress_in_place(body[i].text, caveman)
    OBVIOUS
  <2>2. walk(body, caveman)[i] = [body[i] EXCEPT !.text = text]
    BY <1>2, <2>1 DEF walk
  <2>3. walk(body, caveman)[i].text = text
    BY <2>2 DEF BlockAssumption
  <2> QED
    BY <2>1, <2>3, TextKept
<1> QED
  BY <1>1, <1>2

\* The engine's answer to a request (compress_request): the walk's body or the
\* old one.
LEMMA EngineKeeps ==
  ASSUME NEW r, \A i \in DOMAIN r.body : BlockAssumption(r.body[i])
  PROVE  LET out == compress_request(r)
         IN  \A i \in DOMAIN r.body :
               r.body[i].text # <<>> => out[i].text # <<>>
<1>1. compress_request(r) \in {walk(r.body, r.caveman), r.body}
  BY DEF compress_request
<1> QED
  BY <1>1, WalkKeeps

-----------------------------------------------------------------------------
(* The invariant *)

\* The blocks of the request in hand are blocks.
RequestInv ==
  /\ tool \in Tools
  /\ \A i \in DOMAIN request.body : BlockAssumption(request.body[i])

\* What may be concluded from the child: before it has exited there is no
\* verdict, an exit with 0 means that it has read the body and printed its
\* whole answer, one that was signalled has not exited yet.
ChildInv ==
  /\ call \in {"idle", "waiting", "answered"}
  /\ child \in {"none", "running", "killed", "exited"}
  /\ timer \in {"off", "armed", "fired"}
  /\ code \in {0, 1, 101}
  /\ call = "idle" => child = "none" /\ timer = "off"
  /\ child = "exited" /\ code = 0 =>
       request.parses /\ stdout = compress_request(request)

\* The answer: the request's own body, or all of the engine's.
AnswerInv ==
  call = "answered" =>
    \/ result = passthrough
    \/ request.parses /\ result.body = compress_request(request)

\* An executor with a request to send has one send left.
ExecInv ==
  /\ exec \in InFlight \cup {"idle", "done", "failed"}
  /\ status \in Statuses \cup {0}
  /\ elapsed \in BOOLEAN /\ aborted \in BOOLEAN
  /\ sends \in 0 .. MaxSends
  /\ exec = "idle" => sends < MaxSends

Inv == RequestInv /\ ChildInv /\ AnswerInv /\ ExecInv

\* The bound on sends lets one be made.
LEMMA MaxSendsType == MaxSends \in Nat /\ MaxSends > 0
BY ExecutorAssumption DEF ExecutorAssumption

\* Every scenario starts so.
LEMMA InvInit == Init => Inv
<1> SUFFICES ASSUME Init
             PROVE  Inv
  OBVIOUS
<1>1. RequestInv
  BY GatewayAssumption DEF Init, RequestInv
<1>2. ChildInv /\ AnswerInv
  BY DEF Init, RtkInit, ChildInv, AnswerInv
<1>3. ExecInv
  <2>1. exec = "idle" /\ status = 0 /\ elapsed = FALSE /\ aborted = FALSE /\ sends = 0
    BY DEF Init, ExecInit
  <2>2. sends \in 0 .. MaxSends /\ sends < MaxSends
    BY <2>1, MaxSendsType
  <2> QED
    BY <2>1, <2>2 DEF ExecInv
<1> QED
  BY <1>1, <1>2, <1>3 DEF Inv

\* No step changes the request.
LEMMA RequestInvStep == RequestInv /\ [Next]_vars => RequestInv'
<1> SUFFICES ASSUME RequestInv, [Next]_vars
             PROVE  request' = request /\ tool' = tool
  BY DEF RequestInv
<1>1. CASE Compress
  BY <1>1 DEF Compress, RtkNext, Spawn, SpawnFails, EngineFinishes, EngineDies, TimerFires,
              PipeFails, Collect
<1>2. CASE Send \/ LeaveEarly \/ UNCHANGED vars
  BY <1>2 DEF Send, LeaveEarly, vars, rtkVars
<1> QED
  BY <1>1, <1>2 DEF Next

\* Each step of the wrapper and of the child keeps ChildInv.
LEMMA ChildInvStep == ChildInv /\ [Next]_vars => ChildInv'
<1> SUFFICES ASSUME ChildInv, [Next]_vars
             PROVE  ChildInv'
  OBVIOUS
<1> USE DEF ChildInv
<1>1. CASE Spawn
  BY <1>1 DEF Spawn
<1>2. CASE SpawnFails
  BY <1>2 DEF SpawnFails, Answer
<1>3. CASE EngineFinishes
  BY <1>3 DEF EngineFinishes
<1>4. CASE EngineDies
  BY <1>4 DEF EngineDies
<1>5. CASE TimerFires
  BY <1>5 DEF TimerFires
<1>6. CASE PipeFails
  BY <1>6 DEF PipeFails, Answer
<1>7. CASE Collect
  BY <1>7 DEF Collect, Answer
<1>8. CASE Send \/ LeaveEarly \/ UNCHANGED vars
  BY <1>8 DEF Send, LeaveEarly, vars, rtkVars
<1> QED
  BY <1>1, <1>2, <1>3, <1>4, <1>5, <1>6, <1>7, <1>8 DEF Next, Compress, RtkNext

\* An answer is given once, by what ChildInv says of the child, and stays.
LEMMA AnswerInvStep == ChildInv /\ AnswerInv /\ [Next]_vars => AnswerInv'
<1> SUFFICES ASSUME ChildInv, AnswerInv, [Next]_vars
             PROVE  AnswerInv'
  OBVIOUS
<1> USE DEF AnswerInv
<1>1. CASE Spawn
  BY <1>1 DEF Spawn
<1>2. CASE SpawnFails
  BY <1>2 DEF SpawnFails, Answer, ChildInv, passthrough
<1>3. CASE EngineFinishes
  BY <1>3 DEF EngineFinishes, passthrough
<1>4. CASE EngineDies
  BY <1>4 DEF EngineDies, passthrough
<1>5. CASE TimerFires
  BY <1>5 DEF TimerFires, passthrough
<1>6. CASE PipeFails
  BY <1>6 DEF PipeFails, Answer, passthrough
<1>7. CASE Collect
  <2>1. PICK length \in Lengths : Answer(Verdict(length))
    BY <1>7 DEF Collect
  <2>2. request' = request /\ child' = "exited" /\ call' = "answered" /\ result' = Verdict(length)
    BY <1>7, <2>1 DEF Collect, Answer
  <2>3. CASE Verdict(length) = passthrough
    BY <2>2, <2>3 DEF passthrough
  <2>4. CASE Verdict(length) # passthrough
    <3>1. code = 0 /\ Verdict(length).body = stdout
      BY <2>4 DEF Verdict
    <3>2. request.parses /\ stdout = compress_request(request)
      BY <1>7, <3>1 DEF Collect, ChildInv
    <3> QED
      BY <2>2, <3>1, <3>2
  <2> QED
    BY <2>3, <2>4
<1>8. CASE Send \/ LeaveEarly \/ UNCHANGED vars
  BY <1>8 DEF Send, LeaveEarly, vars, rtkVars, passthrough
<1> QED
  BY <1>1, <1>2, <1>3, <1>4, <1>5, <1>6, <1>7, <1>8 DEF Next, Compress, RtkNext

\* Each step of the executor and of its caller keeps ExecInv.
LEMMA ExecInvStep == ExecInv /\ [Next]_vars => ExecInv'
<1> SUFFICES ASSUME ExecInv, [Next]_vars
             PROVE  ExecInv'
  OBVIOUS
<1> USE DEF ExecInv, InFlight
<1>1. CASE PrepareThrows
  BY <1>1 DEF PrepareThrows
<1>2. CASE Execute
  <2>1. exec' \in {"sent", "failed"}
    BY <1>2 DEF Execute
  <2>2. status' = 0 /\ elapsed' = FALSE /\ aborted' = aborted
    BY <1>2 DEF Execute
  <2>3. sends' \in 0 .. MaxSends
    BY <1>2, MaxSendsType DEF Execute
  <2> QED
    BY <2>1, <2>2, <2>3
<1>3. ASSUME NEW s \in Statuses, ProviderAnswers(s)
      PROVE  ExecInv'
  BY <1>3 DEF ProviderAnswers
<1>4. CASE BodyEnds \/ ConnectionBreaks \/ SignalEnds
  BY <1>4 DEF BodyEnds, ConnectionBreaks, SignalEnds
<1>5. CASE TimeoutElapses \/ CallerAborts
  BY <1>5 DEF TimeoutElapses, CallerAborts
<1>6. CASE RetryOnce
  BY <1>6, MaxSendsType DEF RetryOnce
<1>7. CASE Compress \/ UNCHANGED vars
  BY <1>7 DEF Compress, vars, execVars
<1> QED
  BY <1>1, <1>2, <1>3, <1>4, <1>5, <1>6, <1>7 DEF Next, Send, LeaveEarly, ExecNext

\* The invariant holds in every reachable state.
LEMMA InvAlways == Spec => []Inv
<1>1. Inv /\ [Next]_vars => Inv'
  BY RequestInvStep, ChildInvStep, AnswerInvStep, ExecInvStep DEF Inv
<1> QED
  BY InvInit, <1>1, PTL DEF Spec

-----------------------------------------------------------------------------
(* Theorems *)

\* The state has its types: among them, a request is sent MaxSends times at
\* most, whatever the providers answer (shouldRetrySameConnection).
THEOREM TypeCorrect == Spec => []TypeOK
<1>1. Inv => TypeOK
  BY DEF Inv, RequestInv, ChildInv, ExecInv, TypeOK
<1> QED
  BY <1>1, InvAlways, PTL

\* Whatever befalls the child and in whatever order, the wrapper answers with
\* the caller's body or with the whole answer of an engine that has read it
\* (runRtk).
THEOREM AnswersWhole == Spec => []WholeAnswer
<1>1. Inv => WholeAnswer
  BY DEF Inv, AnswerInv, WholeAnswer
<1> QED
  BY <1>1, InvAlways, PTL

\* No text is emptied, on any of the ways to an answer (compress_block,
\* runRtk).
THEOREM TextsKept == Spec => []NothingEmptied
<1>1. Inv => NothingEmptied
  BY EngineKeeps DEF Inv, RequestInv, AnswerInv, NothingEmptied, passthrough
<1> QED
  BY <1>1, InvAlways, PTL

\* The wrapper's answer is safe to send on: the caller's body, or the whole
\* answer of the engine, in which no text is emptied and which is not longer
\* than what it replaces (compress_request, runRtk).
THEOREM BodiesAreSafe == Spec => []SafeBody
<1>1. Inv => NotLonger
  <2> SUFFICES ASSUME Inv, Compressed
               PROVE  BodySize(result.body) + request.rest <= BodySize(request.body)
    BY DEF NotLonger
  <2>1. result.body # request.body /\ result.body = compress_request(request)
    BY DEF Inv, AnswerInv, Compressed, passthrough
  <2> QED
    BY <2>1 DEF compress_request
<1> QED
  BY <1>1, AnswersWhole, TextsKept, InvAlways, PTL DEF SafeBody
=============================================================================
