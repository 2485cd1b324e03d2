------------------------------ MODULE Gateway ------------------------------
(***************************************************************************)
(* The way of one request out of the gateway: a tool has printed a text,   *)
(* the client sends it on in a tool result, the wrapper has the engine     *)
(* compress the body, and an executor sends what the wrapper answered to   *)
(* a provider.  The order is that of docs/RTK.md section 1; the handler    *)
(* that would call both parts is not in the repository.                    *)
(***************************************************************************)
EXTENDS Rtk, Executor

CONSTANT Scenarios   \* [tool, request, setup]

\* Every block has its text and its error flag.
BlockAssumption(b) == DOMAIN b = {"shape", "is_error", "text"}

ASSUME GatewayAssumption ==
  \A s \in Scenarios :
    /\ s.tool \in Tools
    /\ \A i \in DOMAIN s.request.body : BlockAssumption(s.request.body[i])

VARIABLE tool        \* the tool whose text the request carries

vars == <<tool, rtkVars, execVars>>

Init ==
  /\ \E s \in Scenarios : tool = s.tool /\ request = s.request /\ setup = s.setup
  /\ RtkInit
  /\ ExecInit

Compress   == RtkNext /\ UNCHANGED <<tool, execVars>>
Send       == call = "answered" /\ ExecNext /\ UNCHANGED <<tool, rtkVars>>
\* The client may leave while the engine runs.
LeaveEarly == call # "answered" /\ CallerAborts /\ UNCHANGED <<tool, rtkVars>>

Next == Compress \/ Send \/ LeaveEarly

\* Timers fire, promises settle and a signalled process dies; the engine may
\* hang, and the provider need not answer.
Fairness ==
  /\ WF_vars((Spawn \/ SpawnFails) /\ UNCHANGED <<tool, execVars>>)
  /\ WF_vars(TimerFires /\ UNCHANGED <<tool, execVars>>)
  /\ WF_vars(child = "killed" /\ EngineDies /\ UNCHANGED <<tool, execVars>>)
  /\ WF_vars(Collect /\ UNCHANGED <<tool, execVars>>)
  /\ WF_vars(call = "answered" /\ TimeoutElapses /\ UNCHANGED <<tool, rtkVars>>)
  /\ WF_vars(call = "answered" /\ SignalEnds /\ UNCHANGED <<tool, rtkVars>>)

Spec == Init /\ [][Next]_vars /\ Fairness
-----------------------------------------------------------------------------
\* The last block is the one with the tool's text.
TextOf(body) == body[Len(body)].text
Compressed   == call = "answered" /\ result.body # request.body

\* Types of the state.
TypeOK ==
  /\ tool \in Tools
  /\ call \in {"idle", "waiting", "answered"}
  /\ child \in {"none", "running", "killed", "exited"}
  /\ timer \in {"off", "armed", "fired"}
  /\ exec \in InFlight \cup {"idle", "done", "failed"}
  /\ status \in Statuses \cup {0}
  /\ sends \in 0..MaxSends
  /\ code \in {0, 1, 101} /\ {elapsed, aborted} \subseteq BOOLEAN

\* Whatever befalls the child, the wrapper's answer is the caller's body or the
\* whole answer of an engine that read the body and was not killed; it is
\* never longer, and no text is emptied (rtk.ts:103-117, compress.rs).
WholeAnswer ==
  call = "answered" /\ result # passthrough =>
    /\ result.body = compress_request(request)
    /\ request.parses

NothingEmptied ==
  call = "answered" =>
    \A i \in DOMAIN request.body :
      request.body[i].text # <<>> => result.body[i].text # <<>>

NotLonger ==
  Compressed => BodySize(result.body) + request.rest <= BodySize(request.body)

SafeBody == WholeAnswer /\ NothingEmptied /\ NotLonger

Raw       == TextOf(request.body)
Packed    == TextOf(result.body)
Truncated == \E i \in DOMAIN Packed : Packed[i].t = "dropped"

\* What the raw text says, apart from the white space and the long decimals a
\* caveman's user gave up, and what the compressed one says.
Said      == Learns(tool, IF request.caveman THEN Plain(Raw) ELSE Raw)
StillSaid == Learns(tool, Expanded(Packed))

\* The lines of other texts that each filter keeps as they are.
Keeps(guess) ==
  CASE guess = "git-diff"     -> {"bullet"}
    [] guess = "git-status"   -> {"branch"}
    [] guess = "find"         -> {"path"}
    [] guess = "build-output" -> {"error"}
    [] guess = "dedup-log"    -> {"word", "bullet", "branch", "path", "log", "error"}

\* Of a text that is nobody's output: a line the guessed filter drops, and an
\* address in a caveman's text.
LineLost(line) ==
  \/ line.t \notin Keeps(detect(Raw))
  \/ request.caveman /\ Says(line, Address)

\* What the filters are known to lose: see the README.
KnownLoss(fact) ==
  CASE tool = "diff"   -> fact[1] = "file" \/ fact[3] = "dashed"
    [] tool = "status" -> fact[1] = "unmerged" \/ fact[2] \in {"diverged", "detached"}
    [] tool = "log"    -> fact[1] = "body" \/ fact[3] = "ten days ago"
                          \/ ~\E i \in DOMAIN Raw : Raw[i].t = "subject"
                                                   /\ NameAt(Raw, i, {"commit"}) = fact[2]
    [] tool = "find"   -> Says([xs |-> fact], "my file")
    [] tool = "search" -> Says([xs |-> fact], "my file") \/ Len(fact) = 1
    [] tool = "build"  -> fact[1] = "detail" \/ (fact = <<"result", "ok">> /\ detect_cmd(Raw) = "")
    [] tool \in {"messages", "document"} -> LineLost(fact[1]) \/ LineLost(fact[2])
    [] OTHER           -> FALSE

\* A compressed text still says what the raw one said, apart from the known
\* losses: every changed line under its file, every entry in its section, every
\* commit, match, path, name, numbered line, warning and route, every line of a
\* log in its place and as often as it came.
LosesOnlyKnown ==
  Compressed /\ exec = "idle" =>
    Truncated \/ \A fact \in Said \ StillSaid : KnownLoss(fact)

\* What they are known to make up: git's closing remark among the untracked
\* files, the success of a build that failed in a step after the compiler's, the
\* summary of what is taken for a build, and a caveman's address.
KnownInvention(fact) ==
  CASE tool = "status" -> fact = <<"untracked", "nothing added to commit">>
    [] tool = "build"  -> /\ fact = <<"result", "ok">>
                          /\ SaysSuccess(Raw) /\ SaidIn(Raw, "failed to compile") /\ ~BuildFailed(Raw)
    [] tool \in {"messages", "document"} ->
         \E line \in {fact[1], fact[2]} :
           \/ line.t = "summary" /\ detect(Raw) = "build-output"
           \/ request.caveman /\ Says(line, rounded(Address))
    [] OTHER           -> FALSE

\* A compressed text says nothing the raw one did not say, apart from those.
InventsOnlyKnown ==
  Compressed /\ exec = "idle" /\ ~Truncated =>
    \A fact \in StillSaid \ Said : KnownInvention(fact)

\* What a reader of the compressed text learns from it is what the raw text
\* says, apart from the listed cases (the filters of rtk/src/filters and the
\* detector that chooses one of them).
FaithfulText == LosesOnlyKnown /\ InventsOnlyKnown

\* The wrapper always answers, also when the engine hangs (rtk.ts:9, "RTK must
\* never block a request").
CompressAnswers == call = "waiting" ~> call = "answered"

\* A request in flight comes to an end although the provider is silent, unless
\* the caller has a signal and the runtime no AbortSignal.any (base.ts:233-241).
SendSettles == exec \in InFlight /\ (setup.signal => setup.any) ~> exec \notin InFlight
=============================================================================
