------------------------------ MODULE Executor ------------------------------
(***************************************************************************)
(* An executor sends one prepared request to a provider                    *)
(* (open-sse/executors/base.ts) under a signal that combines the caller's  *)
(* with a timeout of its own, and hands the raw response to its caller,    *)
(* who reads the body.  mapError says how the caller should react to a     *)
(* status.                                                                 *)
(*                                                                         *)
(* The caller is not in the repository.  It is modelled by what base.ts    *)
(* says of it: it may abort, it reads the body to its end, and it sends    *)
(* the request once more to the same connection when                       *)
(* shouldRetrySameConnection says so.                                      *)
(***************************************************************************)
EXTENDS Integers, FiniteSets

CONSTANTS
  Statuses,    \* HTTP statuses a provider answers with
  MaxSends     \* bound: requests sent for one call

ASSUME ExecutorAssumption ==
  /\ Statuses \subseteq 100..599
  /\ MaxSends \in Nat \ {0}

VARIABLES
  setup,      \* what the call passes and what it finds:
              \*   signal    the caller has a signal
              \*   any       the runtime has AbortSignal.any
              \*   template  the endpoint is a template, baseUrl  and can be filled
  exec,       \* "idle", "sent", "reading", "done", "failed"
  status,     \* of the last response, 0 before it
  category,   \* FallbackCategory of the outcome
  elapsed,    \* the timeout of this send is over
  aborted,    \* the caller's signal
  sends       \* requests sent

execVars == <<setup, exec, status, category, elapsed, aborted, sends>>

InFlight == {"sent", "reading"}

-----------------------------------------------------------------------------
(* mapError, shouldRetrySameConnection *)

Success(s) == s >= 200 /\ s < 300

mapError(s) ==
  CASE Success(s)                -> "none"
    [] s \in {400, 422}          -> "invalid"
    [] s \in {401, 403}          -> "auth"
    [] s = 402                   -> "payment"
    [] s = 429                   -> "rate_limit"
    [] s = 500                   -> "server"
    [] s \in {502, 503, 504}     -> "overloaded"
    [] OTHER                     -> IF s >= 500 THEN "server" ELSE "unknown"

shouldRetrySameConnection(c) == c = "server"
-----------------------------------------------------------------------------
(* combineSignals: the signals that end the fetch and the body's stream *)

\* Defect: the caller's signal stands alone.
CallersSignal == IF setup.signal THEN {"caller"} ELSE {"timeout"}

Signals ==
  CASE ~setup.signal -> {"timeout"}
    [] setup.any     -> {"caller", "timeout"}
    [] OTHER         -> {"caller"}

Signalled == \/ "timeout" \in Signals /\ elapsed
             \/ "caller" \in Signals /\ aborted
-----------------------------------------------------------------------------
ExecInit ==
  /\ exec = "idle"
  /\ status = 0
  /\ category = "none"
  /\ elapsed = FALSE
  /\ aborted = FALSE
  /\ sends = 0

\* buildUrl of a templated endpoint throws without a base URL.
PrepareThrows ==
  /\ exec = "idle"
  /\ setup.template /\ ~setup.baseUrl
  /\ exec' = "failed"
  /\ category' = "unknown"
  /\ UNCHANGED <<setup, status, elapsed, aborted, sends>>

\* A signal that is already aborted rejects the fetch at once.
Execute ==
  /\ exec = "idle"
  /\ ~(setup.template /\ ~setup.baseUrl)
  /\ exec' = IF aborted /\ "caller" \in Signals THEN "failed" ELSE "sent"
  /\ category' = IF aborted /\ "caller" \in Signals THEN "unknown" ELSE "none"
  /\ elapsed' = FALSE
  /\ status' = 0
  /\ sends' = sends + 1
  /\ UNCHANGED <<setup, aborted>>

ProviderAnswers(s) ==
  /\ exec = "sent"
  /\ ~Signalled
  /\ status' = s
  /\ category' = mapError(s)
  /\ exec' = IF Success(s) THEN "reading" ELSE "failed"
  /\ UNCHANGED <<setup, elapsed, aborted, sends>>

BodyEnds ==
  /\ exec = "reading"
  /\ ~Signalled
  /\ exec' = "done"
  /\ UNCHANGED <<setup, status, category, elapsed, aborted, sends>>

ConnectionBreaks ==
  /\ exec \in InFlight
  /\ exec' = "failed"
  /\ category' = "unknown"
  /\ UNCHANGED <<setup, status, elapsed, aborted, sends>>

\* The timeout runs on after the headers have arrived.
TimeoutElapses ==
  /\ exec \in InFlight
  /\ ~elapsed
  /\ elapsed' = TRUE
  /\ UNCHANGED <<setup, exec, status, category, aborted, sends>>

CallerAborts ==
  /\ setup.signal /\ ~aborted
  /\ exec \in InFlight \cup {"idle"}
  /\ aborted' = TRUE
  /\ UNCHANGED <<setup, exec, status, category, elapsed, sends>>

\* fetch, or the reader of the body, rejects.
SignalEnds ==
  /\ exec \in InFlight
  /\ Signalled
  /\ exec' = "failed"
  /\ category' = "unknown"
  /\ UNCHANGED <<setup, status, elapsed, aborted, sends>>

\* Defect: the caller forgets that it has tried again.
RetryAlways ==
  /\ exec = "failed"
  /\ shouldRetrySameConnection(category)
  /\ exec' = "idle"
  /\ UNCHANGED <<setup, status, category, elapsed, aborted, sends>>

\* The caller's side: once more, to the same connection.
RetryOnce ==
  /\ exec = "failed"
  /\ shouldRetrySameConnection(category)
  /\ sends \in 1..MaxSends - 1
  /\ exec' = "idle"
  /\ UNCHANGED <<setup, status, category, elapsed, aborted, sends>>

ExecNext ==
  \/ PrepareThrows \/ Execute
  \/ \E s \in Statuses : ProviderAnswers(s)
  \/ BodyEnds \/ ConnectionBreaks
  \/ TimeoutElapses \/ CallerAborts \/ SignalEnds \/ RetryOnce
=============================================================================
