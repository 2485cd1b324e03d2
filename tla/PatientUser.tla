---------------------------- MODULE PatientUser ----------------------------
(***************************************************************************)
(* One person signing up through the routes of Signup: she reads every     *)
(* answer, types the code of the latest mail and follows the pages'        *)
(* advice (a 409 of register leads to the resend form, a 429 is waited     *)
(* out, a 410 leads to a resend).  At most MaxFaults things go wrong on    *)
(* the way: an await rejects, Redis loses a reply, a code expires before   *)
(* it is typed.                                                            *)
(*                                                                         *)
(* The question is whether every state such a fault leaves behind still    *)
(* has a way out: a row without a code, a code that was never mailed, a    *)
(* code that was consumed although the row was not updated.                *)
(***************************************************************************)
EXTENDS Signup

CONSTANT MaxFaults  \* bound on the things that go wrong

Nobody == "nobody"

ASSUME PatientUserAssumption == MaxFaults \in Nat /\ Nobody \notin Routes

VARIABLES
  plan,    \* what she does next: "register", "resend", "verify" or "home"
  doing,   \* her request in flight, or Nobody
  wait,    \* the key whose Retry-After she is told to sit out
  faults   \* what went wrong so far

userVars == <<plan, doing, wait, faults>>
allVars  == <<vars, userVars>>

PatientTypeOK ==
  /\ plan \in {"register", "resend", "verify", "home"}
  /\ doing \in Routes \cup {Nobody}
  /\ wait \in {"nothing", "cooldown", "suspension"}
  /\ faults \in 0 .. MaxFaults
  /\ \A x \in Routes \ {doing} : at[x] \in {"idle", "done"}

PatientInit ==
  /\ Init
  /\ plan = "register"
  /\ doing = Nobody
  /\ wait = "nothing"
  /\ faults = 0
-----------------------------------------------------------------------------
\* Retry-After has run out.
Waited == CASE wait = "nothing"    -> TRUE
            [] wait = "cooldown"   -> cooldown = "absent"
            [] wait = "suspension" -> suspended = "absent"

\* A request she has not used yet (which one makes no difference).
Unused(S) == {x \in S : at[x] = "idle"}
Fresh(S)  == CHOOSE x \in Unused(S) : TRUE

Start(x) ==
  \/ plan = "register" /\ x \in Registrations /\ x = Fresh(Registrations) /\ RegisterFind(x)
  \/ plan = "resend" /\ x \in Resends /\ x = Fresh(Resends) /\ ResendFind(x)
  \/ plan = "verify" /\ x \in Requests /\ x = Fresh(Requests) /\ VerifyFind(x)

\* A new request of the kind her plan asks for.
Send ==
  /\ doing = Nobody
  /\ Waited
  /\ \E x \in Unused(Routes) : Start(x) /\ doing' = x
  /\ wait' = "nothing"
  /\ UNCHANGED <<plan, faults>>

LatestMail == CHOOSE c \in inbox : \A d \in inbox : d <= c

\* The request in flight takes its next step.
Proceed ==
  /\ \/ doing \in Registrations /\ RegisterCreate(doing)
     \/ doing \in Resends /\ CanResend(doing)
     \/ doing \in Senders /\ (Issue(doing) \/ SendOtpEmail(doing))
     \/ /\ doing \in Requests
        /\ \/ VerifyBegin(doing, LatestMail) /\ outcome'[doing] # "error"
           \/ VerifyContinue(doing)
           \/ VerifyResult(doing)
           \/ MarkVerified(doing)
           \/ Welcome(doing)
  /\ UNCHANGED userVars

\* Where an answer sends her.
Advice(status) ==
  \/ status = 200 /\ plan = "verify" /\ plan' = "home"
  \/ status = 200 /\ plan # "verify" /\ plan' = "verify"
  \/ status = 404 /\ plan' = "register"
  \/ status = 409 /\ plan = "resend" /\ plan' = "home"
  \/ status = 409 /\ plan # "resend" /\ plan' = "resend"
  \/ status = 410 /\ plan' = "resend"
  \/ status \notin {200, 404, 409, 410} /\ plan' = plan

\* Defect: she does not wait for the answer.
ReadAnswerEarly ==
  /\ doing \in Routes
  /\ Advice(reply[doing])
  /\ wait' = "nothing"
  /\ doing' = Nobody
  /\ UNCHANGED <<vars, faults>>

ReadAnswer ==
  /\ doing \in Routes
  /\ at[doing] = "done"
  /\ Advice(reply[doing])
  /\ wait' = IF reply[doing] # 429 THEN "nothing"
             ELSE IF plan = "resend" THEN "cooldown" ELSE "suspension"
  /\ doing' = Nobody
  /\ UNCHANGED <<vars, faults>>

KeyRunsOut ==
  /\ O!ExpireCooldown \/ O!ExpireSuspension
  /\ UNCHANGED <<routes, user, sent, inbox, window, checkedIn, userVars>>

\* One of the things that can go wrong.
Fault ==
  /\ faults < MaxFaults
  /\ faults' = faults + 1
  /\ \/ doing \in Routes /\ Fails(doing)
     \/ doing \in Requests /\ VerifyLosesRedis(doing)
     \/ /\ O!ExpireCode
        /\ UNCHANGED <<routes, user, sent, inbox, window, checkedIn>>
  /\ UNCHANGED <<plan, doing, wait>>

PatientNext == Send \/ Proceed \/ ReadAnswer \/ KeyRunsOut \/ Fault

\* She does not give up, a request that can go on does (every await settles),
\* and Redis expires keys.  Faults are never obliged to happen.
Fairness ==
  /\ WF_allVars(Send)
  /\ WF_allVars(Proceed)
  /\ WF_allVars(ReadAnswer)
  /\ WF_allVars(KeyRunsOut)

PatientSpec == PatientInit /\ [][PatientNext]_allVars /\ Fairness
-----------------------------------------------------------------------------
(* Properties *)

(* Every partial failure leaves a way out: whichever awaits of register,
   resend-otp and verify-otp fail, she ends up signed up, because a failed
   route is answered with a status that leads to a route that repairs it. *)
SignupSucceeds == <>(plan = "home" /\ user = "verified")

(* Typing only codes that were mailed never suspends the account: a failure
   between storing a code and mailing it, or between accepting it and updating
   the row, is not charged to her as a wrong guess. *)
HonestNeverSuspended == suspended = "absent" /\ counted = {}
=============================================================================
