------------------------------ MODULE Signup ------------------------------
(***************************************************************************)
(* The account behind one e-mail address: the routes register, verify-otp, *)
(* resend-otp and oidc/callback under src/app/api/auth, composed with the  *)
(* one-time code of Otp.  A route is a sequence of awaits on PostgreSQL,   *)
(* Redis and the mailer; each await is an action, and the requests in      *)
(* flight interleave between them.                                         *)
(*                                                                         *)
(* Rate limits, body parsing and password hashing are left out: they only  *)
(* refuse a request before any of the steps below.  So is the isBanned     *)
(* flag: no route writes it and none of the awaits below reads it.         *)
(***************************************************************************)
EXTENDS Naturals, FiniteSets

CONSTANTS
  Requests,       \* calls of POST verify-otp
  Registrations,  \* calls of POST register
  Resends,        \* calls of POST resend-otp
  MaxAttempts,    \* env.OTP_MAX_ATTEMPTS
  MaxIssues       \* bound on the number of codes ever issued

VARIABLES
  hash, ttl, cooldown, suspended, auditRows, issued,        \* Otp: Redis keys
  pc, input, seen, outcome, left,                           \* Otp: calls
  retired, deadAtStart, judged, counted, overlap,           \* Otp: history
  user,      \* the User row: "none", "unverified" or "verified"
  at,        \* where each request is in its route
  snap,      \* the row as the request read it
  reply,     \* its HTTP status, 0 before the answer
  sent,      \* the code a register or resend is to mail
  inbox,     \* codes that reached the mailbox
  window,    \* history: how often the cooldown was armed anew
  checkedIn  \* history: the window in which a resend passed the cooldown check

O == INSTANCE Otp WITH OtherFlows <- FALSE

ASSUME SignupAssumption ==
  /\ O!OtpAssumption
  /\ Registrations \cap Resends = {} /\ (Registrations \cup Resends) \cap Requests = {}

otpVars == <<hash, ttl, cooldown, suspended, auditRows, issued, pc, input, seen,
             outcome, left, retired, deadAtStart, judged, counted, overlap>>
routes  == <<at, snap, reply>>
vars    == <<otpVars, routes, user, sent, inbox, window, checkedIn>>

Senders == Registrations \cup Resends
Routes  == Requests \cup Senders

Steps == {"idle", "create", "cooldown", "issue", "mail", "verify", "update",
          "welcome", "done"}

(* Every variable has its type, and a route past its look-up has a row to work
   on (the 404 of verify-otp and resend-otp, the create of register). *)
TypeOK ==
  /\ O!TypeOK
  /\ user \in {"none", "unverified", "verified"}
  /\ at \in [Routes -> Steps]
  /\ \A x \in Routes : at[x] \notin {"idle", "create", "done"} => user # "none"
  /\ snap \in [Routes -> {"none", "unverified", "verified"}]
  /\ reply \in [Routes -> {0, 200, 400, 404, 409, 410, 429, 500}]
  /\ sent \in [Senders -> 0 .. MaxIssues]
  /\ inbox \in SUBSET O!Codes
  /\ window \in 0 .. MaxIssues
  /\ checkedIn \in [Resends -> 0 .. MaxIssues]

Init ==
  /\ O!Init
  /\ user = "none"
  /\ at = [x \in Routes |-> "idle"]
  /\ snap = [x \in Routes |-> "none"]
  /\ reply = [x \in Routes |-> 0]
  /\ sent = [x \in Senders |-> 0]
  /\ inbox = {}
  /\ window = 0
  /\ checkedIn = [r \in Resends |-> 0]
-----------------------------------------------------------------------------
Go(x, step) == at' = [at EXCEPT ![x] = step] /\ UNCHANGED reply

Answer(x, status) ==
  /\ at' = [at EXCEPT ![x] = "done"]
  /\ reply' = [reply EXCEPT ![x] = status]

FindUser(x) == snap' = [snap EXCEPT ![x] = user]

\* An awaited call of the database, Redis or the mailer rejects: the route's
\* catch answers 500.  Nothing that was done before is undone.
Fails(x) ==
  /\ at[x] \in {"create", "cooldown", "issue", "mail", "update", "welcome"}
  /\ Answer(x, 500)
  /\ UNCHANGED <<otpVars, snap, user, sent, inbox, window, checkedIn>>

Unchanged == UNCHANGED <<window, checkedIn>>
-----------------------------------------------------------------------------
(* register: findUnique, create, issueOtp, sendOtpEmail *)

RegisterFind(g) ==
  /\ at[g] = "idle"
  /\ FindUser(g)
  /\ IF user # "none" THEN Answer(g, 409) ELSE Go(g, "create")
  /\ UNCHANGED <<otpVars, user, sent, inbox>> /\ Unchanged

\* The e-mail column is unique: a second insert throws.
RegisterCreate(g) ==
  /\ at[g] = "create"
  /\ IF user = "none"
       THEN user' = "unverified" /\ Go(g, "issue")
       ELSE UNCHANGED user /\ Answer(g, 500)
  /\ UNCHANGED <<otpVars, snap, sent, inbox>> /\ Unchanged

Issue(x) ==
  /\ at[x] = "issue"
  /\ O!issueOtp
  /\ sent' = [sent EXCEPT ![x] = issued + 1]
  /\ window' = IF cooldown = "absent" THEN window + 1 ELSE window
  /\ Go(x, "mail")
  /\ UNCHANGED <<snap, user, inbox, checkedIn>>

SendOtpEmail(x) ==
  /\ at[x] = "mail"
  /\ inbox' = inbox \cup {sent[x]}
  /\ Answer(x, 200)
  /\ UNCHANGED <<otpVars, snap, user, sent>> /\ Unchanged
-----------------------------------------------------------------------------
(* resend-otp: findUnique, canResend, issueOtp, sendOtpEmail *)

ResendFind(r) ==
  /\ at[r] = "idle"
  /\ FindUser(r)
  /\ \/ user = "none" /\ Answer(r, 404)
     \/ user = "verified" /\ Answer(r, 409)
     \/ user = "unverified" /\ Go(r, "cooldown")
  /\ UNCHANGED <<otpVars, user, sent, inbox>> /\ Unchanged

canResendAlways == TRUE  \* defect: the cooldown is not enforced

\* Defect: the TTL is compared with 0, and a missing key answers -2.
canResendAtZero == O!TTL(cooldown) = 0

canResend == ~(O!TTL(cooldown) > 0)

CanResend(r) ==
  /\ at[r] = "cooldown"
  /\ IF canResend THEN Go(r, "issue") ELSE Answer(r, 429)
  /\ checkedIn' = [checkedIn EXCEPT ![r] = window]
  /\ UNCHANGED <<otpVars, snap, user, sent, inbox, window>>
-----------------------------------------------------------------------------
(* verify-otp: findUnique, verifyOtp, user.update, sendWelcomeEmail *)

\* Defect: the look-up's null is not checked.
VerifyFindUnchecked(v) ==
  /\ at[v] = "idle"
  /\ FindUser(v)
  /\ Go(v, "verify")
  /\ UNCHANGED <<otpVars, user, sent, inbox>> /\ Unchanged

VerifyFind(v) ==
  /\ at[v] = "idle"
  /\ FindUser(v)
  /\ IF user = "none" THEN Answer(v, 404) ELSE Go(v, "verify")
  /\ UNCHANGED <<otpVars, user, sent, inbox>> /\ Unchanged

VerifyBegin(v, code) ==
  /\ at[v] = "verify"
  /\ O!ReadSuspension(v, code)
  /\ UNCHANGED <<routes, user, sent, inbox>> /\ Unchanged

VerifyContinue(v) ==
  /\ O!Verify(v)
  /\ UNCHANGED <<routes, user, sent, inbox>> /\ Unchanged

VerifyLosesRedis(v) ==
  /\ O!RedisFails(v) \/ O!Redelivered(v)
  /\ UNCHANGED <<routes, user, sent, inbox>> /\ Unchanged

Status(result) ==
  [suspended |-> 429, expired |-> 410, invalid |-> 400, error |-> 500][result]

\* After a match: the row is updated unless it was verified when it was read.
StepAfterMatchWelcome(v) == "welcome"  \* defect: the row is never updated

StepAfterMatch(v) == IF snap[v] = "verified" THEN "welcome" ELSE "update"

VerifyResult(v) ==
  /\ at[v] = "verify"
  /\ pc[v] = "done"
  /\ IF outcome[v] = "ok"
       THEN Go(v, StepAfterMatch(v))
       ELSE Answer(v, Status(outcome[v]))
  /\ UNCHANGED <<otpVars, snap, user, sent, inbox>> /\ Unchanged

MarkVerified(v) ==
  /\ at[v] = "update"
  /\ user' = "verified"
  /\ Go(v, "welcome")
  /\ UNCHANGED <<otpVars, snap, sent, inbox>> /\ Unchanged

\* Defect: success also drops the account's OTP keys, a suspension among them.
WelcomeClearing(v) ==
  /\ at[v] = "welcome"
  /\ Answer(v, 200)
  /\ hash' = O!NoHash /\ ttl' = "absent"
  /\ cooldown' = "absent" /\ suspended' = "absent"
  /\ UNCHANGED <<auditRows, issued, pc, input, seen, outcome, left, retired,
                 deadAtStart, judged, counted, overlap, snap, user, sent, inbox>>
  /\ Unchanged

\* The welcome mail, then 200 with the session cookie.
Welcome(v) ==
  /\ at[v] = "welcome"
  /\ Answer(v, 200)
  /\ UNCHANGED <<otpVars, snap, user, sent, inbox>> /\ Unchanged
-----------------------------------------------------------------------------
(* oidc/callback upserts the row of a proven e-mail as verified. *)
OidcUpsert ==
  /\ user # "verified"
  /\ user' = "verified"
  /\ UNCHANGED <<otpVars, routes, sent, inbox>> /\ Unchanged

(* Redis expires a key. *)
Expire ==
  /\ O!ExpireCode \/ O!ExpireCooldown \/ O!ExpireSuspension
  /\ UNCHANGED <<routes, user, sent, inbox>> /\ Unchanged
-----------------------------------------------------------------------------
Register(g) == RegisterFind(g) \/ RegisterCreate(g) \/ Issue(g) \/ SendOtpEmail(g)

Resend(r) == ResendFind(r) \/ CanResend(r) \/ Issue(r) \/ SendOtpEmail(r)

VerifyOtpRoute(v) ==
  \/ VerifyFind(v)
  \/ \E code \in O!Inputs : VerifyBegin(v, code)
  \/ VerifyContinue(v)
  \/ VerifyLosesRedis(v)
  \/ VerifyResult(v)
  \/ MarkVerified(v)
  \/ Welcome(v)

Next ==
  \/ \E g \in Registrations : Register(g)
  \/ \E r \in Resends : Resend(r)
  \/ \E v \in Requests : VerifyOtpRoute(v)
  \/ \E x \in Routes : Fails(x)
  \/ OidcUpsert
  \/ Expire

Spec == Init /\ [][Next]_vars
-----------------------------------------------------------------------------
(* Properties *)

(* The routes use the one-time code only as Otp describes, so what Otp's
   properties say of it holds here: the composition implements Otp. *)
UsesOtp == O!Spec

(* A session cookie is only handed out for a verified account: the row is
   verified before verify-otp answers 200, whatever the request read at its
   start and whatever failed in between (verify-otp, lines 75-84). *)
SessionImpliesVerified ==
  \A v \in Requests : reply[v] = 200 => user = "verified"

(* Resends that overlap may all pass the check-then-act on the cooldown, but
   only those that checked before the cooldown was armed: once it is armed, no
   later resend sends another code until it is gone (canResend, issueOtp). *)
LateResendRefused ==
  \A r \in Resends :
    at[r] = "issue" /\ cooldown = "expiring" => checkedIn[r] < window
=============================================================================
