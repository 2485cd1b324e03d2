---------------------------- MODULE SignupProofs ----------------------------
(***************************************************************************)
(* Proofs about Signup and PatientUser, for any sets of calls, any         *)
(* MaxAttempts and any number of issues and faults.                        *)
(*                                                                         *)
(* Every step of a route is a step of Otp or leaves the one-time code      *)
(* alone, so Signup implements Otp and what OtpProofs proves of Otp holds  *)
(* here.  TypeInv says what a route relies on between two of its awaits,   *)
(* VerifiedInv why a session is only given for a verified row, WindowInv   *)
(* why a resend that checked after the cooldown was armed never issues.    *)
(*                                                                         *)
(* The person of PatientUser is one of the users Signup allows for, so all *)
(* that is proved of the routes holds for her; and since she types nothing *)
(* but the code of the latest mail, which is the code in force or no code  *)
(* is, she is never judged wrong (HonestInv).                              *)
(***************************************************************************)
EXTENDS PatientUser, TLAPS

Proved == INSTANCE OtpProofs WITH OtherFlows <- FALSE

\* A verification that returned has an outcome to answer with, a mail has a
\* code to carry, and the cooldown was armed by issues.
TypeInv ==
  /\ TypeOK
  /\ window <= issued
  /\ \A v \in Requests : pc[v] = "done" => outcome[v] # "none"
  /\ \A x \in Senders : at[x] = "mail" => sent[x] \in O!Codes

\* The row a call found verified, or has verified, is verified.
VerifiedInv ==
  \A v \in Requests :
    \/ at[v] = "welcome" \/ reply[v] = 200 \/ snap[v] = "verified"
    => user = "verified"

\* A resend about to issue checked in this window of the cooldown or in an
\* earlier one; in an earlier one if the cooldown is armed now.
WindowInv ==
  \A r \in Resends : at[r] = "issue" =>
    /\ checkedIn[r] <= window
    /\ cooldown = "expiring" => checkedIn[r] < window
-----------------------------------------------------------------------------
(* Signup and its calls of Otp *)

(* A step of a route, of OIDC or of a timer is one step of Otp, or no step of
   it: no route touches the one-time code but through otp.ts. *)
LEMMA UsesOtpStep == [Next]_vars => [O!Next]_(O!vars)
<1> SUFFICES ASSUME [Next]_vars PROVE [O!Next]_(O!vars)
  OBVIOUS
<1> DEFINE Stutters == UNCHANGED otpVars
<1>1. ASSUME Stutters PROVE UNCHANGED O!vars
  BY <1>1 DEF otpVars, O!vars, O!keys, O!calls, O!history
<1>2. ASSUME NEW g \in Registrations, Register(g)
      PROVE  O!Next \/ Stutters
  BY <1>2 DEF Register, RegisterFind, RegisterCreate, Issue, SendOtpEmail, O!Next
<1>3. ASSUME NEW r \in Resends, Resend(r)
      PROVE  O!Next \/ Stutters
  BY <1>3 DEF Resend, ResendFind, CanResend, Issue, SendOtpEmail, O!Next
<1>4. ASSUME NEW v \in Requests, VerifyOtpRoute(v)
      PROVE  O!Next \/ Stutters
  <2>1. CASE \E code \in O!Inputs : VerifyBegin(v, code)
    BY <2>1 DEF VerifyBegin, O!Next
  <2>2. CASE VerifyContinue(v) \/ VerifyLosesRedis(v)
    BY <2>2 DEF VerifyContinue, VerifyLosesRedis, O!Next
  <2>3. CASE VerifyFind(v) \/ VerifyResult(v) \/ MarkVerified(v) \/ Welcome(v)
    BY <2>3 DEF VerifyFind, VerifyResult, MarkVerified, Welcome
  <2> QED
    BY <1>4, <2>1, <2>2, <2>3 DEF VerifyOtpRoute
<1>5. ASSUME NEW x \in Routes, Fails(x)
      PROVE  O!Next \/ Stutters
  BY <1>5 DEF Fails
<1>6. ASSUME OidcUpsert PROVE Stutters
  BY <1>6 DEF OidcUpsert
<1>7. ASSUME Expire PROVE O!Next
  BY <1>7 DEF Expire, O!Next
<1>8. ASSUME UNCHANGED vars PROVE Stutters
  BY <1>8 DEF vars
<1> HIDE DEF Stutters
<1> QED
  BY <1>1, <1>2, <1>3, <1>4, <1>5, <1>6, <1>7, <1>8 DEF Next

(* The routes implement Otp: they use the one-time code as Otp describes. *)
THEOREM ImplementsOtp == Spec => UsesOtp
<1>1. Init => O!Init
  BY DEF Init
<1> QED
  BY <1>1, UsesOtpStep, PTL DEF Spec, UsesOtp, O!Spec
-----------------------------------------------------------------------------
(* What OtpProofs proves of Otp, for Otp as Signup instantiates it *)

(* The steps of Signup's instance of Otp are those of OtpProofs'. *)
LEMMA SameStep == O!Next <=> Proved!Next
<1> USE DEF O!NoCode, Proved!NoCode, O!NoHash, Proved!NoHash, O!Inputs, Proved!Inputs,
            O!InFlight, Proved!InFlight, O!Running, Proved!Running,
            O!keys, Proved!keys, O!calls, Proved!calls, O!history, Proved!history,
            O!Retire, Proved!Retire, O!Return, Proved!Return,
            O!DelCode, Proved!DelCode, O!NextAttempts, Proved!NextAttempts,
            O!HsetAttempts, Proved!HsetAttempts,
            O!ConsumeEffect, Proved!ConsumeEffect,
            O!SuspendEffect, Proved!SuspendEffect,
            O!CountEffect, Proved!CountEffect
<1>1. O!issueOtp <=> Proved!issueOtp
  BY DEF O!issueOtp, Proved!issueOtp, O!StoreCode, Proved!StoreCode
<1>2. O!clearOtp <=> Proved!clearOtp
  BY DEF O!clearOtp, Proved!clearOtp
<1>3. O!ExpireCode <=> Proved!ExpireCode
  BY DEF O!ExpireCode, Proved!ExpireCode
<1>4. O!ExpireCooldown <=> Proved!ExpireCooldown
  BY DEF O!ExpireCooldown, Proved!ExpireCooldown
<1>5. O!ExpireSuspension <=> Proved!ExpireSuspension
  BY DEF O!ExpireSuspension, Proved!ExpireSuspension
<1>6. ASSUME NEW v, NEW code
      PROVE  O!ReadSuspension(v, code) <=> Proved!ReadSuspension(v, code)
  BY DEF O!ReadSuspension, Proved!ReadSuspension, O!TTL, Proved!TTL
<1>7. ASSUME NEW v
      PROVE  O!Verify(v) <=> Proved!Verify(v)
  <2>1. O!ReadCode(v) <=> Proved!ReadCode(v)
    BY DEF O!ReadCode, Proved!ReadCode, O!shouldSuspend, Proved!shouldSuspend
  <2>2. O!Consume(v) <=> Proved!Consume(v)
    BY DEF O!Consume, Proved!Consume
  <2>3. O!Suspend(v) <=> Proved!Suspend(v)
    BY DEF O!Suspend, Proved!Suspend
  <2>4. O!MirrorSuspendToDb(v) <=> Proved!MirrorSuspendToDb(v)
    BY DEF O!MirrorSuspendToDb, Proved!MirrorSuspendToDb
  <2>5. O!Count(v) <=> Proved!Count(v)
    BY DEF O!Count, Proved!Count, O!attemptsRemaining, Proved!attemptsRemaining
  <2> QED
    BY <2>1, <2>2, <2>3, <2>4, <2>5 DEF O!Verify, Proved!Verify
<1>8. ASSUME NEW v
      PROVE  O!RedisFails(v) <=> Proved!RedisFails(v)
  BY DEF O!RedisFails, Proved!RedisFails
<1>9. ASSUME NEW v
      PROVE  O!Redelivered(v) <=> Proved!Redelivered(v)
  BY DEF O!Redelivered, Proved!Redelivered
<1> QED
  BY <1>1, <1>2, <1>3, <1>4, <1>5, <1>6, <1>7, <1>8, <1>9 DEF O!Next, Proved!Next

(* ... and so are their steps and stutters. *)
LEMMA SameBox == [O!Next]_(O!vars) <=> [Proved!Next]_(Proved!vars)
BY SameStep DEF O!vars, Proved!vars, O!keys, Proved!keys, O!calls, Proved!calls,
                O!history, Proved!history

(* Signup's instance of Otp and OtpProofs' are the same specification. *)
LEMMA SameSpec == O!Spec <=> Proved!Spec
<1>1. O!Init <=> Proved!Init
  BY DEF O!Init, Proved!Init, O!NoHash, Proved!NoHash, O!NoCode, Proved!NoCode
<1> QED
  BY <1>1, SameBox, PTL DEF O!Spec, Proved!Spec

(* ... under the same assumption. *)
LEMMA SameAssumption == Proved!OtpAssumption
BY SignupAssumption
   DEF O!OtpAssumption, Proved!OtpAssumption, O!IsFiniteSet, Proved!IsFiniteSet

(* The Redis keys and the calls of verifyOtp have their types under the routes. *)
LEMMA OtpTypesHere == Spec => []O!TypeOK
<1>1. Proved!Spec => []Proved!TypeOK
  BY SameAssumption, Proved!TypeCorrect
<1>2. O!TypeOK <=> Proved!TypeOK
  BY DEF O!TypeOK, Proved!TypeOK, O!InFlight, Proved!InFlight, O!Inputs, Proved!Inputs
<1> QED
  BY <1>1, <1>2, ImplementsOtp, SameSpec, PTL DEF UsesOtp

(* However register, resend-otp and verify-otp overlap: no dead code is
   accepted, no stored code lives for ever, nobody is suspended early, no
   "invalid" answer leaves zero attempts, and without overlap the count is
   exact. *)
THEOREM RoutesKeepOtpSafe ==
  Spec => [](/\ O!DeadCodeNeverAccepted
             /\ O!CodeAlwaysExpires
             /\ O!NoSpuriousSuspension
             /\ O!InvalidLeavesAttempts
             /\ O!SerialCountIsExact)
<1>1. Proved!Spec => [](/\ Proved!DeadCodeNeverAccepted
                        /\ Proved!CodeAlwaysExpires
                        /\ Proved!NoSpuriousSuspension
                        /\ Proved!InvalidLeavesAttempts
                        /\ Proved!SerialCountIsExact)
  BY SameAssumption, Proved!DeadCodesStayDead, Proved!CodesExpire,
     Proved!SuspensionIsEarned, Proved!AttemptsRemain, Proved!SerialCounting, PTL
<1>2. O!DeadCodeNeverAccepted <=> Proved!DeadCodeNeverAccepted
  BY DEF O!DeadCodeNeverAccepted, Proved!DeadCodeNeverAccepted
<1>3. O!CodeAlwaysExpires <=> Proved!CodeAlwaysExpires
  BY DEF O!CodeAlwaysExpires, Proved!CodeAlwaysExpires, O!NoCode, Proved!NoCode
<1>4. O!NoSpuriousSuspension <=> Proved!NoSpuriousSuspension
  BY DEF O!NoSpuriousSuspension, Proved!NoSpuriousSuspension, O!WrongGuesses,
         Proved!WrongGuesses, O!NoCode, Proved!NoCode, O!Cardinality, Proved!Cardinality
<1>5. O!InvalidLeavesAttempts <=> Proved!InvalidLeavesAttempts
  BY DEF O!InvalidLeavesAttempts, Proved!InvalidLeavesAttempts
<1>6. O!SerialCountIsExact <=> Proved!SerialCountIsExact
  BY DEF O!SerialCountIsExact, Proved!SerialCountIsExact, O!CountedAgainst,
         Proved!CountedAgainst, O!NoCode, Proved!NoCode, O!Cardinality, Proved!Cardinality
<1> QED
  BY <1>1, <1>2, <1>3, <1>4, <1>5, <1>6, ImplementsOtp, SameSpec, PTL DEF UsesOtp
-----------------------------------------------------------------------------
(* Signup's own invariants *)

(* What any step of Otp does to the values the routes read: a call that
   returned has an outcome, and issuing is the only step that counts one. *)
LEMMA OtpStep ==
  ASSUME O!TypeOK, [O!Next]_(O!vars),
         \A v \in Requests : pc[v] = "done" => outcome[v] # "none"
  PROVE  /\ \A v \in Requests : pc'[v] = "done" => outcome'[v] # "none"
         /\ issued' \in {issued, issued + 1}
<1> USE DEF O!TypeOK, O!Return, O!keys, O!calls, O!InFlight
<1>1. CASE O!issueOtp \/ O!clearOtp
  BY <1>1 DEF O!issueOtp, O!clearOtp
<1>2. CASE O!ExpireCode \/ O!ExpireCooldown \/ O!ExpireSuspension
  BY <1>2 DEF O!ExpireCode, O!ExpireCooldown, O!ExpireSuspension
<1>3. ASSUME NEW v \in Requests, NEW code \in O!Inputs, O!ReadSuspension(v, code)
      PROVE  /\ \A w \in Requests : pc'[w] = "done" => outcome'[w] # "none"
             /\ issued' = issued
  BY <1>3 DEF O!ReadSuspension
<1>4. ASSUME NEW v \in Requests, O!Verify(v)
      PROVE  /\ \A w \in Requests : pc'[w] = "done" => outcome'[w] # "none"
             /\ issued' = issued
  <2>1. CASE O!ReadCode(v)
    BY <2>1 DEF O!ReadCode
  <2>2. CASE O!Consume(v) \/ O!Suspend(v)
    BY <2>2 DEF O!Consume, O!ConsumeEffect, O!Suspend, O!SuspendEffect
  <2>3. CASE O!MirrorSuspendToDb(v) \/ O!Count(v)
    BY <2>3 DEF O!MirrorSuspendToDb, O!Count, O!CountEffect
  <2> QED
    BY <1>4, <2>1, <2>2, <2>3 DEF O!Verify
<1>5. ASSUME NEW v \in Requests, O!RedisFails(v) \/ O!Redelivered(v)
      PROVE  /\ \A w \in Requests : pc'[w] = "done" => outcome'[w] # "none"
             /\ issued' = issued
  BY <1>5 DEF O!RedisFails, O!Redelivered, O!ConsumeEffect, O!SuspendEffect, O!CountEffect
<1>6. CASE UNCHANGED O!vars
  BY <1>6 DEF O!vars
<1> QED
  BY <1>1, <1>2, <1>3, <1>4, <1>5, <1>6 DEF O!Next

(* Every variable keeps its type, and a route that is past its look-up has its
   row: no request deletes one, and none proceeds without (the 404s and the
   409 of the routes). *)
LEMMA TypeInvStep ==
  ASSUME TypeInv, (O!TypeOK)', [Next]_vars
  PROVE  TypeInv'
<1>0. MaxIssues \in Nat
  BY SignupAssumption DEF SignupAssumption, O!OtpAssumption
<1> USE <1>0 DEF TypeInv, TypeOK, Go, Answer, FindUser, Unchanged, Routes, Senders,
                 Steps, routes
<1> DEFINE Outcomes == \A v \in Requests : pc'[v] = "done" => outcome'[v] # "none"
<1>1. Outcomes /\ issued' \in {issued, issued + 1} /\ issued' \in 0 .. MaxIssues
  BY UsesOtpStep, OtpStep DEF O!TypeOK
<1>2. issued \in 0 .. MaxIssues
  BY DEF O!TypeOK
<1>3. ASSUME NEW x \in Senders, Issue(x)
      PROVE  TypeInv'
  <2>1. issued' = issued + 1
    BY <1>3 DEF Issue, O!issueOtp
  <2>2. sent'[x] \in O!Codes
    BY <1>1, <1>2, <1>3, <2>1 DEF Issue, O!Codes
  <2> QED
    BY <1>1, <1>2, <1>3, <2>1, <2>2 DEF Issue
<1>4. ASSUME NEW x \in Senders, SendOtpEmail(x)
      PROVE  TypeInv'
  BY <1>1, <1>2, <1>4 DEF SendOtpEmail
<1>5. ASSUME NEW g \in Registrations, RegisterFind(g) \/ RegisterCreate(g)
      PROVE  TypeInv'
  BY <1>1, <1>2, <1>5 DEF RegisterFind, RegisterCreate
<1>6. ASSUME NEW r \in Resends, ResendFind(r) \/ CanResend(r)
      PROVE  TypeInv'
  BY <1>1, <1>2, <1>6 DEF ResendFind, CanResend
<1>7. ASSUME NEW v \in Requests, VerifyFind(v) \/ MarkVerified(v) \/ Welcome(v)
      PROVE  TypeInv'
  BY <1>1, <1>2, <1>7 DEF VerifyFind, MarkVerified, Welcome
<1>8. ASSUME NEW v \in Requests, VerifyResult(v)
      PROVE  TypeInv'
  <2>1. outcome[v] # "ok" => Status(outcome[v]) \in {429, 410, 400, 500}
    BY <1>8 DEF VerifyResult, Status, O!TypeOK
  <2> QED
    BY <1>1, <1>2, <1>8, <2>1 DEF VerifyResult, StepAfterMatch
<1>9. ASSUME NEW v \in Requests,
             \/ \E code \in O!Inputs : VerifyBegin(v, code)
             \/ VerifyContinue(v)
             \/ VerifyLosesRedis(v)
      PROVE  TypeInv'
  BY <1>1, <1>2, <1>9 DEF VerifyBegin, VerifyContinue, VerifyLosesRedis
<1>10. ASSUME NEW x \in Routes, Fails(x)
       PROVE  TypeInv'
  BY <1>1, <1>2, <1>10 DEF Fails
<1>11. CASE OidcUpsert \/ Expire
  BY <1>1, <1>2, <1>11 DEF OidcUpsert, Expire
<1>12. CASE UNCHANGED vars
  BY <1>1, <1>2, <1>12 DEF vars
<1> QED
  BY <1>3, <1>4, <1>5, <1>6, <1>7, <1>8, <1>9, <1>10, <1>11, <1>12
     DEF Next, Register, Resend, VerifyOtpRoute

(* The strengthened type invariant always holds. *)
LEMMA TypeInvAlways == Spec => []TypeInv
<1>1. ASSUME Init, O!TypeOK PROVE TypeInv
  BY <1>1, SignupAssumption
     DEF Init, TypeInv, TypeOK, Steps, Routes, Senders, O!Init, SignupAssumption,
         O!OtpAssumption
<1>2. TypeInv /\ (O!TypeOK)' /\ [Next]_vars => TypeInv'
  BY TypeInvStep
<1> QED
  BY <1>1, <1>2, OtpTypesHere, PTL DEF Spec

(* Signup's type invariant: between any two awaits, on any interleaving, the
   variables have their types and a route past its look-up has its row. *)
THEOREM TypeCorrect == Spec => []TypeOK
<1>1. TypeInv => TypeOK
  BY DEF TypeInv
<1> QED
  BY <1>1, TypeInvAlways, PTL

(* A row that is verified stays so, and a call only reaches its welcome with a
   row it read as verified or has just updated (verify-otp, lines 72-84). *)
LEMMA VerifiedInvStep == TypeInv /\ VerifiedInv /\ [Next]_vars => VerifiedInv'
<1> USE SignupAssumption
    DEF SignupAssumption, VerifiedInv, TypeOK, Go, Answer, FindUser, Unchanged,
        Routes, Senders, Steps, routes
<1> SUFFICES ASSUME TypeInv, VerifiedInv, [Next]_vars PROVE VerifiedInv'
  OBVIOUS
<1>0. TypeOK
  BY DEF TypeInv
<1> USE <1>0
<1>1. ASSUME NEW g \in Registrations, Register(g)
      PROVE  VerifiedInv'
  BY <1>1 DEF Register, RegisterFind, RegisterCreate, Issue, SendOtpEmail
<1>2. ASSUME NEW r \in Resends, Resend(r)
      PROVE  VerifiedInv'
  BY <1>2 DEF Resend, ResendFind, CanResend, Issue, SendOtpEmail
<1>3. ASSUME NEW v \in Requests, VerifyFind(v) \/ MarkVerified(v) \/ Welcome(v)
      PROVE  VerifiedInv'
  BY <1>3 DEF VerifyFind, MarkVerified, Welcome
<1>4. ASSUME NEW v \in Requests, VerifyResult(v)
      PROVE  VerifiedInv'
  <2>1. CASE outcome[v] = "ok"
    BY <1>4, <2>1 DEF VerifyResult, StepAfterMatch
  <2>2. CASE outcome[v] # "ok"
    <3>1. Status(outcome[v]) # 200
      BY <1>4, <2>2 DEF VerifyResult, Status, TypeInv, O!TypeOK
    <3> QED
      BY <1>4, <2>2, <3>1 DEF VerifyResult
  <2> QED
    BY <2>1, <2>2
<1>5. ASSUME NEW v \in Requests,
             \/ \E code \in O!Inputs : VerifyBegin(v, code)
             \/ VerifyContinue(v)
             \/ VerifyLosesRedis(v)
      PROVE  VerifiedInv'
  BY <1>5 DEF VerifyBegin, VerifyContinue, VerifyLosesRedis
<1>6. ASSUME NEW x \in Routes, Fails(x)
      PROVE  VerifiedInv'
  BY <1>6 DEF Fails
<1>7. CASE OidcUpsert \/ Expire
  BY <1>7 DEF OidcUpsert, Expire
<1>8. CASE UNCHANGED vars
  BY <1>8 DEF vars
<1> QED
  BY <1>1, <1>2, <1>3, <1>4, <1>5, <1>6, <1>7, <1>8 DEF Next, VerifyOtpRoute

(* A session is only handed out for a verified account. *)
THEOREM SessionsAreVerified == Spec => []SessionImpliesVerified
<1>1. Init => VerifiedInv
  BY DEF Init, VerifiedInv, Routes
<1>2. VerifiedInv => SessionImpliesVerified
  BY DEF VerifiedInv, SessionImpliesVerified
<1> QED
  BY <1>1, <1>2, VerifiedInvStep, TypeInvAlways, PTL DEF Spec

(* Otp arms the cooldown nowhere but in issueOtp. *)
LEMMA OnlyIssuesArm ==
  ASSUME NEW v \in Requests,
         O!Verify(v) \/ O!RedisFails(v) \/ O!Redelivered(v), cooldown' = "expiring"
  PROVE  cooldown = "expiring"
BY DEF O!Verify, O!ReadCode, O!Consume, O!ConsumeEffect, O!Suspend, O!SuspendEffect,
       O!MirrorSuspendToDb, O!Count, O!CountEffect, O!RedisFails, O!Redelivered, O!keys

(* A resend goes on to issue only if it saw the cooldown absent; whoever arms
   it afterwards opens a new window. *)
LEMMA WindowInvStep == TypeOK /\ WindowInv /\ [Next]_vars => WindowInv'
<1> USE SignupAssumption
    DEF SignupAssumption, WindowInv, TypeOK, Go, Answer, FindUser, Unchanged,
        Routes, Senders, Steps, routes, otpVars
<1> SUFFICES ASSUME TypeOK, WindowInv, [Next]_vars PROVE WindowInv'
  OBVIOUS
<1>1. cooldown \in {"absent", "expiring"}
  BY DEF O!TypeOK
<1>2. ASSUME NEW x \in Senders, Issue(x)
      PROVE  WindowInv'
  BY <1>1, <1>2 DEF Issue, O!issueOtp
<1>3. ASSUME NEW g \in Registrations, RegisterFind(g) \/ RegisterCreate(g)
      PROVE  WindowInv'
  BY <1>3 DEF RegisterFind, RegisterCreate
<1>4. ASSUME NEW r \in Resends, ResendFind(r)
      PROVE  WindowInv'
  BY <1>4 DEF ResendFind
<1>5. ASSUME NEW r \in Resends, CanResend(r)
      PROVE  WindowInv'
  BY <1>1, <1>5 DEF CanResend, canResend, O!TTL
<1>6. ASSUME NEW x \in Senders, SendOtpEmail(x)
      PROVE  WindowInv'
  BY <1>6 DEF SendOtpEmail
<1>7. ASSUME NEW v \in Requests,
             VerifyFind(v) \/ VerifyResult(v) \/ MarkVerified(v) \/ Welcome(v)
      PROVE  WindowInv'
  BY <1>7 DEF VerifyFind, VerifyResult, StepAfterMatch, MarkVerified, Welcome
<1>8. ASSUME NEW v \in Requests, NEW code \in O!Inputs, VerifyBegin(v, code)
      PROVE  WindowInv'
  BY <1>8 DEF VerifyBegin, O!ReadSuspension, O!keys
<1>9. ASSUME NEW v \in Requests, VerifyContinue(v) \/ VerifyLosesRedis(v)
      PROVE  WindowInv'
  BY <1>9, OnlyIssuesArm DEF VerifyContinue, VerifyLosesRedis
<1>10. ASSUME NEW x \in Routes, Fails(x)
       PROVE  WindowInv'
  BY <1>10 DEF Fails
<1>11. CASE OidcUpsert
  BY <1>11 DEF OidcUpsert
<1>12. CASE Expire
  BY <1>12 DEF Expire, O!ExpireCode, O!ExpireCooldown, O!ExpireSuspension
<1>13. CASE UNCHANGED vars
  BY <1>13 DEF vars
<1> QED
  BY <1>2, <1>3, <1>4, <1>5, <1>6, <1>7, <1>8, <1>9, <1>10, <1>11, <1>12, <1>13
     DEF Next, Register, Resend, VerifyOtpRoute

(* Once the cooldown is armed, no resend that checks it later issues a code. *)
THEOREM CooldownHolds == Spec => []LateResendRefused
<1>1. Init => WindowInv
  BY DEF Init, WindowInv, Routes, Senders
<1>2. WindowInv => LateResendRefused
  BY DEF WindowInv, LateResendRefused
<1> QED
  BY <1>1, <1>2, WindowInvStep, TypeCorrect, PTL DEF Spec
-----------------------------------------------------------------------------
(* PatientUser *)

\* The code in force, if any, is the last one issued; when she is to type a
\* code, that one has been mailed; and a verification under way carries it.
HonestInv ==
  /\ PatientTypeOK
  /\ HonestNeverSuspended
  /\ hash.code \in {O!NoCode, issued}
  /\ inbox \subseteq 1 .. issued
  /\ plan = "verify" => issued \in inbox
  /\ doing \in Senders => plan \in {"register", "resend"}
  /\ doing \in Requests => plan = "verify"
  /\ doing \in Senders /\ at[doing] = "mail" => sent[doing] = issued
  /\ doing \in Senders /\ at[doing] = "done" /\ reply[doing] = 200
       => issued \in inbox
  /\ \A v \in Requests :
       /\ pc[v] \notin {"suspend", "mirror", "count"}
       /\ pc[v] \in {"readCode", "consume"}
            => doing = v /\ at[v] = "verify" /\ input[v] = issued

PatientInv == Proved!TypeInv /\ TypeInv /\ HonestInv

(* The types of Otp, as its two instances state them, are the same. *)
LEMMA SameTypes == O!TypeOK <=> Proved!TypeOK
BY DEF O!TypeOK, Proved!TypeOK, O!InFlight, Proved!InFlight, O!Inputs, Proved!Inputs

(* The invariant of OtpProofs is kept by every step of the routes. *)
LEMMA OtpInvStep ==
  ASSUME Proved!TypeInv, [Next]_vars
  PROVE  (Proved!TypeInv)' /\ O!TypeOK /\ (O!TypeOK)'
<1>1. (Proved!TypeInv)'
  BY UsesOtpStep, SameBox, SameAssumption, Proved!TypeInvStep
<1>2. O!TypeOK
  BY SameTypes DEF Proved!TypeInv
<1>3. (O!TypeOK)'
  BY <1>1 DEF Proved!TypeInv, O!TypeOK, Proved!TypeOK, O!InFlight, Proved!InFlight,
              O!Inputs, Proved!Inputs
<1> QED
  BY <1>1, <1>2, <1>3

(* The latest mail carries the last code issued, whenever that was mailed. *)
LEMMA LatestMailIsIssued ==
  ASSUME issued \in Nat, inbox \subseteq 1 .. issued, issued \in inbox
  PROVE  LatestMail = issued
<1>1. \A d \in inbox : d <= issued
  OBVIOUS
<1>2. \A c \in inbox : (\A d \in inbox : d <= c) => c = issued
  OBVIOUS
<1> QED
  BY <1>1, <1>2, Zenon DEF LatestMail

(* Every step of hers is a step some request of Signup may take. *)
LEMMA PatientStep ==
  ASSUME PatientInv, [PatientNext]_allVars
  PROVE  [Next]_vars
<1>1. CASE Send
  BY <1>1 DEF Send, Start, Next, Register, Resend, VerifyOtpRoute
<1>2. CASE Proceed
  <2>1. CASE doing \in Registrations /\ RegisterCreate(doing)
    BY <2>1 DEF Next, Register
  <2>2. CASE doing \in Resends /\ CanResend(doing)
    BY <2>2 DEF Next, Resend
  <2>3. CASE doing \in Senders /\ (Issue(doing) \/ SendOtpEmail(doing))
    BY <2>3 DEF Next, Register, Resend, Senders
  <2>4. CASE doing \in Requests /\ VerifyBegin(doing, LatestMail)
    <3>1. LatestMail = issued /\ issued \in O!Inputs
      BY <2>4, LatestMailIsIssued, SameTypes
         DEF PatientInv, HonestInv, Proved!TypeInv, O!TypeOK, O!Inputs
    <3> QED
      BY <2>4, <3>1 DEF Next, VerifyOtpRoute
  <2>5. CASE /\ doing \in Requests
             /\ \/ VerifyContinue(doing) \/ VerifyResult(doing)
                \/ MarkVerified(doing) \/ Welcome(doing)
    BY <2>5 DEF Next, VerifyOtpRoute
  <2> QED
    BY <1>2, <2>1, <2>2, <2>3, <2>4, <2>5 DEF Proceed
<1>3. CASE ReadAnswer
  BY <1>3 DEF ReadAnswer
<1>4. CASE KeyRunsOut
  BY <1>4 DEF KeyRunsOut, Next, Expire, Unchanged
<1>5. CASE Fault
  BY <1>5 DEF Fault, Next, VerifyOtpRoute, Routes, Expire, Unchanged
<1>6. CASE UNCHANGED allVars
  BY <1>6 DEF allVars
<1> QED
  BY <1>1, <1>2, <1>3, <1>4, <1>5, <1>6 DEF PatientNext

(* Nothing she does, and nothing that goes wrong, makes her carry a wrong code:
   a code is issued only while none of her verifications is under way, and is
   typed only after its mail (issueOtp before sendOtpEmail in both routes). *)
LEMMA HonestInvStep ==
  ASSUME PatientInv, [PatientNext]_allVars
  PROVE  HonestInv'
<1> USE SignupAssumption, PatientUserAssumption
    DEF SignupAssumption, PatientUserAssumption, HonestInv, PatientTypeOK,
        HonestNeverSuspended, Routes, Senders, O!NoCode
<1>0. HonestInv /\ TypeOK /\ O!TypeOK
  BY SameTypes DEF PatientInv, TypeInv, Proved!TypeInv
<1> USE <1>0 DEF O!TypeOK
<1>1. CASE Send
  <2> PICK x \in Routes : at[x] = "idle" /\ Start(x) /\ doing' = x
    BY <1>1 DEF Send, Unused
  <2>1. UNCHANGED <<otpVars, sent, inbox, plan, faults>> /\ doing = Nobody
    BY <1>1 DEF Send, Start, RegisterFind, ResendFind, VerifyFind
  <2>2. UNCHANGED <<hash, suspended, counted, issued, pc, input>>
    BY <2>1 DEF otpVars
  <2>3. /\ \A y \in Routes \ {x} : at'[y] = at[y]
        /\ at'[x] \in {"done", "create", "cooldown", "verify"}
        /\ at'[x] = "done" => reply'[x] \in {404, 409}
    BY DEF Start, RegisterFind, ResendFind, VerifyFind, FindUser, Answer, Go, TypeOK
  <2>4. /\ x \in Senders => plan \in {"register", "resend"}
        /\ x \in Requests => plan = "verify"
    BY DEF Start
  <2> QED
    BY <1>1, <2>1, <2>2, <2>3, <2>4 DEF Send
<1>2. CASE Proceed
  <2>1. UNCHANGED <<plan, doing, wait, faults>>
    BY <1>2 DEF Proceed, userVars
  <2>2. CASE doing \in Registrations /\ RegisterCreate(doing)
    BY <2>1, <2>2 DEF RegisterCreate, Go, Answer, TypeOK, Unchanged, otpVars
  <2>3. CASE doing \in Resends /\ CanResend(doing)
    BY <2>1, <2>3 DEF CanResend, Go, Answer, TypeOK, otpVars
  <2>4. CASE doing \in Senders /\ Issue(doing)
    BY <2>1, <2>4 DEF Issue, O!issueOtp, O!StoreCode, O!calls, Go, TypeOK
  <2>5. CASE doing \in Senders /\ SendOtpEmail(doing)
    <3>1. sent[doing] = issued /\ issued \in 1 .. issued
      BY <2>5 DEF SendOtpEmail, PatientInv, TypeInv, O!Codes
    <3>2. UNCHANGED <<hash, suspended, counted, issued, pc, input, sent>>
      BY <2>5 DEF SendOtpEmail, otpVars
    <3> QED
      BY <2>1, <2>5, <3>1, <3>2 DEF SendOtpEmail, Answer, TypeOK
  <2>6. CASE doing \in Requests /\ VerifyBegin(doing, LatestMail)
    <3>1. LatestMail = issued
      BY <2>6, LatestMailIsIssued
    <3> QED
      BY <2>1, <2>6, <3>1 DEF VerifyBegin, O!ReadSuspension, O!Return, O!keys, routes
  <2>7. CASE doing \in Requests /\ VerifyContinue(doing)
    <3> USE <2>1, <2>7 DEF VerifyContinue, O!Return, O!keys, routes
    <3>1. CASE O!ReadCode(doing)
      BY <3>1 DEF O!ReadCode
    <3>2. CASE O!Consume(doing)
      BY <3>2 DEF O!Consume, O!ConsumeEffect, O!DelCode, O!NoHash
    <3>3. CASE O!Suspend(doing) \/ O!MirrorSuspendToDb(doing) \/ O!Count(doing)
      BY <3>3 DEF O!Suspend, O!MirrorSuspendToDb, O!Count
    <3> QED
      BY <2>7, <3>1, <3>2, <3>3 DEF O!Verify
  <2>8. CASE doing \in Requests /\ VerifyResult(doing)
    BY <2>1, <2>8 DEF VerifyResult, Go, Answer, TypeOK, otpVars
  <2>9. CASE doing \in Requests /\ (MarkVerified(doing) \/ Welcome(doing))
    <3>1. /\ at[doing] # "verify"
          /\ \A x \in Routes \ {doing} : at'[x] = at[x]
      BY <2>9 DEF MarkVerified, Welcome, Go, Answer, TypeOK
    <3>2. UNCHANGED <<hash, suspended, counted, issued, pc, input, inbox>>
      BY <2>9 DEF MarkVerified, Welcome, otpVars
    <3> QED
      BY <2>1, <2>9, <3>1, <3>2
  <2> QED
    BY <1>2, <2>2, <2>3, <2>4, <2>5, <2>6, <2>7, <2>8, <2>9 DEF Proceed
<1>3. CASE ReadAnswer
  BY <1>3 DEF ReadAnswer, Advice, vars, otpVars, routes
<1>4. CASE KeyRunsOut
  BY <1>4 DEF KeyRunsOut, O!ExpireCooldown, O!ExpireSuspension, routes, userVars,
              O!calls, O!history
<1>5. CASE Fault
  <2>1. UNCHANGED <<plan, doing, wait>> /\ faults' \in 0 .. MaxFaults
    BY <1>5 DEF Fault
  <2>2. CASE doing \in Routes /\ Fails(doing)
    BY <2>1, <2>2 DEF Fails, Answer, TypeOK, otpVars
  <2>3. CASE doing \in Requests /\ VerifyLosesRedis(doing)
    BY <2>1, <2>3
       DEF VerifyLosesRedis, O!RedisFails, O!Redelivered, O!ConsumeEffect, O!DelCode,
           O!NoHash, O!Return, O!keys, O!calls, O!history, O!InFlight, routes
  <2>4. CASE O!ExpireCode /\ UNCHANGED <<routes, sent, inbox>>
    BY <2>1, <2>4 DEF O!ExpireCode, O!DelCode, O!NoHash, O!calls, routes
  <2> QED
    BY <1>5, <2>2, <2>3, <2>4 DEF Fault
<1>6. CASE UNCHANGED allVars
  BY <1>6 DEF allVars, vars, otpVars, routes, userVars
<1> QED
  BY <1>1, <1>2, <1>3, <1>4, <1>5, <1>6 DEF PatientNext

(* The invariant always holds: her steps keep the invariants of Otp and of the
   routes because they are the routes' steps. *)
LEMMA PatientInvAlways == PatientSpec => []PatientInv
<1>1. PatientInit => PatientInv
  <2> SUFFICES ASSUME PatientInit PROVE PatientInv
    OBVIOUS
  <2>1. Init /\ O!Init
    BY DEF PatientInit, Init
  <2>2. Proved!TypeInv
    BY <2>1, SameAssumption
       DEF O!Init, O!NoHash, O!NoCode, Proved!OtpAssumption, Proved!TypeInv,
           Proved!TypeOK, Proved!CountBelow, Proved!CodeAlwaysExpires,
           Proved!InvalidLeavesAttempts, Proved!NoHash, Proved!NoCode, Proved!Codes,
           Proved!Inputs, Proved!InFlight
  <2>3. TypeInv
    BY <2>1, <2>2, SameTypes, SignupAssumption
       DEF Proved!TypeInv, Init, TypeInv, TypeOK, Steps, Routes, Senders, O!Init,
           SignupAssumption, O!OtpAssumption
  <2>4. HonestInv
    BY <2>1, PatientUserAssumption
       DEF PatientUserAssumption, PatientInit, HonestInv, PatientTypeOK,
           HonestNeverSuspended, Init, O!Init, O!NoHash, O!NoCode, Routes, Senders
  <2> QED
    BY <2>2, <2>3, <2>4 DEF PatientInv
<1>2. PatientInv /\ [PatientNext]_allVars => PatientInv'
  BY PatientStep, OtpInvStep, TypeInvStep, HonestInvStep DEF PatientInv
<1> QED
  BY <1>1, <1>2, PTL DEF PatientSpec

(* She is one of the users the routes serve: what she and the faults do to the
   account is a behaviour of Signup, so its invariants hold for her too. *)
THEOREM ImplementsSignup == PatientSpec => Spec
<1>1. PatientInit => Init
  BY DEF PatientInit
<1> QED
  BY <1>1, PatientStep, PatientInvAlways, PTL DEF PatientSpec, Spec

(* She has at most one request in flight, and every other request of hers has
   not begun or has been answered. *)
THEOREM PatientTypeCorrect == PatientSpec => []PatientTypeOK
<1>1. PatientInv => PatientTypeOK
  BY DEF PatientInv, HonestInv
<1> QED
  BY <1>1, PatientInvAlways, PTL

(* Whatever fails between storing a code, mailing it, accepting it and updating
   the row, someone who types only mailed codes is never counted wrong and never
   suspended. *)
THEOREM HonestIsNeverSuspended == PatientSpec => []HonestNeverSuspended
<1>1. PatientInv => HonestNeverSuspended
  BY DEF PatientInv, HonestInv
<1> QED
  BY <1>1, PatientInvAlways, PTL
=============================================================================
