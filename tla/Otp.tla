------------------------------- MODULE Otp -------------------------------
(***************************************************************************)
(* The e-mail one-time code of ONE (account, type) pair: the Redis keys    *)
(* that src/lib/otp.ts keeps for it and the functions that work on them,   *)
(* run by any number of requests at once.                                  *)
(*                                                                         *)
(*   otp:{u}:{type}       hash {code, attempts}; TTL = the code's lifetime *)
(*   otp:cd:{u}:{type}    present while a resend is on cooldown            *)
(*   otp:susp:{u}:{type}  present while verification is suspended          *)
(*                                                                         *)
(* Every `await redis...` of the code is an atomic step of Redis and a     *)
(* point where the other requests run, so a verification takes up to four  *)
(* steps.  A MULTI/EXEC is one step.  A code is the number of the issue    *)
(* that drew it: two issues never draw the same six digits.  TTLs are      *)
(* modelled by what they do to a key: an Expire action may remove it at    *)
(* any moment.                                                             *)
(***************************************************************************)
EXTENDS Integers, FiniteSets

CONSTANTS
  Requests,     \* the calls of verifyOtp; each runs once
  MaxAttempts,  \* env.OTP_MAX_ATTEMPTS
  MaxIssues,    \* bound on the number of codes ever issued
  OtherFlows    \* whether some other flow calls the exported clearOtp

ASSUME OtpAssumption ==
  /\ IsFiniteSet(Requests)
  /\ MaxAttempts \in Nat \ {0}
  /\ MaxIssues \in Nat \ {0}
  /\ OtherFlows \in BOOLEAN

VARIABLES
  hash,       \* the fields of otp:{u}:{type}: code (NoCode if unset), attempts
  ttl,        \* that key: "absent", "expiring" (a TTL is set) or "persistent"
  cooldown,   \* otp:cd, "absent" or "expiring"
  suspended,  \* otp:susp, "absent" or "expiring"
  auditRows,  \* requests that wrote an OtpCode row (mirrorSuspendToDb)
  issued,     \* codes issued so far
  pc,         \* where each verification is
  input,      \* the code each verification was called with
  seen,       \* the hash each verification read
  outcome,    \* what each verification returned
  left,       \* the attemptsLeft of an "invalid" outcome
  \* history, read by the properties only:
  retired,     \* codes accepted, suspended on, replaced, cleared or expired
  deadAtStart, \* the codes that were retired when the verification began
  judged,      \* the code the verification was found wrong against
  counted,     \* verifications whose increment reached Redis
  overlap      \* "some" once a verification ran beside another or an issue

keys    == <<hash, ttl, cooldown, suspended, auditRows, issued>>
calls   == <<pc, input, seen, outcome, left>>
history == <<retired, deadAtStart, judged, counted, overlap>>
vars    == <<keys, calls, history>>

NoCode  == 0
Codes   == 1 .. MaxIssues
\* What a caller may send: a code, or digits that no issue ever draws (0).
Inputs  == 0 .. MaxIssues

NoHash == [code |-> NoCode, attempts |-> 0]

InFlight == {"readCode", "consume", "suspend", "mirror", "count"}
Running  == {v \in Requests : pc[v] \in InFlight}

(* Every variable has its type; in particular no count of MaxAttempts or more
   is ever stored. *)
TypeOK ==
  /\ hash \in [code : 0 .. MaxIssues, attempts : 0 .. MaxAttempts - 1]
  /\ ttl \in {"absent", "expiring", "persistent"}
  /\ cooldown \in {"absent", "expiring"}
  /\ suspended \in {"absent", "expiring"}
  /\ auditRows \in SUBSET Requests
  /\ issued \in 0 .. MaxIssues
  /\ pc \in [Requests -> InFlight \cup {"idle", "done"}]
  /\ input \in [Requests -> Inputs]
  /\ seen \in [Requests -> [code : 0 .. MaxIssues, attempts : 0 .. MaxAttempts - 1]]
  /\ outcome \in [Requests -> {"none", "ok", "expired", "invalid", "suspended", "error"}]
  /\ left \in [Requests -> 0 .. MaxAttempts]
  /\ retired \in SUBSET Inputs
  /\ deadAtStart \in [Requests -> SUBSET Inputs]
  /\ judged \in [Requests -> 0 .. MaxIssues]
  /\ counted \in SUBSET Requests
  /\ overlap \in {"none", "some"}

Init ==
  /\ hash = NoHash
  /\ ttl = "absent"
  /\ cooldown = "absent"
  /\ suspended = "absent"
  /\ auditRows = {}
  /\ issued = 0
  /\ pc = [v \in Requests |-> "idle"]
  /\ input = [v \in Requests |-> 0]
  /\ seen = [v \in Requests |-> NoHash]
  /\ outcome = [v \in Requests |-> "none"]
  /\ left = [v \in Requests |-> 0]
  /\ retired = {}
  /\ deadAtStart = [v \in Requests |-> {}]
  /\ judged = [v \in Requests |-> NoCode]
  /\ counted = {}
  /\ overlap = "none"
-----------------------------------------------------------------------------
(* Pure helpers *)

attemptsRemaining(attempts, maxAttempts) ==
  IF attempts <= maxAttempts THEN maxAttempts - attempts ELSE 0

suspendTooEarly(attempts, maxAttempts) == attempts >= maxAttempts - 1  \* defect
suspendTooLate(attempts, maxAttempts) == attempts > maxAttempts        \* defect

shouldSuspend(attempts, maxAttempts) == attempts >= maxAttempts

\* The count a wrong guess of request v leads to.
NextAttempts(v) == seen[v].attempts + 1

(* What the Redis commands do to the code's key *)

\* Defect: only the TTL goes, as PERSIST would do.
DelTtl == hash' = hash /\ ttl' = "persistent"

DelCode == hash' = NoHash /\ ttl' = "absent"

\* HSET creates a missing key, without a TTL, and keeps the TTL of one it finds.
HsetAttempts(n) ==
  /\ hash' = [hash EXCEPT !.attempts = n]
  /\ ttl' = IF ttl = "absent" THEN "persistent" ELSE ttl

\* HSET of a new code with EXPIRE; the defects forget the EXPIRE and the reset
\* of the count.
StoreCodeWithoutExpire ==
  /\ hash' = [code |-> issued + 1, attempts |-> 0]
  /\ ttl' = IF ttl = "absent" THEN "persistent" ELSE ttl

StoreCodeKeepingCount ==
  /\ hash' = [code |-> issued + 1, attempts |-> hash.attempts]
  /\ ttl' = "expiring"

\* Defect: HSETNX, an unexpired code stays in force.
StoreCodeUnlessPresent ==
  /\ hash' = IF hash.code = NoCode THEN [code |-> issued + 1, attempts |-> 0] ELSE hash
  /\ ttl' = "expiring"

StoreCode ==
  /\ hash' = [code |-> issued + 1, attempts |-> 0]
  /\ ttl' = "expiring"
-----------------------------------------------------------------------------
\* History: code c, if it is one, is retired.
Retire(c) == retired' = retired \cup ({c} \ {NoCode})

(* issueOtp: one MULTI stores the code with zero attempts, sets its TTL and
   arms the cooldown.  It leaves a suspension alone. *)
issueOtp ==
  /\ issued < MaxIssues
  /\ issued' = issued + 1
  /\ StoreCode
  /\ cooldown' = "expiring"
  /\ overlap' = IF Running = {} THEN overlap ELSE "some"
  /\ Retire(hash.code)
  /\ UNCHANGED <<suspended, auditRows, calls, deadAtStart, judged, counted>>

(* clearOtp drops the three keys.  It is exported for other flows; nothing in
   the repository calls it yet. *)
clearOtp ==
  /\ OtherFlows
  /\ DelCode
  /\ cooldown' = "absent"
  /\ suspended' = "absent"
  /\ Retire(hash.code)
  /\ UNCHANGED <<auditRows, issued, calls, deadAtStart, judged, counted, overlap>>

(* Redis drops a key whose TTL has run out; a persistent key has none. *)
ExpireCode ==
  /\ ttl = "expiring"
  /\ DelCode
  /\ Retire(hash.code)
  /\ UNCHANGED <<cooldown, suspended, auditRows, issued, calls, deadAtStart, judged,
                 counted, overlap>>

ExpireCooldown ==
  /\ cooldown = "expiring"
  /\ cooldown' = "absent"
  /\ UNCHANGED <<hash, ttl, suspended, auditRows, issued, calls, history>>

ExpireSuspension ==
  /\ suspended = "expiring"
  /\ suspended' = "absent"
  /\ UNCHANGED <<hash, ttl, cooldown, auditRows, issued, calls, history>>
-----------------------------------------------------------------------------
(* verifyOtp, one action per await *)

Return(v, result) ==
  /\ pc' = [pc EXCEPT ![v] = "done"]
  /\ outcome' = [outcome EXCEPT ![v] = result]

\* What Redis answers to TTL, in seconds: 1 stands for any number above 0.  A key
\* in its last half second answers 0, and counts as absent.
TTL(key) == CASE key = "expiring" -> 1 [] key = "persistent" -> -1 [] OTHER -> -2

\* `redis.ttl(suspendKey)`: suspension is enforced first.
ReadSuspension(v, code) ==
  /\ pc[v] = "idle"
  /\ input' = [input EXCEPT ![v] = code]
  /\ deadAtStart' = [deadAtStart EXCEPT ![v] = retired]
  /\ overlap' = IF Running = {} THEN overlap ELSE "some"
  /\ \/ TTL(suspended) > 0 /\ Return(v, "suspended")
     \/ /\ ~(TTL(suspended) > 0)
        /\ pc' = [pc EXCEPT ![v] = "readCode"]
        /\ UNCHANGED outcome
     \/ Return(v, "error")
  /\ UNCHANGED <<keys, seen, left, retired, judged, counted>>

\* `redis.hgetall(codeKey)` and the decision taken on what it returned.
ReadCode(v) ==
  /\ pc[v] = "readCode"
  /\ seen' = [seen EXCEPT ![v] = hash]
  /\ \/ /\ hash.code = NoCode
        /\ Return(v, "expired")
        /\ UNCHANGED judged
     \/ /\ hash.code # NoCode
        /\ input[v] = hash.code
        /\ pc' = [pc EXCEPT ![v] = "consume"]
        /\ UNCHANGED <<outcome, judged>>
     \/ /\ hash.code # NoCode
        /\ input[v] # hash.code
        /\ pc' = [pc EXCEPT ![v] =
                    IF shouldSuspend(hash.attempts + 1, MaxAttempts)
                      THEN "suspend" ELSE "count"]
        /\ judged' = [judged EXCEPT ![v] = hash.code]
        /\ UNCHANGED outcome
  /\ UNCHANGED <<keys, input, left, retired, deadAtStart, counted, overlap>>

\* The match: DEL of the code and the cooldown.
ConsumeEffect(v) ==
  /\ DelCode
  /\ cooldown' = "absent"
  /\ Retire(input[v])
  /\ UNCHANGED <<suspended, auditRows, issued, counted>>

Consume(v) ==
  /\ pc[v] = "consume"
  /\ ConsumeEffect(v)
  /\ Return(v, "ok")
  /\ UNCHANGED <<input, seen, left, deadAtStart, judged, overlap>>

\* The last wrong guess: MULTI sets the suspension and drops the code ...
SuspendEffect(v) ==
  /\ DelCode
  /\ suspended' = "expiring"
  /\ Retire(judged[v])
  /\ UNCHANGED <<cooldown, auditRows, issued, counted>>

Suspend(v) ==
  /\ pc[v] = "suspend"
  /\ SuspendEffect(v)
  /\ pc' = [pc EXCEPT ![v] = "mirror"]
  /\ UNCHANGED <<input, seen, outcome, left, deadAtStart, judged, overlap>>

\* ... then the OtpCode row is attempted; a database failure is swallowed.
MirrorSuspendToDb(v) ==
  /\ pc[v] = "mirror"
  /\ auditRows' \in {auditRows, auditRows \cup {v}}
  /\ Return(v, "suspended")
  /\ UNCHANGED <<hash, ttl, cooldown, suspended, issued, input, seen, left, history>>

\* An earlier wrong guess: HSET of the count computed from the read hash.
CountEffect(v) ==
  /\ HsetAttempts(NextAttempts(v))
  /\ counted' = counted \cup {v}
  /\ UNCHANGED <<cooldown, suspended, auditRows, issued, retired>>

Count(v) ==
  /\ pc[v] = "count"
  /\ CountEffect(v)
  /\ left' = [left EXCEPT ![v] = attemptsRemaining(NextAttempts(v), MaxAttempts)]
  /\ Return(v, "invalid")
  /\ UNCHANGED <<input, seen, deadAtStart, judged, overlap>>
-----------------------------------------------------------------------------
(* The Redis client (src/lib/redis.ts): a command that cannot be delivered in
   maxRetriesPerRequest attempts rejects, and the call with it (for the first
   command, the last disjunct of ReadSuspension). *)
RedisFails(v) ==
  /\ pc[v] \in InFlight \ {"mirror"}
  /\ Return(v, "error")
  /\ UNCHANGED <<keys, input, seen, left, history>>

\* A command whose reply is lost has run; the client sends it again (and the
\* caller waits), or gives up, which is a RedisFails after this step.
Redelivered(v) ==
  /\ \/ pc[v] = "consume" /\ ConsumeEffect(v)
     \/ pc[v] = "suspend" /\ SuspendEffect(v)
     \/ pc[v] = "count" /\ CountEffect(v)
  /\ UNCHANGED <<calls, deadAtStart, judged, overlap>>
-----------------------------------------------------------------------------
Verify(v) ==
  \/ ReadCode(v)
  \/ Consume(v)
  \/ Suspend(v)
  \/ MirrorSuspendToDb(v)
  \/ Count(v)

Next ==
  \/ issueOtp
  \/ clearOtp
  \/ ExpireCode
  \/ ExpireCooldown
  \/ ExpireSuspension
  \/ \E v \in Requests :
       \/ \E code \in Inputs : ReadSuspension(v, code)
       \/ Verify(v)
       \/ RedisFails(v)
       \/ Redelivered(v)

Spec == Init /\ [][Next]_vars

-----------------------------------------------------------------------------
(* Properties *)

(* A code that was consumed, suspended away, replaced, cleared or expired
   before a verification began is never accepted by it: codes are single use,
   whatever overlaps (verifyOtp, the DEL of a match and of a suspension,
   issueOtp's overwrite). *)
DeadCodeNeverAccepted ==
  \A v \in Requests : outcome[v] = "ok" => input[v] \notin deadAtStart[v]

(* A stored code always has a TTL: no order of HSET, DEL and expiry leaves a
   code that can be guessed for ever.  (The count alone can lose its TTL:
   HSET of a count re-creates a key that has just expired.) *)
CodeAlwaysExpires == hash.code # NoCode => ttl = "expiring"

(* Nobody is suspended early: the stored count never exceeds the number of
   verifications that were judged wrong, and an account is suspended only
   when MaxAttempts of them were, however the reads and writes of the count
   interleave and across any number of re-issues. *)
WrongGuesses == {v \in Requests : judged[v] # NoCode}

NoSpuriousSuspension ==
  /\ hash.attempts <= Cardinality(WrongGuesses)
  /\ (suspended = "expiring" \/ \E v \in Requests : outcome[v] = "suspended")
       => Cardinality(WrongGuesses) >= MaxAttempts

(* An "invalid" answer always leaves at least one attempt: a caller is never
   told "0 attempts left" instead of being suspended. *)
InvalidLeavesAttempts ==
  \A v \in Requests : outcome[v] = "invalid" => left[v] \in 1 .. MaxAttempts - 1

(* When verifications and issues do not overlap, the stored count is exactly
   the number of wrong guesses counted against the stored code: no guess is
   forgotten or charged twice through failures, redeliveries, expiry and
   re-issue. *)
CountedAgainst(code) == {v \in counted : judged[v] = code}

SerialCountIsExact ==
  overlap = "none" /\ hash.code # NoCode
    => hash.attempts = Cardinality(CountedAgainst(hash.code))

(* What docs/ARCHITECTURE.md section 6 says of the counter ("3x salah =
   suspend 1 jam"): a code never answers "invalid" MaxAttempts times. *)
InvalidAnswers(code) ==
  {v \in Requests : outcome[v] = "invalid" /\ judged[v] = code}

MaxAttemptsSuspends == \A c \in Codes : Cardinality(InvalidAnswers(c)) < MaxAttempts
=============================================================================
