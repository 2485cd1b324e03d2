----------------------------- MODULE RateLimit -----------------------------
(***************************************************************************)
(* checkRateLimit of src/lib/rateLimit.ts on ONE bucket (a login bucket    *)
(* `rl:auth:login:{ip}`, say): a Redis sorted set with one member per      *)
(* admitted request, scored with the time the request captured on entry.   *)
(*                                                                         *)
(* A check is up to five separate Redis commands; each is an action, and   *)
(* the checks in flight interleave.  Time is one clock, `now`, in ticks of *)
(* 1/TicksPerSecond s: requests and Redis read the same one.               *)
(***************************************************************************)
EXTENDS Integers, FiniteSets

CONSTANTS
  Requests,        \* the calls of checkRateLimit; each runs once
  Limit,           \* `limit`
  WindowSeconds,   \* `windowSeconds`
  TicksPerSecond,  \* resolution of the clock (1000 in the program)
  MaxTime          \* bound on the clock

ASSUME RateLimitAssumption ==
  /\ IsFiniteSet(Requests)
  /\ Limit \in Nat \ {0}
  /\ WindowSeconds \in Nat \ {0}
  /\ TicksPerSecond \in Nat \ {0}
  /\ MaxTime \in Nat

VARIABLES
  now,      \* the clock
  bucket,   \* the sorted set: the requests with a member in it
  expiry,   \* when Redis drops the key, or Never
  pc,       \* where each check is
  stamp,    \* `now` as the check captured it; the score of its member
  count,    \* what ZCARD told it
  oldest,   \* the score ZRANGE told it, or Nothing
  verdict,  \* "none", "allowed", "blocked" or "failedOpen"
  retry,    \* the retryAfterSeconds of a "blocked"
  \* history, read by the properties only:
  peak,     \* the most checks that were ever in flight at once
  covered   \* requests whose member was in the key when their EXPIRE ran

redis == <<bucket, expiry>>
calls == <<pc, stamp, count, oldest, verdict, retry>>
vars  == <<now, redis, calls, peak, covered>>

Window  == WindowSeconds * TicksPerSecond
Never   == -1
Nothing == -1

InFlight == {"trim", "card", "range", "add", "expire"}
Running  == {r \in Requests : pc[r] \in InFlight}

(* Every variable has its type; a request stamped later than now, or a member
   whose request has not reached its ZADD, does not exist. *)
TypeOK ==
  /\ now \in 0 .. MaxTime
  /\ bucket \in SUBSET Requests
  /\ expiry \in Nat \cup {Never}
  /\ pc \in [Requests -> InFlight \cup {"idle", "done"}]
  /\ stamp \in [Requests -> 0 .. MaxTime]
  /\ count \in [Requests -> Nat]
  /\ oldest \in [Requests -> Nat \cup {Nothing}]
  /\ verdict \in [Requests -> {"none", "allowed", "blocked", "failedOpen"}]
  /\ retry \in [Requests -> Int]
  /\ peak \in Nat
  /\ covered \in SUBSET Requests
  /\ \A r \in Requests : stamp[r] <= now
  /\ \A r \in bucket : pc[r] \in {"add", "expire", "done"}

Init ==
  /\ now = 0
  /\ bucket = {}
  /\ expiry = Never
  /\ pc = [r \in Requests |-> "idle"]
  /\ stamp = [r \in Requests |-> 0]
  /\ count = [r \in Requests |-> 0]
  /\ oldest = [r \in Requests |-> Nothing]
  /\ verdict = [r \in Requests |-> "none"]
  /\ retry = [r \in Requests |-> 0]
  /\ peak = 0
  /\ covered = {}
-----------------------------------------------------------------------------
(* slidingWindowDecision *)

admitsOneMore(n, limit) == n <= limit  \* defect

admits(n, limit) == n < limit

AtLeastOne(n) == IF n < 1 THEN 1 ELSE n

RoundedDown(ticks) == ticks \div TicksPerSecond  \* defect

Seconds(ticks) == -((-ticks) \div TicksPerSecond)  \* rounded up

\* oldestMs falls back to the request's own time when ZRANGE found nothing.
retryAfter(old, t) ==
  AtLeastOne(Seconds((IF old = Nothing THEN t ELSE old) + Window - t))
-----------------------------------------------------------------------------
(* What the commands do to the key: an empty sorted set is no key at all, and
   a key that ZADD creates has no TTL. *)

\* Defect: members younger than the window go too.
TooOld(t) == {x \in bucket : stamp[x] <= t - Window + 1}

OutOfWindow(t) == {x \in bucket : stamp[x] <= t - Window}

\* Defect: the request is recorded before it is counted.
TrimAndAddEffect(r) ==
  /\ bucket' = (bucket \ OutOfWindow(stamp[r])) \cup {r}
  /\ UNCHANGED <<expiry, covered>>

\* Defect: the key is dropped as soon as one member is out of the window.
TrimEffectWholeKey(r) ==
  /\ bucket' = IF OutOfWindow(stamp[r]) # {} THEN {} ELSE bucket
  /\ expiry' = IF bucket' = {} THEN Never ELSE expiry
  /\ UNCHANGED covered

TrimEffect(r) ==
  /\ bucket' = bucket \ OutOfWindow(stamp[r])
  /\ expiry' = IF bucket' = {} THEN Never ELSE expiry
  /\ UNCHANGED covered

AddEffect(r) == bucket' = bucket \cup {r} /\ UNCHANGED <<expiry, covered>>

RefreshEffect(r) ==
  /\ expiry' = IF bucket # {} THEN now + Window ELSE expiry
  /\ covered' = IF r \in bucket THEN covered \cup {r} ELSE covered
  /\ UNCHANGED bucket
-----------------------------------------------------------------------------
(* checkRateLimit, one action per await *)

Go(r, step) == pc' = [pc EXCEPT ![r] = step]

Decide(r, result) == Go(r, "done") /\ verdict' = [verdict EXCEPT ![r] = result]

\* `now` is captured before the first await.
Arrive(r) ==
  /\ pc[r] = "idle"
  /\ Go(r, "trim")
  /\ stamp' = [stamp EXCEPT ![r] = now]
  /\ peak' = IF Cardinality(Running) + 1 > peak
               THEN Cardinality(Running) + 1 ELSE peak
  /\ UNCHANGED <<now, redis, count, oldest, verdict, retry, covered>>

\* ZREMRANGEBYSCORE key 0 windowStart
Trim(r) ==
  /\ pc[r] = "trim"
  /\ TrimEffect(r)
  /\ Go(r, "card")
  /\ UNCHANGED <<now, stamp, count, oldest, verdict, retry, peak>>

\* ZCARD; an empty window is admitted without asking for its oldest member.
Card(r) ==
  /\ pc[r] = "card"
  /\ count' = [count EXCEPT ![r] = Cardinality(bucket)]
  /\ Go(r, IF bucket = {} THEN "add" ELSE "range")
  /\ UNCHANGED <<now, redis, stamp, oldest, verdict, retry, peak, covered>>

\* ZRANGE key 0 0 WITHSCORES, and the decision.
Oldest(score) ==
  IF bucket = {} THEN score = Nothing
  ELSE \E x \in bucket : score = stamp[x] /\ \A y \in bucket : stamp[x] <= stamp[y]

ReadOldest(r) ==
  /\ pc[r] = "range"
  /\ \E score \in {stamp[x] : x \in Requests} \cup {Nothing} :
       /\ Oldest(score)
       /\ oldest' = [oldest EXCEPT ![r] = score]
       /\ \/ /\ admits(count[r], Limit)
             /\ Go(r, "add")
             /\ UNCHANGED <<verdict, retry>>
          \/ /\ ~admits(count[r], Limit)
             /\ Decide(r, "blocked")
             /\ retry' = [retry EXCEPT ![r] = retryAfter(score, stamp[r])]
  /\ UNCHANGED <<now, redis, stamp, count, peak, covered>>

\* ZADD
Add(r) ==
  /\ pc[r] = "add"
  /\ AddEffect(r)
  /\ Go(r, "expire")
  /\ UNCHANGED <<now, stamp, count, oldest, verdict, retry, peak>>

\* EXPIRE, which does nothing to a missing key
Refresh(r) ==
  /\ pc[r] = "expire"
  /\ RefreshEffect(r)
  /\ Decide(r, "allowed")
  /\ UNCHANGED <<now, stamp, count, oldest, retry, peak>>

\* A command rejects: the catch allows the request.
FailOpen(r) ==
  /\ pc[r] \in InFlight
  /\ Decide(r, "failedOpen")
  /\ UNCHANGED <<now, redis, stamp, count, oldest, retry, peak, covered>>

\* A command ran but its reply was lost; the client sends it again (or gives
\* up: FailOpen after this step).
Redelivered(r) ==
  /\ \/ pc[r] = "trim" /\ TrimEffect(r)
     \/ pc[r] = "add" /\ AddEffect(r)
     \/ pc[r] = "expire" /\ RefreshEffect(r)
  /\ UNCHANGED <<now, calls, peak>>

\* Time passes; Redis drops a key whose time is over.
Tick ==
  /\ now < MaxTime
  /\ now' = now + 1
  /\ IF expiry # Never /\ now' > expiry
       THEN bucket' = {} /\ expiry' = Never
       ELSE UNCHANGED redis
  /\ UNCHANGED <<calls, peak, covered>>

Check(r) == Trim(r) \/ Card(r) \/ ReadOldest(r) \/ Add(r) \/ Refresh(r)

Next ==
  \/ Tick
  \/ \E r \in Requests : Arrive(r) \/ Check(r) \/ FailOpen(r) \/ Redelivered(r)

Spec == Init /\ [][Next]_vars
-----------------------------------------------------------------------------
(* Properties *)

(* The check-then-add lets overlapping requests in together, but only those:
   the bucket never holds more than the limit plus the requests that were in
   flight beside the last one, whatever the order of ZCARD, ZADD, trims and
   expiries (checkRateLimit, lines 61-69). *)
OverAdmissionBounded == Cardinality(bucket) <= Limit - 1 + peak

(* No admitted request is forgotten while it is in the window: once its EXPIRE
   ran on a key that held its member, neither another check's trim (with its
   own, possibly old, time) nor the key's expiry removes it early. *)
CoveredIsRemembered ==
  \A r \in covered : stamp[r] > now - Window => r \in bucket

(* What a caller can rely on: of the admitted requests whose EXPIRE found their
   member, no window holds more than the limit plus the overlap; without overlap,
   no more than the limit. *)
CoveredInWindow == {r \in covered : stamp[r] > now - Window}

AdmissionsBounded ==
  Cardinality(CoveredInWindow) <= Limit - 1 + peak

(* A blocked caller who waits Retry-After has outlived the member that blocked
   it: the seconds are rounded up, never down. *)
RetryAfterSuffices ==
  \A r \in Requests :
    verdict[r] = "blocked" /\ oldest[r] # Nothing
      => stamp[r] + retry[r] * TicksPerSecond >= oldest[r] + Window
=============================================================================
