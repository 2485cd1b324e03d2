-------------------------- MODULE RateLimitProofs --------------------------
(***************************************************************************)
(* Proofs about RateLimit, for any finite set of requests, any limit, any  *)
(* window and any resolution of the clock.                                 *)
(*                                                                         *)
(* SlotInv: the members of the bucket together with the requests that were *)
(* already told to add one never exceed Limit - 1 plus the overlap; a      *)
(* ZCARD re-establishes it, every other step can only shrink the union.    *)
(* MemoryInv: a covered member has a key that outlives its window.         *)
(***************************************************************************)
EXTENDS RateLimit, FiniteSetTheorems, TLAPS

\* The requests that are past the count and will add a member.
Admitting ==
  {r \in Requests : pc[r] = "add" \/ (pc[r] = "range" /\ admits(count[r], Limit))}

Slots == bucket \cup Admitting

SlotInv ==
  /\ Cardinality(Slots) <= Limit - 1 + peak
  /\ Cardinality(Running) <= peak

MemoryInv ==
  /\ \A r \in covered : pc[r] \in {"expire", "done"}
  /\ CoveredIsRemembered
  /\ expiry = Never \/ \A r \in covered \cap bucket : expiry >= stamp[r] + Window

RetryInv ==
  /\ \A r \in Requests : pc[r] # "done" => verdict[r] = "none"
  /\ RetryAfterSuffices
-----------------------------------------------------------------------------
(* Arithmetic of the rounding: whole seconds, and enough of them. *)
LEMMA SecondsCover ==
  ASSUME NEW x \in Int
  PROVE  /\ Seconds(x) \in Int
         /\ Seconds(x) * TicksPerSecond >= x
<1> DEFINE q == (-x) \div TicksPerSecond
<1>1. q \in Int /\ q * TicksPerSecond <= -x
  BY RateLimitAssumption
<1>2. Seconds(x) = -q
  BY DEF Seconds
<1> HIDE DEF q
<1>3. (-q) * TicksPerSecond = -(q * TicksPerSecond)
  BY <1>1, RateLimitAssumption
<1> QED
  BY <1>1, <1>2, <1>3, RateLimitAssumption

LEMMA WindowType == Window \in Nat
BY RateLimitAssumption DEF Window

LEMMA RetryAfterCovers ==
  ASSUME NEW old \in Nat \cup {Nothing}, NEW t \in Nat
  PROVE  /\ retryAfter(old, t) \in Int
         /\ old # Nothing => t + retryAfter(old, t) * TicksPerSecond >= old + Window
<1> DEFINE x == (IF old = Nothing THEN t ELSE old) + Window - t
<1>1. x \in Int
  BY WindowType DEF Nothing
<1>2. /\ Seconds(x) \in Int
      /\ Seconds(x) * TicksPerSecond >= x
  BY <1>1, SecondsCover
<1>3. /\ AtLeastOne(Seconds(x)) \in Int
      /\ AtLeastOne(Seconds(x)) >= Seconds(x)
  BY <1>2 DEF AtLeastOne
<1>4. \A m, n \in Int : m >= n => m * TicksPerSecond >= n * TicksPerSecond
  BY RateLimitAssumption
<1>5. /\ AtLeastOne(Seconds(x)) * TicksPerSecond \in Int
      /\ Seconds(x) * TicksPerSecond \in Int
  BY <1>2, <1>3, RateLimitAssumption
<1>6. AtLeastOne(Seconds(x)) * TicksPerSecond >= x
  BY <1>1, <1>2, <1>3, <1>4, <1>5
<1>7. retryAfter(old, t) = AtLeastOne(Seconds(x))
  BY DEF retryAfter
<1>8. old # Nothing => x = old + Window - t
  OBVIOUS
<1> HIDE DEF x
<1> QED
  BY <1>1, <1>3, <1>5, <1>6, <1>7, <1>8, WindowType DEF Nothing
-----------------------------------------------------------------------------
(* Every variable keeps its type. *)
LEMMA TypeStep == TypeOK /\ [Next]_vars => TypeOK'
<1> USE RateLimitAssumption, WindowType DEF TypeOK, InFlight, Never, Nothing
<1> SUFFICES ASSUME TypeOK, [Next]_vars PROVE TypeOK'
  OBVIOUS
<1>1. CASE Tick
  BY <1>1 DEF Tick, redis, calls
<1>2. ASSUME NEW r \in Requests, Arrive(r) PROVE TypeOK'
  <2>1. Cardinality(Running) \in Nat
    BY FS_Subset, FS_CardinalityType DEF Running
  <2> QED
    BY <1>2, <2>1 DEF Arrive, Go, redis
<1>3. ASSUME NEW r \in Requests, Trim(r) PROVE TypeOK'
  BY <1>3 DEF Trim, TrimEffect, OutOfWindow, Go
<1>4. ASSUME NEW r \in Requests, Card(r) PROVE TypeOK'
  <2>1. Cardinality(bucket) \in Nat
    BY FS_Subset, FS_CardinalityType
  <2> QED
    BY <1>4, <2>1 DEF Card, Go, redis
<1>5. ASSUME NEW r \in Requests, ReadOldest(r) PROVE TypeOK'
  <2>1. PICK score \in {stamp[x] : x \in Requests} \cup {Nothing} :
          /\ oldest' = [oldest EXCEPT ![r] = score]
          /\ \/ Go(r, "add") /\ UNCHANGED <<verdict, retry>>
             \/ /\ Decide(r, "blocked")
                /\ retry' = [retry EXCEPT ![r] = retryAfter(score, stamp[r])]
    BY <1>5 DEF ReadOldest
  <2>2. score \in Nat \cup {Nothing}
    BY <2>1
  <2>3. retryAfter(score, stamp[r]) \in Int
    BY <2>2, RetryAfterCovers
  <2>4. UNCHANGED <<now, redis, stamp, count, peak, covered>> /\ pc[r] = "range"
    BY <1>5 DEF ReadOldest
  <2> QED
    BY <2>1, <2>2, <2>3, <2>4 DEF Go, Decide, redis
<1>6. ASSUME NEW r \in Requests, Add(r) PROVE TypeOK'
  BY <1>6 DEF Add, AddEffect, Go
<1>7. ASSUME NEW r \in Requests, Refresh(r) PROVE TypeOK'
  BY <1>7 DEF Refresh, RefreshEffect, Decide, Go
<1>8. ASSUME NEW r \in Requests, FailOpen(r) PROVE TypeOK'
  BY <1>8 DEF FailOpen, Decide, Go, redis
<1>9. ASSUME NEW r \in Requests, Redelivered(r) PROVE TypeOK'
  BY <1>9 DEF Redelivered, TrimEffect, OutOfWindow, AddEffect, RefreshEffect, calls
<1>10. CASE UNCHANGED vars
  BY <1>10 DEF vars, redis, calls
<1> QED
  BY <1>1, <1>2, <1>3, <1>4, <1>5, <1>6, <1>7, <1>8, <1>9, <1>10 DEF Next, Check

LEMMA TypeInit == Init => TypeOK
BY RateLimitAssumption DEF Init, TypeOK, InFlight, Never, Nothing

(* The types of the rate limiter: in particular a member never appears before
   its request was admitted. *)
THEOREM TypeCorrect == Spec => []TypeOK
BY TypeInit, TypeStep, PTL DEF Spec
-----------------------------------------------------------------------------
LEMMA FiniteParts ==
  ASSUME TypeOK
  PROVE  /\ IsFiniteSet(Slots) /\ Cardinality(Slots) \in Nat
         /\ IsFiniteSet(Running) /\ Cardinality(Running) \in Nat
         /\ IsFiniteSet(bucket) /\ Cardinality(bucket) \in Nat
<1>1. Slots \in SUBSET Requests /\ Running \in SUBSET Requests /\ bucket \in SUBSET Requests
  BY DEF TypeOK, Slots, Admitting, Running
<1> QED
  BY <1>1, FS_Subset, FS_CardinalityType, RateLimitAssumption

(* A step after which no more requests hold a slot or run keeps SlotInv. *)
LEMMA FewerSlots ==
  ASSUME TypeOK, TypeOK', SlotInv,
         Slots' \subseteq Slots, Running' \subseteq Running, peak' >= peak
  PROVE  SlotInv'
<1>1. Cardinality(Slots') <= Cardinality(Slots) /\ Cardinality(Slots') \in Nat
  BY FiniteParts, FS_Subset, FS_CardinalityType
<1>2. Cardinality(Running') <= Cardinality(Running) /\ Cardinality(Running') \in Nat
  BY FiniteParts, FS_Subset, FS_CardinalityType
<1> QED
  BY <1>1, <1>2, FiniteParts, RateLimitAssumption DEF SlotInv, TypeOK

LEMMA SlotStep == TypeOK /\ TypeOK' /\ SlotInv /\ [Next]_vars => SlotInv'
<1> SUFFICES ASSUME TypeOK, TypeOK', SlotInv, [Next]_vars PROVE SlotInv'
  OBVIOUS
<1>1. CASE Tick
  <2>1. bucket' \subseteq bucket /\ UNCHANGED calls /\ peak' = peak
    BY <1>1 DEF Tick, redis
  <2> QED
    BY <2>1, FewerSlots DEF Slots, Admitting, Running, calls, TypeOK
<1>2. ASSUME NEW r \in Requests, Arrive(r) PROVE SlotInv'
  <2>1. /\ Running' = Running \cup {r} /\ r \notin Running
        /\ Slots' = Slots
    BY <1>2 DEF Arrive, Go, redis, Slots, Admitting, Running, InFlight, TypeOK
  <2>2. Cardinality(Running') = Cardinality(Running) + 1
    BY <2>1, FiniteParts, FS_AddElement
  <2>3. peak' >= peak /\ peak' >= Cardinality(Running) + 1
    BY <1>2, FiniteParts DEF Arrive, TypeOK
  <2> QED
    BY <2>1, <2>2, <2>3, FiniteParts, RateLimitAssumption DEF SlotInv, TypeOK
<1>3. ASSUME NEW r \in Requests, Trim(r) PROVE SlotInv'
  BY <1>3, FewerSlots
     DEF Trim, TrimEffect, Go, Slots, Admitting, Running, InFlight, TypeOK
<1>4. ASSUME NEW r \in Requests, Card(r) PROVE SlotInv'
  <2>1. /\ bucket' = bucket /\ peak' = peak
        /\ Running' = Running
    BY <1>4 DEF Card, Go, redis, Running, InFlight, TypeOK
  <2>2. CASE Cardinality(bucket) < Limit
    <3>1. Slots' \subseteq bucket \cup Running
      BY <1>4 DEF Card, Go, redis, Slots, Admitting, Running, InFlight, TypeOK
    <3>2. /\ IsFiniteSet(bucket \cup Running)
          /\ Cardinality(bucket \cup Running) \in Nat
          /\ Cardinality(bucket \cup Running) <= Cardinality(bucket) + Cardinality(Running)
      <4>1. /\ IsFiniteSet(bucket \cap Running)
            /\ Cardinality(bucket \cap Running) \in Nat
        BY FiniteParts, FS_Subset, FS_CardinalityType
      <4>2. /\ IsFiniteSet(bucket \cup Running)
            /\ Cardinality(bucket \cup Running)
                 = Cardinality(bucket) + Cardinality(Running) - Cardinality(bucket \cap Running)
        BY FiniteParts, FS_Union, Zenon
      <4> QED
        BY <4>1, <4>2, FiniteParts, FS_CardinalityType
    <3>3. Cardinality(Slots') <= Cardinality(bucket \cup Running)
          /\ Cardinality(Slots') \in Nat
      BY <3>1, <3>2, FS_Subset, FS_CardinalityType
    <3> QED
      BY <2>1, <2>2, <3>2, <3>3, FiniteParts, RateLimitAssumption DEF SlotInv, TypeOK
  <2>3. CASE ~(Cardinality(bucket) < Limit)
    <3>1. bucket # {}
      BY <2>3, FS_EmptySet, RateLimitAssumption
    <3>2. pc' = [pc EXCEPT ![r] = "range"] /\ count' = [count EXCEPT ![r] = Cardinality(bucket)]
      BY <1>4, <3>1 DEF Card, Go
    <3>3. Slots' \subseteq Slots
      BY <2>1, <2>3, <3>2 DEF Slots, Admitting, admits, TypeOK
    <3> QED
      BY <2>1, <3>3, FewerSlots DEF TypeOK
  <2> QED
    BY <2>2, <2>3
<1>5. ASSUME NEW r \in Requests, ReadOldest(r) PROVE SlotInv'
  <2>1. /\ UNCHANGED <<bucket, peak, count>> /\ pc[r] = "range"
        /\ \/ admits(count[r], Limit) /\ pc' = [pc EXCEPT ![r] = "add"]
           \/ pc' = [pc EXCEPT ![r] = "done"]
    BY <1>5 DEF ReadOldest, Go, Decide, redis
  <2> QED
    BY <2>1, FewerSlots DEF Slots, Admitting, Running, InFlight, TypeOK
<1>6. ASSUME NEW r \in Requests, Add(r) PROVE SlotInv'
  BY <1>6, FewerSlots
     DEF Add, AddEffect, Go, Slots, Admitting, Running, InFlight, TypeOK
<1>7. ASSUME NEW r \in Requests, Refresh(r) PROVE SlotInv'
  BY <1>7, FewerSlots
     DEF Refresh, RefreshEffect, Decide, Go, Slots, Admitting, Running, InFlight, TypeOK
<1>8. ASSUME NEW r \in Requests, FailOpen(r) PROVE SlotInv'
  BY <1>8, FewerSlots
     DEF FailOpen, Decide, Go, redis, Slots, Admitting, Running, InFlight, TypeOK
<1>9. ASSUME NEW r \in Requests, Redelivered(r) PROVE SlotInv'
  BY <1>9, FewerSlots
     DEF Redelivered, TrimEffect, AddEffect, RefreshEffect, calls,
         Slots, Admitting, Running, InFlight, TypeOK
<1>10. CASE UNCHANGED vars
  BY <1>10, FewerSlots DEF vars, redis, calls, Slots, Admitting, Running, TypeOK
<1> QED
  BY <1>1, <1>2, <1>3, <1>4, <1>5, <1>6, <1>7, <1>8, <1>9, <1>10 DEF Next, Check

LEMMA SlotInit == Init => SlotInv
<1> SUFFICES ASSUME Init PROVE SlotInv
  OBVIOUS
<1>1. Slots = {} /\ Running = {}
  BY DEF Init, Slots, Admitting, Running, InFlight
<1> QED
  BY <1>1, FS_EmptySet, RateLimitAssumption DEF Init, SlotInv

LEMMA SlotImplies == TypeOK /\ SlotInv => OverAdmissionBounded
<1> SUFFICES ASSUME TypeOK, SlotInv PROVE OverAdmissionBounded
  OBVIOUS
<1>1. Cardinality(bucket) <= Cardinality(Slots)
  BY FiniteParts, FS_Subset DEF Slots
<1> QED
  BY <1>1, FiniteParts, RateLimitAssumption DEF SlotInv, OverAdmissionBounded, TypeOK

(* The bucket never holds more than the limit and the checks in flight beside
   the last one, however ZCARD, ZADD, trims and expiries interleave. *)
THEOREM OverAdmission == Spec => []OverAdmissionBounded
<1>1. TypeOK /\ SlotInv /\ [Next]_vars => TypeOK' /\ SlotInv'
  BY TypeStep, SlotStep
<1> QED
  BY <1>1, TypeInit, SlotInit, SlotImplies, PTL DEF Spec
-----------------------------------------------------------------------------
LEMMA MemoryStep == TypeOK /\ TypeOK' /\ MemoryInv /\ [Next]_vars => MemoryInv'
<1> USE WindowType DEF MemoryInv, CoveredIsRemembered, TypeOK, Never
<1> SUFFICES ASSUME TypeOK, TypeOK', MemoryInv, [Next]_vars PROVE MemoryInv'
  OBVIOUS
<1>1. CASE Tick
  <2>1. CASE expiry # Never /\ now' > expiry
    BY <1>1, <2>1 DEF Tick, redis, calls
  <2>2. CASE ~(expiry # Never /\ now' > expiry)
    BY <1>1, <2>2 DEF Tick, redis, calls
  <2> QED
    BY <2>1, <2>2
<1>2. ASSUME NEW r \in Requests, Arrive(r) PROVE MemoryInv'
  BY <1>2 DEF Arrive, Go, redis
<1>3. ASSUME NEW r \in Requests, TrimEffect(r), UNCHANGED <<now, stamp>>,
             \A x \in covered : pc'[x] = pc[x]
      PROVE  MemoryInv'
  BY <1>3 DEF TrimEffect, OutOfWindow
<1>4. ASSUME NEW r \in Requests, AddEffect(r), UNCHANGED <<now, stamp>>,
             r \notin covered, \A x \in covered : pc'[x] = pc[x]
      PROVE  MemoryInv'
  BY <1>4 DEF AddEffect
<1>5. ASSUME NEW r \in Requests, RefreshEffect(r), UNCHANGED <<now, stamp>>,
             pc'[r] \in {"expire", "done"}, \A x \in Requests \ {r} : pc'[x] = pc[x]
      PROVE  MemoryInv'
  <2>1. covered' \subseteq covered \cup (bucket \cap {r}) /\ bucket' = bucket
    BY <1>5 DEF RefreshEffect
  <2>2. \A x \in covered' : pc'[x] \in {"expire", "done"}
    BY <1>5, <2>1
  <2>3. CoveredIsRemembered'
    BY <1>5, <2>1
  <2>4. expiry' = Never \/ \A x \in covered' \cap bucket' : expiry' >= stamp'[x] + Window
    BY <1>5, <2>1 DEF RefreshEffect
  <2> QED
    BY <2>2, <2>3, <2>4
<1>6. ASSUME NEW r \in Requests, Trim(r) PROVE MemoryInv'
  BY <1>3, <1>6 DEF Trim, Go
<1>7. ASSUME NEW r \in Requests, Card(r) PROVE MemoryInv'
  BY <1>7 DEF Card, Go, redis
<1>8. ASSUME NEW r \in Requests, ReadOldest(r) PROVE MemoryInv'
  <2>1. /\ UNCHANGED <<now, redis, stamp, covered>> /\ pc[r] = "range"
        /\ \A x \in Requests \ {r} : pc'[x] = pc[x]
    BY <1>8 DEF ReadOldest, Go, Decide
  <2> QED
    BY <2>1 DEF redis
<1>9. ASSUME NEW r \in Requests, Add(r) PROVE MemoryInv'
  <2>1. r \notin covered /\ \A x \in covered : pc'[x] = pc[x]
    BY <1>9 DEF Add, Go
  <2> QED
    BY <1>4, <1>9, <2>1 DEF Add
<1>10. ASSUME NEW r \in Requests, Refresh(r) PROVE MemoryInv'
  BY <1>5, <1>10 DEF Refresh, Decide, Go
<1>11. ASSUME NEW r \in Requests, FailOpen(r) PROVE MemoryInv'
  BY <1>11 DEF FailOpen, Decide, Go, redis
<1>12. ASSUME NEW r \in Requests, Redelivered(r) PROVE MemoryInv'
  <2>1. CASE pc[r] = "trim" /\ TrimEffect(r)
    BY <1>3, <1>12, <2>1 DEF Redelivered, calls
  <2>2. CASE pc[r] = "add" /\ AddEffect(r)
    BY <1>4, <1>12, <2>2 DEF Redelivered, calls
  <2>3. CASE pc[r] = "expire" /\ RefreshEffect(r)
    BY <1>5, <1>12, <2>3 DEF Redelivered, calls
  <2> QED
    BY <1>12, <2>1, <2>2, <2>3 DEF Redelivered
<1>13. CASE UNCHANGED vars
  BY <1>13 DEF vars, redis, calls
<1> HIDE DEF MemoryInv, TypeOK
<1> QED
  BY <1>1, <1>2, <1>6, <1>7, <1>8, <1>9, <1>10, <1>11, <1>12, <1>13 DEF Next, Check

LEMMA MemoryInit == Init => MemoryInv
BY DEF Init, MemoryInv, CoveredIsRemembered

(* A recorded request is not forgotten while it is in the window. *)
THEOREM NothingForgotten == Spec => []CoveredIsRemembered
<1>1. TypeOK /\ MemoryInv /\ [Next]_vars => TypeOK' /\ MemoryInv'
  BY TypeStep, MemoryStep
<1>2. MemoryInv => CoveredIsRemembered
  BY DEF MemoryInv
<1> QED
  BY <1>1, <1>2, TypeInit, MemoryInit, PTL DEF Spec

LEMMA BoundFollows ==
  TypeOK /\ OverAdmissionBounded /\ CoveredIsRemembered => AdmissionsBounded
<1> SUFFICES ASSUME TypeOK, OverAdmissionBounded, CoveredIsRemembered
             PROVE  AdmissionsBounded
  OBVIOUS
<1>1. CoveredInWindow \subseteq bucket
  BY DEF CoveredInWindow, CoveredIsRemembered
<1>2. /\ Cardinality(CoveredInWindow) <= Cardinality(bucket)
      /\ Cardinality(CoveredInWindow) \in Nat
  BY <1>1, FiniteParts, FS_Subset, FS_CardinalityType
<1> QED
  BY <1>2, FiniteParts, RateLimitAssumption
     DEF OverAdmissionBounded, AdmissionsBounded, TypeOK

(* The limit a caller can rely on, for every overlap; Limit when there is none. *)
THEOREM Admissions == Spec => []AdmissionsBounded
BY OverAdmission, NothingForgotten, TypeCorrect, BoundFollows, PTL
-----------------------------------------------------------------------------
LEMMA RetryStep == TypeOK /\ TypeOK' /\ RetryInv /\ [Next]_vars => RetryInv'
<1> USE DEF RetryInv, RetryAfterSuffices, TypeOK, InFlight
<1> SUFFICES ASSUME TypeOK, TypeOK', RetryInv, [Next]_vars PROVE RetryInv'
  OBVIOUS
<1>1. ASSUME UNCHANGED calls PROVE RetryInv'
  BY <1>1 DEF calls
<1>2. ASSUME NEW r \in Requests, Arrive(r) PROVE RetryInv'
  BY <1>2 DEF Arrive, Go
<1>3. ASSUME NEW r \in Requests, Trim(r) \/ Card(r) \/ Add(r) PROVE RetryInv'
  BY <1>3 DEF Trim, Card, Add, Go
<1>4. ASSUME NEW r \in Requests, ReadOldest(r) PROVE RetryInv'
  <2>1. PICK score \in {stamp[x] : x \in Requests} \cup {Nothing} :
          /\ oldest' = [oldest EXCEPT ![r] = score]
          /\ \/ Go(r, "add") /\ UNCHANGED <<verdict, retry>>
             \/ /\ Decide(r, "blocked")
                /\ retry' = [retry EXCEPT ![r] = retryAfter(score, stamp[r])]
    BY <1>4 DEF ReadOldest
  <2>2. score \in Nat \cup {Nothing} /\ stamp[r] \in Nat
    BY <2>1
  <2>3. score # Nothing
          => stamp[r] + retryAfter(score, stamp[r]) * TicksPerSecond >= score + Window
    BY <2>2, RetryAfterCovers
  <2>4. stamp' = stamp /\ pc[r] = "range"
    BY <1>4 DEF ReadOldest
  <2>5. CASE Go(r, "add") /\ UNCHANGED <<verdict, retry>>
    BY <2>1, <2>4, <2>5 DEF Go
  <2>6. CASE /\ Decide(r, "blocked")
             /\ retry' = [retry EXCEPT ![r] = retryAfter(score, stamp[r])]
    BY <2>1, <2>3, <2>4, <2>6 DEF Decide, Go
  <2> QED
    BY <2>1, <2>5, <2>6
<1>5. ASSUME NEW r \in Requests, Refresh(r) \/ FailOpen(r) PROVE RetryInv'
  BY <1>5 DEF Refresh, FailOpen, Decide, Go
<1>6. ASSUME Tick \/ (\E r \in Requests : Redelivered(r)) \/ UNCHANGED vars
      PROVE  UNCHANGED calls
  BY <1>6 DEF Tick, Redelivered, vars
<1> HIDE DEF RetryInv, TypeOK
<1> QED
  BY <1>1, <1>2, <1>3, <1>4, <1>5, <1>6 DEF Next, Check

(* Retry-After outlasts the member that blocked the caller. *)
THEOREM RetryAfterHonest == Spec => []RetryAfterSuffices
<1>1. Init => RetryInv
  BY DEF Init, RetryInv, RetryAfterSuffices
<1>2. TypeOK /\ RetryInv /\ [Next]_vars => TypeOK' /\ RetryInv'
  BY TypeStep, RetryStep
<1>3. RetryInv => RetryAfterSuffices
  BY DEF RetryInv
<1> QED
  BY <1>1, <1>2, <1>3, TypeInit, PTL DEF Spec
=============================================================================
