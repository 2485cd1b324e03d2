---------------------------- MODULE OtpProofs ----------------------------
(***************************************************************************)
(* Proofs about Otp, for any finite set of requests, any MaxAttempts and   *)
(* any number of issues.                                                   *)
(*                                                                         *)
(* TypeInv carries the types (a count is written back only after it was    *)
(* found below MaxAttempts), DeadInv why a dead code stays dead, ChargeInv *)
(* which wrong guesses pay for a count that is stored or about to be       *)
(* written, SerialInv why nothing is lost when calls do not overlap.       *)
(***************************************************************************)
EXTENDS Otp, FiniteSetTheorems, TLAPS

CountBelow == \A v \in Requests : pc[v] = "count" => NextAttempts(v) < MaxAttempts

TypeInv ==
  /\ TypeOK
  /\ CountBelow
  /\ CodeAlwaysExpires
  /\ InvalidLeavesAttempts

\* hash.code is the last code drawn, or none; no dead code is in the hash or
\* held by a verification that is about to consume.
DeadInv ==
  /\ hash.code <= issued
  /\ \A c \in retired : c <= issued
  /\ NoCode \notin retired /\ hash.code \notin retired
  /\ \A v \in Requests :
       /\ deadAtStart[v] \subseteq retired
       /\ pc[v] = "consume" => input[v] <= issued /\ input[v] \notin deadAtStart[v]
       /\ judged[v] <= issued
       /\ pc[v] # "done" => outcome[v] = "none"
  /\ DeadCodeNeverAccepted

\* n wrong guesses have been made.
Charged(n) == n <= Cardinality(WrongGuesses)

ChargeInv ==
  /\ \A v \in Requests :
       /\ pc[v] \in {"idle", "readCode"} => judged[v] = NoCode
       /\ pc[v] = "count" => Charged(NextAttempts(v))
       /\ pc[v] \in {"suspend", "mirror"} => Charged(MaxAttempts)
  /\ NoSpuriousSuspension

\* With no overlap one verification runs at a time, and a count it holds is
\* the count stored under the code it read, less its own guess.
OneRuns == overlap = "none" => \A v, w \in Running : v = w

HeldCount ==
  overlap = "none" =>
    \A v \in Requests : pc[v] = "count" =>
      /\ judged[v] = seen[v].code
      /\ seen[v].code # NoCode
      /\ hash.code \in {NoCode, seen[v].code}
      /\ hash.code # NoCode =>
           seen[v].attempts = Cardinality(CountedAgainst(hash.code) \ {v})

SerialInv ==
  /\ \A v \in Requests :
       pc[v] = "count" => judged[v] # NoCode
  /\ \A v \in counted : pc[v] \in {"count", "done"} /\ judged[v] # NoCode
  /\ OneRuns
  /\ HeldCount
  /\ SerialCountIsExact
-----------------------------------------------------------------------------
(* What retiring a code does to the set of retired codes. *)
LEMMA RetireEffect ==
  ASSUME TypeOK, NEW c \in Inputs, Retire(c)
  PROVE  /\ retired' \in SUBSET Inputs
         /\ \A x : x \in retired' <=> x \in retired \/ (x = c /\ c # NoCode)
BY DEF TypeOK, Retire

(* Every variable keeps its type; the stored code always has a TTL; an
   "invalid" answer leaves an attempt (verifyOtp, issueOtp, Redis' HSET). *)
LEMMA TypeInvStep == TypeInv /\ [Next]_vars => TypeInv'
<1> USE OtpAssumption
    DEF TypeInv, TypeOK, CountBelow, CodeAlwaysExpires, InvalidLeavesAttempts,
        NextAttempts, NoHash, NoCode, Codes, Inputs, InFlight
<1> SUFFICES ASSUME TypeInv, [Next]_vars PROVE TypeInv'
  OBVIOUS
<1>1. CASE issueOtp
  BY <1>1, RetireEffect DEF issueOtp, StoreCode, Running, calls
<1>2. CASE clearOtp
  BY <1>2, RetireEffect DEF clearOtp, DelCode, calls
<1>3. CASE ExpireCode
  BY <1>3, RetireEffect DEF ExpireCode, DelCode, calls
<1>4. CASE ExpireCooldown \/ ExpireSuspension
  BY <1>4 DEF ExpireCooldown, ExpireSuspension, calls, history
<1>5. ASSUME NEW v \in Requests, NEW code \in Inputs, ReadSuspension(v, code)
      PROVE  TypeInv'
  <2>1. overlap' \in {"none", "some"}
    BY <1>5 DEF ReadSuspension
  <2>2. deadAtStart' \in [Requests -> SUBSET Inputs]
    BY <1>5 DEF ReadSuspension
  <2> HIDE DEF Codes
  <2> QED
    BY <1>5, <2>1, <2>2 DEF ReadSuspension, Return, keys
<1>6. ASSUME NEW v \in Requests, ReadCode(v)
      PROVE  TypeInv'
  <2>1. CASE hash.code = NoCode
    BY <1>6, <2>1 DEF ReadCode, Return, keys
  <2>2. CASE hash.code # NoCode /\ input[v] = hash.code
    BY <1>6, <2>2 DEF ReadCode, keys
  <2>3. CASE hash.code # NoCode /\ input[v] # hash.code
    BY <1>6, <2>3 DEF ReadCode, keys, shouldSuspend
  <2> QED
    BY <2>1, <2>2, <2>3
<1>7. ASSUME NEW v \in Requests, Consume(v)
      PROVE  TypeInv'
  BY <1>7, RetireEffect DEF Consume, ConsumeEffect, DelCode, Return
<1>8. ASSUME NEW v \in Requests, Suspend(v)
      PROVE  TypeInv'
  BY <1>8, RetireEffect DEF Suspend, SuspendEffect, DelCode
<1>9. ASSUME NEW v \in Requests, MirrorSuspendToDb(v)
      PROVE  TypeInv'
  BY <1>9 DEF MirrorSuspendToDb, Return, history
<1>10. ASSUME NEW v \in Requests, Count(v)
       PROVE  TypeInv'
  BY <1>10 DEF Count, CountEffect, HsetAttempts, Return, attemptsRemaining
<1>11. ASSUME NEW v \in Requests, RedisFails(v)
       PROVE  TypeInv'
  BY <1>11 DEF RedisFails, Return, keys, history
<1>12. ASSUME NEW v \in Requests, Redelivered(v)
       PROVE  TypeInv'
  BY <1>12, RetireEffect DEF Redelivered, ConsumeEffect, SuspendEffect, CountEffect,
                             DelCode, HsetAttempts, calls
<1>13. CASE UNCHANGED vars
  BY <1>13 DEF vars, keys, calls, history
<1> QED
  BY <1>1, <1>2, <1>3, <1>4, <1>5, <1>6, <1>7, <1>8, <1>9, <1>10, <1>11, <1>12,
     <1>13 DEF Next, Verify

LEMMA TypeInvAlways == Spec => []TypeInv
<1>1. Init => TypeInv
  BY OtpAssumption
     DEF Init, TypeInv, TypeOK, CountBelow, CodeAlwaysExpires,
         InvalidLeavesAttempts, NoHash, NoCode, Codes, Inputs, InFlight
<1> QED
  BY <1>1, TypeInvStep, PTL DEF Spec

THEOREM TypeCorrect == Spec => []TypeOK
<1>1. TypeInv => TypeOK
  BY DEF TypeInv
<1> QED
  BY <1>1, TypeInvAlways, PTL

THEOREM CodesExpire == Spec => []CodeAlwaysExpires
<1>1. TypeInv => CodeAlwaysExpires
  BY DEF TypeInv
<1> QED
  BY <1>1, TypeInvAlways, PTL

THEOREM AttemptsRemain == Spec => []InvalidLeavesAttempts
<1>1. TypeInv => InvalidLeavesAttempts
  BY DEF TypeInv
<1> QED
  BY <1>1, TypeInvAlways, PTL
-----------------------------------------------------------------------------
(* A code dies when it leaves the hash, and issueOtp only stores fresh ones:
   what was dead when a verification began is never read by it. *)
LEMMA DeadInvStep == TypeInv /\ DeadInv /\ [Next]_vars => DeadInv'
<1> USE OtpAssumption
    DEF TypeInv, TypeOK, DeadInv, DeadCodeNeverAccepted, NoHash, NoCode, Codes,
        Inputs, InFlight
<1> SUFFICES ASSUME TypeInv, DeadInv, [Next]_vars PROVE DeadInv'
  OBVIOUS
<1>1. CASE issueOtp
  BY <1>1, RetireEffect DEF issueOtp, StoreCode, calls
<1>2. CASE clearOtp
  BY <1>2, RetireEffect DEF clearOtp, DelCode, calls
<1>3. CASE ExpireCode
  BY <1>3, RetireEffect DEF ExpireCode, DelCode, calls
<1>4. CASE ExpireCooldown \/ ExpireSuspension
  BY <1>4 DEF ExpireCooldown, ExpireSuspension, calls, history
<1>5. ASSUME NEW v \in Requests, NEW code \in Inputs, ReadSuspension(v, code)
      PROVE  DeadInv'
  BY <1>5 DEF ReadSuspension, Return, keys
<1>6. ASSUME NEW v \in Requests, ReadCode(v)
      PROVE  DeadInv'
  BY <1>6 DEF ReadCode, Return, keys
<1>7. ASSUME NEW v \in Requests, Consume(v)
      PROVE  DeadInv'
  BY <1>7, RetireEffect DEF Consume, ConsumeEffect, DelCode, Return
<1>8. ASSUME NEW v \in Requests, Suspend(v)
      PROVE  DeadInv'
  BY <1>8, RetireEffect DEF Suspend, SuspendEffect, DelCode
<1>9. ASSUME NEW v \in Requests, MirrorSuspendToDb(v)
      PROVE  DeadInv'
  BY <1>9 DEF MirrorSuspendToDb, Return, history
<1>10. ASSUME NEW v \in Requests, Count(v)
       PROVE  DeadInv'
  BY <1>10 DEF Count, CountEffect, HsetAttempts, Return
<1>11. ASSUME NEW v \in Requests, RedisFails(v)
       PROVE  DeadInv'
  BY <1>11 DEF RedisFails, Return, keys, history
<1>12. ASSUME NEW v \in Requests, Redelivered(v)
       PROVE  DeadInv'
  BY <1>12, RetireEffect DEF Redelivered, ConsumeEffect, SuspendEffect, CountEffect,
                             DelCode, HsetAttempts, calls
<1>13. CASE UNCHANGED vars
  BY <1>13 DEF vars, keys, calls, history
<1> QED
  BY <1>1, <1>2, <1>3, <1>4, <1>5, <1>6, <1>7, <1>8, <1>9, <1>10, <1>11, <1>12,
     <1>13 DEF Next, Verify

LEMMA DeadInvAlways == Spec => []DeadInv
<1>1. Init => DeadInv
  BY OtpAssumption
     DEF Init, DeadInv, DeadCodeNeverAccepted, NoHash, NoCode, Codes, Inputs
<1> QED
  BY <1>1, TypeInvAlways, DeadInvStep, PTL DEF Spec

THEOREM DeadCodesStayDead == Spec => []DeadCodeNeverAccepted
<1>1. DeadInv => DeadCodeNeverAccepted
  BY DEF DeadInv
<1> QED
  BY <1>1, DeadInvAlways, PTL
-----------------------------------------------------------------------------
(* The requests judged wrong are a finite set, so they can be counted. *)
LEMMA WrongGuessesFinite ==
  IsFiniteSet(WrongGuesses) /\ Cardinality(WrongGuesses) \in Nat
<1>1. WrongGuesses \in SUBSET Requests
  BY DEF WrongGuesses
<1> QED
  BY <1>1, OtpAssumption, FS_Subset, FS_CardinalityType

LEMMA WrongGuessesFiniteNext ==
  IsFiniteSet(WrongGuesses') /\ Cardinality(WrongGuesses') \in Nat
<1>1. WrongGuesses' \in SUBSET Requests
  BY DEF WrongGuesses
<1> QED
  BY <1>1, OtpAssumption, FS_Subset, FS_CardinalityType

(* Judging one more request wrong adds one to their number. *)
LEMMA OneMoreWrongGuess ==
  ASSUME TypeOK, NEW v \in Requests, judged[v] = NoCode,
         NEW c \in Codes, judged' = [judged EXCEPT ![v] = c]
  PROVE  Cardinality(WrongGuesses') = Cardinality(WrongGuesses) + 1
<1>1. WrongGuesses' = WrongGuesses \cup {v}
  BY DEF WrongGuesses, TypeOK, Codes, NoCode
<1>2. v \notin WrongGuesses
  BY DEF WrongGuesses
<1> QED
  BY <1>1, <1>2, WrongGuessesFinite, FS_AddElement

(* A count that is stored or on its way to Redis is paid for by as many wrong
   guesses: a read of n is followed by one more wrong guess before n + 1 is
   written, and the number of wrong guesses never falls. *)
LEMMA ChargeInvStep == TypeInv /\ DeadInv /\ ChargeInv /\ [Next]_vars => ChargeInv'
<1> USE OtpAssumption
    DEF TypeInv, TypeOK, DeadInv, ChargeInv, Charged, NoSpuriousSuspension,
        NextAttempts, NoHash, NoCode, Inputs, InFlight
<1> SUFFICES ASSUME TypeInv, DeadInv, ChargeInv, [Next]_vars PROVE ChargeInv'
  OBVIOUS
<1>a. Cardinality(WrongGuesses) \in Nat /\ Cardinality(WrongGuesses') \in Nat
  BY WrongGuessesFinite, WrongGuessesFiniteNext
<1>b. UNCHANGED judged => WrongGuesses' = WrongGuesses
  BY DEF WrongGuesses
<1>1. CASE issueOtp
  BY <1>1, <1>a, <1>b DEF issueOtp, StoreCode, calls
<1>2. CASE clearOtp
  BY <1>2, <1>a, <1>b DEF clearOtp, DelCode, calls
<1>3. CASE ExpireCode
  BY <1>3, <1>a, <1>b DEF ExpireCode, DelCode, calls
<1>4. CASE ExpireCooldown \/ ExpireSuspension
  BY <1>4, <1>a, <1>b DEF ExpireCooldown, ExpireSuspension, calls, history
<1>5. ASSUME NEW v \in Requests, NEW code \in Inputs, ReadSuspension(v, code)
      PROVE  ChargeInv'
  BY <1>5, <1>a, <1>b DEF ReadSuspension, TTL, Return, keys
<1>6. ASSUME NEW v \in Requests, ReadCode(v)
      PROVE  ChargeInv'
  <2>1. CASE hash.code = NoCode
    BY <1>6, <2>1, <1>a, <1>b DEF ReadCode, Return, keys
  <2>2. CASE hash.code # NoCode /\ input[v] = hash.code
    BY <1>6, <2>2, <1>a, <1>b DEF ReadCode, keys
  <2>3. CASE hash.code # NoCode /\ input[v] # hash.code
    <3>1. Cardinality(WrongGuesses') = Cardinality(WrongGuesses) + 1
      <4>1. hash.code \in Codes /\ judged' = [judged EXCEPT ![v] = hash.code]
        BY <1>6, <2>3 DEF ReadCode, Codes
      <4>2. judged[v] = NoCode
        BY <1>6 DEF ReadCode
      <4> QED
        BY <4>1, <4>2, OneMoreWrongGuess
    <3>2. /\ seen' = [seen EXCEPT ![v] = hash]
          /\ pc' = [pc EXCEPT ![v] = IF hash.attempts + 1 >= MaxAttempts
                                       THEN "suspend" ELSE "count"]
          /\ judged' = [judged EXCEPT ![v] = hash.code]
          /\ UNCHANGED <<hash, suspended, outcome>>
      BY <1>6, <2>3 DEF ReadCode, keys, shouldSuspend
    <3> QED
      BY <2>3, <3>1, <3>2, <1>a
  <2> QED
    BY <2>1, <2>2, <2>3
<1>7. ASSUME NEW v \in Requests, Consume(v)
      PROVE  ChargeInv'
  BY <1>7, <1>a, <1>b DEF Consume, ConsumeEffect, DelCode, Return
<1>8. ASSUME NEW v \in Requests, Suspend(v)
      PROVE  ChargeInv'
  BY <1>8, <1>a, <1>b DEF Suspend, SuspendEffect, DelCode
<1>9. ASSUME NEW v \in Requests, MirrorSuspendToDb(v)
      PROVE  ChargeInv'
  BY <1>9, <1>a, <1>b DEF MirrorSuspendToDb, Return, history
<1>10. ASSUME NEW v \in Requests, Count(v)
       PROVE  ChargeInv'
  BY <1>10, <1>a, <1>b DEF Count, CountEffect, HsetAttempts, Return
<1>11. ASSUME NEW v \in Requests, RedisFails(v)
       PROVE  ChargeInv'
  BY <1>11, <1>a, <1>b DEF RedisFails, Return, keys, history
<1>12. ASSUME NEW v \in Requests, Redelivered(v)
       PROVE  ChargeInv'
  BY <1>12, <1>a, <1>b DEF Redelivered, ConsumeEffect, SuspendEffect, CountEffect,
                           DelCode, HsetAttempts, calls
<1>13. CASE UNCHANGED vars
  BY <1>13, <1>a, <1>b DEF vars, keys, calls, history
<1> QED
  BY <1>1, <1>2, <1>3, <1>4, <1>5, <1>6, <1>7, <1>8, <1>9, <1>10, <1>11, <1>12,
     <1>13 DEF Next, Verify

THEOREM SuspensionIsEarned == Spec => []NoSpuriousSuspension
<1>1. Init => ChargeInv
  BY OtpAssumption, WrongGuessesFinite
     DEF Init, ChargeInv, Charged, NoSpuriousSuspension, NoHash, NoCode
<1>2. ChargeInv => NoSpuriousSuspension
  BY DEF ChargeInv
<1> QED
  BY <1>1, <1>2, TypeInvAlways, DeadInvAlways, ChargeInvStep, PTL DEF Spec
-----------------------------------------------------------------------------
(* The guesses counted against a code are a finite set. *)
LEMMA CountedFinite ==
  ASSUME TypeOK, NEW c
  PROVE  /\ IsFiniteSet(CountedAgainst(c))
         /\ Cardinality(CountedAgainst(c)) \in Nat
<1>1. CountedAgainst(c) \in SUBSET Requests
  BY DEF CountedAgainst, TypeOK
<1> QED
  BY <1>1, OtpAssumption, FS_Subset, FS_CardinalityType

(* Writing the count of v makes v one of the guesses counted, once. *)
LEMMA OneMoreCounted ==
  ASSUME TypeOK, NEW v \in Requests, NEW c, judged[v] = c,
         counted' = counted \cup {v}, UNCHANGED judged
  PROVE  /\ Cardinality({w \in counted' : judged'[w] = c})
              = Cardinality(CountedAgainst(c) \ {v}) + 1
         /\ {w \in counted' : judged'[w] = c} \ {v} = CountedAgainst(c) \ {v}
<1>1. {w \in counted' : judged'[w] = c} = (CountedAgainst(c) \ {v}) \cup {v}
  BY DEF CountedAgainst, TypeOK
<1>2. IsFiniteSet(CountedAgainst(c) \ {v})
  BY CountedFinite, FS_RemoveElement
<1>3. v \notin CountedAgainst(c) \ {v}
  OBVIOUS
<1> QED
  BY <1>1, <1>2, <1>3, FS_AddElement

(* In a serial history the only write of a count is that of the one
   verification that runs, and it adds one to what that verification read. *)
LEMMA SerialInvStep == TypeInv /\ DeadInv /\ SerialInv /\ [Next]_vars => SerialInv'
<1> USE OtpAssumption
    DEF TypeInv, TypeOK, DeadInv, SerialInv, OneRuns, HeldCount,
        SerialCountIsExact, Running, NextAttempts, NoHash, NoCode, Inputs, InFlight
<1> SUFFICES ASSUME TypeInv, DeadInv, SerialInv, [Next]_vars PROVE SerialInv'
  OBVIOUS
<1>a. ASSUME NEW c, UNCHANGED <<judged, counted>>
      PROVE  {w \in counted' : judged'[w] = c} = CountedAgainst(c)
  BY <1>a DEF CountedAgainst
<1>1. CASE issueOtp
  <2>1. {w \in counted' : judged'[w] = issued + 1} = {}
    BY <1>1 DEF issueOtp
  <2>2. Cardinality({}) = 0
    BY FS_EmptySet
  <2>3. CountedAgainst(hash.code)' = {}
    BY <1>1, <2>1 DEF issueOtp, StoreCode, CountedAgainst
  <2>4. SerialCountIsExact'
    BY <1>1, <2>2, <2>3 DEF issueOtp, StoreCode
  <2>5. OneRuns' /\ HeldCount'
    BY <1>1 DEF issueOtp, StoreCode, calls
  <2> QED
    BY <1>1, <2>4, <2>5 DEF issueOtp, calls
<1>2. CASE clearOtp
  BY <1>2 DEF clearOtp, DelCode, calls
<1>3. CASE ExpireCode
  BY <1>3 DEF ExpireCode, DelCode, calls
<1>4. CASE ExpireCooldown \/ ExpireSuspension
  <2>1. UNCHANGED <<hash, issued, pc, seen, judged, counted, overlap>>
    BY <1>4 DEF ExpireCooldown, ExpireSuspension, calls, history
  <2> QED
    BY <2>1 DEF CountedAgainst
<1>5. ASSUME NEW v \in Requests, NEW code \in Inputs, ReadSuspension(v, code)
      PROVE  SerialInv'
  BY <1>5 DEF ReadSuspension, Return, keys, CountedAgainst
<1>6. ASSUME NEW v \in Requests, ReadCode(v)
      PROVE  SerialInv'
  <2>1. CASE hash.code = NoCode
    <3>1. /\ seen' = [seen EXCEPT ![v] = hash]
          /\ pc' = [pc EXCEPT ![v] = "done"]
          /\ UNCHANGED <<hash, issued, judged, counted, overlap>>
      BY <1>6, <2>1 DEF ReadCode, Return, keys
    <3> QED
      BY <2>1, <3>1
  <2>2. CASE hash.code # NoCode /\ input[v] = hash.code
    <3>1. /\ seen' = [seen EXCEPT ![v] = hash]
          /\ pc[v] = "readCode"
          /\ pc' = [pc EXCEPT ![v] = "consume"]
          /\ UNCHANGED <<hash, issued, judged, counted, overlap>>
      BY <1>6, <2>2 DEF ReadCode, keys
    <3>2. OneRuns'
      BY <3>1
    <3>3. HeldCount' /\ SerialCountIsExact'
      BY <3>1 DEF CountedAgainst
    <3> HIDE DEF OneRuns, HeldCount, SerialCountIsExact
    <3> QED
      BY <3>1, <3>2, <3>3
  <2>3. CASE hash.code # NoCode /\ input[v] # hash.code
    <3>1. /\ seen' = [seen EXCEPT ![v] = hash]
          /\ pc[v] = "readCode"
          /\ pc' \in {[pc EXCEPT ![v] = "suspend"], [pc EXCEPT ![v] = "count"]}
          /\ judged' = [judged EXCEPT ![v] = hash.code]
          /\ UNCHANGED <<hash, issued, counted, overlap>>
      BY <1>6, <2>3 DEF ReadCode, keys
    <3>2. v \notin counted
      BY <3>1
    <3>3. /\ CountedAgainst(hash.code)' = CountedAgainst(hash.code)
          /\ CountedAgainst(hash.code)' \ {v} = CountedAgainst(hash.code)
      BY <3>1, <3>2 DEF CountedAgainst
    <3>4. OneRuns'
      BY <3>1
    <3>5. HeldCount'
      <4> SUFFICES ASSUME overlap = "none", NEW w \in Requests, pc'[w] = "count"
                   PROVE  /\ w = v
                          /\ hash.attempts = Cardinality(CountedAgainst(hash.code))
        BY <2>3, <3>1, <3>3
      <4> QED
        BY <2>3, <3>1
    <3>6. SerialCountIsExact'
      BY <3>1, <3>3
    <3> QED
      BY <2>3, <3>1, <3>2, <3>4, <3>5, <3>6
  <2> QED
    BY <2>1, <2>2, <2>3
<1>7. ASSUME NEW v \in Requests, Consume(v)
      PROVE  SerialInv'
  BY <1>7 DEF Consume, ConsumeEffect, DelCode, Return
<1>8. ASSUME NEW v \in Requests, Suspend(v)
      PROVE  SerialInv'
  BY <1>8 DEF Suspend, SuspendEffect, DelCode
<1>9. ASSUME NEW v \in Requests, MirrorSuspendToDb(v)
      PROVE  SerialInv'
  BY <1>9 DEF MirrorSuspendToDb, Return, history, CountedAgainst
<1>10. ASSUME NEW v \in Requests, Count(v)
       PROVE  SerialInv'
  <2>1. /\ hash' = [hash EXCEPT !.attempts = seen[v].attempts + 1]
        /\ counted' = counted \cup {v}
        /\ pc[v] = "count" /\ pc' = [pc EXCEPT ![v] = "done"]
        /\ UNCHANGED <<judged, seen, issued, overlap>>
    BY <1>10 DEF Count, CountEffect, HsetAttempts, Return
  <2>2. Cardinality(CountedAgainst(judged[v])')
          = Cardinality(CountedAgainst(judged[v]) \ {v}) + 1
    BY <2>1, OneMoreCounted DEF CountedAgainst
  <2>3. OneRuns'
    BY <2>1
  <2>4. HeldCount'
    BY <2>1
  <2>5. SerialCountIsExact'
    <3> SUFFICES ASSUME overlap = "none", hash.code # NoCode
                 PROVE  seen[v].attempts + 1
                          = Cardinality(CountedAgainst(hash.code)')
      BY <2>1
    <3>1. hash'.code = hash.code /\ judged[v] = hash.code
      BY <2>1
    <3>2. seen[v].attempts = Cardinality(CountedAgainst(judged[v]) \ {v})
      BY <2>1, <3>1
    <3>3. CountedAgainst(hash.code)' = CountedAgainst(judged[v])'
      BY <2>1, <3>1 DEF CountedAgainst
    <3> QED
      BY <2>2, <3>2, <3>3
  <2> HIDE DEF OneRuns, HeldCount, SerialCountIsExact
  <2> QED
    BY <2>1, <2>3, <2>4, <2>5
<1>11. ASSUME NEW v \in Requests, RedisFails(v)
       PROVE  SerialInv'
  BY <1>11 DEF RedisFails, Return, keys, history, CountedAgainst
<1>12. ASSUME NEW v \in Requests, Redelivered(v)
       PROVE  SerialInv'
  <2>1. CASE pc[v] # "count"
    BY <1>12, <2>1 DEF Redelivered, ConsumeEffect, SuspendEffect, DelCode, calls
  <2>2. CASE pc[v] = "count"
    <3>1. /\ hash' = [hash EXCEPT !.attempts = seen[v].attempts + 1]
          /\ counted' = counted \cup {v}
          /\ UNCHANGED <<pc, judged, seen, issued, overlap>>
      BY <1>12, <2>2 DEF Redelivered, CountEffect, HsetAttempts, calls
    <3>2. /\ Cardinality(CountedAgainst(judged[v])')
               = Cardinality(CountedAgainst(judged[v]) \ {v}) + 1
          /\ CountedAgainst(judged[v])' \ {v} = CountedAgainst(judged[v]) \ {v}
      BY <3>1, OneMoreCounted DEF CountedAgainst
    <3>3. OneRuns'
      BY <3>1
    <3>4. HeldCount'
      <4> SUFFICES ASSUME overlap = "none", NEW w \in Requests, pc[w] = "count",
                          hash.code # NoCode
                   PROVE  /\ w = v
                          /\ seen[v].attempts
                               = Cardinality(CountedAgainst(hash.code)' \ {v})
        BY <3>1, <2>2
      <4>1. hash'.code = hash.code /\ judged[v] = hash.code /\ w = v
        BY <2>2, <3>1
      <4>2. seen[v].attempts = Cardinality(CountedAgainst(judged[v]) \ {v})
        BY <4>1, <2>2
      <4>3. CountedAgainst(hash.code)' = CountedAgainst(judged[v])'
        BY <4>1, <3>1 DEF CountedAgainst
      <4> QED
        BY <4>1, <4>2, <4>3, <3>2
    <3>5. SerialCountIsExact'
      <4> SUFFICES ASSUME overlap = "none", hash.code # NoCode
                   PROVE  seen[v].attempts + 1
                            = Cardinality(CountedAgainst(hash.code)')
        BY <3>1
      <4>1. hash'.code = hash.code /\ judged[v] = hash.code
        BY <2>2, <3>1
      <4>2. seen[v].attempts = Cardinality(CountedAgainst(judged[v]) \ {v})
        BY <4>1, <2>2
      <4>3. CountedAgainst(hash.code)' = CountedAgainst(judged[v])'
        BY <4>1, <3>1 DEF CountedAgainst
      <4> QED
        BY <3>2, <4>2, <4>3
    <3> HIDE DEF OneRuns, HeldCount, SerialCountIsExact
    <3> QED
      BY <2>2, <3>1, <3>3, <3>4, <3>5
  <2> QED
    BY <2>1, <2>2
<1>13. CASE UNCHANGED vars
  BY <1>13 DEF vars, keys, calls, history, CountedAgainst
<1> QED
  BY <1>1, <1>2, <1>3, <1>4, <1>5, <1>6, <1>7, <1>8, <1>9, <1>10, <1>11, <1>12,
     <1>13 DEF Next, Verify

THEOREM SerialCounting == Spec => []SerialCountIsExact
<1>1. Init => SerialInv
  BY OtpAssumption
     DEF Init, SerialInv, OneRuns, HeldCount, SerialCountIsExact, Running, NoHash, NoCode, InFlight
<1>2. SerialInv => SerialCountIsExact
  BY DEF SerialInv
<1> QED
  BY <1>1, <1>2, TypeInvAlways, DeadInvAlways, SerialInvStep, PTL DEF Spec
=============================================================================
