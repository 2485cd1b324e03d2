-------------------------- MODULE ModelCacheProofs --------------------------
(***************************************************************************)
(* Proofs about ModelCache, for any connections, any number of readers,    *)
(* any number of edits and failures and a queue of any length.             *)
(*                                                                         *)
(* TypeInv keeps the steps of the readers and of the worker apart.         *)
(* QuietInv is why LockHasJob holds: while nothing failed every connection *)
(* is active, so the worker drops no job, and a lock is only taken by the  *)
(* reader that goes on to push.                                            *)
(***************************************************************************)
EXTENDS ModelCache, SequenceTheorems, TLAPS

ReaderSteps == {"idle", "lock", "push", "fetch", "save"}
WorkerSteps == {"pop", "find", "fetch", "save"}

TypeInv ==
  /\ TypeOK
  /\ \A r \in Readers : pc[r] \in ReaderSteps
  /\ pc[Worker] \in WorkerSteps

QuietInv ==
  /\ faults = 0 => \A c \in Conns : active[c] = "active"
  /\ LockHasJob
-----------------------------------------------------------------------------
(* The connection the processes start with is one. *)
LEMMA AnyConnType == AnyConn \in Conns
BY ModelCacheAssumption DEF AnyConn

(* What RPUSH does to the jobs in the list: it keeps every
   job and adds one. *)
LEMMA PushKeeps ==
  ASSUME NEW q \in Seq(Conns), NEW c \in Conns
  PROVE  /\ Append(q, c) \in Seq(Conns)
         /\ \A d : (\E i \in 1 .. Len(Append(q, c)) : Append(q, c)[i] = d)
                     <=> d = c \/ \E i \in 1 .. Len(q) : q[i] = d
<1>1. Append(q, c) \in Seq(Conns) /\ Len(Append(q, c)) = Len(q) + 1
  BY AppendProperties
<1>2. \A i \in 1 .. Len(q) : Append(q, c)[i] = q[i]
  BY AppendProperties
<1>3. Append(q, c)[Len(q) + 1] = c
  BY AppendProperties
<1>4. Len(q) \in Nat
  OBVIOUS
<1> QED
  BY <1>1, <1>2, <1>3, <1>4

(* What BRPOP does to them: it takes the tail away and keeps the others. *)
LEMMA PopKeeps ==
  ASSUME NEW q \in Seq(Conns), q # <<>>
  PROVE  /\ q[Len(q)] \in Conns
         /\ SubSeq(q, 1, Len(q) - 1) \in Seq(Conns)
         /\ \A d : (\E i \in 1 .. Len(q) : q[i] = d)
                     => \/ d = q[Len(q)]
                        \/ \E i \in 1 .. Len(SubSeq(q, 1, Len(q) - 1)) :
                             SubSeq(q, 1, Len(q) - 1)[i] = d
<1> DEFINE s == SubSeq(q, 1, Len(q) - 1)
<1>1. Len(q) \in Nat /\ Len(q) > 0 /\ \A i \in 1 .. Len(q) : q[i] \in Conns
  OBVIOUS
<1>2. s \in Seq(Conns) /\ Len(s) = Len(q) - 1 /\ \A i \in 1 .. Len(q) - 1 : s[i] = q[i]
  <2>1. 1 \in Int /\ Len(q) - 1 \in Int /\ \A i \in 1 .. Len(q) - 1 : q[i] \in Conns
    BY <1>1
  <2>2. /\ s \in Seq(Conns)
        /\ Len(s) = IF 1 <= Len(q) - 1 THEN Len(q) - 1 - 1 + 1 ELSE 0
        /\ \A i \in 1 .. Len(q) - 1 - 1 + 1 : s[i] = q[1 + i - 1]
    BY <2>1, SubSeqProperties
  <2> HIDE DEF s
  <2>3. Len(s) = Len(q) - 1
    <3>1. ASSUME NEW n \in Nat, n > 0
          PROVE  (IF 1 <= n - 1 THEN n - 1 - 1 + 1 ELSE 0) = n - 1
      BY <3>1
    <3> QED
      BY <1>1, <2>2, <3>1
  <2>4. ASSUME NEW i \in 1 .. Len(q) - 1
        PROVE  s[i] = q[i]
    <3>1. i \in 1 .. Len(q) - 1 - 1 + 1 /\ 1 + i - 1 = i
      BY <1>1
    <3> QED
      BY <2>2, <3>1
  <2> QED
    BY <2>2, <2>3, <2>4
<1> QED
  BY <1>1, <1>2
-----------------------------------------------------------------------------
(* Every variable has its type, no step of a reader is the worker's or the
   reverse, and a timestamp is only kept beside a list (the two columns are
   written together, and invalidateCache only clears the timestamp). *)
LEMMA TypeInvStep == TypeInv /\ [Next]_vars => TypeInv'
<1> USE ModelCacheAssumption
    DEF TypeInv, TypeOK, ReaderSteps, WorkerSteps, Procs, Go, Rest, Answer, row, keys, procs
<1> SUFFICES ASSUME TypeInv, [Next]_vars PROVE TypeInv'
  OBVIOUS
<1>1. ASSUME NEW r \in Readers, NEW c \in Conns,
             ServeFresh(r, c) \/ ServeStale(r, c) \/ FetchCold(r, c)
      PROVE  TypeInv'
  <2>1. CASE ServeFresh(r, c)
    BY <2>1 DEF ServeFresh
  <2>2. CASE ServeStale(r, c)
    BY <2>2 DEF ServeStale
  <2>3. CASE FetchCold(r, c)
    BY <2>3 DEF FetchCold
  <2> QED
    BY <1>1, <2>1, <2>2, <2>3
<1>2. ASSUME NEW r \in Readers, TakeLock(r)
      PROVE  TypeInv'
  BY <1>2 DEF TakeLock
<1>3. ASSUME NEW r \in Readers, Push(r)
      PROVE  TypeInv'
  <2>1. queue' \in Seq(Conns)
    BY <1>3, PushKeeps DEF Push
  <2> QED
    BY <1>3, <2>1 DEF Push
<1>4. CASE Pop
  <2>1. queue' \in Seq(Conns) /\ queue[Len(queue)] \in Conns
    BY <1>4, PopKeeps DEF Pop
  <2> QED
    BY <1>4, <2>1 DEF Pop
<1>5. CASE Find
  BY <1>5 DEF Find
<1>6. ASSUME NEW p \in Procs, Fetch(p)
      PROVE  TypeInv'
  BY <1>6 DEF Fetch
<1>7. ASSUME NEW p \in Procs, Save(p)
      PROVE  TypeInv'
  <2> DEFINE list == [version |-> taken[p], source |-> source[p]]
  <2>1. list \in Lists /\ list # NoModels
    BY DEF Lists, NoModels
  <2> HIDE DEF list
  <2> QED
    BY <1>7, <2>1 DEF Save, SaveEffect, list
<1>8. ASSUME NEW p \in Procs, SaveThrows(p)
      PROVE  TypeInv'
  BY <1>8 DEF SaveThrows
<1>9. ASSUME NEW c \in Conns, EditRow(c)
      PROVE  TypeInv'
  BY <1>9 DEF EditRow, Versions
<1>10. CASE ClearTimestamp \/ DropLock
  <2>1. CASE ClearTimestamp
    BY <2>1 DEF ClearTimestamp
  <2>2. CASE DropLock
    BY <2>2 DEF DropLock
  <2> QED
    BY <1>10, <2>1, <2>2
<1>11. ASSUME NEW c \in Conns, Age(c) \/ LockExpires(c)
       PROVE  TypeInv'
  BY <1>11 DEF Age, LockExpires
<1>12. CASE Fault
  <2>1. faults' \in 0 .. MaxFaults
    BY <1>12 DEF Fault
  <2>2. ASSUME NEW p \in Procs, FetchFails(p)
        PROVE  TypeInv'
    BY <2>1, <2>2 DEF FetchFails
  <2>3. ASSUME NEW p \in Procs, AwaitRejects(p)
        PROVE  TypeInv'
    <3>1. lock' \in [Conns -> {"absent", "expiring", "older"}]
      BY <2>3 DEF AwaitRejects
    <3>2. answer' \in [Readers -> {"none", "served", "threw"}]
      BY <2>3 DEF AwaitRejects
    <3> QED
      BY <2>1, <2>3, <3>1, <3>2 DEF AwaitRejects
  <2>4. CASE InvalidateFails \/ Crash
    BY <2>1, <2>4 DEF InvalidateFails, Crash
  <2>5. ASSUME NEW c \in Conns, NEW state \in {"active", "inactive", "deleted"},
               SetActive(c, state)
        PROVE  TypeInv'
    BY <2>1, <2>5 DEF SetActive
  <2> QED
    BY <1>12, <2>2, <2>3, <2>4, <2>5 DEF Fault
<1>13. CASE UNCHANGED vars
  BY <1>13 DEF vars
<1> QED
  BY <1>1, <1>2, <1>3, <1>4, <1>5, <1>6, <1>7, <1>8, <1>9, <1>10, <1>11, <1>12, <1>13
     DEF Next, GetModels, Background, Job, RefreshNow, Invalidate

(* The strengthened type invariant always holds. *)
LEMMA TypeInvAlways == Spec => []TypeInv
<1>1. Init => TypeInv
  BY ModelCacheAssumption, AnyConnType
     DEF Init, TypeInv, TypeOK, ReaderSteps, WorkerSteps, Procs, Versions
<1> QED
  BY <1>1, TypeInvStep, PTL DEF Spec

(* ModelCache's type invariant. *)
THEOREM TypeCorrect == Spec => []TypeOK
<1>1. TypeInv => TypeOK
  BY DEF TypeInv
<1> QED
  BY <1>1, TypeInvAlways, PTL

(* While nothing fails, no step takes a lock without going on to push its job,
   and none drops a job of a connection whose lock is still held. *)
LEMMA QuietInvStep == TypeInv /\ QuietInv /\ [Next]_vars => QuietInv'
<1> USE ModelCacheAssumption
    DEF TypeInv, TypeOK, QuietInv, LockHasJob, Pending, ReaderSteps, WorkerSteps, Procs,
        Go, Rest, row, keys, procs
<1> SUFFICES ASSUME TypeInv, QuietInv, [Next]_vars PROVE QuietInv'
  OBVIOUS
<1>1. ASSUME NEW r \in Readers, NEW c \in Conns,
             ServeFresh(r, c) \/ ServeStale(r, c) \/ FetchCold(r, c)
      PROVE  QuietInv'
  BY <1>1 DEF ServeFresh, ServeStale, FetchCold
<1>2. ASSUME NEW r \in Readers, TakeLock(r)
      PROVE  QuietInv'
  BY <1>2 DEF TakeLock
<1>3. ASSUME NEW r \in Readers, Push(r)
      PROVE  QuietInv'
  BY <1>3, PushKeeps DEF Push
<1>4. CASE Pop
  <2>1. ASSUME NEW c \in Conns, Pending(c)
        PROVE  Pending(c)'
    <3>1. CASE \E i \in 1 .. Len(queue) : queue[i] = c
      <4>1. \/ c = queue[Len(queue)]
            \/ \E i \in 1 .. Len(queue') : queue'[i] = c
        BY <1>4, <3>1, PopKeeps DEF Pop
      <4> QED
        BY <1>4, <4>1 DEF Pop
    <3>2. CASE \E r \in Readers : pc[r] = "push" /\ conn[r] = c
      BY <1>4, <3>2 DEF Pop
    <3> QED
      BY <1>4, <2>1, <3>1, <3>2 DEF Pop
  <2> QED
    BY <1>4, <2>1 DEF Pop
<1>5. CASE Find
  BY <1>5 DEF Find
<1>6. ASSUME NEW p \in Procs, Fetch(p)
      PROVE  QuietInv'
  <2>1. /\ UNCHANGED <<queue, lock, active, faults, conn>>
        /\ pc[p] \notin {"lock", "push"} /\ pc' = [pc EXCEPT ![p] = "save"]
    BY <1>6 DEF Fetch
  <2> QED
    BY <2>1
<1>7. ASSUME NEW p \in Procs, Save(p)
      PROVE  QuietInv'
  BY <1>7 DEF Save, SaveEffect
<1>8. ASSUME NEW p \in Procs, SaveThrows(p)
      PROVE  QuietInv'
  BY <1>8 DEF SaveThrows
<1>9. ASSUME NEW c \in Conns, EditRow(c)
      PROVE  QuietInv'
  BY <1>9 DEF EditRow
<1>10. CASE ClearTimestamp \/ DropLock
  BY <1>10 DEF ClearTimestamp, DropLock
<1>11. ASSUME NEW c \in Conns, Age(c) \/ LockExpires(c)
       PROVE  QuietInv'
  <2>1. CASE Age(c)
    BY <2>1 DEF Age
  <2>2. CASE LockExpires(c)
    BY <2>2 DEF LockExpires
  <2> QED
    BY <1>11, <2>1, <2>2
<1>12. CASE Fault
  BY <1>12 DEF Fault
<1>13. CASE UNCHANGED vars
  BY <1>13 DEF vars
<1> QED
  BY <1>1, <1>2, <1>3, <1>4, <1>5, <1>6, <1>7, <1>8, <1>9, <1>10, <1>11, <1>12, <1>13
     DEF Next, GetModels, Background, Job, RefreshNow, Invalidate

(* While nothing fails, a held lock has its job on the way: it never keeps a
   stale list from being refreshed for nothing. *)
THEOREM LocksHaveJobs == Spec => []LockHasJob
<1>1. Init => QuietInv
  BY DEF Init, QuietInv, LockHasJob
<1>2. QuietInv => LockHasJob
  BY DEF QuietInv
<1> QED
  BY <1>1, <1>2, QuietInvStep, TypeInvAlways, PTL DEF Spec
=============================================================================
