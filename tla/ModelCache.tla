---------------------------- MODULE ModelCache ----------------------------
(***************************************************************************)
(* The stale-while-revalidate cache of provider model lists: the columns   *)
(* cachedModels / cachedModelsAt of a connection row, the functions of     *)
(* src/lib/modelCache.ts that read, refresh and invalidate them, and the   *)
(* job loop of src/lib/modelRefreshWorker.ts behind the Redis list.        *)
(*                                                                         *)
(* A request that finds the list stale serves it and, detached, takes the  *)
(* rate-limit lock (SET NX EX 300) and pushes a job; one that finds no     *)
(* list fetches it itself.  The worker pops jobs and refreshes.  Every     *)
(* await is an action.                                                     *)
(*                                                                         *)
(* A list is the version of the connection it was fetched for and whether  *)
(* the provider answered ("live") or the static list stood in.  The lock   *)
(* and the freshness of a list both last 300 s, so a lock taken before the *)
(* list was saved is gone before that list is stale: such a lock is        *)
(* "older", and Age waits for it.                                          *)
(***************************************************************************)
EXTENDS Naturals, Sequences

CONSTANTS
  Conns,      \* provider connections
  Readers,    \* concurrent callers of getModelsForConnection
  Worker,     \* the refresh worker
  MaxEdits,   \* bound on the updates of a connection
  MaxFaults,  \* bound on the things that go wrong
  MaxQueue    \* bound on the jobs queued, in the guard of LockExpires

ASSUME ModelCacheAssumption ==
  /\ Conns # {}
  /\ Worker \notin Readers
  /\ MaxEdits \in Nat /\ MaxFaults \in Nat /\ MaxQueue \in Nat \ {0}

VARIABLES
  config,  \* version of the row's credentials, baseUrl and custom models
  active,  \* the row: "active", "inactive" or "deleted"
  models,  \* its cachedModels, NoModels while cold
  at,      \* its cachedModelsAt: "null", "fresh" or "stale"
  lock,    \* model-refresh:rate:{id}: "absent", "expiring" or "older"
  queue,   \* model-refresh:queue; RPUSH and BRPOP both work on its tail
  pc,      \* where each reader and the worker are
  conn,    \* the connection each of them works on
  taken,   \* the version of the row it fetches with
  source,  \* what its fetch returned
  answer,  \* the last outcome of each reader's call
  edit,    \* invalidateCache in progress: "idle", "update" or "del"
  edited,  \* the connection it is for
  faults   \* what went wrong so far

row   == <<config, active, models, at>>
keys  == <<lock, queue>>
procs == <<pc, conn, taken, source, answer>>
vars  == <<row, keys, procs, edit, edited, faults>>

Procs    == Readers \cup {Worker}
NoModels == [version |-> 0, source |-> "none"]
Versions == 0 .. MaxEdits
Lists    == [version : Versions, source : {"live", "static"}]

AnyConn == CHOOSE c \in Conns : TRUE

Init ==
  /\ config = [c \in Conns |-> 0]
  /\ active = [c \in Conns |-> "active"]
  /\ models = [c \in Conns |-> NoModels]
  /\ at = [c \in Conns |-> "null"]
  /\ lock = [c \in Conns |-> "absent"]
  /\ queue = <<>>
  /\ pc = [p \in Procs |-> IF p = Worker THEN "pop" ELSE "idle"]
  /\ conn = [p \in Procs |-> AnyConn]
  /\ taken = [p \in Procs |-> 0]
  /\ source = [p \in Procs |-> "live"]
  /\ answer = [r \in Readers |-> "none"]
  /\ edit = "idle"
  /\ edited = AnyConn
  /\ faults = 0

(* Every variable has its type, and a job is only pushed under the lock. *)
TypeOK ==
  /\ config \in [Conns -> Versions]
  /\ active \in [Conns -> {"active", "inactive", "deleted"}]
  /\ models \in [Conns -> Lists \cup {NoModels}]
  /\ at \in [Conns -> {"null", "fresh", "stale"}]
  /\ lock \in [Conns -> {"absent", "expiring", "older"}]
  /\ queue \in Seq(Conns)
  /\ pc \in [Procs -> {"idle", "lock", "push", "pop", "find", "fetch", "save"}]
  /\ conn \in [Procs -> Conns]
  /\ taken \in [Procs -> Versions]
  /\ source \in [Procs -> {"live", "static"}]
  /\ answer \in [Readers -> {"none", "served", "threw"}]
  /\ edit \in {"idle", "update", "del"}
  /\ edited \in Conns
  /\ faults \in 0 .. MaxFaults
  /\ \A c \in Conns : at[c] # "null" => models[c] # NoModels
-----------------------------------------------------------------------------
Go(p, step) == pc' = [pc EXCEPT ![p] = step]

\* Between two jobs, between two calls.
Rest(p) == Go(p, IF p = Worker THEN "pop" ELSE "idle")

Answer(p, result) ==
  IF p = Worker THEN UNCHANGED answer ELSE answer' = [answer EXCEPT ![p] = result]

(* getModelsForConnection, on the row as it is: the decision has no await. *)

ServeFresh(r, c) ==
  /\ pc[r] = "idle" /\ active[c] # "deleted"
  /\ models[c] # NoModels
  /\ at[c] = "fresh"
  /\ Answer(r, "served")
  /\ UNCHANGED <<row, keys, pc, conn, taken, source, edit, edited, faults>>

\* The list is served at once; the rest runs detached.
ServeStale(r, c) ==
  /\ pc[r] = "idle" /\ active[c] # "deleted"
  /\ models[c] # NoModels
  /\ at[c] # "fresh"
  /\ Answer(r, "served")
  /\ conn' = [conn EXCEPT ![r] = c]
  /\ Go(r, "lock")
  /\ UNCHANGED <<row, keys, taken, source, edit, edited, faults>>

FetchCold(r, c) ==
  /\ pc[r] = "idle" /\ active[c] # "deleted"
  /\ models[c] = NoModels
  /\ conn' = [conn EXCEPT ![r] = c]
  /\ taken' = [taken EXCEPT ![r] = config[c]]
  /\ Go(r, "fetch")
  /\ UNCHANGED <<row, keys, source, answer, edit, edited, faults>>

(* refreshModelsBackground: SET NX EX, then RPUSH *)

\* Defect: the lock is set without EX.
TakeLockForever(r) ==
  /\ pc[r] = "lock"
  /\ IF lock[conn[r]] = "absent"
       THEN lock' = [lock EXCEPT ![conn[r]] = "persistent"] /\ Go(r, "push")
       ELSE UNCHANGED lock /\ Rest(r)
  /\ UNCHANGED <<row, queue, conn, taken, source, answer, edit, edited, faults>>

TakeLock(r) ==
  /\ pc[r] = "lock"
  /\ IF lock[conn[r]] = "absent"
       THEN lock' = [lock EXCEPT ![conn[r]] = "expiring"] /\ Go(r, "push")
       ELSE UNCHANGED lock /\ Rest(r)
  /\ UNCHANGED <<row, queue, conn, taken, source, answer, edit, edited, faults>>

Push(r) ==
  /\ pc[r] = "push"
  /\ queue' = Append(queue, conn[r])
  /\ Rest(r)
  /\ UNCHANGED <<row, lock, conn, taken, source, answer, edit, edited, faults>>
-----------------------------------------------------------------------------
(* runLoop and processJob *)

\* BRPOP takes the tail, the job pushed last.
Pop ==
  /\ pc[Worker] = "pop"
  /\ queue # <<>>
  /\ conn' = [conn EXCEPT ![Worker] = queue[Len(queue)]]
  /\ queue' = SubSeq(queue, 1, Len(queue) - 1)
  /\ Go(Worker, "find")
  /\ UNCHANGED <<row, lock, taken, source, answer, edit, edited, faults>>

\* Defect: a job whose list is fresh by now is skipped.
FindUnlessFresh ==
  /\ pc[Worker] = "find"
  /\ taken' = [taken EXCEPT ![Worker] = config[conn[Worker]]]
  /\ IF active[conn[Worker]] = "active" /\ at[conn[Worker]] # "fresh"
       THEN Go(Worker, "fetch") ELSE Rest(Worker)
  /\ UNCHANGED <<row, keys, conn, source, answer, edit, edited, faults>>

Find ==
  /\ pc[Worker] = "find"
  /\ taken' = [taken EXCEPT ![Worker] = config[conn[Worker]]]
  /\ IF active[conn[Worker]] = "active" THEN Go(Worker, "fetch") ELSE Rest(Worker)
  /\ UNCHANGED <<row, keys, conn, source, answer, edit, edited, faults>>

(* refreshModelsNow: resolveModels with the row's old copy, loadCustomModels,
   then one update of both columns. *)

Fetch(p) ==
  /\ pc[p] = "fetch"
  /\ source' = [source EXCEPT ![p] = "live"]
  /\ Go(p, "save")
  /\ UNCHANGED <<row, keys, conn, taken, answer, edit, edited, faults>>

SaveEffect(c, list) ==
  /\ models' = [models EXCEPT ![c] = list]
  /\ at' = [at EXCEPT ![c] = "fresh"]
  /\ lock' = [lock EXCEPT ![c] = IF lock[c] = "expiring" THEN "older" ELSE lock[c]]

Save(p) ==
  /\ pc[p] = "save" /\ active[conn[p]] # "deleted"
  /\ SaveEffect(conn[p], [version |-> taken[p], source |-> source[p]])
  /\ Answer(p, "served")
  /\ Rest(p)
  /\ UNCHANGED <<config, active, queue, conn, taken, source, edit, edited, faults>>

\* The row is gone: the update throws, and so does the call.
SaveThrows(p) ==
  /\ pc[p] = "save" /\ active[conn[p]] = "deleted"
  /\ Answer(p, "threw")
  /\ Rest(p)
  /\ UNCHANGED <<row, keys, conn, taken, source, edit, edited, faults>>
-----------------------------------------------------------------------------
(* A service updates the connection and calls invalidateCache. *)

EditRow(c) ==
  /\ edit = "idle" /\ active[c] # "deleted"
  /\ config[c] < MaxEdits
  /\ config' = [config EXCEPT ![c] = @ + 1]
  /\ edit' = "update"
  /\ edited' = c
  /\ UNCHANGED <<active, models, at, keys, procs, faults>>

\* Defect: the list is marked stale, be there one or not.
ClearTimestampAsStale ==
  /\ edit = "update"
  /\ at' = [at EXCEPT ![edited] = "stale"]
  /\ edit' = "del"
  /\ UNCHANGED <<config, active, models, keys, procs, edited, faults>>

ClearTimestamp ==
  /\ edit = "update"
  /\ at' = IF active[edited] = "deleted" THEN at ELSE [at EXCEPT ![edited] = "null"]
  /\ edit' = IF active[edited] = "deleted" THEN "idle" ELSE "del"
  /\ UNCHANGED <<config, active, models, keys, procs, edited, faults>>

DropLock ==
  /\ edit = "del"
  /\ lock' = [lock EXCEPT ![edited] = "absent"]
  /\ edit' = "idle"
  /\ UNCHANGED <<row, queue, procs, edited, faults>>
-----------------------------------------------------------------------------
(* Time *)

Age(c) ==
  /\ at[c] = "fresh" /\ lock[c] # "older"
  /\ at' = [at EXCEPT ![c] = "stale"]
  /\ UNCHANGED <<config, active, models, keys, procs, edit, edited, faults>>

Pushers == {r \in Readers : pc[r] = "push"}

\* The queue is kept short for TLC: no lock lapses while it is full.
LockExpires(c) ==
  /\ lock[c] \in {"expiring", "older"}
  /\ Len(queue) < MaxQueue /\ Pushers = {}
  /\ lock' = [lock EXCEPT ![c] = "absent"]
  /\ UNCHANGED <<row, queue, procs, edit, edited, faults>>
-----------------------------------------------------------------------------
(* What can go wrong; each takes one of MaxFaults. *)

\* The provider does not answer in time: the static list stands in.
FetchFails(p) ==
  /\ pc[p] = "fetch"
  /\ source' = [source EXCEPT ![p] = "static"]
  /\ Go(p, "save")
  /\ UNCHANGED <<row, keys, conn, taken, answer, edit, edited>>

\* Redis or PostgreSQL rejects; the lock may have been set all the same.  A
\* background step and a job give up quietly, a cold fetch throws.
AwaitRejects(p) ==
  /\ pc[p] \in {"lock", "push", "find", "save"}
  /\ lock' \in {lock, IF pc[p] = "lock" /\ lock[conn[p]] = "absent"
                        THEN [lock EXCEPT ![conn[p]] = "expiring"] ELSE lock}
  /\ IF pc[p] = "save" THEN Answer(p, "threw") ELSE UNCHANGED answer
  /\ Rest(p)
  /\ UNCHANGED <<row, queue, conn, taken, source, edit, edited>>

\* A failure of the DEL of invalidateCache is swallowed, one of its update
\* leaves the timestamp.
InvalidateFails ==
  /\ edit # "idle"
  /\ edit' = "idle"
  /\ UNCHANGED <<row, keys, procs, edited>>

\* The process dies; initApp starts the worker of the next one.
Crash ==
  /\ pc' = [p \in Procs |-> IF p = Worker THEN "pop" ELSE "idle"]
  /\ edit' = "idle"
  /\ UNCHANGED <<row, keys, conn, taken, source, answer, edited>>

\* A user disables, enables or deletes the connection.
SetActive(c, state) ==
  /\ active[c] \notin {state, "deleted"}
  /\ active' = [active EXCEPT ![c] = state]
  /\ UNCHANGED <<config, models, at, keys, procs, edit, edited>>

Fault ==
  /\ faults < MaxFaults
  /\ faults' = faults + 1
  /\ \/ \E p \in Procs : FetchFails(p) \/ AwaitRejects(p)
     \/ InvalidateFails
     \/ Crash
     \/ \E c \in Conns, state \in {"active", "inactive", "deleted"} : SetActive(c, state)
-----------------------------------------------------------------------------
GetModels(r) == \E c \in Conns : ServeFresh(r, c) \/ ServeStale(r, c) \/ FetchCold(r, c)

Background(r) == TakeLock(r) \/ Push(r)

RefreshNow(p) == Fetch(p) \/ Save(p) \/ SaveThrows(p)

Job == Pop \/ Find \/ RefreshNow(Worker)

Invalidate == ClearTimestamp \/ DropLock

Next ==
  \/ \E r \in Readers : GetModels(r) \/ Background(r) \/ RefreshNow(r)
  \/ Job
  \/ \E c \in Conns : EditRow(c) \/ Age(c) \/ LockExpires(c)
  \/ Invalidate
  \/ Fault

Spec == Init /\ [][Next]_vars

\* Clients keep asking for every connection, each await settles, time passes.
\* Edits and faults are never obliged to happen.
Fairness ==
  /\ \A c \in Conns :
       /\ WF_vars(\E r \in Readers : ServeStale(r, c) \/ FetchCold(r, c))
       /\ WF_vars(Age(c))
       /\ WF_vars(LockExpires(c))
  /\ \A r \in Readers : WF_vars(Background(r) \/ RefreshNow(r))
  /\ WF_vars(Job)
  /\ WF_vars(Invalidate)

FairSpec == Spec /\ Fairness
-----------------------------------------------------------------------------
(* Properties *)

Pending(c) ==
  \/ \E i \in 1 .. Len(queue) : queue[i] = c
  \/ \E r \in Readers : pc[r] = "push" /\ conn[r] = c
  \/ pc[Worker] \in {"find", "fetch", "save"} /\ conn[Worker] = c

(* While nothing fails, a lock taken since the list was last saved always has
   its job somewhere on the way: no order of locks, pushes, refreshes and
   invalidations blocks the refresh of a stale list behind an empty lock. *)
LockHasJob ==
  faults = 0 => \A c \in Conns : lock[c] = "expiring" => Pending(c)

(* Once edits and failures are over, the cache always gets back to what the
   provider answers for the connection's current version: lost jobs, orphaned
   locks, static stand-ins and overwritten invalidations are all outlived. *)
Current(c) == models[c] = [version |-> config[c], source |-> "live"]

CacheConverges == \A c \in Conns : []<>(active[c] # "active" \/ Current(c))

(* What modelCache.ts:88-90 says of invalidateCache: it forces the next request
   to refetch.  A list of an older version is never fresh once it returned. *)
InvalidateForcesRefetch ==
  faults = 0 => \A c \in Conns :
    at[c] = "fresh" /\ ~(edit # "idle" /\ edited = c) => models[c].version = config[c]
=============================================================================
