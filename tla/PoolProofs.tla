----------------------------- MODULE PoolProofs -----------------------------
(***************************************************************************)
(* Theorems about the pool of EntryStore, its queue and the futures of its *)
(* jobs: that nobody waits for nothing, and what a flush returns, for any  *)
(* number of jobs, workers and waiters.                                    *)
(***************************************************************************)
EXTENDS EntryStoreProofs, FiniteSetTheorems, SequenceTheorems

USE CallsAssumption, DistinctCallsAssumption, MaxWorkersAssumption

\* A request of a persist moves its own build, which was under way, and
\* nothing that the pool or a waiter keeps.
LEMMA PersistsKeepToThemselves ==
  ASSUME TypeOK, NEW b \in Build, PersistStep(b)
  PROVE  /\ Running(b)
         /\ pc' = [pc EXCEPT ![b] = pc'[b]] /\ pc'[b] \notin Waiting \cup {"refused"}
         /\ UNCHANGED <<pool, evicting, flushing, crashed, before>>
<1> DEFINE Goal == /\ Running(b)
                   /\ pc' = [pc EXCEPT ![b] = pc'[b]] /\ pc'[b] \notin Waiting \cup {"refused"}
                   /\ UNCHANGED <<pool, evicting, flushing, crashed, before>>
<1> USE DEF TypeOK, Persisting, Goto, Running, Waiting, Finished
<1>0. CASE EncodeFails(b)
  BY <1>0 DEF EncodeFails
<1>1. ASSUME NEW reply \in Reply, CreateEntryDatabase(b, reply) PROVE Goal
  BY <1>1 DEF CreateEntryDatabase
<1>2. ASSUME NEW reply \in Reply, LoadEntry(b, reply) PROVE Goal
  BY <1>2 DEF LoadEntry
<1>3. CASE MintResult(b)
  BY <1>3 DEF MintResult
<1>4. ASSUME NEW reply \in Reply, MarkReady(b, reply) PROVE Goal
  BY <1>4 DEF MarkReady
<1>5. CASE CreateIndexes(b)
  BY <1>5 DEF CreateIndexes
<1>6. ASSUME NEW reply \in Reply, CleanupDatabase(b, reply) PROVE Goal
  BY <1>6 DEF CleanupDatabase
<1>7. CASE CleanupLookup(b)
  BY <1>7 DEF CleanupLookup
<1>8. ASSUME NEW reply \in Reply, MarkFailed(b, reply) PROVE Goal
  BY <1>8 DEF MarkFailed
<1>9. QED
  BY <1>0, <1>1, <1>2, <1>3, <1>4, <1>5, <1>6, <1>7, <1>8 DEF PersistStep

\* An evict keeps to itself what the pool and the flushes work with.
LEMMA EvictsKeepToThemselves ==
  ASSUME NEW e \in Evictor, EvictStep(e)
  PROVE  /\ UNCHANGED <<building, pool, flushing, crashed, before, epending>>
         /\ epc' = [epc EXCEPT ![e] = epc'[e]]
         /\ TypeOK => epc'[e] # "wait"
BY DEF EvictStep, EvictLookup, EvictDeleteRow, EvictDeleteDatabase, Evicting, EvictGoto, TypeOK

-----------------------------------------------------------------------------

\* What is in _inflight, and what an evict or a flush waits for, are jobs of
\* its own process: no process ever waits for another's threads.
LEMMA FuturesAreOwn == Spec => []OwnFutures
<1> USE DEF TypeOK, OwnFutures, Submitted, OwnBackground
<1>1. Init => OwnFutures
  BY DEF Init
<1>2. TypeOK /\ OwnFutures /\ [Next]_vars => OwnFutures'
  <2> SUFFICES ASSUME TypeOK, OwnFutures, [Next]_vars PROVE OwnFutures'
    OBVIOUS
  <2> USE DEF building, pool, evicting, flushing
  <2>1. ASSUME NEW b \in Build, Submit(b) PROVE OwnFutures'
    <3>1. /\ pc' = [pc EXCEPT ![b] = "queued"] /\ b \in Background
          /\ inflight' = [inflight EXCEPT ![Owner[b]] = @ \cup {b}]
          /\ UNCHANGED <<epending, fpending>>
      BY <2>1 DEF Submit, Tracking
    <3>2. QED
      BY <3>1
  <2>0. ASSUME NEW b \in Build, SubmitRaises(b) PROVE OwnFutures'
    BY <2>0 DEF SubmitRaises
  <2>2. ASSUME NEW b \in Build, MaterializeSync(b) PROVE OwnFutures'
    <3>1. /\ pc' = [pc EXCEPT ![b] = "create"] /\ b \notin Background
          /\ UNCHANGED <<inflight, epending, fpending>>
      BY <2>2 DEF MaterializeSync
    <3>2. QED
      BY <3>1
  <2>3. ASSUME NEW b \in Build, StartJob(b) PROVE OwnFutures'
    BY <2>3 DEF StartJob
  <2>4. ASSUME NEW b \in Build, Untrack(b) PROVE OwnFutures'
    BY <2>4 DEF Untrack, Untracking
  <2>5. ASSUME NEW b \in Build, PersistStep(b) PROVE OwnFutures'
    BY <2>5, PersistsKeepToThemselves DEF Waiting
  <2>6. ASSUME NEW e \in Evictor, EvictSnapshot(e) PROVE OwnFutures'
    BY <2>6 DEF EvictSnapshot, EvictGoto
  <2>7. ASSUME NEW e \in Evictor, EvictStep(e) PROVE OwnFutures'
    BY <2>7, EvictsKeepToThemselves
  <2>8. ASSUME NEW g \in Flusher, FlushSnapshot(g) PROVE OwnFutures'
    BY <2>8 DEF FlushSnapshot
  <2>9. ASSUME NEW g \in Flusher, FlushReturn(g) PROVE OwnFutures'
    BY <2>9 DEF FlushReturn
  <2>10. ASSUME NEW p \in Process, Crash(p) PROVE OwnFutures'
    BY <2>10 DEF Crash
  <2>11. CASE UNCHANGED vars
    BY <2>11 DEF vars
  <2>12. QED
    BY <2>0, <2>1, <2>2, <2>3, <2>4, <2>5, <2>6, <2>7, <2>8, <2>9, <2>10, <2>11
    DEF Next, LibraryStep, EnvironmentStep
<1>3. QED
  BY <1>1, <1>2, TypeCorrect, PTL DEF Spec

LEMMA AppendLists ==
  ASSUME NEW T, NEW S \in SUBSET T, NEW s \in Seq(T), Lists(s, S), NEW x \in T, x \notin S
  PROVE  Lists(Append(s, x), S \cup {x})
<1> DEFINE r == Append(s, x)
           n == Len(s)
<1>1. /\ n \in Nat /\ Len(r) = n + 1 /\ r[n + 1] = x
      /\ \A i \in 1..n : r[i] = s[i]
  BY AppendProperties
<1> HIDE DEF r, n
<1>2. \A i \in 1..(n + 1) : i \in 1..n \/ i = n + 1
  BY <1>1
<1>3. /\ \A i \in 1..n : s[i] \in S /\ s[i] # x
      /\ \A y \in S : \E i \in 1..n : s[i] = y
      /\ \A i, j \in 1..n : s[i] = s[j] => i = j
  BY DEF Lists, n
<1>4. \A i \in 1..Len(r) : r[i] \in S \cup {x}
  BY <1>1, <1>2, <1>3
<1>5. \A y \in S \cup {x} : \E i \in 1..Len(r) : r[i] = y
  <2>1. n + 1 \in 1..(n + 1) /\ \A i \in 1..n : i \in 1..(n + 1)
    BY <1>1
  <2>2. QED
    BY <1>1, <1>3, <2>1
<1>6. \A i, j \in 1..Len(r) : r[i] = r[j] => i = j
  BY <1>1, <1>2, <1>3
<1>7. QED
  BY <1>4, <1>5, <1>6 DEF Lists, r

LEMMA TailLists ==
  ASSUME NEW T, NEW S \in SUBSET T, NEW s \in Seq(T), Lists(s, S), s # <<>>
  PROVE  Head(s) \in S /\ Lists(Tail(s), S \ {Head(s)})
<1> DEFINE r == Tail(s)
           n == Len(s)
           x == Head(s)
<1>1. /\ n \in Nat /\ n >= 1 /\ s[1] = x /\ Len(r) = n - 1
      /\ \A i \in 1..(n - 1) : r[i] = s[i + 1]
  BY HeadTailProperties
<1> HIDE DEF r, n, x
<1>2. /\ 1 \in 1..n
      /\ \A i \in 1..(n - 1) : i + 1 \in 1..n /\ i + 1 # 1
      /\ \A i \in 1..n : i # 1 => i - 1 \in 1..(n - 1) /\ (i - 1) + 1 = i
  BY <1>1
<1>3. /\ \A i \in 1..n : s[i] \in S
      /\ \A y \in S : \E i \in 1..n : s[i] = y
      /\ \A i, j \in 1..n : s[i] = s[j] => i = j
  BY DEF Lists, n
<1>4. ASSUME NEW i \in 1..Len(r) PROVE r[i] \in S \ {x}
  <2>1. r[i] = s[i + 1] /\ i + 1 \in 1..n /\ i + 1 # 1
    BY <1>1, <1>2
  <2>2. s[i + 1] # s[1]
    BY <1>2, <1>3, <2>1
  <2>3. QED
    BY <1>1, <1>3, <2>1, <2>2
<1>5. ASSUME NEW y \in S \ {x} PROVE \E i \in 1..Len(r) : r[i] = y
  <2>1. PICK i \in 1..n : s[i] = y
    BY <1>3
  <2>2. i # 1
    BY <1>1, <2>1
  <2>3. r[i - 1] = y /\ i - 1 \in 1..Len(r)
    BY <1>1, <1>2, <2>1, <2>2
  <2>4. QED
    BY <2>3
<1>6. ASSUME NEW i \in 1..Len(r), NEW j \in 1..Len(r), r[i] = r[j] PROVE i = j
  <2>1. s[i + 1] = s[j + 1] /\ i + 1 \in 1..n /\ j + 1 \in 1..n
    BY <1>1, <1>2, <1>6
  <2>2. i + 1 = j + 1
    BY <1>3, <2>1
  <2>3. QED
    BY <1>1, <2>2
<1>7. QED
  BY <1>1, <1>2, <1>3, <1>4, <1>5, <1>6 DEF Lists, r, x

\* The queue of the pool has every queued job, once, and nothing else.
LEMMA QueuesAreExact == Spec => []QueueIsExact
<1> USE DEF TypeOK
<1>1. Init => QueueIsExact
  BY DEF Init, QueueIsExact, Queued, Lists, OwnBackground
<1>2. TypeOK /\ QueueIsExact /\ [Next]_vars => QueueIsExact'
  <2> SUFFICES ASSUME TypeOK, QueueIsExact, [Next]_vars PROVE QueueIsExact'
    OBVIOUS
  <2> USE DEF building, pool
  \* Most steps move neither the queue nor a job into it or out of it.
  <2>0. ASSUME UNCHANGED queue, \A b \in Build : pc'[b] = "queued" <=> pc[b] = "queued"
        PROVE  QueueIsExact'
    <3>1. \A p \in Process : Queued(p)' = Queued(p)
      BY <2>0 DEF Queued, OwnBackground
    <3>2. QED
      BY <2>0, <3>1 DEF QueueIsExact, Lists
  <2>1. ASSUME NEW b \in Build, Submit(b) PROVE QueueIsExact'
    <3> DEFINE p == Owner[b]
    <3>1. /\ p \in Process /\ b \in Background /\ pc[b] = "idle" /\ MaxWorkers > 0
          /\ pc' = [pc EXCEPT ![b] = "queued"]
          /\ queue' = [queue EXCEPT ![p] = Append(queue[p], b)]
      BY <2>1 DEF Submit
    <3>2. Queued(p)' = Queued(p) \cup {b} /\ b \notin Queued(p) /\ Queued(p) \in SUBSET Build
      BY <3>1 DEF Queued, OwnBackground
    <3>3. Lists(Append(queue[p], b), Queued(p) \cup {b})
      <4>1. queue[p] \in Seq(Build) /\ Lists(queue[p], Queued(p))
        BY <3>1 DEF QueueIsExact
      <4>2. QED
        BY <3>2, <4>1, AppendLists
    <3>4. Lists(queue'[p], Queued(p)')
      BY <3>1, <3>2, <3>3
    <3>5. ASSUME NEW q \in Process, q # p PROVE Lists(queue'[q], Queued(q)')
      <4>1. queue'[q] = queue[q] /\ Queued(q)' = Queued(q)
        BY <3>1, <3>5 DEF Queued, OwnBackground
      <4>2. QED
        BY <4>1 DEF QueueIsExact
    <3>6. \A a \in Build : pc'[a] = "queued" => a \in Background /\ MaxWorkers > 0
      BY <3>1 DEF QueueIsExact
    <3>7. QED
      BY <3>4, <3>5, <3>6 DEF QueueIsExact, Lists
  <2>2. ASSUME NEW b \in Build, SubmitRaises(b) \/ MaterializeSync(b) PROVE QueueIsExact'
    BY <2>0, <2>2 DEF SubmitRaises, MaterializeSync
  <2>3. ASSUME NEW b \in Build, StartJob(b) PROVE QueueIsExact'
    <3> DEFINE p == Owner[b]
    <3>1. /\ p \in Process /\ queue[p] # <<>> /\ b = Head(queue[p])
          /\ pc' = [pc EXCEPT ![b] = "create"]
          /\ queue' = [queue EXCEPT ![p] = Tail(queue[p])]
      BY <2>3 DEF StartJob
    <3>2. Queued(p)' = Queued(p) \ {b} /\ Queued(p) \in SUBSET Build
      BY <3>1 DEF Queued, OwnBackground
    <3>3. Lists(Tail(queue[p]), Queued(p) \ {b})
      <4>1. queue[p] \in Seq(Build) /\ Lists(queue[p], Queued(p))
        BY <3>1 DEF QueueIsExact
      <4>2. QED
        BY <3>1, <3>2, <4>1, TailLists
    <3>4. Lists(queue'[p], Queued(p)')
      BY <3>1, <3>2, <3>3
    <3>5. ASSUME NEW q \in Process, q # p PROVE Lists(queue'[q], Queued(q)')
      <4>1. queue'[q] = queue[q] /\ Queued(q)' = Queued(q)
        BY <3>1, <3>5 DEF Queued, OwnBackground
      <4>2. QED
        BY <4>1 DEF QueueIsExact
    <3>6. \A a \in Build : pc'[a] = "queued" => a \in Background /\ MaxWorkers > 0
      BY <3>1 DEF QueueIsExact
    <3>7. QED
      BY <3>4, <3>5, <3>6 DEF QueueIsExact, Lists
  <2>4. ASSUME NEW b \in Build, Untrack(b) PROVE QueueIsExact'
    BY <2>0, <2>4 DEF Untrack
  <2>5. ASSUME NEW b \in Build, PersistStep(b) PROVE QueueIsExact'
    BY <2>0, <2>5, PersistsKeepToThemselves DEF Running, Waiting
  <2>6. ASSUME NEW e \in Evictor, EvictSnapshot(e) PROVE QueueIsExact'
    BY <2>0, <2>6 DEF EvictSnapshot, EvictGoto
  <2>7. ASSUME NEW e \in Evictor, EvictStep(e) PROVE QueueIsExact'
    BY <2>0, <2>7, EvictsKeepToThemselves
  <2>8. ASSUME NEW g \in Flusher, FlushSnapshot(g) PROVE QueueIsExact'
    BY <2>0, <2>8 DEF FlushSnapshot
  <2>9. ASSUME NEW g \in Flusher, FlushReturn(g) PROVE QueueIsExact'
    BY <2>0, <2>9 DEF FlushReturn
  <2>10. ASSUME NEW p \in Process, Crash(p) PROVE QueueIsExact'
    BY <2>0, <2>10 DEF Crash
  <2>11. CASE UNCHANGED vars
    BY <2>0, <2>11 DEF vars
  <2>12. QED
    BY <2>1, <2>2, <2>3, <2>4, <2>5, <2>6, <2>7, <2>8, <2>9, <2>10, <2>11
    DEF Next, LibraryStep, EnvironmentStep
<1>3. QED
  BY <1>1, <1>2, TypeCorrect, PTL DEF Spec

-----------------------------------------------------------------------------

\* Nobody waits for nothing (store.py, evict and flush over _inflight; the
\* pool's queue): while a job is queued or waited for, one of the same process
\* is under way or has a free worker.
THEOREM PoolIsNeverStuck == Spec => []NobodyWaitsForNothing
<1>1. TypeOK /\ QueueIsExact /\ OwnFutures => NobodyWaitsForNothing
  <2> SUFFICES ASSUME TypeOK, QueueIsExact, OwnFutures PROVE NobodyWaitsForNothing
    OBVIOUS
  <2>1. ASSUME NEW b \in Build, pc[b] = "queued" PROVE PoolMoves(Owner[b])
    <3> DEFINE p == Owner[b]
    <3>1. /\ p \in Process /\ b \in Queued(p) /\ MaxWorkers > 0
          /\ Lists(queue[p], Queued(p)) /\ queue[p] \in Seq(Build)
      BY <2>1 DEF QueueIsExact, Queued, OwnBackground, TypeOK
    <3>2. queue[p] # <<>>
      BY <3>1 DEF Lists
    <3>3. Queued(p) \in SUBSET Build
      BY DEF Queued, OwnBackground
    <3>4. Head(queue[p]) \in Queued(p)
      BY <3>1, <3>2, <3>3, TailLists
    <3>5. CASE Occupied(p) = {}
      <4> DEFINE h == Head(queue[p])
      <4>1. h \in OwnBackground(p) /\ pc[h] = "queued" /\ Owner[h] = p
        BY <3>4 DEF Queued, OwnBackground
      <4>2. Cardinality(Occupied(p)) < MaxWorkers
        BY <3>1, <3>5, FS_EmptySet
      <4>3. Startable(h)
        BY <3>2, <4>1, <4>2 DEF Startable
      <4>4. QED
        BY <4>1, <4>3 DEF PoolMoves
    <3>6. CASE Occupied(p) # {}
      BY <3>6 DEF PoolMoves, Occupied
    <3>7. QED
      BY <3>5, <3>6
  <2>2. ASSUME NEW p \in Process, NEW pending \in SUBSET Submitted(p), ~WaitOver(pending)
        PROVE  PoolMoves(p)
    <3>1. PICK b \in pending : ~Finished(b)
      BY <2>2 DEF WaitOver
    <3>2. b \in OwnBackground(p) /\ pc[b] # "idle" /\ b \in Build /\ Owner[b] = p
      BY DEF Submitted, OwnBackground
    <3>3. CASE pc[b] = "queued"
      BY <2>1, <3>2, <3>3
    <3>4. CASE pc[b] # "queued"
      BY <3>1, <3>2, <3>4 DEF PoolMoves, Running, Waiting
    <3>5. QED
      BY <3>3, <3>4
  <2>3. QED
    BY <2>1, <2>2 DEF NobodyWaitsForNothing, OwnFutures
<1>2. QED
  BY <1>1, TypeCorrect, QueuesAreExact, FuturesAreOwn, PTL

\* What flush returns (store.py, flush): of the jobs it found tracked, the
\* exceptions of those that are done, which without a timeout are all.  What
\* FlushSurfacesFailures asks for beyond that is what the code does not do.
THEOREM FlushReportsFailures == Spec => []FlushReportsWhatItFound
<1> USE DEF TypeOK, FlushReportsWhatItFound, HasFailed
<1>1. Init => FlushReportsWhatItFound
  BY DEF Init
<1> DEFINE Inv == TypeOK /\ FlushReportsWhatItFound
           \* A flush that is done has waited for all of its jobs, or is timed.
           Over == \A g \in Flusher \ Timed : fpc[g] = "done" => WaitOver(fpending[g])
           Unset == \A g \in Flusher : fpc[g] # "done" => freported[g] = {}
<1>2. Init => Over /\ Unset
  BY DEF Init
<1>3. Inv /\ Over /\ Unset /\ [Next]_vars => FlushReportsWhatItFound' /\ Over' /\ Unset'
  <2> SUFFICES ASSUME Inv, Over, Unset, [Next]_vars
               PROVE  FlushReportsWhatItFound' /\ Over' /\ Unset'
    OBVIOUS
  <2> DEFINE Goal == FlushReportsWhatItFound' /\ Over' /\ Unset'
  <2> USE DEF building, pool, evicting, flushing, WaitOver, Finished
  \* A build that is over stays as it is, and one that is not may come to fail.
  <2>1. ASSUME UNCHANGED flushing, \A b \in Build : Finished(b) => pc'[b] = pc[b]
        PROVE  Goal
    BY <2>1
  <2>2. ASSUME NEW b \in Build,
               \/ Submit(b) \/ SubmitRaises(b) \/ MaterializeSync(b)
               \/ StartJob(b) \/ Untrack(b) \/ PersistStep(b)
        PROVE  Goal
    <3>1. CASE PersistStep(b)
      BY <2>1, <3>1, PersistsKeepToThemselves DEF Running
    <3>2. CASE Submit(b) \/ SubmitRaises(b) \/ MaterializeSync(b) \/ StartJob(b) \/ Untrack(b)
      BY <2>1, <3>2 DEF Submit, SubmitRaises, MaterializeSync, StartJob, Untrack
    <3>3. QED
      BY <2>2, <3>1, <3>2
  <2>3. ASSUME NEW e \in Evictor, EvictSnapshot(e) \/ EvictStep(e) PROVE Goal
    BY <2>1, <2>3, EvictsKeepToThemselves DEF EvictSnapshot, EvictGoto
  <2>4. ASSUME NEW g \in Flusher, FlushSnapshot(g) PROVE Goal
    BY <2>4 DEF FlushSnapshot
  <2>5. ASSUME NEW g \in Flusher, FlushReturn(g) PROVE Goal
    BY <2>5 DEF FlushReturn
  <2>6. ASSUME NEW p \in Process, Crash(p) PROVE Goal
    BY <2>1, <2>6 DEF Crash
  <2>7. CASE UNCHANGED vars
    BY <2>1, <2>7 DEF vars
  <2>8. QED
    BY <2>2, <2>3, <2>4, <2>5, <2>6, <2>7 DEF Next, LibraryStep, EnvironmentStep
<1>4. QED
  BY <1>1, <1>2, <1>3, TypeCorrect, PTL DEF Spec
=============================================================================
