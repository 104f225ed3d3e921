------------------------ MODULE IndexCreationProofs -------------------------
(***************************************************************************)
(* Theorems about IndexCreation for all declarations and all times a load  *)
(* may keep its table locked.                                              *)
(***************************************************************************)
EXTENDS IndexCreation, EntryStoreProofs

USE DeclaredAssumption

\* One attempt is either the step of EntryStore that ends the index creation,
\* or leaves EntryStore's state alone.
LEMMA AttemptsAreStoreSteps ==
  ASSUME TypeOK, NEW b \in Build, IndexStep(b)
  PROVE  CreateIndexes(b) \/ UNCHANGED vars
<1> USE DEF Creating, Persisting, Goto
<1>1. ASSUME Creating(b), Goto(b, "index") PROVE UNCHANGED vars
  BY <1>1 DEF TypeOK, vars, building
<1>2. ASSUME Creating(b), NEW phase \in {"done", "index_failed"}, Goto(b, phase)
      PROVE  CreateIndexes(b)
  BY <1>2 DEF CreateIndexes
<1>3. CASE CreateIndex(b)
  <2>1. CASE position[b] + 1 = Len(Declared[b])
    BY <1>2, <1>3, <2>1 DEF CreateIndex
  <2>2. CASE position[b] + 1 # Len(Declared[b])
    BY <1>1, <1>3, <2>2 DEF CreateIndex
  <2>3. QED
    BY <2>1, <2>2
<1>4. CASE RetryConflict(b)
  BY <1>1, <1>4 DEF RetryConflict
<1>5. CASE LastConflict(b)
  BY <1>2, <1>5 DEF LastConflict
<1>6. CASE IndexRefused(b)
  BY <1>2, <1>6 DEF IndexRefused
<1>7. QED
  BY <1>3, <1>4, <1>5, <1>6 DEF IndexStep

\* Every step of the composition is one of EntryStore, or stutters there.
LEMMA IndexStepsAreStoreSteps ==
  ASSUME TypeOK, [IndexNext]_indexVars PROVE [Next]_vars
<1>1. CASE StoreStep
  BY <1>1 DEF StoreStep
<1>2. ASSUME NEW b \in Build, IndexStep(b) PROVE [Next]_vars
  <2>1. CreateIndexes(b) => Next
    BY DEF Next, LibraryStep, PersistStep
  <2>2. QED
    BY <1>2, <2>1, AttemptsAreStoreSteps
<1>3. CASE UNCHANGED indexVars
  BY <1>3 DEF indexVars
<1>4. QED
  BY <1>1, <1>2, <1>3 DEF IndexNext

\* EntryStore with the retry loop implements EntryStore, whatever is declared
\* and however long tables stay locked: what is proved of EntryStore holds
\* of the store with its loop (store.py, _create_index).
THEOREM LoopImplementsStore == IndexSpec => ImplementsStore
<1>1. IndexInit => Init /\ TypeOK
  BY DEF IndexInit, Init, ServiceInit, TypeOK, ServiceTypeOK, DatabaseState, Row, Phase
<1>2. TypeOK /\ [IndexNext]_indexVars => [Next]_vars /\ TypeOK'
  BY IndexStepsAreStoreSteps, TypesAreKept
<1>3. QED
  BY <1>1, <1>2, PTL DEF IndexSpec, ImplementsStore, Spec

-----------------------------------------------------------------------------

\* How a step of EntryStore moves a build in and out of index creation.
LEMMA BuildsMove ==
  ASSUME TypeOK, [Next]_vars, NEW c \in Build
  PROVE  /\ pc[c] \in {"done", "index_failed"} =>
              pc'[c] = pc[c] /\ (database'[c] = "loaded" => database[c] = "loaded")
         /\ pc[c] \notin {"index", "done", "index_failed"} =>
              /\ pc'[c] # "index_failed"
              /\ pc'[c] = "index" => c \in Indexed
              /\ pc'[c] = "done" => c \notin Indexed
<1> DEFINE G == /\ pc[c] \in {"done", "index_failed"} =>
                     pc'[c] = pc[c] /\ (database'[c] = "loaded" => database[c] = "loaded")
                /\ pc[c] \notin {"index", "done", "index_failed"} =>
                     /\ pc'[c] # "index_failed"
                     /\ pc'[c] = "index" => c \in Indexed
                     /\ pc'[c] = "done" => c \notin Indexed
<1> SUFFICES G
  OBVIOUS
<1> USE DEF TypeOK, ServiceTypeOK, building, pool, evicting, flushing, service
<1>1. ASSUME NEW b \in Build,
             Submit(b) \/ SubmitRaises(b) \/ MaterializeSync(b) \/ StartJob(b) \/ Untrack(b)
      PROVE  G
  BY <1>1 DEF Submit, SubmitRaises, MaterializeSync, StartJob, Untrack
<1>2. ASSUME NEW b \in Build, PersistStep(b) PROVE G
  <2> USE DEF Persisting, Goto, SetDatabase, SetRow
  <2>1. CASE EncodeFails(b) \/ MintResult(b) \/ CleanupLookup(b)
    BY <2>1 DEF EncodeFails, MintResult, CleanupLookup
  <2>2. ASSUME NEW reply \in Reply, CreateEntryDatabase(b, reply) \/ CleanupDatabase(b, reply)
        PROVE  G
    BY <2>2 DEF CreateEntryDatabase, CleanupDatabase
  <2>3. ASSUME NEW reply \in Reply, LoadEntry(b, reply) PROVE G
    BY <2>3 DEF LoadEntry
  <2>4. ASSUME NEW reply \in Reply, MarkReady(b, reply) PROVE G
    BY <2>4 DEF MarkReady
  <2>5. CASE CreateIndexes(b)
    BY <2>5 DEF CreateIndexes
  <2>6. ASSUME NEW reply \in Reply, MarkFailed(b, reply) PROVE G
    BY <2>6 DEF MarkFailed
  <2>7. QED
    BY <1>2, <2>1, <2>2, <2>3, <2>4, <2>5, <2>6 DEF PersistStep
<1>3. ASSUME NEW e \in Evictor, EvictSnapshot(e) PROVE G
  BY <1>3 DEF EvictSnapshot, EvictGoto
<1>4. ASSUME NEW e \in Evictor, EvictStep(e) PROVE G
  <2> USE DEF EvictGoto, SetDatabase, SetRow
  <2>1. CASE EvictLookup(e)
    BY <2>1 DEF EvictLookup
  <2>2. ASSUME NEW reply \in Reply, EvictDeleteRow(e, reply) PROVE G
    BY <2>2 DEF EvictDeleteRow
  <2>3. ASSUME NEW reply \in Reply, EvictDeleteDatabase(e, reply) PROVE G
    BY <2>3 DEF EvictDeleteDatabase
  <2>4. QED
    BY <1>4, <2>1, <2>2, <2>3 DEF EvictStep
<1>5. ASSUME NEW g \in Flusher, FlushSnapshot(g) \/ FlushReturn(g) PROVE G
  BY <1>5 DEF FlushSnapshot, FlushReturn
<1>6. ASSUME NEW p \in Process, Crash(p) PROVE G
  BY <1>6 DEF Crash
<1>7. CASE UNCHANGED vars
  BY <1>7 DEF vars
<1>8. QED
  BY <1>1, <1>2, <1>3, <1>4, <1>5, <1>6, <1>7 DEF Next, LibraryStep, EnvironmentStep

\* What the indexes and the attempts of a build have to do with each other.
LEMMA LoopKeepsCount ==
  ASSUME IndexTypeOK, Progress, Patience, LocksAreWaitedOut, [IndexNext]_indexVars
  PROVE  IndexTypeOK' /\ Progress' /\ Patience' /\ LocksAreWaitedOut'
<1> USE DEF IndexTypeOK, Progress, Patience, LocksAreWaitedOut, LastAttempt, retries
<1>1. TypeOK' /\ [Next]_vars
  BY IndexStepsAreStoreSteps, TypesAreKept
<1>2. CASE UNCHANGED retries /\ \A b \in Build : pc[b] = "index" => pc'[b] = "index"
  <2>1. ASSUME NEW b \in Build, pc'[b] = "index" PROVE position[b] < Len(Declared[b])
    <3>1. CASE pc[b] = "index"
      BY <3>1
    <3>2. CASE pc[b] # "index"
      <4>1. b \in Indexed /\ position[b] = 0
        BY <1>1, <2>1, <3>2, BuildsMove
      <4>2. Declared[b] \in Seq(Index) /\ Declared[b] # <<>>
        BY <4>1
      <4>3. QED
        BY <4>1, <4>2
    <3>3. QED
      BY <3>1, <3>2
  <2>2. \A b \in Build : pc'[b] = "done" => position[b] = Len(Declared[b])
    BY <1>1, <1>2, BuildsMove
  <2>3. \A b \in Build : pc'[b] \notin {"index", "done", "index_failed"} => position[b] = 0
    BY <1>1, <1>2, BuildsMove
  <2>4. IndexTypeOK' /\ Progress' /\ Patience'
    BY <1>1, <1>2, <2>1, <2>2, <2>3 DEF Names
  <2>5. LocksAreWaitedOut'
    BY <1>1, <1>2, BuildsMove DEF Repeats
  <2>6. QED
    BY <2>4, <2>5
<1>3. ASSUME NEW b \in Build, IndexStep(b)
      PROVE  IndexTypeOK' /\ Progress' /\ Patience' /\ LocksAreWaitedOut'
  <2> USE <1>1 DEF Creating, Persisting, Goto, TypeOK, service
  <2>1. Declared[b] \in Seq(Index) /\ Len(Declared[b]) \in Nat /\ position[b] \in Nat
    OBVIOUS
  <2>2. CASE CreateIndex(b)
    <3>1. position[b] < Len(Declared[b]) /\ Current(b) \in Index
      BY <2>1, <2>2 DEF CreateIndex, Current
    <3>2. created'[b] = Names(b, position[b] + 1)
      BY <2>1, <2>2 DEF CreateIndex, Current, Names
    <3>3. IndexTypeOK'
      BY <2>1, <2>2, <3>1 DEF CreateIndex
    <3>4. Progress'
      <4> SUFFICES ASSUME NEW c \in Build
                   PROVE  /\ created'[c] = Names(c, position'[c])
                          /\ pc'[c] = "index" => position'[c] < Len(Declared[c])
                          /\ pc'[c] = "done" => position'[c] = Len(Declared[c])
                          /\ pc'[c] \notin {"index", "done", "index_failed"} => position'[c] = 0
        BY DEF Names
      <4>1. CASE c = b
        BY <2>1, <2>2, <3>1, <3>2, <4>1 DEF CreateIndex
      <4>2. CASE c # b
        BY <2>2, <4>2 DEF CreateIndex
      <4>3. QED
        BY <4>1, <4>2
    <3>5. Patience'
      BY <2>2 DEF CreateIndex, Conflict
    <3>6. LocksAreWaitedOut'
      BY <2>2 DEF CreateIndex, Repeats
    <3>7. QED
      BY <3>3, <3>4, <3>5, <3>6
  <2>3. CASE RetryConflict(b)
    <3>1. IndexTypeOK'
      <4>1. attempt[b] + 1 \in 0..5 /\ attempt' = [attempt EXCEPT ![b] = attempt[b] + 1]
        <5>1. attempt[b] \in 0..5 /\ attempt[b] < 5
          BY <2>3 DEF RetryConflict
        <5>2. attempt' = [attempt EXCEPT ![b] = attempt[b] + 1]
          BY <2>3 DEF RetryConflict
        <5>3. QED
          BY <5>1, <5>2
      <4>2. attempt' \in [Build -> 0..5]
        BY <4>1
      <4>3. slept' \in [Build -> Nat]
        BY <2>3 DEF RetryConflict, Sleep
      <4>4. \A c \in Build : pc'[c] = "index" => position'[c] < Len(Declared[c])
        BY <2>3 DEF RetryConflict
      <4>5. UNCHANGED <<position, created, hold>>
        BY <2>3 DEF RetryConflict, Sleep
      <4>6. QED
        BY <4>2, <4>3, <4>4, <4>5
    <3>2. Progress'
      BY <2>3 DEF RetryConflict, Sleep, Names
    <3>3. Patience'
      BY <2>3 DEF RetryConflict, Sleep
    <3>4. LocksAreWaitedOut'
      BY <2>3 DEF RetryConflict, Sleep, Repeats
    <3>5. QED
      BY <3>1, <3>2, <3>3, <3>4
  <2>4. CASE LastConflict(b)
    <3>1. IndexTypeOK' /\ Progress' /\ Patience'
      BY <2>4 DEF LastConflict, Names
    <3>2. hold[b] > 5 \/ Repeats(b)
      <4>1. CASE slept[b] < hold[b]
        BY <2>4, <4>1 DEF LastConflict
      <4>2. CASE Current(b) \in created[b]
        <5>1. PICK i \in 1..position[b] : Declared[b][position[b] + 1] = Declared[b][i]
          <6>1. created[b] = {Declared[b][i] : i \in 1..position[b]}
            BY DEF Names
          <6>2. QED
            BY <4>2, <6>1 DEF Current
        <5>2. position[b] < Len(Declared[b])
          BY <2>4 DEF LastConflict
        <5>3. /\ i \in 1..Len(Declared[b]) /\ position[b] + 1 \in 1..Len(Declared[b])
              /\ i < position[b] + 1
          BY <2>1, <5>1, <5>2
        <5>4. QED
          BY <5>1, <5>3 DEF Repeats
      <4>3. QED
        BY <2>4, <4>1, <4>2 DEF LastConflict, Conflict
    <3>3. LocksAreWaitedOut'
      BY <2>4, <3>2 DEF LastConflict, Repeats
    <3>4. QED
      BY <3>1, <3>3
  <2>5. CASE IndexRefused(b)
    <3>1. IndexTypeOK' /\ Progress' /\ Patience'
      BY <2>5 DEF IndexRefused, Names
    <3>2. LocksAreWaitedOut'
      BY <2>5 DEF IndexRefused, Repeats
    <3>3. QED
      BY <3>1, <3>2
  <2>6. QED
    BY <1>3, <2>2, <2>3, <2>4, <2>5 DEF IndexStep
<1>4. QED
  BY <1>2, <1>3 DEF IndexNext, StoreStep, indexVars, vars, building

\* The parts together are an invariant of the composition.
LEMMA LoopInvariant ==
  IndexSpec => [](IndexTypeOK /\ Progress /\ Patience /\ LocksAreWaitedOut)
<1> DEFINE Inv == IndexTypeOK /\ Progress /\ Patience /\ LocksAreWaitedOut
<1>1. IndexInit => Inv
  <2> SUFFICES ASSUME IndexInit PROVE Inv
    OBVIOUS
  <2> USE DEF IndexInit, Init
  <2>1. TypeOK
    BY DEF ServiceInit, TypeOK, ServiceTypeOK, DatabaseState, Row, Phase
  <2>2. hold \in [Build -> Nat]
    <3>1. UNION {Holds[b] : b \in Build} \subseteq Nat
      OBVIOUS
    <3>2. QED
      BY <3>1
  <2>3. IndexTypeOK
    BY <2>1, <2>2 DEF IndexTypeOK, LastAttempt
  <2>4. Progress /\ Patience /\ LocksAreWaitedOut
    BY DEF Progress, Patience, LocksAreWaitedOut, Names
  <2>5. QED
    BY <2>3, <2>4
<1>2. Inv /\ [IndexNext]_indexVars => Inv'
  BY LoopKeepsCount
<1>3. QED
  BY <1>1, <1>2, PTL DEF IndexSpec

\* Every variable of the loop keeps its type, and a build that creates indexes
\* has one left to create (store.py, _create_index).
THEOREM IndexTypeCorrect == IndexSpec => []IndexTypeOK
<1>1. QED
  BY LoopInvariant, PTL

\* A persist that ends well has all its indexes.
THEOREM SuccessIsComplete == IndexSpec => []SuccessMeansIndexed
<1>1. Progress => SuccessMeansIndexed
  BY DEF Progress, SuccessMeansIndexed, Names
<1>2. QED
  BY <1>1, LoopInvariant, PTL

\* A lock that goes in time costs nothing: index creation fails for a longer
\* lock, a refusal, a deleted database or a repeated declaration only.
THEOREM LocksDoNotFailIndexes == IndexSpec => []LocksAreWaitedOut
<1>1. QED
  BY LoopInvariant, PTL

\* With the retry loop in place of the one step it stands for, readers of the
\* registry still see a snapshot cache (store.py, _create_index).
THEOREM LoopImplementsCache == ASSUME ~LostAcks PROVE IndexSpec => CacheSpec
BY LoopImplementsStore, StoreImplementsCache, PTL DEF ImplementsStore

\* The same with lost acknowledgements, of the rows that were acknowledged.
THEOREM LoopImplementsLossyCache == IndexSpec => LossyCacheSpec
BY LoopImplementsStore, StoreImplementsLossyCache, PTL DEF ImplementsStore
=============================================================================
