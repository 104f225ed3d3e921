-------------------------- MODULE EntryStoreProofs --------------------------
(***************************************************************************)
(* Theorems about EntryStore for every number of processes, builds,        *)
(* evictions, flushes and fingerprints.                                    *)
(***************************************************************************)
EXTENDS EntryStoreProperties, TLAPS

USE CallsAssumption, DistinctCallsAssumption, NoRowAssumption, LostAcksAssumption

\* No step of any build, eviction or flush leaves a variable out of its type.
LEMMA TypesAreKept == TypeOK /\ [Next]_vars => TypeOK'
<1> USE DEF TypeOK, ServiceTypeOK, DatabaseState, Row, Phase
<1> SUFFICES ASSUME TypeOK, [Next]_vars PROVE TypeOK'
  OBVIOUS
<1> USE DEF building, pool, evicting, flushing, service
<1>0. ASSUME NEW b \in Build, SubmitRaises(b) PROVE TypeOK'
  BY <1>0 DEF SubmitRaises
<1>1. ASSUME NEW b \in Build, Submit(b) PROVE TypeOK'
  BY <1>1 DEF Submit, Tracking
<1>2. ASSUME NEW b \in Build, MaterializeSync(b) PROVE TypeOK'
  BY <1>2 DEF MaterializeSync
<1>3. ASSUME NEW b \in Build, StartJob(b) PROVE TypeOK'
  BY <1>3 DEF StartJob
<1>4. ASSUME NEW b \in Build, Untrack(b) PROVE TypeOK'
  BY <1>4 DEF Untrack, Untracking
<1>5. ASSUME NEW b \in Build, PersistStep(b) PROVE TypeOK'
  <2> USE DEF Persisting, Goto, SetDatabase, SetRow
  <2>0. CASE EncodeFails(b)
    BY <2>0 DEF EncodeFails
  <2>1. ASSUME NEW reply \in Reply, CreateEntryDatabase(b, reply) PROVE TypeOK'
    BY <2>1 DEF CreateEntryDatabase
  <2>2. ASSUME NEW reply \in Reply, LoadEntry(b, reply) PROVE TypeOK'
    BY <2>2 DEF LoadEntry
  <2>3. CASE MintResult(b)
    BY <2>3 DEF MintResult
  <2>4. ASSUME NEW reply \in Reply, MarkReady(b, reply) PROVE TypeOK'
    BY <2>4 DEF MarkReady, ReadyRow
  <2>5. CASE CreateIndexes(b)
    BY <2>5 DEF CreateIndexes
  <2>6. ASSUME NEW reply \in Reply, CleanupDatabase(b, reply) PROVE TypeOK'
    BY <2>6 DEF CleanupDatabase
  <2>7. CASE CleanupLookup(b)
    <3>1. CASE HasRow(Target[b]) /\ existing' = [existing EXCEPT ![b] = entries[Target[b]]]
               /\ Goto(b, "cleanup_mark")
      BY <2>7, <3>1 DEF CleanupLookup, HasRow
    <3>2. CASE Goto(b, "failed") /\ UNCHANGED existing
      BY <2>7, <3>2 DEF CleanupLookup
    <3>3. QED
      BY <2>7, <3>1, <3>2 DEF CleanupLookup
  <2>8. ASSUME NEW reply \in Reply, MarkFailed(b, reply) PROVE TypeOK'
    <3>1. FailedRow(existing[b]) \in Row
      BY <2>8 DEF MarkFailed, FailedRow
    <3>2. QED
      BY <2>8, <3>1 DEF MarkFailed
  <2>9. QED
    BY <1>5, <2>0, <2>1, <2>2, <2>3, <2>4, <2>5, <2>6, <2>7, <2>8 DEF PersistStep
<1>6. ASSUME NEW e \in Evictor, EvictSnapshot(e) PROVE TypeOK'
  BY <1>6 DEF EvictSnapshot, Evicting, EvictGoto, Submitted, OwnBackground
<1>7. ASSUME NEW e \in Evictor, EvictStep(e) PROVE TypeOK'
  <2> USE DEF Evicting, EvictGoto, SetDatabase, SetRow
  <2>1. CASE EvictLookup(e)
    <3>1. CASE eentry' = [eentry EXCEPT ![e] = entries[Target[e]]]
               /\ EvictGoto(e, "delete_row")
      BY <2>1, <3>1 DEF EvictLookup
    <3>2. CASE EvictGoto(e, "failed") /\ UNCHANGED eentry
      BY <2>1, <3>2 DEF EvictLookup
    <3>3. QED
      BY <2>1, <3>1, <3>2 DEF EvictLookup
  <2>2. ASSUME NEW reply \in Reply, EvictDeleteRow(e, reply) PROVE TypeOK'
    BY <2>2 DEF EvictDeleteRow
  <2>3. ASSUME NEW reply \in Reply, EvictDeleteDatabase(e, reply) PROVE TypeOK'
    BY <2>3 DEF EvictDeleteDatabase, EvictedDatabase
  <2>4. QED
    BY <1>7, <2>1, <2>2, <2>3 DEF EvictStep
<1>8. ASSUME NEW g \in Flusher, FlushSnapshot(g) PROVE TypeOK'
  BY <1>8 DEF FlushSnapshot, Submitted, OwnBackground
<1>9. ASSUME NEW g \in Flusher, FlushReturn(g) PROVE TypeOK'
  BY <1>9 DEF FlushReturn
<1>10. ASSUME NEW p \in Process, Crash(p) PROVE TypeOK'
  BY <1>10 DEF Crash
<1>11. CASE UNCHANGED vars
  BY <1>11 DEF vars
<1>12. QED
  BY <1>0, <1>1, <1>2, <1>3, <1>4, <1>5, <1>6, <1>7, <1>8, <1>9, <1>10, <1>11
  DEF Next, LibraryStep, EnvironmentStep

\* Every variable keeps its type: in particular no request ever stores a row
\* that is neither ready nor failed (registry.py, STATUS_*).
THEOREM TypeCorrect == Spec => []TypeOK
<1>1. Init => TypeOK
  BY DEF Init, ServiceInit, TypeOK, ServiceTypeOK, DatabaseState, Row, Phase
<1>2. QED
  BY <1>1, TypesAreKept, PTL DEF Spec

-----------------------------------------------------------------------------

\* Rows refer to builds that will not publish again, and data outlives them.
LEMMA RowsAreBacked == Spec => [](References /\ Backing)
<1> DEFINE Inv == References /\ Backing
<1> USE DEF TypeOK, ServiceTypeOK, Row, References, RefersBack, Backing,
            AcknowledgedRowIsBacked, ReadyRowOf, IsReady, HasRow, Published, Fresh,
            Stillborn, Waiting
<1>1. Init => Inv
  BY DEF Init, ServiceInit
<1>2. TypeOK /\ Inv /\ [Next]_vars => Inv'
  <2> SUFFICES ASSUME TypeOK, Inv, [Next]_vars PROVE Inv'
    OBVIOUS
  <2> USE DEF building, pool, evicting, flushing, service
  <2>0. ASSUME NEW b \in Build, SubmitRaises(b) PROVE Inv'
    BY <2>0 DEF SubmitRaises
  <2>1. ASSUME NEW b \in Build, Submit(b) PROVE Inv'
    BY <2>1 DEF Submit
  <2>2. ASSUME NEW b \in Build, MaterializeSync(b) PROVE Inv'
    BY <2>2 DEF MaterializeSync
  <2>3. ASSUME NEW b \in Build, StartJob(b) PROVE Inv'
    BY <2>3 DEF StartJob
  <2>4. ASSUME NEW b \in Build, Untrack(b) PROVE Inv'
    BY <2>4 DEF Untrack
  <2>5. ASSUME NEW b \in Build, PersistStep(b) PROVE Inv'
    <3> USE DEF Persisting, Goto, SetDatabase, SetRow, Reply, Raised, TookEffect
    <3>0. CASE EncodeFails(b)
      BY <3>0 DEF EncodeFails
    <3>1. ASSUME NEW reply \in Reply, CreateEntryDatabase(b, reply) PROVE Inv'
      BY <3>1 DEF CreateEntryDatabase
    <3>2. ASSUME NEW reply \in Reply, LoadEntry(b, reply) PROVE Inv'
      BY <3>2 DEF LoadEntry
    <3>3. CASE MintResult(b)
      BY <3>3 DEF MintResult
    <3>4. ASSUME NEW reply \in Reply, MarkReady(b, reply) PROVE Inv'
      BY <3>4 DEF MarkReady, ReadyRow
    <3>5. CASE CreateIndexes(b)
      BY <3>5 DEF CreateIndexes
    <3>6. ASSUME NEW reply \in Reply, CleanupDatabase(b, reply) PROVE Inv'
      BY <3>6 DEF CleanupDatabase
    <3>7. CASE CleanupLookup(b)
      <4>1. CASE HasRow(Target[b]) /\ existing' = [existing EXCEPT ![b] = entries[Target[b]]]
                 /\ Goto(b, "cleanup_mark")
        BY <3>7, <4>1 DEF CleanupLookup
      <4>2. CASE Goto(b, "failed") /\ UNCHANGED existing
        BY <3>7, <4>2 DEF CleanupLookup
      <4>3. QED
        BY <3>7, <4>1, <4>2 DEF CleanupLookup
    <3>8. ASSUME NEW reply \in Reply, MarkFailed(b, reply) PROVE Inv'
      BY <3>8 DEF MarkFailed, FailedRow
    <3>9. QED
      BY <2>5, <3>0, <3>1, <3>2, <3>3, <3>4, <3>5, <3>6, <3>7, <3>8 DEF PersistStep
  <2>6. ASSUME NEW e \in Evictor, EvictSnapshot(e) PROVE Inv'
    BY <2>6 DEF EvictSnapshot, Evicting, EvictGoto
  <2>7. ASSUME NEW e \in Evictor, EvictStep(e) PROVE Inv'
    <3> USE DEF Evicting, EvictGoto, SetDatabase, SetRow, Reply, Raised, TookEffect
    <3>1. CASE EvictLookup(e)
      <4>1. CASE eentry' = [eentry EXCEPT ![e] = entries[Target[e]]]
                 /\ EvictGoto(e, "delete_row")
        BY <3>1, <4>1 DEF EvictLookup
      <4>2. CASE EvictGoto(e, "failed") /\ UNCHANGED eentry
        BY <3>1, <4>2 DEF EvictLookup
      <4>3. QED
        BY <3>1, <4>1, <4>2 DEF EvictLookup
    <3>2. ASSUME NEW reply \in Reply, EvictDeleteRow(e, reply) PROVE Inv'
      BY <3>2 DEF EvictDeleteRow
    <3>3. ASSUME NEW reply \in Reply, EvictDeleteDatabase(e, reply) PROVE Inv'
      <4> DEFINE d == eentry[e].database_id
      <4>1. /\ epc[e] = "delete_db" /\ eentry[e] \in Row
            /\ d \in Build /\ ~Fresh(d) /\ Target[d] = Target[e]
            /\ ~ReadyRowOf(Target[e], d)
        BY <3>3 DEF EvictDeleteDatabase
      <4>2. /\ \A b \in Build : b # d => database'[b] = database[b]
            /\ UNCHANGED <<entries, pc, existing, eentry>>
            /\ \A i \in Evictor : i # e => epc'[i] = epc[i]
            /\ epc'[e] # "delete_db"
        BY <3>3, <4>1 DEF EvictDeleteDatabase, EvictedDatabase
      <4>3. References'
        BY <4>2
      <4>4. \A f \in Fingerprint : ~ReadyRowOf(f, d)
        BY <4>1
      <4>5. Backing'
        BY <4>1, <4>2, <4>4
      <4>6. QED
        BY <4>3, <4>5
    <3>4. QED
      BY <2>7, <3>1, <3>2, <3>3 DEF EvictStep
  <2>8. ASSUME NEW g \in Flusher, FlushSnapshot(g) PROVE Inv'
    BY <2>8 DEF FlushSnapshot
  <2>9. ASSUME NEW g \in Flusher, FlushReturn(g) PROVE Inv'
    BY <2>9 DEF FlushReturn
  <2>10. ASSUME NEW p \in Process, Crash(p) PROVE Inv'
    BY <2>10 DEF Crash
  <2>11. CASE UNCHANGED vars
    BY <2>11 DEF vars
  <2>12. QED
    BY <2>0, <2>1, <2>2, <2>3, <2>4, <2>5, <2>6, <2>7, <2>8, <2>9, <2>10, <2>11
    DEF Next, LibraryStep, EnvironmentStep
<1>3. QED
  BY <1>1, <1>2, TypeCorrect, PTL DEF Spec

\* A row whose mark_ready returned is over loaded data, whatever requests fail
\* or take effect unnoticed (store.py, one failure domain; row deleted first).
THEOREM AcknowledgedRowsHaveData == Spec => []AcknowledgedRowIsBacked
<1>1. References /\ Backing => AcknowledgedRowIsBacked
  BY DEF Backing
<1>2. QED
  BY <1>1, RowsAreBacked, PTL

\* If an exception means that the request had no effect, no reader ever finds
\* a ready row whose data is gone ...
THEOREM ReadyRowsHaveData == ASSUME ~LostAcks PROVE Spec => []NoDanglingReadyRow
<1>1. TypeOK /\ Backing => NoDanglingReadyRow
  <2> SUFFICES ASSUME TypeOK, Backing, NEW f \in Fingerprint, IsReady(f)
               PROVE database[entries[f].database_id] = "loaded"
    BY DEF NoDanglingReadyRow
  <2> DEFINE d == entries[f].database_id
  <2>1. d \in Build /\ ReadyRowOf(f, d)
    BY DEF TypeOK, ServiceTypeOK, Row, ReadyRowOf, IsReady, HasRow
  <2>2. Published(d)
    BY <2>1 DEF Backing
  <2>3. QED
    BY <2>1, <2>2 DEF Backing, AcknowledgedRowIsBacked
<1>2. QED
  BY <1>1, TypeCorrect, RowsAreBacked, PTL

\* ... and a persist that failed before publishing has no ready row.
THEOREM FailedPersistsAreInvisible ==
  ASSUME ~LostAcks PROVE Spec => []FailedPersistIsInvisible
<1>1. Backing => FailedPersistIsInvisible
  BY DEF Backing, FailedPersistIsInvisible, Published
<1>2. QED
  BY <1>1, RowsAreBacked, PTL

-----------------------------------------------------------------------------

\* Nobody who waits for a fingerprint's builds, or for all of them, misses one.
LEMMA WaitersKnowTheirBuilds == Spec => [](Tracked /\ Awaited)
<1> DEFINE Inv == Tracked /\ Awaited
<1> USE DEF TypeOK, Tracked, Awaited, Finished
<1>1. Init => Inv
  BY DEF Init
<1>2. TypeOK /\ Inv /\ [Next]_vars => Inv'
  <2> SUFFICES ASSUME TypeOK, Inv, [Next]_vars PROVE Inv'
    OBVIOUS
  <2> USE DEF building, pool, evicting, flushing
  <2>0. ASSUME NEW b \in Build, SubmitRaises(b) PROVE Inv'
    BY <2>0 DEF SubmitRaises
  <2>1. ASSUME NEW b \in Build, Submit(b) PROVE Inv'
    <3>1. Tracked'
      BY <2>1 DEF Submit, Tracking
    <3>2. Awaited'
      BY <2>1 DEF Submit
    <3>3. QED
      BY <3>1, <3>2
  <2>2. ASSUME NEW b \in Build, MaterializeSync(b) PROVE Inv'
    BY <2>2 DEF MaterializeSync
  <2>3. ASSUME NEW b \in Build, StartJob(b) PROVE Inv'
    BY <2>3 DEF StartJob
  <2>4. ASSUME NEW b \in Build, Untrack(b) PROVE Inv'
    BY <2>4 DEF Untrack, Untracking
  <2>5. ASSUME NEW b \in Build, PersistStep(b) PROVE Inv'
    <3>1. /\ pc[b] # "idle" /\ ~Finished(b)
          /\ pc' = [pc EXCEPT ![b] = pc'[b]]
          /\ UNCHANGED <<pool, evicting, flushing, before>>
      <4> USE DEF Persisting, Goto
      <4>0. CASE EncodeFails(b)
        BY <4>0 DEF EncodeFails
      <4>1. ASSUME NEW reply \in Reply, CreateEntryDatabase(b, reply) PROVE <3>1!:
        BY <4>1 DEF CreateEntryDatabase
      <4>2. ASSUME NEW reply \in Reply, LoadEntry(b, reply) PROVE <3>1!:
        BY <4>2 DEF LoadEntry
      <4>3. CASE MintResult(b)
        BY <4>3 DEF MintResult
      <4>4. ASSUME NEW reply \in Reply, MarkReady(b, reply) PROVE <3>1!:
        BY <4>4 DEF MarkReady
      <4>5. CASE CreateIndexes(b)
        BY <4>5 DEF CreateIndexes
      <4>6. ASSUME NEW reply \in Reply, CleanupDatabase(b, reply) PROVE <3>1!:
        BY <4>6 DEF CleanupDatabase
      <4>7. CASE CleanupLookup(b)
        BY <4>7 DEF CleanupLookup
      <4>8. ASSUME NEW reply \in Reply, MarkFailed(b, reply) PROVE <3>1!:
        BY <4>8 DEF MarkFailed
      <4>9. QED
        BY <2>5, <4>0, <4>1, <4>2, <4>3, <4>4, <4>5, <4>6, <4>7, <4>8 DEF PersistStep
    <3>2. QED
      BY <3>1
  <2>6. ASSUME NEW e \in Evictor, EvictSnapshot(e) PROVE Inv'
    <3>1. Tracked'
      BY <2>6 DEF EvictSnapshot, EvictGoto
    <3>2. \A b \in Submitted(Owner[e]) : Finished(b) \/ b \in inflight[Owner[e]]
      BY DEF Submitted, OwnBackground
    <3>3. \A b \in before'[e] : Finished(b)' \/ b \in epending'[e]
      BY <2>6, <3>2 DEF EvictSnapshot, Evicting, EvictGoto, Submitted, OwnBackground
    <3>4. Awaited'
      BY <2>6, <3>3 DEF EvictSnapshot, Evicting, EvictGoto
    <3>5. QED
      BY <3>1, <3>4
  <2>7. ASSUME NEW e \in Evictor, EvictStep(e) PROVE Inv'
    <3> USE DEF Evicting, EvictGoto
    <3>1. CASE EvictLookup(e)
      <4>1. \A b \in before[e] : Finished(b)
        BY <3>1 DEF EvictLookup, WaitOver
      <4>2. QED
        BY <3>1, <4>1 DEF EvictLookup
    <3>2. ASSUME NEW reply \in Reply, EvictDeleteRow(e, reply) PROVE Inv'
      BY <3>2 DEF EvictDeleteRow
    <3>3. ASSUME NEW reply \in Reply, EvictDeleteDatabase(e, reply) PROVE Inv'
      BY <3>3 DEF EvictDeleteDatabase
    <3>4. QED
      BY <2>7, <3>1, <3>2, <3>3 DEF EvictStep
  <2>8. ASSUME NEW g \in Flusher, FlushSnapshot(g) PROVE Inv'
    <3>1. Tracked'
      BY <2>8 DEF FlushSnapshot
    <3>2. \A b \in Submitted(Owner[g]) : Finished(b) \/ b \in inflight[Owner[g]]
      BY DEF Submitted, OwnBackground
    <3>3. \A b \in before'[g] : Finished(b)' \/ b \in fpending'[g]
      BY <2>8, <3>2 DEF FlushSnapshot, Submitted, OwnBackground
    <3>4. Awaited'
      BY <2>8, <3>3 DEF FlushSnapshot
    <3>5. QED
      BY <3>1, <3>4
  <2>9. ASSUME NEW g \in Flusher, FlushReturn(g) PROVE Inv'
    BY <2>9 DEF FlushReturn
  <2>10. ASSUME NEW p \in Process, Crash(p) PROVE Inv'
    BY <2>10 DEF Crash
  <2>11. CASE UNCHANGED vars
    BY <2>11 DEF vars
  <2>12. QED
    BY <2>0, <2>1, <2>2, <2>3, <2>4, <2>5, <2>6, <2>7, <2>8, <2>9, <2>10, <2>11
    DEF Next, LibraryStep, EnvironmentStep
<1>3. QED
  BY <1>1, <1>2, TypeCorrect, PTL DEF Spec

\* An eviction is final for every write-behind persist its process submitted
\* before evict took its snapshot (store.py, evict): finished builds do not publish again, and what
\* a failing one writes back is not ready.
THEOREM EvictionIsFinal == Spec => []EvictIsFinal
<1> DEFINE Inv == TypeOK /\ Tracked /\ Awaited /\ EvictIsFinal
<1> USE DEF TypeOK, ServiceTypeOK, Row, EvictIsFinal, ReadyRowOf, IsReady, HasRow
<1>1. Init => EvictIsFinal
  BY DEF Init, ServiceInit
<1>2. Inv /\ [Next]_vars => EvictIsFinal'
  <2> SUFFICES ASSUME Inv, [Next]_vars PROVE EvictIsFinal'
    OBVIOUS
  <2> USE DEF building, pool, evicting, flushing, service
  <2>0. ASSUME NEW b \in Build, SubmitRaises(b) PROVE EvictIsFinal'
    BY <2>0 DEF SubmitRaises
  <2>1. ASSUME NEW b \in Build, Submit(b) PROVE EvictIsFinal'
    BY <2>1 DEF Submit
  <2>2. ASSUME NEW b \in Build, MaterializeSync(b) PROVE EvictIsFinal'
    BY <2>2 DEF MaterializeSync
  <2>3. ASSUME NEW b \in Build, StartJob(b) PROVE EvictIsFinal'
    BY <2>3 DEF StartJob
  <2>4. ASSUME NEW b \in Build, Untrack(b) PROVE EvictIsFinal'
    BY <2>4 DEF Untrack
  <2>5. ASSUME NEW b \in Build, PersistStep(b) PROVE EvictIsFinal'
    <3> USE DEF Persisting, Goto, SetDatabase, SetRow, Reply, Raised, TookEffect
    <3>0. CASE EncodeFails(b)
      BY <3>0 DEF EncodeFails
    <3>1. ASSUME NEW reply \in Reply, CreateEntryDatabase(b, reply) PROVE EvictIsFinal'
      BY <3>1 DEF CreateEntryDatabase
    <3>2. ASSUME NEW reply \in Reply, LoadEntry(b, reply) PROVE EvictIsFinal'
      BY <3>2 DEF LoadEntry
    <3>3. CASE MintResult(b)
      BY <3>3 DEF MintResult
    <3>4. ASSUME NEW reply \in Reply, MarkReady(b, reply) PROVE EvictIsFinal'
      <4>1. \A e \in Evictor : epc[e] \in {"delete_db", "done"} => b \notin before[e]
        BY <3>4 DEF MarkReady, Awaited, Finished
      <4>2. QED
        BY <3>4, <4>1 DEF MarkReady, ReadyRow
    <3>5. CASE CreateIndexes(b)
      BY <3>5 DEF CreateIndexes
    <3>6. ASSUME NEW reply \in Reply, CleanupDatabase(b, reply) PROVE EvictIsFinal'
      BY <3>6 DEF CleanupDatabase
    <3>7. CASE CleanupLookup(b)
      BY <3>7 DEF CleanupLookup
    <3>8. ASSUME NEW reply \in Reply, MarkFailed(b, reply) PROVE EvictIsFinal'
      BY <3>8 DEF MarkFailed, FailedRow
    <3>9. QED
      BY <2>5, <3>0, <3>1, <3>2, <3>3, <3>4, <3>5, <3>6, <3>7, <3>8 DEF PersistStep
  <2>6. ASSUME NEW e \in Evictor, EvictSnapshot(e) PROVE EvictIsFinal'
    BY <2>6 DEF EvictSnapshot, Evicting, EvictGoto
  <2>7. ASSUME NEW e \in Evictor, EvictStep(e) PROVE EvictIsFinal'
    <3> USE DEF Evicting, EvictGoto, SetDatabase, SetRow, Reply, Raised, TookEffect
    <3>1. CASE EvictLookup(e)
      <4>1. epc' = [epc EXCEPT ![e] = epc'[e]] /\ epc'[e] \in {"delete_row", "failed"}
        BY <3>1 DEF EvictLookup
      <4>2. UNCHANGED <<entries, before>>
        BY <3>1 DEF EvictLookup
      <4>3. \A i \in Evictor : epc'[i] \in {"delete_db", "done"} =>
                epc[i] \in {"delete_db", "done"}
        BY <4>1
      <4>4. ASSUME NEW i \in Evictor, epc'[i] \in {"delete_db", "done"},
                   NEW b \in before'[i]
            PROVE  ~ReadyRowOf(Target[i], b)'
        <5>1. epc[i] \in {"delete_db", "done"} /\ b \in before[i]
          BY <4>2, <4>3, <4>4
        <5>2. ~ReadyRowOf(Target[i], b)
          BY <5>1
        <5>3. QED
          BY <4>2, <5>2
      <4>5. QED
        BY <4>4
    <3>2. ASSUME NEW reply \in Reply, EvictDeleteRow(e, reply) PROVE EvictIsFinal'
      BY <3>2 DEF EvictDeleteRow
    <3>3. ASSUME NEW reply \in Reply, EvictDeleteDatabase(e, reply) PROVE EvictIsFinal'
      BY <3>3 DEF EvictDeleteDatabase
    <3>4. QED
      BY <2>7, <3>1, <3>2, <3>3 DEF EvictStep
  <2>8. ASSUME NEW g \in Flusher, FlushSnapshot(g) PROVE EvictIsFinal'
    BY <2>8 DEF FlushSnapshot
  <2>9. ASSUME NEW g \in Flusher, FlushReturn(g) PROVE EvictIsFinal'
    BY <2>9 DEF FlushReturn
  <2>10. ASSUME NEW p \in Process, Crash(p) PROVE EvictIsFinal'
    BY <2>10 DEF Crash
  <2>11. CASE UNCHANGED vars
    BY <2>11 DEF vars
  <2>12. QED
    BY <2>0, <2>1, <2>2, <2>3, <2>4, <2>5, <2>6, <2>7, <2>8, <2>9, <2>10, <2>11
    DEF Next, LibraryStep, EnvironmentStep
<1>3. QED
  BY <1>1, <1>2, TypeCorrect, WaitersKnowTheirBuilds, PTL DEF Spec

\* When an untimed flush returns, every write-behind persist submitted to its
\* process before it is over (store.py, flush and the done-callback).
THEOREM FlushWaits == Spec => []FlushWaitsForEarlierBuilds
<1> USE DEF TypeOK, FlushWaitsForEarlierBuilds, Finished
<1>1. Init => FlushWaitsForEarlierBuilds
  BY DEF Init
<1>2. TypeOK /\ Tracked /\ Awaited /\ FlushWaitsForEarlierBuilds /\ [Next]_vars
        => FlushWaitsForEarlierBuilds'
  <2> SUFFICES ASSUME TypeOK, Awaited, FlushWaitsForEarlierBuilds, [Next]_vars
               PROVE FlushWaitsForEarlierBuilds'
    OBVIOUS
  <2> USE DEF building, pool, evicting, flushing
  <2>0. ASSUME NEW b \in Build, SubmitRaises(b) PROVE FlushWaitsForEarlierBuilds'
    BY <2>0 DEF SubmitRaises
  <2>1. ASSUME NEW b \in Build, Submit(b) PROVE FlushWaitsForEarlierBuilds'
    BY <2>1 DEF Submit
  <2>2. ASSUME NEW b \in Build, MaterializeSync(b) PROVE FlushWaitsForEarlierBuilds'
    BY <2>2 DEF MaterializeSync
  <2>3. ASSUME NEW b \in Build, StartJob(b) PROVE FlushWaitsForEarlierBuilds'
    BY <2>3 DEF StartJob
  <2>4. ASSUME NEW b \in Build, Untrack(b) PROVE FlushWaitsForEarlierBuilds'
    BY <2>4 DEF Untrack
  <2>5. ASSUME NEW b \in Build, PersistStep(b) PROVE FlushWaitsForEarlierBuilds'
    <3> USE DEF Persisting, Goto
    <3>0. CASE EncodeFails(b)
      BY <3>0 DEF EncodeFails
    <3>1. ASSUME NEW reply \in Reply, CreateEntryDatabase(b, reply)
          PROVE FlushWaitsForEarlierBuilds'
      BY <3>1 DEF CreateEntryDatabase
    <3>2. ASSUME NEW reply \in Reply, LoadEntry(b, reply)
          PROVE FlushWaitsForEarlierBuilds'
      BY <3>2 DEF LoadEntry
    <3>3. CASE MintResult(b)
      BY <3>3 DEF MintResult
    <3>4. ASSUME NEW reply \in Reply, MarkReady(b, reply)
          PROVE FlushWaitsForEarlierBuilds'
      BY <3>4 DEF MarkReady
    <3>5. CASE CreateIndexes(b)
      BY <3>5 DEF CreateIndexes
    <3>6. ASSUME NEW reply \in Reply, CleanupDatabase(b, reply)
          PROVE FlushWaitsForEarlierBuilds'
      BY <3>6 DEF CleanupDatabase
    <3>7. CASE CleanupLookup(b)
      BY <3>7 DEF CleanupLookup
    <3>8. ASSUME NEW reply \in Reply, MarkFailed(b, reply)
          PROVE FlushWaitsForEarlierBuilds'
      BY <3>8 DEF MarkFailed
    <3>9. QED
      BY <2>5, <3>0, <3>1, <3>2, <3>3, <3>4, <3>5, <3>6, <3>7, <3>8 DEF PersistStep
  <2>6. ASSUME NEW e \in Evictor, EvictSnapshot(e) PROVE FlushWaitsForEarlierBuilds'
    BY <2>6 DEF EvictSnapshot, EvictGoto
  <2>7. ASSUME NEW e \in Evictor, EvictStep(e) PROVE FlushWaitsForEarlierBuilds'
    BY <2>7 DEF EvictStep, EvictGoto, EvictLookup, EvictDeleteRow, EvictDeleteDatabase
  <2>8. ASSUME NEW g \in Flusher, FlushSnapshot(g) PROVE FlushWaitsForEarlierBuilds'
    BY <2>8 DEF FlushSnapshot
  <2>9. ASSUME NEW g \in Flusher, FlushReturn(g) PROVE FlushWaitsForEarlierBuilds'
    BY <2>9 DEF FlushReturn, Awaited, WaitOver
  <2>10. ASSUME NEW p \in Process, Crash(p) PROVE FlushWaitsForEarlierBuilds'
    BY <2>10 DEF Crash
  <2>11. CASE UNCHANGED vars
    BY <2>11 DEF vars
  <2>12. QED
    BY <2>0, <2>1, <2>2, <2>3, <2>4, <2>5, <2>6, <2>7, <2>8, <2>9, <2>10, <2>11
    DEF Next, LibraryStep, EnvironmentStep
<1>3. QED
  BY <1>1, <1>2, TypeCorrect, WaitersKnowTheirBuilds, PTL DEF Spec

-----------------------------------------------------------------------------

\* No write-back of a row read earlier makes an entry ready again (registry.py,
\* mark_failed): only a build's own mark_ready does.
THEOREM ReadinessIsPublishedOnce == Spec => NoResurrection
<1> USE DEF TypeOK, ServiceTypeOK, Row, ReadyRowOf, IsReady, HasRow
<1> DEFINE Step == \A f \in Fingerprint, b \in Build :
                     ReadyRowOf(f, b)' /\ ~ReadyRowOf(f, b) => pc[b] = "publish"
<1>1. TypeOK /\ [Next]_vars => Step
  <2> SUFFICES ASSUME TypeOK, [Next]_vars PROVE Step
    OBVIOUS
  <2> USE DEF service
  <2>1. CASE UNCHANGED entries
    BY <2>1
  <2>2. ASSUME NEW b \in Build, PersistStep(b) PROVE Step
    <3> USE DEF Persisting, SetDatabase, SetRow
    <3>1. ASSUME NEW reply \in Reply, MarkReady(b, reply) PROVE Step
      BY <3>1 DEF MarkReady, ReadyRow
    <3>2. ASSUME NEW reply \in Reply, MarkFailed(b, reply) PROVE Step
      BY <3>2 DEF MarkFailed, FailedRow
    <3>3. QED
      BY <2>1, <2>2, <3>1, <3>2
      DEF PersistStep, EncodeFails, CreateEntryDatabase, LoadEntry, MintResult, CreateIndexes,
          CleanupDatabase, CleanupLookup
  <2>3. ASSUME NEW e \in Evictor, EvictStep(e) PROVE Step
    <3> USE DEF SetDatabase, SetRow
    <3>1. ASSUME NEW reply \in Reply, EvictDeleteRow(e, reply) PROVE Step
      BY <3>1 DEF EvictDeleteRow
    <3>2. QED
      BY <2>1, <2>3, <3>1 DEF EvictStep, EvictLookup, EvictDeleteDatabase
  <2>4. QED
    BY <2>1, <2>2, <2>3
    DEF Next, LibraryStep, EnvironmentStep, Submit, SubmitRaises, MaterializeSync, StartJob, Untrack,
        EvictSnapshot, FlushSnapshot, FlushReturn, Crash, vars
<1>2. QED
  BY <1>1, TypeCorrect, PTL DEF Spec, NoResurrection

\* What a build that can no longer publish has lost, its data or its place in
\* a ready row, it does not get back.
LEMMA PastBuildsOnlyLose ==
  ASSUME TypeOK, [Next]_vars, NEW d \in Build, ~Fresh(d)
  PROVE  /\ database[d] = "deleted" => database'[d] = "deleted"
         /\ \A f \in Fingerprint : ReadyRowOf(f, d)' => ReadyRowOf(f, d)
<1> DEFINE Goal == /\ database[d] = "deleted" => database'[d] = "deleted"
                   /\ \A f \in Fingerprint : ReadyRowOf(f, d)' => ReadyRowOf(f, d)
<1> USE DEF TypeOK, ServiceTypeOK, Row, ReadyRowOf, IsReady, HasRow, service
<1>1. CASE UNCHANGED service
  BY <1>1
<1>2. ASSUME NEW b \in Build, PersistStep(b) PROVE Goal
  <2> USE DEF Persisting, SetDatabase, SetRow, Fresh
  <2>1. ASSUME NEW reply \in Reply, CreateEntryDatabase(b, reply) PROVE Goal
    BY <2>1 DEF CreateEntryDatabase
  <2>2. ASSUME NEW reply \in Reply, LoadEntry(b, reply) PROVE Goal
    BY <2>2 DEF LoadEntry
  <2>3. ASSUME NEW reply \in Reply, MarkReady(b, reply) PROVE Goal
    BY <2>3 DEF MarkReady, ReadyRow
  <2>4. ASSUME NEW reply \in Reply, CleanupDatabase(b, reply) PROVE Goal
    BY <2>4 DEF CleanupDatabase
  <2>5. ASSUME NEW reply \in Reply, MarkFailed(b, reply) PROVE Goal
    BY <2>5 DEF MarkFailed, FailedRow
  <2>6. QED
    BY <1>1, <1>2, <2>1, <2>2, <2>3, <2>4, <2>5
    DEF PersistStep, EncodeFails, MintResult, CreateIndexes, CleanupLookup
<1>3. ASSUME NEW e \in Evictor, EvictStep(e) PROVE Goal
  <2> USE DEF SetDatabase, SetRow
  <2>1. ASSUME NEW reply \in Reply, EvictDeleteRow(e, reply) PROVE Goal
    BY <2>1 DEF EvictDeleteRow
  <2>2. ASSUME NEW reply \in Reply, EvictDeleteDatabase(e, reply) PROVE Goal
    BY <2>2 DEF EvictDeleteDatabase
  <2>3. QED
    BY <1>1, <1>3, <2>1, <2>2 DEF EvictStep, EvictLookup
<1>4. QED
  BY <1>1, <1>2, <1>3
  DEF Next, LibraryStep, EnvironmentStep, Submit, SubmitRaises, MaterializeSync, StartJob, Untrack,
      EvictSnapshot, FlushSnapshot, FlushReturn, Crash, vars

\* An evict that returned normally has removed the data of the row it found,
\* for good, and nobody is ever served it again (store.py, evict): also with
\* lost acknowledgements, and with builds, cleanups and evictions of the same
\* fingerprint in other processes.
THEOREM EvictionRemovesData == Spec => []EvictedDataIsGone
<1> DEFINE Inv == TypeOK /\ References /\ Backing
           Gone(e) == epc[e] = "done" /\ eentry[e] # NoRow =>
                        /\ database[eentry[e].database_id] = "deleted"
                        /\ \A f \in Fingerprint : ~ReadyRowOf(f, eentry[e].database_id)
<1>1. Init => EvictedDataIsGone
  BY DEF Init, EvictedDataIsGone
<1>2. Inv /\ EvictedDataIsGone /\ [Next]_vars => EvictedDataIsGone'
  <2> SUFFICES ASSUME Inv, EvictedDataIsGone, [Next]_vars, NEW e \in Evictor
               PROVE  Gone(e)'
    BY DEF EvictedDataIsGone
  \* The row that e looked up, if any, is of a build that will not publish.
  <2>1. eentry[e] # NoRow =>
          LET d == eentry[e].database_id IN
          d \in Build /\ ~Fresh(d) /\ \A f \in Fingerprint : ReadyRowOf(f, d) => f = Target[e]
    BY DEF TypeOK, Row, References, RefersBack, ReadyRowOf, IsReady, HasRow
  <2>2. CASE epc'[e] = epc[e] /\ eentry'[e] = eentry[e]
    <3>1. Gone(e)
      BY DEF EvictedDataIsGone
    <3>2. QED
      BY <2>1, <2>2, <3>1, PastBuildsOnlyLose DEF ReadyRowOf, IsReady, HasRow
  <2>3. CASE epc'[e] # "done"
    BY <2>3
  <2>4. ASSUME NEW reply \in Reply, EvictDeleteDatabase(e, reply), epc'[e] = "done"
        PROVE  Gone(e)'
    <3> DEFINE d == eentry[e].database_id
    <3>1. /\ epc[e] = "delete_db" /\ eentry[e] \in Row /\ d \in Build
          /\ database' = [database EXCEPT ![d] = "deleted"]
          /\ UNCHANGED <<entries, eentry>>
      BY <2>4
      DEF EvictDeleteDatabase, EvictedDatabase, Evicting, EvictGoto, SetDatabase, Reply,
          TookEffect, Raised, TypeOK, Row
    <3>2. ~ReadyRowOf(Target[e], d)
      BY <3>1 DEF Backing
    <3>3. \A f \in Fingerprint : ~ReadyRowOf(f, d)
      BY <2>1, <3>1, <3>2, NoRowAssumption
    <3>4. database'[d] = "deleted"
      BY <3>1 DEF TypeOK, ServiceTypeOK
    <3>5. QED
      BY <3>1, <3>3, <3>4 DEF ReadyRowOf, IsReady, HasRow
  <2>5. ASSUME NEW reply \in Reply, EvictDeleteRow(e, reply), epc'[e] = "done"
        PROVE  Gone(e)'
    <3>1. eentry'[e] = NoRow
      BY <2>5 DEF EvictDeleteRow, Evicting, EvictGoto, TypeOK
    <3>2. QED
      BY <3>1
  <2>6. CASE EvictLookup(e) \/ EvictSnapshot(e)
    <3>1. epc'[e] # "done"
      BY <2>6 DEF EvictLookup, EvictSnapshot, EvictGoto, TypeOK
    <3>2. QED
      BY <2>3, <3>1
  <2>7. ASSUME NEW i \in Evictor, i # e, EvictSnapshot(i) \/ EvictStep(i) PROVE Gone(e)'
    <3>1. epc'[e] = epc[e] /\ eentry'[e] = eentry[e]
      BY <2>7
      DEF EvictSnapshot, EvictStep, EvictLookup, EvictDeleteRow, EvictDeleteDatabase, EvictGoto,
          TypeOK
    <3>2. QED
      BY <2>2, <3>1
  <2>8. CASE UNCHANGED <<epc, eentry>>
    BY <2>2, <2>8
  <2>9. ASSUME NEW b \in Build, PersistStep(b) PROVE UNCHANGED <<epc, eentry>>
    BY <2>9
    DEF PersistStep, EncodeFails, CreateEntryDatabase, LoadEntry, MintResult, MarkReady,
        CreateIndexes, CleanupDatabase, CleanupLookup, MarkFailed, Goto, evicting
  <2>10. QED
    BY <2>3, <2>4, <2>5, <2>6, <2>7, <2>8, <2>9
    DEF Next, LibraryStep, EnvironmentStep, Submit, SubmitRaises, MaterializeSync, StartJob,
        Untrack, EvictStep, FlushSnapshot, FlushReturn, Crash, vars, evicting
<1>3. QED
  BY <1>1, <1>2, TypeCorrect, RowsAreBacked, PTL DEF Spec

-----------------------------------------------------------------------------
(* The refinement of SnapshotCache                                         *)

\* What a reader sees of a step: a step of SnapshotCache, or of a service that
\* lost an acknowledgement.
Outside ==
    \/ [Acknowledged!Next]_(Acknowledged!vars)
    \/ LostAcks /\ \E b \in Build : Acknowledged!Lose(b)

\* Every step of the entry store is one that a reader may see.
LEMMA StepsFromOutside ==
  ASSUME TypeOK, References, Backing, [Next]_vars PROVE Outside
<1> DEFINE served == [f \in Fingerprint |->
                        IF IsReady(f) /\ Published(entries[f].database_id)
                        THEN entries[f].database_id ELSE NoRow]
           readable == {b \in Build : database[b] = "loaded"}
           fresh == {b \in Build : Fresh(b)}
           published == {b \in Build : Published(b)}
<1> USE DEF service, building, pool, evicting, flushing
\* How the steps look from outside: nothing happens, ...
<1>0. ASSUME UNCHANGED entries, published' = published PROVE served' = served
  <2>1. \A f \in Fingerprint : IsReady(f) => entries[f].database_id \in Build
    BY DEF IsReady, HasRow, Row, TypeOK, ServiceTypeOK
  <2>2. \A b \in Build : Published(b)' <=> Published(b)
    BY <1>0
  <2>3. \A f \in Fingerprint : IsReady(f)' <=> IsReady(f)
    BY <1>0 DEF IsReady, HasRow
  <2>4. QED
    BY <1>0, <2>1, <2>2, <2>3
<1>1. ASSUME UNCHANGED entries, readable' = readable, fresh' = fresh, published' = published
      PROVE  Outside
  BY <1>0, <1>1 DEF Acknowledged!vars, Outside
\* ... a build gives up, or seems to, ...
<1>2. ASSUME NEW b \in Build, b \in fresh, UNCHANGED entries,
             readable' = readable, fresh' = fresh \ {b}, published' = published
      PROVE  Outside
  <2>1. Acknowledged!Abandon(b)
    BY <1>0, <1>2 DEF Acknowledged!Abandon
  <2>2. QED
    BY <2>1 DEF Acknowledged!Next, Outside
<1>3. ASSUME NEW b \in Build, b \in fresh, LostAcks, fresh' = fresh \ {b},
             \/ readable' = readable \cup {b} /\ served' = served
             \/ readable' = readable /\ served' = [served EXCEPT ![Target[b]] = NoRow]
      PROVE  Outside
  <2>1. Acknowledged!Lose(b)
    BY <1>3 DEF Acknowledged!Lose
  <2>2. QED
    BY <1>3, <2>1 DEF Outside
\* ... a row stops being served, ...
<1>4. ASSUME NEW f \in Fingerprint, readable' = readable, fresh' = fresh,
             served' = [served EXCEPT ![f] = NoRow]
      PROVE  Outside
  <2>1. Acknowledged!Withdraw(f)
    BY <1>4 DEF Acknowledged!Withdraw
  <2>2. QED
    BY <2>1 DEF Acknowledged!Next, Outside
<1>5. ASSUME NEW f \in Fingerprint, NEW row, entries' = [entries EXCEPT ![f] = row],
             published' = published,
             row = NoRow \/ row.status # "ready" \/ row.database_id \in Build \ published
      PROVE  served' = [served EXCEPT ![f] = NoRow]
  <2>1. ASSUME NEW g \in Fingerprint, g # f PROVE served'[g] = served[g]
    <3>1. entries'[g] = entries[g] /\ (IsReady(g)' <=> IsReady(g))
      BY <1>5, <2>1 DEF IsReady, HasRow, TypeOK, ServiceTypeOK
    <3>2. IsReady(g) => entries[g].database_id \in Build
      BY DEF IsReady, HasRow, Row, TypeOK, ServiceTypeOK
    <3>3. \A b \in Build : Published(b)' <=> Published(b)
      BY <1>5
    <3>4. QED
      BY <3>1, <3>2, <3>3
  <2>2. served'[f] = NoRow
    <3>1. entries'[f] = row
      BY <1>5 DEF TypeOK, ServiceTypeOK
    <3>2. row.database_id \in Build \ published => ~Published(row.database_id)'
      BY <1>5
    <3>3. QED
      BY <1>5, <3>1, <3>2 DEF IsReady, HasRow
  <2>3. QED
    BY <2>1, <2>2
\* ... or a database that no acknowledged row points at is deleted.
<1>6. ASSUME NEW d \in Build, ~Fresh(d), Published(d) => \A f \in Fingerprint : ~ReadyRowOf(f, d),
             UNCHANGED entries, fresh' = fresh, published' = published,
             database' = [database EXCEPT ![d] = "deleted"]
      PROVE  Outside
  <2>1. served' = served /\ readable' = readable \ {d}
    BY <1>0, <1>6 DEF TypeOK, ServiceTypeOK
  <2>2. \A f \in Fingerprint : served[f] # d
    BY <1>6, NoRowIsNoDatabase DEF ReadyRowOf
  <2>3. Acknowledged!Discard(d)
    BY <1>6, <2>1, <2>2 DEF Acknowledged!Discard
  <2>4. QED
    BY <2>3 DEF Acknowledged!Next, Outside
<1>7. ASSUME NEW reply \in Reply
      PROVE  /\ Raised(reply) /\ TookEffect(reply) => LostAcks
             /\ ~Raised(reply) => TookEffect(reply)
  BY DEF Reply, Raised, TookEffect
<1>8. ASSUME NEW b \in Build, PersistStep(b) PROVE Outside
  <2> USE DEF Persisting, Goto, SetDatabase, SetRow, Fresh, Published
  <2>0. CASE EncodeFails(b)
    <3>1. /\ UNCHANGED entries /\ readable' = readable /\ published' = published
          /\ b \in fresh /\ fresh' = fresh \ {b}
      BY <2>0 DEF EncodeFails, TypeOK
    <3>2. QED
      BY <1>2, <3>1
  <2>1. ASSUME NEW reply \in Reply, CreateEntryDatabase(b, reply) PROVE Outside
    <3>1. UNCHANGED entries /\ readable' = readable /\ published' = published /\ b \in fresh
      BY <2>1 DEF CreateEntryDatabase, Backing, TypeOK, ServiceTypeOK
    <3>2. fresh' = IF Raised(reply) THEN fresh \ {b} ELSE fresh
      BY <2>1 DEF CreateEntryDatabase, TypeOK
    <3>3. QED
      BY <1>1, <1>2, <3>1, <3>2
  <2>2. ASSUME NEW reply \in Reply, LoadEntry(b, reply) PROVE Outside
    <3>1. UNCHANGED entries /\ published' = published /\ b \in fresh
      BY <2>2 DEF LoadEntry, TypeOK
    <3>2. readable' = IF TookEffect(reply) THEN readable \cup {b} ELSE readable
      BY <2>2 DEF LoadEntry, TypeOK, ServiceTypeOK
    <3>3. fresh' = IF Raised(reply) THEN fresh \ {b} ELSE fresh
      BY <2>2 DEF LoadEntry, TypeOK
    <3>4. served' = served
      BY <1>0, <3>1
    <3>5. CASE ~Raised(reply)
      <4>1. Acknowledged!Store(b)
        BY <1>7, <3>1, <3>2, <3>3, <3>4, <3>5 DEF Acknowledged!Store
      <4>2. QED
        BY <4>1 DEF Acknowledged!Next, Outside
    <3>6. CASE Raised(reply) /\ TookEffect(reply)
      BY <1>3, <1>7, <3>1, <3>2, <3>3, <3>4, <3>6
    <3>7. CASE Raised(reply) /\ ~TookEffect(reply)
      BY <1>2, <3>1, <3>2, <3>3, <3>7
    <3>8. QED
      BY <3>5, <3>6, <3>7
  <2>3. CASE MintResult(b)
    <3>1. /\ UNCHANGED entries /\ readable' = readable /\ published' = published
          /\ b \in fresh /\ (fresh' = fresh \/ fresh' = fresh \ {b})
      BY <2>3 DEF MintResult, TypeOK
    <3>2. QED
      BY <1>1, <1>2, <3>1
  <2>4. ASSUME NEW reply \in Reply, MarkReady(b, reply) PROVE Outside
    <3> DEFINE row == ReadyRow(b)
    <3>0. row # NoRow /\ row.status = "ready" /\ row.database_id = b
      BY NoRowAssumption DEF ReadyRow, Row
    <3>1. /\ b \in fresh /\ fresh' = fresh \ {b} /\ readable' = readable
          /\ b \in readable /\ b \notin published
      BY <2>4 DEF MarkReady, TypeOK, Backing
    <3>2. published' = IF Raised(reply) THEN published ELSE published \cup {b}
      BY <2>4 DEF MarkReady, TypeOK
    <3>3. entries' = IF TookEffect(reply) THEN [entries EXCEPT ![Target[b]] = row] ELSE entries
      BY <2>4 DEF MarkReady
    <3>4. CASE ~Raised(reply)
      <4>1. served' = [served EXCEPT ![Target[b]] = b]
        <5>1. ASSUME NEW g \in Fingerprint, g # Target[b] PROVE served'[g] = served[g]
          <6>1. entries'[g] = entries[g] /\ (IsReady(g)' <=> IsReady(g))
            BY <1>7, <3>3, <3>4, <5>1 DEF IsReady, HasRow, TypeOK, ServiceTypeOK
          <6>2. IsReady(g) => entries[g].database_id \in Build \ {b}
            BY <3>1 DEF IsReady, HasRow, Row, TypeOK, ServiceTypeOK, References, RefersBack
          <6>3. \A a \in Build \ {b} : Published(a)' <=> Published(a)
            BY <2>4 DEF MarkReady, TypeOK
          <6>4. QED
            BY <6>1, <6>2, <6>3
        <5>2. served'[Target[b]] = b
          <6>1. entries'[Target[b]] = row
            BY <1>7, <3>3, <3>4 DEF TypeOK, ServiceTypeOK
          <6>2. IsReady(Target[b])' /\ entries'[Target[b]].database_id = b
            BY <3>0, <6>1 DEF IsReady, HasRow
          <6>3. Published(b)'
            BY <2>4, <3>4 DEF MarkReady, TypeOK
          <6>4. QED
            BY <6>2, <6>3, CallsAssumption
        <5>3. QED
          BY <5>1, <5>2, CallsAssumption
      <4>2. Acknowledged!Publish(b)
        BY <3>1, <4>1 DEF Acknowledged!Publish
      <4>3. QED
        BY <4>2 DEF Acknowledged!Next, Outside
    <3>5. CASE Raised(reply) /\ TookEffect(reply)
      <4>1. entries' = [entries EXCEPT ![Target[b]] = row] /\ published' = published
        BY <3>2, <3>3, <3>5
      <4>2. Target[b] \in Fingerprint /\ row.database_id \in Build \ published
        BY <3>0, <3>1, CallsAssumption
      <4> HIDE DEF row
      <4>3. served' = [served EXCEPT ![Target[b]] = NoRow]
        BY <1>5, <4>1, <4>2
      <4>4. QED
        BY <1>3, <1>7, <3>1, <3>5, <4>3
    <3>6. CASE Raised(reply) /\ ~TookEffect(reply)
      BY <1>2, <3>1, <3>2, <3>3, <3>6
    <3>7. QED
      BY <3>4, <3>5, <3>6
  <2>5. CASE CreateIndexes(b) \/ CleanupLookup(b)
    <3>1. /\ UNCHANGED entries /\ readable' = readable
          /\ fresh' = fresh /\ published' = published
      BY <2>5 DEF CreateIndexes, CleanupLookup, TypeOK
    <3>2. QED
      BY <1>1, <3>1
  <2>6. ASSUME NEW reply \in Reply, CleanupDatabase(b, reply) PROVE Outside
    <3>1. /\ UNCHANGED entries /\ fresh' = fresh /\ published' = published
          /\ ~Fresh(b) /\ ~Published(b)
          /\ database' = [database EXCEPT ![b] = "deleted"] \/ UNCHANGED database
      BY <2>6 DEF CleanupDatabase, TypeOK
    <3>2. CASE database' = [database EXCEPT ![b] = "deleted"]
      BY <1>6, <3>1, <3>2
    <3>3. CASE UNCHANGED database
      BY <1>1, <3>1, <3>3
    <3>4. QED
      BY <3>1, <3>2, <3>3
  <2>7. ASSUME NEW reply \in Reply, MarkFailed(b, reply) PROVE Outside
    <3> DEFINE row == FailedRow(existing[b])
    <3>1. /\ readable' = readable /\ fresh' = fresh /\ published' = published
          /\ entries' = [entries EXCEPT ![Target[b]] = row] \/ UNCHANGED entries
      BY <2>7 DEF MarkFailed, TypeOK
    <3>2. row.status # "ready"
      BY <2>7 DEF MarkFailed, FailedRow, Row, TypeOK
    <3> HIDE DEF row
    <3>3. CASE entries' = [entries EXCEPT ![Target[b]] = row]
      <4>1. served' = [served EXCEPT ![Target[b]] = NoRow]
        BY <1>5, <3>1, <3>2, <3>3, CallsAssumption
      <4>2. QED
        BY <1>4, <3>1, <4>1, CallsAssumption
    <3>4. CASE UNCHANGED entries
      BY <1>1, <3>1, <3>4
    <3>5. QED
      BY <3>1, <3>3, <3>4
  <2>8. QED
    BY <1>8, <2>0, <2>1, <2>2, <2>3, <2>4, <2>5, <2>6, <2>7 DEF PersistStep
<1>9. ASSUME NEW e \in Evictor, EvictStep(e) PROVE Outside
  <2> USE DEF Evicting, EvictGoto, SetDatabase, SetRow
  <2>1. fresh' = fresh /\ published' = published
    BY <1>9 DEF EvictStep, EvictLookup, EvictDeleteRow, EvictDeleteDatabase, Fresh, Published
  <2>2. CASE EvictLookup(e)
    BY <1>1, <2>1, <2>2 DEF EvictLookup
  <2>3. ASSUME NEW reply \in Reply, EvictDeleteRow(e, reply) PROVE Outside
    <3>1. /\ readable' = readable
          /\ entries' = [entries EXCEPT ![Target[e]] = NoRow] \/ UNCHANGED entries
      BY <2>3 DEF EvictDeleteRow
    <3>2. CASE entries' = [entries EXCEPT ![Target[e]] = NoRow]
      BY <1>4, <1>5, <2>1, <3>1, <3>2, CallsAssumption
    <3>3. CASE UNCHANGED entries
      BY <1>1, <2>1, <3>1, <3>3
    <3>4. QED
      BY <3>1, <3>2, <3>3
  <2>4. ASSUME NEW reply \in Reply, EvictDeleteDatabase(e, reply) PROVE Outside
    <3> DEFINE d == eentry[e].database_id
    <3>1. /\ epc[e] = "delete_db" /\ eentry[e] \in Row /\ UNCHANGED entries
          /\ database' = [database EXCEPT ![d] = "deleted"] \/ UNCHANGED database
      BY <2>4 DEF EvictDeleteDatabase, EvictedDatabase, TypeOK
    <3>2. d \in Build /\ ~Fresh(d) /\ Target[d] = Target[e]
      BY <3>1, NoRowAssumption DEF References, RefersBack, Row
    <3>3. \A f \in Fingerprint : ~ReadyRowOf(f, d)
      <4>1. ~ReadyRowOf(Target[e], d)
        BY <3>1 DEF Backing
      <4>2. \A f \in Fingerprint : ReadyRowOf(f, d) => f = Target[d]
        BY DEF ReadyRowOf, IsReady, HasRow, References, RefersBack
      <4>3. QED
        BY <3>2, <4>1, <4>2
    <3>4. CASE database' = [database EXCEPT ![d] = "deleted"]
      BY <1>6, <2>1, <3>1, <3>2, <3>3, <3>4
    <3>5. CASE UNCHANGED database
      BY <1>1, <2>1, <3>1, <3>5
    <3>6. QED
      BY <3>1, <3>4, <3>5
  <2>5. QED
    BY <1>9, <2>2, <2>3, <2>4 DEF EvictStep
<1>10. ASSUME NEW b \in Build, Submit(b) \/ MaterializeSync(b) \/ StartJob(b) \/ Untrack(b)
       PROVE  Outside
  <2>1. UNCHANGED service /\ fresh' = fresh /\ published' = published
    BY <1>10 DEF Submit, MaterializeSync, StartJob, Untrack, Fresh, Published, TypeOK
  <2>2. QED
    BY <1>1, <2>1
<1>11. ASSUME NEW b \in Build, SubmitRaises(b) PROVE Outside
  <2>1. /\ UNCHANGED service /\ published' = published
        /\ b \in fresh /\ fresh' = fresh \ {b}
    BY <1>11 DEF SubmitRaises, Fresh, Published, TypeOK
  <2>2. QED
    BY <1>2, <2>1
<1>12. CASE \/ \E e \in Evictor : EvictSnapshot(e)
            \/ \E g \in Flusher : FlushSnapshot(g) \/ FlushReturn(g)
            \/ \E p \in Process : Crash(p)
            \/ UNCHANGED vars
  <2>1. UNCHANGED <<service, pc>>
    BY <1>12 DEF EvictSnapshot, EvictGoto, FlushSnapshot, FlushReturn, Crash, vars
  <2>2. QED
    BY <1>1, <2>1 DEF Fresh, Published
<1>13. QED
  BY <1>8, <1>9, <1>10, <1>11, <1>12 DEF Next, LibraryStep, EnvironmentStep

\* Whatever requests fail, with or without effect, the rows whose mark_ready
\* returned are those of a SnapshotCache: what is served can be read, what is
\* given up is not served, and what was served or given up once is never
\* served again.  A lost acknowledgement costs its readers a withdrawal at most.
THEOREM StoreImplementsLossyCache == Spec => LossyCacheSpec
<1>1. Init => Acknowledged!Init
  BY DEF Init, ServiceInit, Acknowledged!Init, IsReady, HasRow, Fresh
<1>2. Outside => [Acknowledged!LossyNext]_(Acknowledged!vars)
  BY DEF Outside, Acknowledged!LossyNext
<1>3. TypeOK /\ References /\ Backing /\ [Next]_vars => [Acknowledged!LossyNext]_(Acknowledged!vars)
  BY <1>2, StepsFromOutside
<1>4. QED
  BY <1>1, <1>3, TypeCorrect, RowsAreBacked, PTL DEF Spec, LossyCacheSpec, Acknowledged!LossySpec

\* If an exception means that the request had no effect, every ready row is
\* acknowledged, and the entry store is a SnapshotCache of all of them.
THEOREM StoreImplementsCache == ASSUME ~LostAcks PROVE Spec => CacheSpec
<1> DEFINE Inv == TypeOK /\ References /\ Backing
           acknowledged == [f \in Fingerprint |->
                              IF IsReady(f) /\ Published(entries[f].database_id)
                              THEN entries[f].database_id ELSE NoRow]
           served == [f \in Fingerprint |->
                        IF IsReady(f) THEN entries[f].database_id ELSE NoRow]
           Same == acknowledged = served
<1>1. Init => Cache!Init
  BY DEF Init, ServiceInit, Cache!Init, IsReady, HasRow, Fresh
<1>2. Inv => Same
  <2> SUFFICES ASSUME Inv, NEW f \in Fingerprint, IsReady(f)
               PROVE  Published(entries[f].database_id)
    OBVIOUS
  <2>1. ReadyRowOf(f, entries[f].database_id) /\ entries[f].database_id \in Build
    BY DEF ReadyRowOf, IsReady, HasRow, TypeOK, ServiceTypeOK, Row
  <2>2. QED
    BY <2>1 DEF Backing
<1>3. Inv /\ Same /\ Same' /\ [Next]_vars => [Cache!Next]_(Cache!vars)
  <2> SUFFICES ASSUME Inv, Same, Same', [Next]_vars PROVE [Cache!Next]_(Cache!vars)
    OBVIOUS
  <2>1. [Acknowledged!Next]_(Acknowledged!vars)
    BY StepsFromOutside DEF Outside
  <2>2. QED
    BY <2>1
    DEF Acknowledged!Next, Acknowledged!vars, Acknowledged!Store, Acknowledged!Publish,
        Acknowledged!Abandon, Acknowledged!Withdraw, Acknowledged!Discard,
        Cache!Next, Cache!vars, Cache!Store, Cache!Publish, Cache!Abandon, Cache!Withdraw, Cache!Discard
<1>4. QED
  BY <1>1, <1>2, <1>3, TypeCorrect, RowsAreBacked, PTL DEF Spec, CacheSpec, Cache!Spec
=============================================================================
