--------------------------- MODULE RuntimeProofs ----------------------------
(***************************************************************************)
(* Theorems about Runtime for every number of threads and any settings.    *)
(***************************************************************************)
EXTENDS Runtime, FiniteSetTheorems, TLAPS

USE ThreadsAssumption

\* Where a thread is once it reads no configuration any more.
Served == {"have", "submit", "wait", "over", "raised"}

\* No step leaves a variable out of its type.
LEMMA TypesAreKept == TypeOK /\ [Next]_vars => TypeOK'
<1> USE DEF TypeOK, Building
<1>0. User \subseteq Thread
  BY DEF Thread
<1> SUFFICES ASSUME TypeOK, [Next]_vars PROVE TypeOK'
  OBVIOUS
<1> USE <1>0 DEF shared, locks, found, flushes, At, Goto, Put
<1>1. ASSUME NEW t \in Thread, Call(t) PROVE TypeOK'
  BY <1>1 DEF Call
<1>2. ASSUME NEW t \in Thread, ClientStep(t) PROVE TypeOK'
  <2>1. CASE UseClients(t)
    BY <2>1 DEF UseClients, Connected
  <2>2. CASE StartClients(t)
    BY <2>2 DEF StartClients
  <2>3. CASE Connect(t)
    BY <2>3 DEF Connect, Connected, Raise
  <2>4. QED
    BY <1>2, <2>1, <2>2, <2>3 DEF ClientStep
<1>3. ASSUME NEW t \in User, UserStep(t) PROVE TypeOK'
  <2>0. t \in Thread
    BY <1>0
  <2>1. CASE UseRuntime(t)
    BY <2>0, <2>1 DEF UseRuntime
  <2>2. CASE StartRuntime(t)
    BY <2>0, <2>2 DEF StartRuntime
  <2>3. CASE Configure(t)
    BY <2>0, <2>3 DEF Configure, Raise
  <2>4. CASE Assemble(t)
    BY <2>0, <2>4 DEF Assemble
  <2>5. CASE Serve(t)
    BY <2>0, <2>5 DEF Serve
  <2>6. CASE GetExecutor(t)
    BY <2>0, <2>6 DEF GetExecutor
  <2>6a. CASE ExecutorRaises(t)
    BY <2>0, <2>6a DEF ExecutorRaises
  <2>7. CASE Submit(t)
    BY <2>0, <2>7 DEF Submit
  <2>7a. CASE SubmitRaises(t)
    BY <2>0, <2>7a DEF SubmitRaises
  <2>8. CASE FlushSnapshot(t)
    BY <2>0, <2>8 DEF FlushSnapshot, Unfinished
  <2>9. CASE FlushReturn(t)
    BY <2>0, <2>9 DEF FlushReturn
  <2>10. QED
    BY <1>3, <2>1, <2>2, <2>3, <2>4, <2>5, <2>6, <2>6a, <2>7, <2>7a, <2>8, <2>9 DEF UserStep
<1>4. ASSUME NEW t \in User, JobStep(t) PROVE TypeOK'
  <2>1. /\ job' = Put(job, t, "running") \/ job' = Put(job, t, "done")
        /\ UNCHANGED <<settings, shared, locks, pc, found, flushes, renewed>>
    BY <1>4 DEF JobStep, StartJob, FinishJob
  <2>2. QED
    BY <2>1
<1>5. CASE ResetRuntime \/ ResetClients \/ Reconfigure
  <2>1. CASE ResetRuntime
    BY <2>1 DEF ResetRuntime
  <2>2. CASE ResetClients
    BY <2>2 DEF ResetClients
  <2>3. CASE Reconfigure
    BY <2>3 DEF Reconfigure
  <2>4. QED
    BY <1>5, <2>1, <2>2, <2>3
<1>6. CASE UNCHANGED vars
  BY <1>6 DEF vars
<1>7. QED
  BY <1>1, <1>2, <1>3, <1>4, <1>5, <1>6 DEF Next

\* Whoever is past get_runtime has a runtime, whichever configuration raises
\* (decorator.py, get_runtime).
THEOREM TypeCorrect == Spec => []TypeOK
<1>1. Init => TypeOK
  BY DEF Init, TypeOK
<1>2. QED
  BY <1>1, TypesAreKept, PTL DEF Spec

-----------------------------------------------------------------------------

\* Whoever connects holds the lock and found no clients, and those there are
\* have been given to everybody.
Connection ==
    /\ \A t \in Thread : pc[t] = "connect" => clientsLock = t /\ clients = None
    /\ "clients" \notin renewed => \A t \in Thread : client[t] \in {None, clients}

\* A process has one connection pool, whoever needs the clients first and
\* whatever else is reset (client.py, get_clients).
THEOREM ClientsAreShared == Spec => []OneClientPerProcess
<1> DEFINE Inv == Connection /\ OneClientPerProcess
<1> USE DEF TypeOK, Thread, Building, Connection, OneClientPerProcess
<1>1. Init => Inv
  BY DEF Init
<1>2. TypeOK /\ Inv /\ [Next]_vars => Inv'
  <2> SUFFICES ASSUME TypeOK, Inv, [Next]_vars PROVE Inv'
    OBVIOUS
  <2> USE DEF shared, locks, found, flushes, At, Goto, Put
  <2>1. ASSUME NEW t \in Thread, Call(t) PROVE Inv'
    BY <2>1 DEF Call
  <2>2. ASSUME NEW t \in Thread, UseClients(t) PROVE Inv'
    BY <2>2 DEF UseClients, Connected
  <2>3. ASSUME NEW t \in Thread, StartClients(t) PROVE Inv'
    BY <2>3 DEF StartClients
  <2>4. ASSUME NEW t \in Thread, Connect(t) PROVE Inv'
    BY <2>4 DEF Connect, Connected, Raise
  <2>5. ASSUME NEW t \in User, UseRuntime(t) PROVE Inv'
    BY <2>5 DEF UseRuntime
  <2>6. ASSUME NEW t \in User, StartRuntime(t) PROVE Inv'
    BY <2>6 DEF StartRuntime
  <2>7. ASSUME NEW t \in User, Configure(t) PROVE Inv'
    BY <2>7 DEF Configure, Raise
  <2>8. ASSUME NEW t \in User, Assemble(t) PROVE Inv'
    BY <2>8 DEF Assemble
  <2>9. ASSUME NEW t \in User, Serve(t) PROVE Inv'
    BY <2>9 DEF Serve
  <2>10. ASSUME NEW t \in User, GetExecutor(t) PROVE Inv'
    BY <2>10 DEF GetExecutor
  <2>11. ASSUME NEW t \in User, Submit(t) PROVE Inv'
    BY <2>11 DEF Submit
  <2>11a. ASSUME NEW t \in User, ExecutorRaises(t) PROVE Inv'
    BY <2>11a DEF ExecutorRaises
  <2>11b. ASSUME NEW t \in User, SubmitRaises(t) PROVE Inv'
    BY <2>11b DEF SubmitRaises
  <2>12. ASSUME NEW t \in User, FlushSnapshot(t) PROVE Inv'
    BY <2>12 DEF FlushSnapshot, Unfinished
  <2>13. ASSUME NEW t \in User, FlushReturn(t) PROVE Inv'
    BY <2>13 DEF FlushReturn
  <2>14. ASSUME NEW t \in User, StartJob(t) PROVE Inv'
    BY <2>14 DEF StartJob
  <2>15. ASSUME NEW t \in User, FinishJob(t) PROVE Inv'
    BY <2>15 DEF FinishJob
  <2>16. CASE ResetRuntime
    BY <2>16 DEF ResetRuntime
  <2>17. CASE ResetClients
    BY <2>17 DEF ResetClients
  <2>18. CASE Reconfigure
    BY <2>18 DEF Reconfigure
  <2>19. CASE UNCHANGED vars
    BY <2>19 DEF vars
  <2>20. QED
    BY <2>1, <2>2, <2>3, <2>4, <2>5, <2>6, <2>7, <2>8, <2>9, <2>10,
       <2>11, <2>11a, <2>11b, <2>12, <2>13, <2>14, <2>15, <2>16, <2>17, <2>18, <2>19
    DEF Next, ClientStep, UserStep, JobStep
<1>3. QED
  BY <1>1, <1>2, TypeCorrect, PTL DEF Spec

-----------------------------------------------------------------------------

\* Whoever builds a runtime holds the lock and found none, and the one there
\* is has been given to everybody.
Construction ==
    /\ \A t \in User : pc[t] \in Building => runtimeLock = t /\ runtime = None
    /\ "runtime" \notin renewed => \A t \in Thread : store[t] \in {None, runtime}

\* A job belongs to a store, and whoever flushes the only one knows them all.
Awaited ==
    /\ \A t \in User : job[t] # "none" => pc[t] = "over" /\ store[t] # None
    /\ \A g \in User : pc[g] \notin {"wait", "over"} => before[g] = {}
    /\ \A g \in User : \A t \in before[g] : job[t] # "none"
    /\ \A g \in User : pc[g] = "wait" =>
            \A t \in before[g] :
                store[t] = store[g] \/ "runtime" \notin renewed =>
                    t \in pending[g] \/ job[t] = "done"

\* flush waits for every persist of its store and, as long as there is no
\* reset, of its process: there are no two stores (decorator.py, get_runtime).
THEOREM FlushMissesNothing == Spec => []FlushCoversTheProcess
<1> DEFINE Inv == Construction /\ Awaited /\ FlushCoversTheProcess
<1> USE DEF TypeOK, Thread, Building, Construction, Awaited, FlushCoversTheProcess
<1>1. Init => Inv
  BY DEF Init
<1>2. TypeOK /\ Inv /\ [Next]_vars => Inv'
  <2> SUFFICES ASSUME TypeOK, Inv, [Next]_vars PROVE Inv'
    OBVIOUS
  <2> USE DEF shared, locks, found, flushes, At, Goto, Put
  <2>1. ASSUME NEW t \in Thread, Call(t) PROVE Inv'
    BY <2>1 DEF Call
  <2>2. ASSUME NEW t \in Thread, UseClients(t) PROVE Inv'
    BY <2>2 DEF UseClients, Connected
  <2>3. ASSUME NEW t \in Thread, StartClients(t) PROVE Inv'
    BY <2>3 DEF StartClients
  <2>4. ASSUME NEW t \in Thread, Connect(t) PROVE Inv'
    BY <2>4 DEF Connect, Connected, Raise
  <2>5. ASSUME NEW t \in User, UseRuntime(t) PROVE Inv'
    BY <2>5 DEF UseRuntime
  <2>6. ASSUME NEW t \in User, StartRuntime(t) PROVE Inv'
    BY <2>6 DEF StartRuntime
  <2>7. ASSUME NEW t \in User, Configure(t) PROVE Inv'
    BY <2>7 DEF Configure, Raise
  <2>8. ASSUME NEW t \in User, Assemble(t) PROVE Inv'
    BY <2>8 DEF Assemble
  <2>9. ASSUME NEW t \in User, Serve(t) PROVE Inv'
    BY <2>9 DEF Serve
  <2>10. ASSUME NEW t \in User, GetExecutor(t) PROVE Inv'
    BY <2>10 DEF GetExecutor
  <2>11. ASSUME NEW t \in User, Submit(t) PROVE Inv'
    BY <2>11 DEF Submit
  <2>11a. ASSUME NEW t \in User, ExecutorRaises(t) PROVE Inv'
    BY <2>11a DEF ExecutorRaises
  <2>11b. ASSUME NEW t \in User, SubmitRaises(t) PROVE Inv'
    BY <2>11b DEF SubmitRaises
  <2>12. ASSUME NEW t \in User, FlushSnapshot(t) PROVE Inv'
    BY <2>12 DEF FlushSnapshot, Unfinished
  <2>13. ASSUME NEW t \in User, FlushReturn(t) PROVE Inv'
    BY <2>13 DEF FlushReturn
  <2>14. ASSUME NEW t \in User, StartJob(t) PROVE Inv'
    BY <2>14 DEF StartJob
  <2>15. ASSUME NEW t \in User, FinishJob(t) PROVE Inv'
    BY <2>15 DEF FinishJob
  <2>16. CASE ResetRuntime
    BY <2>16 DEF ResetRuntime
  <2>17. CASE ResetClients
    BY <2>17 DEF ResetClients
  <2>18. CASE Reconfigure
    BY <2>18 DEF Reconfigure
  <2>19. CASE UNCHANGED vars
    BY <2>19 DEF vars
  <2>20. QED
    BY <2>1, <2>2, <2>3, <2>4, <2>5, <2>6, <2>7, <2>8, <2>9, <2>10,
       <2>11, <2>11a, <2>11b, <2>12, <2>13, <2>14, <2>15, <2>16, <2>17, <2>18, <2>19
    DEF Next, ClientStep, UserStep, JobStep
<1>3. QED
  BY <1>1, <1>2, TypeCorrect, PTL DEF Spec

-----------------------------------------------------------------------------

\* A store has the configuration it was made with.
Configured(r) == config[r] \in Setting /\ pc[r] \in Served

\* There are no jobs without an executor, and it has a size.
Sized ==
    /\ \A t \in User : pc[t] \in {"clients", "connect", "assemble"} => config[t] \in Setting
    /\ runtime # None => Configured(runtime)
    /\ \A t \in Thread : store[t] # None => Configured(store[t])
    /\ \A t \in User : pc[t] = "submit" \/ job[t] # "none" => executor # None
    /\ executor # None => store[executor] # None /\ pc[executor] \in {"submit", "over", "raised"}

\* Nothing changes the configuration of a store, or the size of the pool.
LEMMA StoresKeepTheirConfiguration == Spec => []Sized
<1> DEFINE Inv == Sized
<1> USE DEF TypeOK, Thread, Building, Sized, Configured, Served
<1>1. Init => Inv
  BY DEF Init
<1>2. TypeOK /\ Inv /\ [Next]_vars => Inv'
  <2> SUFFICES ASSUME TypeOK, Inv, [Next]_vars PROVE Inv'
    OBVIOUS
  <2> USE DEF shared, locks, found, flushes, At, Goto, Put
  <2>1. ASSUME NEW t \in Thread, Call(t) PROVE Inv'
    BY <2>1 DEF Call
  <2>2. ASSUME NEW t \in Thread, UseClients(t) PROVE Inv'
    BY <2>2 DEF UseClients, Connected
  <2>3. ASSUME NEW t \in Thread, StartClients(t) PROVE Inv'
    BY <2>3 DEF StartClients
  <2>4. ASSUME NEW t \in Thread, Connect(t) PROVE Inv'
    BY <2>4 DEF Connect, Connected, Raise
  <2>5. ASSUME NEW t \in User, UseRuntime(t) PROVE Inv'
    BY <2>5 DEF UseRuntime
  <2>6. ASSUME NEW t \in User, StartRuntime(t) PROVE Inv'
    BY <2>6 DEF StartRuntime
  <2>7. ASSUME NEW t \in User, Configure(t) PROVE Inv'
    BY <2>7 DEF Configure, Raise
  <2>8. ASSUME NEW t \in User, Assemble(t) PROVE Inv'
    BY <2>8 DEF Assemble
  <2>9. ASSUME NEW t \in User, Serve(t) PROVE Inv'
    BY <2>9 DEF Serve
  <2>10. ASSUME NEW t \in User, GetExecutor(t) PROVE Inv'
    BY <2>10 DEF GetExecutor
  <2>11. ASSUME NEW t \in User, Submit(t) PROVE Inv'
    BY <2>11 DEF Submit
  <2>11a. ASSUME NEW t \in User, ExecutorRaises(t) PROVE Inv'
    BY <2>11a DEF ExecutorRaises
  <2>11b. ASSUME NEW t \in User, SubmitRaises(t) PROVE Inv'
    BY <2>11b DEF SubmitRaises
  <2>12. ASSUME NEW t \in User, FlushSnapshot(t) PROVE Inv'
    BY <2>12 DEF FlushSnapshot, Unfinished
  <2>13. ASSUME NEW t \in User, FlushReturn(t) PROVE Inv'
    BY <2>13 DEF FlushReturn
  <2>14. ASSUME NEW t \in User, StartJob(t) PROVE Inv'
    BY <2>14 DEF StartJob
  <2>15. ASSUME NEW t \in User, FinishJob(t) PROVE Inv'
    BY <2>15 DEF FinishJob
  <2>16. CASE ResetRuntime
    BY <2>16 DEF ResetRuntime
  <2>17. CASE ResetClients
    BY <2>17 DEF ResetClients
  <2>18. CASE Reconfigure
    BY <2>18 DEF Reconfigure
  <2>19. CASE UNCHANGED vars
    BY <2>19 DEF vars
  <2>20. QED
    BY <2>1, <2>2, <2>3, <2>4, <2>5, <2>6, <2>7, <2>8, <2>9, <2>10,
       <2>11, <2>11a, <2>11b, <2>12, <2>13, <2>14, <2>15, <2>16, <2>17, <2>18, <2>19
    DEF Next, ClientStep, UserStep, JobStep
<1>3. QED
  BY <1>1, <1>2, TypeCorrect, PTL DEF Spec

\* Once there is an executor, nothing changes its size.
LEMMA SizeStays ==
  ASSUME TypeOK, Sized, [Next]_vars, executor # None
  PROVE  executor' = executor /\ PoolSize' = PoolSize
<1> DEFINE Goal == executor' = executor /\ PoolSize' = PoolSize
<1> USE DEF TypeOK, Thread, Building, Served, Sized, Configured, PoolSize, Sizing
<1> USE DEF shared, locks, found, flushes, At, Goto, Put
<1>1. ASSUME NEW t \in Thread, Call(t) PROVE Goal
  BY <1>1 DEF Call
<1>2. ASSUME NEW t \in Thread, UseClients(t) PROVE Goal
  BY <1>2 DEF UseClients, Connected
<1>3. ASSUME NEW t \in Thread, StartClients(t) PROVE Goal
  BY <1>3 DEF StartClients
<1>4. ASSUME NEW t \in Thread, Connect(t) PROVE Goal
  BY <1>4 DEF Connect, Connected, Raise
<1>5. ASSUME NEW t \in User, UseRuntime(t) PROVE Goal
  BY <1>5 DEF UseRuntime
<1>6. ASSUME NEW t \in User, StartRuntime(t) PROVE Goal
  BY <1>6 DEF StartRuntime
<1>7. ASSUME NEW t \in User, Configure(t) PROVE Goal
  BY <1>7 DEF Configure, Raise
<1>8. ASSUME NEW t \in User, Assemble(t) PROVE Goal
  BY <1>8 DEF Assemble
<1>9. ASSUME NEW t \in User, Serve(t) PROVE Goal
  BY <1>9 DEF Serve
<1>10. ASSUME NEW t \in User, GetExecutor(t) PROVE Goal
  BY <1>10 DEF GetExecutor
<1>11. ASSUME NEW t \in User, Submit(t) PROVE Goal
  BY <1>11 DEF Submit
<1>11a. ASSUME NEW t \in User, ExecutorRaises(t) PROVE Goal
  BY <1>11a DEF ExecutorRaises
<1>11b. ASSUME NEW t \in User, SubmitRaises(t) PROVE Goal
  BY <1>11b DEF SubmitRaises
<1>12. ASSUME NEW t \in User, FlushSnapshot(t) PROVE Goal
  BY <1>12 DEF FlushSnapshot, Unfinished
<1>13. ASSUME NEW t \in User, FlushReturn(t) PROVE Goal
  BY <1>13 DEF FlushReturn
<1>14. ASSUME NEW t \in User, StartJob(t) PROVE Goal
  BY <1>14 DEF StartJob
<1>15. ASSUME NEW t \in User, FinishJob(t) PROVE Goal
  BY <1>15 DEF FinishJob
<1>16. CASE ResetRuntime
  BY <1>16 DEF ResetRuntime
<1>17. CASE ResetClients
  BY <1>17 DEF ResetClients
<1>18. CASE Reconfigure
  BY <1>18 DEF Reconfigure
<1>19. CASE UNCHANGED vars
  BY <1>19 DEF vars
<1>20. QED
  BY <1>1, <1>2, <1>3, <1>4, <1>5, <1>6, <1>7, <1>8, <1>9, <1>10,
   <1>11, <1>11a, <1>11b, <1>12, <1>13, <1>14, <1>15, <1>16, <1>17, <1>18, <1>19
  DEF Next, ClientStep, UserStep, JobStep

\* The pool has a worker at least.
Staffed == executor # None => PoolSize \in Nat \ {0}

LEMMA PoolsHaveWorkers == Spec => []Staffed
<1>1. Init => Staffed
  BY DEF Init, Staffed
<1>2. TypeOK /\ Sized /\ Staffed /\ [Next]_vars => Staffed'
  <2> SUFFICES ASSUME TypeOK, Sized, Staffed, [Next]_vars PROVE Staffed'
    OBVIOUS
  <2>1. CASE executor # None
    BY <2>1, SizeStays DEF Staffed
  <2>2. ASSUME executor = None, NEW t \in User, GetExecutor(t) PROVE Staffed'
    <3>1. executor' = t /\ Sizing(t) > 0 /\ UNCHANGED <<config, store>>
      BY <2>2 DEF GetExecutor, found
    <3>2. Sizing(t) \in Int
      BY <2>2 DEF GetExecutor, At, Sizing, Sized, Configured, TypeOK, Thread
    <3>3. PoolSize' = Sizing(t)
      BY <3>1 DEF PoolSize, Sizing
    <3>4. QED
      BY <3>1, <3>2, <3>3 DEF Staffed
  <2>3. CASE UNCHANGED executor /\ executor = None
    BY <2>3 DEF Staffed
  <2>4. QED
    BY <2>1, <2>2, <2>3
    DEF Next, ClientStep, UserStep, JobStep, Call, UseClients, StartClients, Connect, UseRuntime,
        StartRuntime, Configure, Assemble, Serve, ExecutorRaises, Submit, SubmitRaises,
        FlushSnapshot, FlushReturn, StartJob, FinishJob, ResetRuntime, ResetClients, Reconfigure,
        shared, vars
<1>3. QED
  BY <1>1, <1>2, TypeCorrect, StoresKeepTheirConfiguration, PTL DEF Spec

\* The pool never runs more persists at once than the first store that had one
\* was configured for, however many stores share it (store.py, _get_executor).
THEOREM PoolSizeIsKept == Spec => []PoolIsBounded
<1> DEFINE Bounded == IsFiniteSet(Running) /\ PoolIsBounded
<1>1. Init => Bounded
  <2> SUFFICES ASSUME Init PROVE Bounded
    OBVIOUS
  <2>1. Running = {}
    BY DEF Init, Running
  <2>2. QED
    BY <2>1, FS_EmptySet DEF Init, PoolIsBounded
<1>2. TypeOK /\ Sized /\ Staffed /\ Staffed' /\ Bounded /\ [Next]_vars => Bounded'
  <2> SUFFICES ASSUME TypeOK, Sized, Staffed, Staffed', Bounded, [Next]_vars PROVE Bounded'
    OBVIOUS
  <2>1. executor # None => executor' = executor /\ PoolSize' = PoolSize
    BY SizeStays
  <2>2. executor # None => PoolSize \in Nat
    BY DEF Staffed
  <2>3. executor' # None => PoolSize' \in Nat
    BY DEF Staffed
  <2>4. CASE Running' \subseteq Running
    <3>1. /\ IsFiniteSet(Running') /\ Cardinality(Running') <= Cardinality(Running)
          /\ Cardinality(Running) \in Nat /\ Cardinality(Running') \in Nat
      BY <2>4, FS_Subset, FS_CardinalityType
    <3>2. CASE executor # None
      BY <2>1, <2>2, <3>1, <3>2 DEF PoolIsBounded
    <3>3. CASE executor = None
      <4>1. Running = {}
        BY <3>3 DEF Sized, Running
      <4>2. Cardinality(Running') = 0
        BY <2>4, <4>1, FS_EmptySet
      <4>3. QED
        BY <2>3, <3>1, <4>2 DEF PoolIsBounded
    <3>4. QED
      BY <3>2, <3>3
  <2>5. ASSUME NEW t \in User, StartJob(t) PROVE Bounded'
    <3>1. /\ executor # None
          /\ Running' = Running \cup {t}
          /\ Cardinality(Running) < PoolSize
      BY <2>5 DEF StartJob, Running, Occupied, Put, Sized, TypeOK
    <3>2. /\ IsFiniteSet(Running \cup {t}) /\ Cardinality(Running) \in Nat
          /\ Cardinality(Running \cup {t}) <= Cardinality(Running) + 1
      <4>1. IsFiniteSet(Running)
        OBVIOUS
      <4>2. Cardinality(Running) \in Nat
        BY <4>1, FS_CardinalityType
      <4>3. /\ IsFiniteSet(Running \cup {t})
            /\ Cardinality(Running \cup {t}) = IF t \in Running THEN Cardinality(Running)
                                                               ELSE Cardinality(Running) + 1
        BY <4>1, FS_AddElement, Zenon
      <4>4. QED
        BY <4>2, <4>3
    <3>3. IsFiniteSet(Running') /\ Cardinality(Running') <= PoolSize'
      <4>1. IsFiniteSet(Running') /\ Cardinality(Running') = Cardinality(Running \cup {t})
        BY <3>1, <3>2
      <4>2. Cardinality(Running \cup {t}) <= PoolSize
        <5>1. Cardinality(Running \cup {t}) \in Nat
          BY <3>2, FS_CardinalityType
        <5>2. QED
          BY <2>2, <3>1, <3>2, <5>1
      <4>3. QED
        BY <2>1, <3>1, <4>1, <4>2
    <3>4. QED
      BY <3>3 DEF PoolIsBounded
  <2>6. ASSUME NEW t \in User, FinishJob(t) \/ Submit(t) PROVE Running' \subseteq Running
    BY <2>6 DEF FinishJob, Submit, Running, Put, TypeOK
  <2>7. CASE UNCHANGED job
    BY <2>4, <2>7 DEF Running
  <2>8. QED
    BY <2>4, <2>5, <2>6, <2>7
    DEF Next, ClientStep, UserStep, JobStep, Call, UseClients, StartClients, Connect, UseRuntime,
        StartRuntime, Configure, Assemble, Serve, GetExecutor, ExecutorRaises, SubmitRaises,
        FlushSnapshot, FlushReturn, ResetRuntime, ResetClients, Reconfigure, vars
<1>3. QED
  BY <1>1, <1>2, TypeCorrect, StoresKeepTheirConfiguration, PoolsHaveWorkers, PTL
  DEF Spec, PoolIsBounded

-----------------------------------------------------------------------------

\* A lock is held by a thread that is using it, and by nobody else.
Holding ==
    /\ runtimeLock # None => runtimeLock \in User /\ pc[runtimeLock] \in Building
    /\ clientsLock # None => pc[clientsLock] = "connect"
    /\ \A t \in User : pc[t] \in Building => runtimeLock = t
    /\ \A t \in Thread : pc[t] = "connect" => clientsLock = t

\* Every way out of a `with' statement, an exception's too, gives the lock back.
LEMMA LocksAreInUse == Spec => []Holding
<1> DEFINE Inv == Holding
<1> USE DEF TypeOK, Thread, Building, Holding
<1>1. Init => Inv
  BY DEF Init
<1>2. TypeOK /\ Inv /\ [Next]_vars => Inv'
  <2> SUFFICES ASSUME TypeOK, Inv, [Next]_vars PROVE Inv'
    OBVIOUS
  <2> USE DEF shared, locks, found, flushes, At, Goto, Put
  <2>1. ASSUME NEW t \in Thread, Call(t) PROVE Inv'
    BY <2>1 DEF Call
  <2>2. ASSUME NEW t \in Thread, UseClients(t) PROVE Inv'
    BY <2>2 DEF UseClients, Connected
  <2>3. ASSUME NEW t \in Thread, StartClients(t) PROVE Inv'
    BY <2>3 DEF StartClients
  <2>4. ASSUME NEW t \in Thread, Connect(t) PROVE Inv'
    BY <2>4 DEF Connect, Connected, Raise
  <2>5. ASSUME NEW t \in User, UseRuntime(t) PROVE Inv'
    BY <2>5 DEF UseRuntime
  <2>6. ASSUME NEW t \in User, StartRuntime(t) PROVE Inv'
    BY <2>6 DEF StartRuntime
  <2>7. ASSUME NEW t \in User, Configure(t) PROVE Inv'
    BY <2>7 DEF Configure, Raise
  <2>8. ASSUME NEW t \in User, Assemble(t) PROVE Inv'
    BY <2>8 DEF Assemble
  <2>9. ASSUME NEW t \in User, Serve(t) PROVE Inv'
    BY <2>9 DEF Serve
  <2>10. ASSUME NEW t \in User, GetExecutor(t) PROVE Inv'
    BY <2>10 DEF GetExecutor
  <2>11. ASSUME NEW t \in User, Submit(t) PROVE Inv'
    BY <2>11 DEF Submit
  <2>11a. ASSUME NEW t \in User, ExecutorRaises(t) PROVE Inv'
    BY <2>11a DEF ExecutorRaises
  <2>11b. ASSUME NEW t \in User, SubmitRaises(t) PROVE Inv'
    BY <2>11b DEF SubmitRaises
  <2>12. ASSUME NEW t \in User, FlushSnapshot(t) PROVE Inv'
    BY <2>12 DEF FlushSnapshot, Unfinished
  <2>13. ASSUME NEW t \in User, FlushReturn(t) PROVE Inv'
    BY <2>13 DEF FlushReturn
  <2>14. ASSUME NEW t \in User, StartJob(t) PROVE Inv'
    BY <2>14 DEF StartJob
  <2>15. ASSUME NEW t \in User, FinishJob(t) PROVE Inv'
    BY <2>15 DEF FinishJob
  <2>16. CASE ResetRuntime
    BY <2>16 DEF ResetRuntime
  <2>17. CASE ResetClients
    BY <2>17 DEF ResetClients
  <2>18. CASE Reconfigure
    BY <2>18 DEF Reconfigure
  <2>19. CASE UNCHANGED vars
    BY <2>19 DEF vars
  <2>20. QED
    BY <2>1, <2>2, <2>3, <2>4, <2>5, <2>6, <2>7, <2>8, <2>9, <2>10,
       <2>11, <2>11a, <2>11b, <2>12, <2>13, <2>14, <2>15, <2>16, <2>17, <2>18, <2>19
    DEF Next, ClientStep, UserStep, JobStep
<1>3. QED
  BY <1>1, <1>2, TypeCorrect, PTL DEF Spec

\* No deadlock over the two locks, and none left behind (decorator.py and
\* client.py, get_runtime and get_clients): for any number of threads.
THEOREM LocksNestOneWay == Spec => []NobodyIsLockedOut
<1>1. TypeOK /\ Holding => NobodyIsLockedOut
  BY DEF TypeOK, Thread, Building, Holding, NobodyIsLockedOut, Unblocked, Asking, LockOf
<1>2. QED
  BY <1>1, TypeCorrect, LocksAreInUse, PTL

Submitted == \A g \in User : \A t \in pending[g] : job[t] # "none"

\* A flush waits for jobs that there are: none is ever taken back.
LEMMA JobsStay == Spec => []Submitted
<1> DEFINE Inv == Submitted
<1> USE DEF TypeOK, Thread, Building, Submitted
<1>1. Init => Inv
  BY DEF Init
<1>2. TypeOK /\ Inv /\ [Next]_vars => Inv'
  <2> SUFFICES ASSUME TypeOK, Inv, [Next]_vars PROVE Inv'
    OBVIOUS
  <2> USE DEF shared, locks, found, flushes, At, Goto, Put
  <2>1. ASSUME NEW t \in Thread, Call(t) PROVE Inv'
    BY <2>1 DEF Call
  <2>2. ASSUME NEW t \in Thread, UseClients(t) PROVE Inv'
    BY <2>2 DEF UseClients, Connected
  <2>3. ASSUME NEW t \in Thread, StartClients(t) PROVE Inv'
    BY <2>3 DEF StartClients
  <2>4. ASSUME NEW t \in Thread, Connect(t) PROVE Inv'
    BY <2>4 DEF Connect, Connected, Raise
  <2>5. ASSUME NEW t \in User, UseRuntime(t) PROVE Inv'
    BY <2>5 DEF UseRuntime
  <2>6. ASSUME NEW t \in User, StartRuntime(t) PROVE Inv'
    BY <2>6 DEF StartRuntime
  <2>7. ASSUME NEW t \in User, Configure(t) PROVE Inv'
    BY <2>7 DEF Configure, Raise
  <2>8. ASSUME NEW t \in User, Assemble(t) PROVE Inv'
    BY <2>8 DEF Assemble
  <2>9. ASSUME NEW t \in User, Serve(t) PROVE Inv'
    BY <2>9 DEF Serve
  <2>10. ASSUME NEW t \in User, GetExecutor(t) PROVE Inv'
    BY <2>10 DEF GetExecutor
  <2>11. ASSUME NEW t \in User, Submit(t) PROVE Inv'
    BY <2>11 DEF Submit
  <2>11a. ASSUME NEW t \in User, ExecutorRaises(t) PROVE Inv'
    BY <2>11a DEF ExecutorRaises
  <2>11b. ASSUME NEW t \in User, SubmitRaises(t) PROVE Inv'
    BY <2>11b DEF SubmitRaises
  <2>12. ASSUME NEW t \in User, FlushSnapshot(t) PROVE Inv'
    BY <2>12 DEF FlushSnapshot, Unfinished
  <2>13. ASSUME NEW t \in User, FlushReturn(t) PROVE Inv'
    BY <2>13 DEF FlushReturn
  <2>14. ASSUME NEW t \in User, StartJob(t) PROVE Inv'
    BY <2>14 DEF StartJob
  <2>15. ASSUME NEW t \in User, FinishJob(t) PROVE Inv'
    BY <2>15 DEF FinishJob
  <2>16. CASE ResetRuntime
    BY <2>16 DEF ResetRuntime
  <2>17. CASE ResetClients
    BY <2>17 DEF ResetClients
  <2>18. CASE Reconfigure
    BY <2>18 DEF Reconfigure
  <2>19. CASE UNCHANGED vars
    BY <2>19 DEF vars
  <2>20. QED
    BY <2>1, <2>2, <2>3, <2>4, <2>5, <2>6, <2>7, <2>8, <2>9, <2>10,
       <2>11, <2>11a, <2>11b, <2>12, <2>13, <2>14, <2>15, <2>16, <2>17, <2>18, <2>19
    DEF Next, ClientStep, UserStep, JobStep
<1>3. QED
  BY <1>1, <1>2, TypeCorrect, PTL DEF Spec

\* A queued job runs, or waits for a worker that runs something or is free
\* (store.py, _get_executor): the pool has at least one worker, also for the
\* jobs of stores that have been reset.
THEOREM JobsGetWorkers == Spec => []JobsHaveWorkers
<1>1. TypeOK /\ Sized /\ Staffed /\ Submitted => JobsHaveWorkers
  <2> SUFFICES ASSUME TypeOK, Sized, Staffed, Submitted PROVE JobsHaveWorkers
    OBVIOUS
  <2>1. ASSUME NEW t \in User, job[t] = "queued", Running = {}
        PROVE  Cardinality(Occupied(t)) < PoolSize
    <3>1. Cardinality(Occupied(t)) = 0
      BY <2>1, FS_EmptySet DEF Occupied
    <3>2. PoolSize \in Nat \ {0}
      BY <2>1 DEF Sized, Staffed
    <3>3. QED
      BY <3>1, <3>2
  <2>2. ASSUME NEW g \in User, NEW t \in pending[g]
        PROVE  job[t] \in {"queued", "running", "done"}
    BY <2>2 DEF TypeOK, Submitted
  <2>3. QED
    BY <2>1, <2>2 DEF JobsHaveWorkers
<1>2. QED
  BY <1>1, TypeCorrect, StoresKeepTheirConfiguration, PoolsHaveWorkers, JobsStay, PTL
=============================================================================
