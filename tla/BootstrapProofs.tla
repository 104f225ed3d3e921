-------------------------- MODULE BootstrapProofs ---------------------------
(***************************************************************************)
(* Theorems about Bootstrap for every number of threads and processes and  *)
(* every way requests may fail.                                            *)
(***************************************************************************)
EXTENDS Bootstrap, TLAPS

USE ThreadsAssumption

\* No thread leaves the bootstrap with a database id that its process does not
\* have, whichever requests fail (registry.py, database_id).
THEOREM TypeCorrect == Spec => []TypeOK
<1> USE DEF TypeOK, DatabaseId, Bootstrapping
<1>1. Init => TypeOK
  BY DEF Init
<1>2. TypeOK /\ [Next]_vars => TypeOK'
  <2> SUFFICES ASSUME TypeOK, [Next]_vars PROVE TypeOK'
    OBVIOUS
  <2> USE DEF workspace, At, Goto, Release, Abort
  <2>1. ASSUME NEW t \in Thread, Call(t) \/ UseCached(t) \/ StartBootstrap(t) PROVE TypeOK'
    BY <2>1 DEF Call, UseCached, StartBootstrap
  <2>2. ASSUME NEW t \in Thread, List(t) PROVE TypeOK'
    BY <2>2 DEF List, Listed, Adopt
  <2>3. ASSUME NEW t \in Thread, NEW reply \in Reply, Create(t, reply) PROVE TypeOK'
    BY <2>3 DEF Create
  <2>4. ASSUME NEW t \in Thread, NEW reply \in Reply, Seed(t, reply) PROVE TypeOK'
    BY <2>4 DEF Seed, EmptyReplace, Adopt
  <2>5. ASSUME NEW t \in Thread, Query(t) \/ Requery(t) PROVE TypeOK'
    BY <2>5 DEF Query, Requery
  <2>6. ASSUME NEW t \in Thread, NEW reply \in Reply, Heal(t, reply) PROVE TypeOK'
    BY <2>6 DEF Heal, EmptyReplace, Healed
  <2>7. ASSUME NEW t \in Thread, NEW reply \in Reply, Upsert(t, reply) PROVE TypeOK'
    BY <2>7 DEF Upsert
  <2>8. CASE UNCHANGED vars
    BY <2>8 DEF vars
  <2>9. QED
    BY <2>1, <2>2, <2>3, <2>4, <2>5, <2>6, <2>7, <2>8 DEF Next, OwnStep
<1>3. QED
  BY <1>1, <1>2, PTL DEF Spec

-----------------------------------------------------------------------------

\* Who lists, creates or seeds holds its process's lock, and who is about to
\* create knows that its process has not created one.
LockHeld == \A t \in Thread : pc[t] \in Bootstrapping => holder[HomeOf[t]] = t

NoneYet ==
    \A t \in Thread : pc[t] = "create" =>
        \A u \in registries \cap Thread : HomeOf[u] # HomeOf[t]

\* Whatever its threads do and whichever requests fail, a process creates at
\* most one registry database (registry.py, database_id).
THEOREM ProcessCreatesOneRegistry == Spec => []OneRegistryPerProcess
<1> DEFINE Inv == LockHeld /\ NoneYet /\ OneRegistryPerProcess
<1> USE DEF TypeOK, DatabaseId, Bootstrapping, LockHeld, NoneYet, OneRegistryPerProcess
<1>1. Init => Inv
  BY DEF Init
<1>2. TypeOK /\ Inv /\ [Next]_vars => Inv'
  <2> SUFFICES ASSUME TypeOK, Inv, [Next]_vars PROVE Inv'
    OBVIOUS
  <2> USE DEF workspace, At, Goto, Release, Abort
  <2>1. ASSUME NEW t \in Thread, Call(t) \/ UseCached(t) \/ StartBootstrap(t) PROVE Inv'
    BY <2>1 DEF Call, UseCached, StartBootstrap
  <2>2. ASSUME NEW t \in Thread, List(t) PROVE Inv'
    BY <2>2 DEF List, Listed, Adopt
  <2>3. ASSUME NEW t \in Thread, NEW reply \in Reply, Create(t, reply) PROVE Inv'
    BY <2>3 DEF Create
  <2>4. ASSUME NEW t \in Thread, NEW reply \in Reply, Seed(t, reply) PROVE Inv'
    BY <2>4 DEF Seed, EmptyReplace, Adopt
  <2>5. ASSUME NEW t \in Thread, Query(t) \/ Requery(t) PROVE Inv'
    BY <2>5 DEF Query, Requery
  <2>6. ASSUME NEW t \in Thread, NEW reply \in Reply, Heal(t, reply) PROVE Inv'
    BY <2>6 DEF Heal, EmptyReplace
  <2>7. ASSUME NEW t \in Thread, NEW reply \in Reply, Upsert(t, reply) PROVE Inv'
    BY <2>7 DEF Upsert
  <2>8. CASE UNCHANGED vars
    BY <2>8 DEF vars
  <2>9. QED
    BY <2>1, <2>2, <2>3, <2>4, <2>5, <2>6, <2>7, <2>8 DEF Next, OwnStep
<1>3. QED
  BY <1>1, <1>2, TypeCorrect, PTL DEF Spec

-----------------------------------------------------------------------------

\* With a registry in the workspace nobody gets past the listing.
NobodyCreates ==
    Origin \in registries =>
        /\ registries = {Origin}
        /\ \A t \in Thread : pc[t] \notin {"create", "seed"}

\* A registry that was there first is the one that every process uses
\* (registry.py, _find_or_create_database).
THEOREM FoundRegistryIsUsed == Spec => []FoundRegistryIsShared
<1> DEFINE Inv == NobodyCreates /\ FoundRegistryIsShared
<1> USE DEF TypeOK, DatabaseId, NobodyCreates, FoundRegistryIsShared
<1>1. Init => Inv
  BY DEF Init
<1>2. TypeOK /\ Inv /\ [Next]_vars => Inv'
  <2> SUFFICES ASSUME TypeOK, Inv, [Next]_vars PROVE Inv'
    OBVIOUS
  <2> USE DEF workspace, At, Goto, Release, Abort
  <2>1. ASSUME NEW t \in Thread, Call(t) \/ UseCached(t) \/ StartBootstrap(t) PROVE Inv'
    BY <2>1 DEF Call, UseCached, StartBootstrap
  <2>2. ASSUME NEW t \in Thread, List(t) PROVE Inv'
    BY <2>2 DEF List, Listed, Adopt
  <2>3. ASSUME NEW t \in Thread, NEW reply \in Reply, Create(t, reply) PROVE Inv'
    BY <2>3 DEF Create
  <2>4. ASSUME NEW t \in Thread, NEW reply \in Reply, Seed(t, reply) PROVE Inv'
    BY <2>4 DEF Seed, EmptyReplace, Adopt
  <2>5. ASSUME NEW t \in Thread, Query(t) \/ Requery(t) PROVE Inv'
    BY <2>5 DEF Query, Requery
  <2>6. ASSUME NEW t \in Thread, NEW reply \in Reply, Heal(t, reply) PROVE Inv'
    BY <2>6 DEF Heal, EmptyReplace
  <2>7. ASSUME NEW t \in Thread, NEW reply \in Reply, Upsert(t, reply) PROVE Inv'
    BY <2>7 DEF Upsert
  <2>8. CASE UNCHANGED vars
    BY <2>8 DEF vars
  <2>9. QED
    BY <2>1, <2>2, <2>3, <2>4, <2>5, <2>6, <2>7, <2>8 DEF Next, OwnStep
<1>3. QED
  BY <1>1, <1>2, TypeCorrect, PTL DEF Spec

-----------------------------------------------------------------------------

\* While a thread is bootstrapping, its process has no registry; a lookup that
\* healed one finds it with the process still, and seeded.
Unsettled == \A t \in Thread : pc[t] \in Bootstrapping => cached[HomeOf[t]] = NoDatabase

Mended == \A t \in Thread : pc[t] = "requery" => cached[HomeOf[t]] \in seeded

\* The one retry of a lookup is enough: between a heal that went through and
\* the retry, no other thread or process makes the table go away or puts
\* another registry in the place of the healed one (registry.py, _execute).
THEOREM HealedLookupsSucceed == Spec => []LookupsRecover
<1> DEFINE Inv == LockHeld /\ Unsettled /\ Mended /\ LookupsRecover
<1> USE DEF TypeOK, DatabaseId, Bootstrapping, LockHeld, Unsettled, Mended, LookupsRecover
<1>1. Init => Inv
  BY DEF Init
<1>2. TypeOK /\ Inv /\ [Next]_vars => Inv'
  <2> SUFFICES ASSUME TypeOK, Inv, [Next]_vars PROVE Inv'
    OBVIOUS
  <2> USE DEF workspace, At, Goto, Release, Abort
  <2>1. ASSUME NEW t \in Thread, Call(t) \/ UseCached(t) \/ StartBootstrap(t) PROVE Inv'
    BY <2>1 DEF Call, UseCached, StartBootstrap
  <2>2. ASSUME NEW t \in Thread, List(t) PROVE Inv'
    BY <2>2 DEF List, Listed, Adopt
  <2>3. ASSUME NEW t \in Thread, NEW reply \in Reply, Create(t, reply) PROVE Inv'
    BY <2>3 DEF Create
  <2>4. ASSUME NEW t \in Thread, NEW reply \in Reply, Seed(t, reply) PROVE Inv'
    BY <2>4 DEF Seed, EmptyReplace, Adopt
  <2>5. ASSUME NEW t \in Thread, Query(t) \/ Requery(t) PROVE Inv'
    BY <2>5 DEF Query, Requery
  <2>6. ASSUME NEW t \in Thread, NEW reply \in Reply, Heal(t, reply) PROVE Inv'
    <3>1. reply # "ok" \/ Healed(t) \in seeded'
      BY <2>6 DEF Heal, EmptyReplace, TookEffect, Healed
    <3>2. QED
      BY <2>6, <3>1 DEF Heal, EmptyReplace, Healed, Raised
  <2>7. ASSUME NEW t \in Thread, NEW reply \in Reply, Upsert(t, reply) PROVE Inv'
    BY <2>7 DEF Upsert
  <2>8. CASE UNCHANGED vars
    BY <2>8 DEF vars
  <2>9. QED
    BY <2>1, <2>2, <2>3, <2>4, <2>5, <2>6, <2>7, <2>8 DEF Next, OwnStep
<1>3. QED
  BY <1>1, <1>2, TypeCorrect, PTL DEF Spec

-----------------------------------------------------------------------------

\* A lock that is taken is in use, by whichever way its holder may fail
\* (registry.py, the `with' statement of database_id): whoever waits for it
\* waits for a thread that can go on.
THEOREM LocksAreLetGo == Spec => []NoLockIsLeftBehind
<1> DEFINE Inv == LockHeld /\ NoLockIsLeftBehind
<1> USE DEF TypeOK, DatabaseId, Bootstrapping, LockHeld, NoLockIsLeftBehind
<1>1. Init => Inv
  BY DEF Init
<1>2. TypeOK /\ Inv /\ [Next]_vars => Inv'
  <2> SUFFICES ASSUME TypeOK, Inv, [Next]_vars PROVE Inv'
    OBVIOUS
  <2> USE DEF workspace, At, Goto, Release, Abort
  <2>1. ASSUME NEW t \in Thread, Call(t) \/ UseCached(t) \/ StartBootstrap(t) PROVE Inv'
    BY <2>1 DEF Call, UseCached, StartBootstrap
  <2>2. ASSUME NEW t \in Thread, List(t) PROVE Inv'
    BY <2>2 DEF List, Listed, Adopt
  <2>3. ASSUME NEW t \in Thread, NEW reply \in Reply, Create(t, reply) PROVE Inv'
    BY <2>3 DEF Create
  <2>4. ASSUME NEW t \in Thread, NEW reply \in Reply, Seed(t, reply) PROVE Inv'
    BY <2>4 DEF Seed, EmptyReplace, Adopt
  <2>5. ASSUME NEW t \in Thread, Query(t) \/ Requery(t) PROVE Inv'
    BY <2>5 DEF Query, Requery
  <2>6. ASSUME NEW t \in Thread, NEW reply \in Reply, Heal(t, reply) PROVE Inv'
    BY <2>6 DEF Heal, EmptyReplace, Healed
  <2>7. ASSUME NEW t \in Thread, NEW reply \in Reply, Upsert(t, reply) PROVE Inv'
    BY <2>7 DEF Upsert
  <2>8. CASE UNCHANGED vars
    BY <2>8 DEF vars
  <2>9. QED
    BY <2>1, <2>2, <2>3, <2>4, <2>5, <2>6, <2>7, <2>8 DEF Next, OwnStep
<1>3. QED
  BY <1>1, <1>2, TypeCorrect, PTL DEF Spec

\* A database that its thread has yet to create is nobody's.
Unmade ==
    \A t \in Thread : pc[t] \in {"idle", "lock", "list", "create"} =>
        /\ t \notin registries \cup seeded
        /\ \A p \in Process : cached[p] # t

\* A registry with a table and no heal or seed under way never loses a row
\* again (registry.py, _execute and _find_or_create_database).
THEOREM RowsOfSettledRegistriesStay == Spec => SettledRowsStay
<1> DEFINE Inv == LockHeld /\ Unsettled /\ Unmade
           Step == \A d \in DatabaseId : Settled(d) => Settled(d)' /\ rows[d] \subseteq rows'[d]
<1> USE DEF TypeOK, DatabaseId, Bootstrapping, LockHeld, Unsettled, Unmade
<1>1. Init => Inv
  BY DEF Init
<1>2. TypeOK /\ Inv /\ [Next]_vars => Inv'
  <2> SUFFICES ASSUME TypeOK, Inv, [Next]_vars PROVE Inv'
    OBVIOUS
  <2> USE DEF workspace, At, Goto, Release, Abort
  <2>1. ASSUME NEW t \in Thread, Call(t) \/ UseCached(t) \/ StartBootstrap(t) PROVE Inv'
    BY <2>1 DEF Call, UseCached, StartBootstrap
  <2>2. ASSUME NEW t \in Thread, List(t) PROVE Inv'
    BY <2>2 DEF List, Listed, Adopt
  <2>3. ASSUME NEW t \in Thread, NEW reply \in Reply, Create(t, reply) PROVE Inv'
    BY <2>3 DEF Create
  <2>4. ASSUME NEW t \in Thread, NEW reply \in Reply, Seed(t, reply) PROVE Inv'
    BY <2>4 DEF Seed, EmptyReplace, Adopt
  <2>5. ASSUME NEW t \in Thread, Query(t) \/ Requery(t) PROVE Inv'
    BY <2>5 DEF Query, Requery
  <2>6. ASSUME NEW t \in Thread, NEW reply \in Reply, Heal(t, reply) PROVE Inv'
    BY <2>6 DEF Heal, EmptyReplace, Healed
  <2>7. ASSUME NEW t \in Thread, NEW reply \in Reply, Upsert(t, reply) PROVE Inv'
    BY <2>7 DEF Upsert
  <2>8. CASE UNCHANGED vars
    BY <2>8 DEF vars
  <2>9. QED
    BY <2>1, <2>2, <2>3, <2>4, <2>5, <2>6, <2>7, <2>8 DEF Next, OwnStep
<1>3. TypeOK /\ Inv /\ [Next]_vars => Step
  <2> SUFFICES ASSUME TypeOK, Inv, [Next]_vars, NEW d \in DatabaseId, Settled(d)
               PROVE  Settled(d)' /\ rows[d] \subseteq rows'[d]
    OBVIOUS
  <2> DEFINE Kept == Settled(d)' /\ rows[d] \subseteq rows'[d]
  <2> USE DEF workspace, At, Goto, Release, Abort, Settled, Healed
  <2>1. ASSUME NEW t \in Thread, Call(t) \/ UseCached(t) \/ StartBootstrap(t) PROVE Kept
    BY <2>1 DEF Call, UseCached, StartBootstrap
  <2>2. ASSUME NEW t \in Thread, List(t) PROVE Kept
    BY <2>2 DEF List, Listed, Adopt
  <2>3. ASSUME NEW t \in Thread, NEW reply \in Reply, Create(t, reply) PROVE Kept
    BY <2>3 DEF Create
  <2>4. ASSUME NEW t \in Thread, NEW reply \in Reply, Seed(t, reply) PROVE Kept
    BY <2>4 DEF Seed, EmptyReplace, Adopt
  <2>5. ASSUME NEW t \in Thread, Query(t) \/ Requery(t) PROVE Kept
    BY <2>5 DEF Query, Requery
  <2>6. ASSUME NEW t \in Thread, NEW reply \in Reply, Heal(t, reply) PROVE Kept
    BY <2>6 DEF Heal, EmptyReplace, Healed
  <2>7. ASSUME NEW t \in Thread, NEW reply \in Reply, Upsert(t, reply) PROVE Kept
    BY <2>7 DEF Upsert
  <2>8. CASE UNCHANGED vars
    BY <2>8 DEF vars
  <2>9. QED
    BY <2>1, <2>2, <2>3, <2>4, <2>5, <2>6, <2>7, <2>8 DEF Next, OwnStep
<1>4. QED
  BY <1>1, <1>2, <1>3, TypeCorrect, PTL DEF Spec, SettledRowsStay
=============================================================================
