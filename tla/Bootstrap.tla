----------------------------- MODULE Bootstrap ------------------------------
(***************************************************************************)
(* registry.py: how the threads of several processes find, create, seed    *)
(* and heal the registry database before they read or write rows in it.    *)
(*                                                                         *)
(* Each thread makes one Registry operation, a lookup or an upsert.  The   *)
(* processes share nothing but the workspace; the threads of a process     *)
(* share its Registry object, that is its bootstrap lock and the database  *)
(* id it caches.  Names of databases are not unique in a workspace, ids    *)
(* are: the database that the thread t creates has the id t.  A thread may *)
(* stop for ever at any step, which is also how a killed process looks.    *)
(*                                                                         *)
(* An operator Name_Slip is Name with a plausible mistake in it.  It is no *)
(* part of the specification: it records what the properties can tell from *)
(* the code as it is.                                                      *)
(***************************************************************************)

CONSTANTS
    Thread,
    Process,
    HomeOf,       \* the process each thread belongs to
    Writer,       \* the threads that upsert a row; the others look one up
    Origin,       \* a registry database from before these processes
    NoDatabase,   \* Registry._database_id before the bootstrap
    Nobody,       \* the holder of a lock that is free
    Faults        \* how requests may fail: "refused" (no effect), "lost"
                  \* (they take effect, but the caller sees an exception)

ASSUME ThreadsAssumption ==
    /\ HomeOf \in [Thread -> Process]
    /\ Writer \subseteq Thread
    /\ Origin \notin Thread
    /\ Nobody \notin Thread
    /\ NoDatabase \notin Thread \cup {Origin}
ASSUME FaultsAssumption == Faults \subseteq {"refused", "lost"}

VARIABLES
    registries,   \* the databases that have the registry's name
    seeded,       \* those whose `entries` table exists
    rows,         \* the rows in each, named by the thread that wrote them
    cached,       \* Registry._database_id, per process
    holder,       \* Registry._bootstrap_lock, per process
    pc            \* where each thread is

workspace == <<registries, seeded, rows>>
vars == <<registries, seeded, rows, cached, holder, pc>>

DatabaseId == Thread \cup {Origin}

\* The steps a thread takes while it holds the lock.
Bootstrapping == {"list", "create", "seed"}

TypeOK ==
    /\ registries \in SUBSET DatabaseId
    /\ seeded \in SUBSET DatabaseId
    /\ rows \in [DatabaseId -> SUBSET Thread]
    /\ cached \in [Process -> DatabaseId \cup {NoDatabase}]
    /\ holder \in [Process -> Thread \cup {Nobody}]
    /\ pc \in [Thread -> Bootstrapping \cup
                  {"idle", "lock", "use", "heal", "requery",
                   "done", "failed", "unreadable"}]
    /\ \A t \in Thread : pc[t] \in {"use", "heal", "requery"} =>
            cached[HomeOf[t]] # NoDatabase

\* The workspace is new, or has a registry, seeded or not.
Init ==
    /\ registries \in SUBSET {Origin}
    /\ seeded \in SUBSET registries
    /\ rows = [d \in DatabaseId |-> {}]
    /\ cached = [p \in Process |-> NoDatabase]
    /\ holder = [p \in Process |-> Nobody]
    /\ pc = [t \in Thread |-> "idle"]

-----------------------------------------------------------------------------

Reply == {"ok"} \cup Faults
TookEffect(reply) == reply # "refused"
Raised(reply) == reply # "ok"

At(t, step) == pc[t] = step
Goto(t, step) == pc' = [pc EXCEPT ![t] = step]

Release(t) == holder' = [holder EXCEPT ![HomeOf[t]] = Nobody]

\* The id is returned to the caller only.
Adopt_Slip(t, d) ==
    /\ Release(t)
    /\ Goto(t, "use")
    /\ UNCHANGED cached

\* _find_or_create_database returned d: it is cached and the lock released.
Adopt(t, d) ==
    /\ cached' = [cached EXCEPT ![HomeOf[t]] = d]
    /\ Release(t)
    /\ Goto(t, "use")

\* The exception leaves the lock held.
Abort_Slip(t) ==
    /\ Goto(t, "failed")
    /\ UNCHANGED <<cached, holder>>

\* _find_or_create_database raised: nothing is cached, the lock is released.
Abort(t) ==
    /\ Goto(t, "failed")
    /\ Release(t)
    /\ UNCHANGED cached

\* A replace-mode load of the empty table: the table exists from now on, and
\* it is empty.
EmptyReplace(d, reply) ==
    /\ seeded' = IF TookEffect(reply) THEN seeded \cup {d} ELSE seeded
    /\ rows' = IF TookEffect(reply) THEN [rows EXCEPT ![d] = {}] ELSE rows
    /\ UNCHANGED registries

-----------------------------------------------------------------------------
(* Registry.database_id                                                    *)

Call(t) ==
    /\ At(t, "idle")
    /\ Goto(t, "lock")
    /\ UNCHANGED <<workspace, cached, holder>>

UseCached(t) ==
    LET p == HomeOf[t] IN
    /\ At(t, "lock") /\ holder[p] = Nobody
    /\ cached[p] # NoDatabase
    /\ Goto(t, "use")
    /\ UNCHANGED <<workspace, cached, holder>>

\* The check of _database_id is outside the lock.
StartBootstrap_Slip(t) ==
    LET p == HomeOf[t] IN
    /\ At(t, "lock")
    /\ cached[p] = NoDatabase
    /\ holder' = [holder EXCEPT ![p] = t]
    /\ Goto(t, "list")
    /\ UNCHANGED <<workspace, cached>>

StartBootstrap(t) ==
    LET p == HomeOf[t] IN
    /\ At(t, "lock") /\ holder[p] = Nobody
    /\ cached[p] = NoDatabase
    /\ holder' = [holder EXCEPT ![p] = t]
    /\ Goto(t, "list")
    /\ UNCHANGED <<workspace, cached>>

\* A database without the entries table is not taken for a registry.
Listed_Slip == registries \cap seeded

\* The databases of the listing that have the registry's name.
Listed == registries

\* The order of the listing is the service's.
List(t) ==
    /\ At(t, "list")
    /\ \/ \E d \in Listed : Adopt(t, d)
       \/ /\ Listed = {}
          /\ Goto(t, "create")
          /\ UNCHANGED <<cached, holder>>
       \/ /\ Faults # {}
          /\ Abort(t)
    /\ UNCHANGED workspace

Create(t, reply) ==
    /\ At(t, "create")
    /\ registries' = IF TookEffect(reply) THEN registries \cup {t} ELSE registries
    /\ IF Raised(reply) THEN Abort(t)
       ELSE Goto(t, "seed") /\ UNCHANGED <<cached, holder>>
    /\ UNCHANGED <<seeded, rows>>

Seed(t, reply) ==
    /\ At(t, "seed")
    /\ EmptyReplace(t, reply)
    /\ IF Raised(reply) THEN Abort(t) ELSE Adopt(t, t)

-----------------------------------------------------------------------------
(* The operations, once they have the id                                   *)

\* The first SELECT of _execute.
Query(t) ==
    LET d == cached[HomeOf[t]] IN
    /\ At(t, "use") /\ t \notin Writer
    /\ \/ d \in seeded /\ Goto(t, "done")
       \/ d \notin seeded /\ Goto(t, "heal")
       \/ Faults # {} /\ Goto(t, "failed")
    /\ UNCHANGED <<workspace, cached, holder>>

\* Publishes the schema somewhere else than the query looks.
Healed_Slip(t) == t

\* The database that _execute publishes the schema in.
Healed(t) == cached[HomeOf[t]]

\* `entries' not found: publish the schema ...
Heal(t, reply) ==
    /\ At(t, "heal")
    /\ EmptyReplace(Healed(t), reply)
    /\ Goto(t, IF Raised(reply) THEN "failed" ELSE "requery")
    /\ UNCHANGED <<cached, holder>>

\* ... and retry once; the table missing again is an error like any other.
Requery(t) ==
    LET d == cached[HomeOf[t]] IN
    /\ At(t, "requery")
    /\ \/ d \in seeded /\ Goto(t, "done")
       \/ d \notin seeded /\ Goto(t, "unreadable")
       \/ Faults # {} /\ Goto(t, "failed")
    /\ UNCHANGED <<workspace, cached, holder>>

\* An upsert-mode load; it creates the table when there is none.
Upsert(t, reply) ==
    LET d == cached[HomeOf[t]] IN
    /\ At(t, "use") /\ t \in Writer
    /\ seeded' = IF TookEffect(reply) THEN seeded \cup {d} ELSE seeded
    /\ rows' = IF TookEffect(reply) THEN [rows EXCEPT ![d] = @ \cup {t}] ELSE rows
    /\ Goto(t, IF Raised(reply) THEN "failed" ELSE "done")
    /\ UNCHANGED <<registries, cached, holder>>

-----------------------------------------------------------------------------

OwnStep(t) ==
    \/ UseCached(t) \/ StartBootstrap(t)
    \/ List(t)
    \/ \E reply \in Reply : Create(t, reply) \/ Seed(t, reply)
    \/ Query(t) \/ Requery(t)
    \/ \E reply \in Reply : Heal(t, reply) \/ Upsert(t, reply)

Next == \E t \in Thread : Call(t) \/ OwnStep(t)

Spec == Init /\ [][Next]_vars

\* threading.Lock is not fair, but each thread takes this lock once and every
\* holder lets go of it, so a thread that waits gets it in the end.
Fairness == \A t \in Thread : WF_vars(OwnStep(t))

FairSpec == Spec /\ Fairness

-----------------------------------------------------------------------------
(* Properties                                                              *)

\* A process creates at most one registry database, however many of its
\* threads find none at once and whichever requests fail or take effect
\* unnoticed: _bootstrap_lock spans the listing and the creation.
OneRegistryPerProcess ==
    \A t, u \in registries \cap Thread : HomeOf[t] = HomeOf[u] => t = u

\* All processes use a registry that was there before them, seeded or not,
\* and never create a second one beside it.
FoundRegistryIsShared ==
    Origin \in registries =>
        \A p \in Process : cached[p] \in {Origin, NoDatabase}

\* A registry that a crashed bootstrap left unseeded does not make a lookup
\* fail once the heal has gone through (test_registry_heal.py).
LookupsRecover == \A t \in Thread : pc[t] # "unreadable"

\* Every operation ends, and so the lock never stays with a thread that failed.
OperationsFinish ==
    \A t \in Thread :
        (pc[t] # "idle") ~> (pc[t] \in {"done", "failed", "unreadable"})

-----------------------------------------------------------------------------
(* What the documentation says and the code does not do                    *)

\* The empty replace-mode load comes "before the first real write"
\* (registry.py:134): it takes no row away whose upsert returned.  The seed of
\* a new registry does (registry.py:136), where another process has listed the
\* registry and written to it first, and so does a heal (registry.py:150).
AcknowledgedRowsStay ==
    \A t \in Writer : pc[t] = "done" =>
        t \in rows[cached[HomeOf[t]]]

-----------------------------------------------------------------------------
(* What else the proofs establish                                          *)

\* d has its table, and nobody is on the way to publish an empty one in it.
Settled(d) ==
    /\ d \in seeded
    /\ d \in Thread => pc[d] # "seed"
    /\ \A t \in Thread : pc[t] = "heal" => Healed(t) # d

\* Where AcknowledgedRowsStay does hold: once a registry is settled it stays
\* so, whatever the threads of all processes do, and it loses no row
\* (registry.py:155): a thread begins a heal only where it saw no table.
SettledRowsStay ==
    [][\A d \in DatabaseId : Settled(d) => Settled(d)' /\ rows[d] \subseteq rows'[d]]_vars

\* A bootstrap lock that is taken is held by a thread of the process that is in
\* the middle of its bootstrap: no exception leaves it behind.
NoLockIsLeftBehind ==
    \A p \in Process : holder[p] # Nobody =>
        holder[p] \in Thread /\ HomeOf[holder[p]] = p /\ pc[holder[p]] \in Bootstrapping
=============================================================================
