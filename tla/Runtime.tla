------------------------------ MODULE Runtime -------------------------------
(***************************************************************************)
(* decorator.py, client.py and store.py: what the threads of one process   *)
(* share.  The clients, the runtime (a registry and an entry store) and    *)
(* the executor of the persists are made by whoever needs them first; the  *)
(* first two can be reset, and the settings they are made from may change, *)
(* as they do between tests.                                               *)
(*                                                                         *)
(* Clients and runtimes are named after the thread that makes them.  That  *)
(* all threads of a process use one registry and one entry store is what   *)
(* Bootstrap and EntryStore take for granted.                              *)
(*                                                                         *)
(* An operator Name_Slip is Name with a plausible mistake in it and no     *)
(* part of the specification.                                              *)
(***************************************************************************)
EXTENDS Integers, FiniteSets

CONSTANTS
    User,         \* threads that call a wrapped function or flush the store
    Direct,       \* threads that ask for the clients only
    Setting,      \* what HOTDATA_MATERIALIZED may be
    Valid,        \* the settings that have the required keys
    Workers,      \* background_max_workers of each, which nothing validates
    None

Thread == User \cup Direct

ASSUME ThreadsAssumption ==
    /\ User \cap Direct = {}
    /\ Valid \subseteq Setting
    /\ Workers \in [Setting -> Int]
    /\ None \notin Thread \cup Setting

VARIABLES
    settings,     \* the Django settings
    clients,      \* client._clients
    runtime,      \* decorator._runtime
    executor,     \* the thread that made store._executor
    clientsLock,  \* client._lock
    runtimeLock,  \* decorator._runtime_lock
    pc,           \* where each thread is
    config,       \* the configuration it read
    client,       \* the clients it got
    store,        \* the runtime it got
    job,          \* the persist it submitted
    pending,      \* the jobs a flush waits for
    before,       \* history: the jobs there were when it took its snapshot
    renewed       \* history: which of the singletons were reset

shared == <<clients, runtime, executor>>
locks == <<clientsLock, runtimeLock>>
found == <<config, client, store>>
flushes == <<pending, before>>
vars == <<settings, shared, locks, pc, found, job, flushes, renewed>>

\* The steps of get_runtime that hold its lock.
Building == {"configure", "clients", "connect", "assemble"}

TypeOK ==
    /\ settings \in Setting
    /\ clients \in Thread \cup {None}
    /\ runtime \in Thread \cup {None}
    /\ executor \in User \cup {None}
    /\ clientsLock \in Thread \cup {None}
    /\ runtimeLock \in Thread \cup {None}
    /\ pc \in [Thread -> Building \cup {"idle", "runtime", "have", "submit", "wait", "over", "raised"}]
    /\ config \in [Thread -> Setting \cup {None}]
    /\ client \in [Thread -> Thread \cup {None}]
    /\ store \in [Thread -> Thread \cup {None}]
    /\ job \in [User -> {"none", "queued", "running", "done"}]
    /\ pending \in [User -> SUBSET User]
    /\ before \in [User -> SUBSET User]
    /\ renewed \in SUBSET {"clients", "runtime"}
    /\ \A t \in Thread : pc[t] \in {"have", "submit", "wait"} => store[t] # None

Init ==
    /\ settings \in Setting
    /\ clients = None /\ runtime = None /\ executor = None
    /\ clientsLock = None /\ runtimeLock = None
    /\ pc = [t \in Thread |-> "idle"]
    /\ config = [t \in Thread |-> None]
    /\ client = [t \in Thread |-> None]
    /\ store = [t \in Thread |-> None]
    /\ job = [t \in User |-> "none"]
    /\ pending = [g \in User |-> {}]
    /\ before = [g \in User |-> {}]
    /\ renewed = {}

-----------------------------------------------------------------------------

At(t, step) == pc[t] = step
Goto(t, step) == pc' = [pc EXCEPT ![t] = step]
Put(f, t, v) == [f EXCEPT ![t] = v]

\* The exception of a configuration is swallowed.
Raise_Slip(t) ==
    /\ Goto(t, IF t \in Direct THEN "over" ELSE "have")
    /\ clientsLock' = IF clientsLock = t THEN None ELSE clientsLock
    /\ runtimeLock' = IF runtimeLock = t THEN None ELSE runtimeLock

\* An exception leaves every `with' statement, and reaches the caller: the
\* wrapper asks for the runtime outside its try statements.
Raise(t) ==
    /\ Goto(t, "raised")
    /\ clientsLock' = IF clientsLock = t THEN None ELSE clientsLock
    /\ runtimeLock' = IF runtimeLock = t THEN None ELSE runtimeLock

Call(t) ==
    /\ At(t, "idle")
    /\ Goto(t, IF t \in Direct THEN "clients" ELSE "runtime")
    /\ UNCHANGED <<settings, shared, locks, found, job, flushes, renewed>>

-----------------------------------------------------------------------------
(* get_runtime                                                             *)

UseRuntime(t) ==
    /\ At(t, "runtime") /\ runtimeLock = None
    /\ runtime # None
    /\ store' = Put(store, t, runtime)
    /\ Goto(t, "have")
    /\ UNCHANGED <<settings, shared, locks, config, client, job, flushes, renewed>>

\* The check comes before the lock.
StartRuntime_Slip(t) ==
    /\ At(t, "runtime")
    /\ runtime = None
    /\ runtimeLock' = t
    /\ Goto(t, "configure")
    /\ UNCHANGED <<settings, shared, clientsLock, found, job, flushes, renewed>>

StartRuntime(t) ==
    /\ At(t, "runtime") /\ runtimeLock = None
    /\ runtime = None
    /\ runtimeLock' = t
    /\ Goto(t, "configure")
    /\ UNCHANGED <<settings, shared, clientsLock, found, job, flushes, renewed>>

\* Config.from_django.
Configure(t) ==
    /\ At(t, "configure")
    /\ \/ /\ settings \in Valid
          /\ config' = Put(config, t, settings)
          /\ Goto(t, "clients")
          /\ UNCHANGED locks
       \/ /\ settings \notin Valid
          /\ Raise(t)
          /\ UNCHANGED config
    /\ UNCHANGED <<settings, shared, client, store, job, flushes, renewed>>

\* The registry and the store, over the clients and the configuration.
Assemble(t) ==
    /\ At(t, "assemble")
    /\ runtime' = t
    /\ runtimeLock' = None
    /\ store' = Put(store, t, t)
    /\ Goto(t, "have")
    /\ UNCHANGED <<settings, clients, executor, clientsLock, config, client, job, flushes, renewed>>

-----------------------------------------------------------------------------
(* get_clients                                                             *)

\* Direct callers have what they came for.
Connected(t) == Goto(t, IF t \in Direct THEN "over" ELSE "assemble")

\* Clients that are there are used, whatever the configuration.
UseClients(t) ==
    /\ At(t, "clients") /\ clientsLock = None
    /\ clients # None
    /\ client' = Put(client, t, clients)
    /\ Connected(t)
    /\ UNCHANGED <<settings, shared, locks, config, store, job, flushes, renewed>>

\* The check comes before the lock.
StartClients_Slip(t) ==
    /\ At(t, "clients")
    /\ clients = None
    /\ clientsLock' = t
    /\ Goto(t, "connect")
    /\ UNCHANGED <<settings, shared, runtimeLock, found, job, flushes, renewed>>

StartClients(t) ==
    /\ At(t, "clients") /\ clientsLock = None
    /\ clients = None
    /\ clientsLock' = t
    /\ Goto(t, "connect")
    /\ UNCHANGED <<settings, shared, runtimeLock, found, job, flushes, renewed>>

\* HotdataClients(config or Config.from_django()).
Connect(t) ==
    LET asked == IF t \in Direct THEN settings ELSE config[t] IN
    /\ At(t, "connect")
    /\ config' = Put(config, t, asked)
    /\ \/ /\ asked \in Valid
          /\ clients' = t
          /\ clientsLock' = None
          /\ client' = Put(client, t, t)
          /\ Connected(t)
          /\ UNCHANGED runtimeLock
       \/ /\ asked \notin Valid
          /\ Raise(t)
          /\ UNCHANGED <<clients, client>>
    /\ UNCHANGED <<settings, runtime, executor, store, job, flushes, renewed>>

-----------------------------------------------------------------------------
(* Persists                                                                *)

\* A hit, or a call that raises: nothing to persist.
Serve(t) ==
    /\ At(t, "have")
    /\ Goto(t, "over")
    /\ UNCHANGED <<settings, shared, locks, found, job, flushes, renewed>>

Sizing(t) == Workers[config[store[t]]]

\* The first caller's configuration decides the size of the pool ...
GetExecutor(t) ==
    /\ At(t, "have")
    /\ executor # None \/ Sizing(t) > 0
    /\ executor' = IF executor = None THEN t ELSE executor
    /\ Goto(t, "submit")
    /\ UNCHANGED <<settings, clients, runtime, locks, found, job, flushes, renewed>>

\* ... which needs a worker at least: a pool without one cannot be made.
ExecutorRaises(t) ==
    /\ At(t, "have")
    /\ executor = None /\ Sizing(t) <= 0
    /\ Goto(t, "raised")
    /\ UNCHANGED <<settings, shared, locks, found, job, flushes, renewed>>

\* The pool takes no more jobs, as the interpreter is shutting down.
SubmitRaises(t) ==
    /\ At(t, "submit")
    /\ Goto(t, "raised")
    /\ UNCHANGED <<settings, shared, locks, found, job, flushes, renewed>>

Submit(t) ==
    /\ At(t, "submit")
    /\ job' = Put(job, t, "queued")
    /\ Goto(t, "over")
    /\ UNCHANGED <<settings, shared, locks, found, flushes, renewed>>

Unfinished == {t \in User : job[t] \in {"queued", "running"}}
Running == {t \in User : job[t] = "running"}

\* Each store has a pool of its own.
Occupied_Slip(t) == {u \in Running : store[u] = store[t]}

\* The jobs that t's job competes with for a worker.
Occupied(t) == Running

PoolSize == Sizing(executor)

StartJob(t) ==
    /\ job[t] = "queued"
    /\ Cardinality(Occupied(t)) < PoolSize
    /\ job' = Put(job, t, "running")
    /\ UNCHANGED <<settings, shared, locks, pc, found, flushes, renewed>>

FinishJob(t) ==
    /\ job[t] = "running"
    /\ job' = Put(job, t, "done")
    /\ UNCHANGED <<settings, shared, locks, pc, found, flushes, renewed>>

\* The futures of this store.
FlushSnapshot(g) ==
    /\ At(g, "have")
    /\ pending' = Put(pending, g, {t \in Unfinished : store[t] = store[g]})
    /\ before' = Put(before, g, Unfinished)
    /\ Goto(g, "wait")
    /\ UNCHANGED <<settings, shared, locks, found, job, renewed>>

FlushReturn(g) ==
    /\ At(g, "wait")
    /\ \A t \in pending[g] : job[t] = "done"
    /\ Goto(g, "over")
    /\ UNCHANGED <<settings, shared, locks, found, job, flushes, renewed>>

-----------------------------------------------------------------------------
(* The application, or its tests                                           *)

\* The jobs that are waiting in the queue are cancelled.
ResetRuntime_Slip ==
    /\ runtimeLock = None
    /\ runtime' = None
    /\ job' = [t \in User |-> IF job[t] = "queued" /\ store[t] = runtime THEN "none" ELSE job[t]]
    /\ renewed' = renewed \cup {"runtime"}
    /\ UNCHANGED <<settings, clients, executor, locks, pc, found, flushes>>

\* The store is forgotten, but not what it has submitted.
ResetRuntime ==
    /\ runtimeLock = None
    /\ runtime' = None
    /\ renewed' = renewed \cup {"runtime"}
    /\ UNCHANGED <<settings, clients, executor, locks, pc, found, job, flushes>>

ResetClients ==
    /\ clientsLock = None
    /\ clients' = None
    /\ renewed' = renewed \cup {"clients"}
    /\ UNCHANGED <<settings, runtime, executor, locks, pc, found, job, flushes>>

Reconfigure ==
    /\ settings' \in Setting
    /\ UNCHANGED <<shared, locks, pc, found, job, flushes, renewed>>

-----------------------------------------------------------------------------

ClientStep(t) == UseClients(t) \/ StartClients(t) \/ Connect(t)

UserStep(t) ==
    \/ UseRuntime(t) \/ StartRuntime(t) \/ Configure(t) \/ Assemble(t)
    \/ Serve(t) \/ GetExecutor(t) \/ ExecutorRaises(t)
    \/ Submit(t) \/ SubmitRaises(t)
    \/ FlushSnapshot(t) \/ FlushReturn(t)

JobStep(t) == StartJob(t) \/ FinishJob(t)

Next ==
    \/ \E t \in Thread : Call(t) \/ ClientStep(t)
    \/ \E t \in User : UserStep(t) \/ JobStep(t)
    \/ ResetRuntime \/ ResetClients \/ Reconfigure

Spec == Init /\ [][Next]_vars

\* Every thread takes each lock at most once, and a reset holds one for no
\* longer than an assignment: whoever waits gets it.  Workers run.
Fairness ==
    /\ \A t \in Thread : WF_vars(ClientStep(t))
    /\ \A t \in User : WF_vars(UserStep(t)) /\ WF_vars(JobStep(t))

FairSpec == Spec /\ Fairness

-----------------------------------------------------------------------------
(* Properties                                                              *)

\* A flush waits for every persist of the store it has, and, as long as nobody
\* resets the runtime, for every persist the process has submitted: threads
\* that need a store at once do not get two (decorator.py:121).
FlushCoversTheProcess ==
    \A g \in User : pc[g] = "over" =>
        \A t \in before[g] :
            store[t] = store[g] \/ "runtime" \notin renewed => job[t] = "done"

\* "One ApiClient (and its connection pool) per process" (client.py:3): as long
\* as nobody resets the clients, all that use some use the same, also when the
\* runtime is reset and the settings have changed.
OneClientPerProcess ==
    "clients" \notin renewed =>
        \A t, u \in Thread : None \in {client[t], client[u]} \/ client[t] = client[u]

\* No more persists run at once than the configuration of the first store that
\* had one asks for, however many stores there have been (store.py:73).
PoolIsBounded ==
    executor # None => Cardinality(Running) <= PoolSize

\* Whoever asks for the runtime or the clients gets an answer, the two nested
\* locks notwithstanding; and a persist is done in the end, also when its store
\* has been reset.
WorkIsFinished ==
    /\ \A t \in Thread : (pc[t] # "idle") ~> (pc[t] \in {"over", "raised"})
    /\ \A t \in User : (job[t] = "queued") ~> (job[t] = "done")

-----------------------------------------------------------------------------
(* What else the proofs establish                                          *)

\* t needs no lock that somebody has.
Unblocked(t) ==
    /\ pc[t] = "runtime" => runtimeLock = None
    /\ pc[t] = "clients" => clientsLock = None

Asking == {"runtime", "clients"}
LockOf(t) == IF pc[t] = "runtime" THEN runtimeLock ELSE clientsLock

\* The two locks nest in one order (decorator.py:124, client.py:41): whoever
\* waits for one waits for a thread that is using it and can go on, or for one
\* that waits in its turn for the clients' lock, whose holder can go on.  No
\* lock is held by a thread that has come to its end.
NobodyIsLockedOut ==
    \A t \in Thread : pc[t] \in Asking /\ ~Unblocked(t) =>
        LET h == LockOf(t) IN
        /\ h \in Thread /\ pc[h] \in Building
        /\ \/ Unblocked(h)
           \/ pc[t] = "runtime" /\ pc[h] = "clients"
                /\ pc[clientsLock] = "connect" /\ Unblocked(clientsLock)

\* A job that is queued, or that a flush waits for, runs or has a worker that
\* is free or will be, whatever was reset since it was submitted (store.py:69).
JobsHaveWorkers ==
    /\ \A t \in User : job[t] = "queued" =>
            Running # {} \/ Cardinality(Occupied(t)) < PoolSize
    /\ \A g \in User : pc[g] = "wait" =>
            \A t \in pending[g] : job[t] \in {"queued", "running", "done"}
=============================================================================
