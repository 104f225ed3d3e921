----------------------------- MODULE EntryStore -----------------------------
(***************************************************************************)
(* store.py: persisting captured results write-behind, evicting entries    *)
(* and flushing, by several processes that share one registry.             *)
(*                                                                         *)
(* Each build is one call of materialize: a sequence of remote requests    *)
(* that a worker thread (or, synchronously, the caller) issues one by one. *)
(* Between two of them anything else may happen: other builds of the same  *)
(* fingerprint, evictions, flushes, the end of the process.  Every request *)
(* may fail.  Expiry is not in this module: rows and databases live until  *)
(* they are deleted.                                                       *)
(*                                                                         *)
(* An operator Name_Slip is Name with a plausible mistake in it.  It is no *)
(* part of the specification: it records what the properties can tell from *)
(* the code as it is.                                                      *)
(***************************************************************************)
EXTENDS HotdataService, Integers, Sequences, FiniteSets

CONSTANTS
    Process,      \* application processes, each with one EntryStore and pool
    Evictor,      \* calls of EntryStore.evict
    Flusher,      \* calls of EntryStore.flush
    Owner,        \* the process that makes each call
    Target,       \* the fingerprint each build or evict is about
    Background,   \* the builds that run write-behind
    Inline,       \* the builds whose table fits in the row's inline payload
    Indexed,      \* the builds that declare search indexes
    Timed,        \* the flushes called with a timeout
    MaxWorkers    \* config.background_max_workers, which nothing validates

ASSUME CallsAssumption ==
    /\ Owner \in [Build \cup Evictor \cup Flusher -> Process]
    /\ Target \in [Build \cup Evictor -> Fingerprint]
    /\ Background \subseteq Build
    /\ Inline \subseteq Build
    /\ Indexed \subseteq Build
    /\ Timed \subseteq Flusher
ASSUME DistinctCallsAssumption == Evictor \cap Flusher = {}
ASSUME MaxWorkersAssumption == MaxWorkers \in Int

VARIABLES
    pc,           \* where each build is
    existing,     \* the row mark_failed read and is about to write back
    queue,        \* each pool's work queue
    inflight,     \* EntryStore._inflight: the futures not yet untracked
    epc,          \* where each evict is
    epending,     \* the futures an evict waits for
    eentry,       \* the row an evict looked up
    fpc,          \* where each flush is
    fpending,     \* the futures a flush waits for
    freported,    \* the failures a flush returned (the builds they are of)
    crashed,      \* processes that were killed; a restart is a new process
    before        \* history: the background builds submitted by its process
                  \* before an evict or a flush took its snapshot

building == <<pc, existing>>
pool == <<queue, inflight>>
evicting == <<epc, epending, eentry>>
flushing == <<fpc, fpending, freported>>
vars == <<service, building, pool, evicting, flushing, crashed, before>>

-----------------------------------------------------------------------------

\* The states of a build.  "create" to "publish" are the requests of
\* _persist up to mark_ready, in the order they are made; the cleanup states
\* those of _cleanup_failed_build; the next four those of its future.  A job
\* that the pool refused has none.
Phase == {"idle", "queued",
          "create", "load", "mint", "publish", "index",
          "cleanup_db", "cleanup_lookup", "cleanup_mark",
          "done", "index_failed", "failed", "unencodable", "refused"}

Cleaning == {"cleanup_db", "cleanup_lookup", "cleanup_mark"}

Waiting == {"idle", "queued"}
Finished(b) == pc[b] \in {"done", "index_failed", "failed", "unencodable", "refused"}
Running(b) == pc[b] \notin Waiting /\ ~Finished(b)

\* mark_ready has returned.
Published(b) == pc[b] \in {"index", "done", "index_failed"}

\* The future has an exception: a StoreError, or what the encoder raised.
HasFailed(b) == pc[b] \in {"index_failed", "failed", "unencodable"}

Alive(p) == p \notin crashed
OwnBackground(p) == {b \in Background : Owner[b] = p}
Submitted(p) == {b \in OwnBackground(p) : pc[b] \notin {"idle", "refused"}}

TypeOK ==
    /\ ServiceTypeOK
    /\ pc \in [Build -> Phase]
    /\ existing \in [Build -> Row \cup {NoRow}]
    /\ queue \in [Process -> Seq(Build)]
    /\ inflight \in [Process -> SUBSET Build]
    /\ epc \in [Evictor -> {"idle", "wait", "delete_row", "delete_db",
                            "done", "failed"}]
    /\ epending \in [Evictor -> SUBSET Build]
    /\ eentry \in [Evictor -> Row \cup {NoRow}]
    /\ fpc \in [Flusher -> {"idle", "wait", "done"}]
    /\ fpending \in [Flusher -> SUBSET Build]
    /\ freported \in [Flusher -> SUBSET Build]
    /\ crashed \in SUBSET Process
    /\ before \in [Evictor \cup Flusher -> SUBSET Build]
    /\ \A b \in Build : pc[b] = "cleanup_mark" => existing[b] \in Row
    /\ \A e \in Evictor : epc[e] = "delete_db" => eentry[e] \in Row

Init ==
    /\ ServiceInit
    /\ pc = [b \in Build |-> "idle"]
    /\ existing = [b \in Build |-> NoRow]
    /\ queue = [p \in Process |-> <<>>]
    /\ inflight = [p \in Process |-> {}]
    /\ epc = [e \in Evictor |-> "idle"]
    /\ epending = [e \in Evictor |-> {}]
    /\ eentry = [e \in Evictor |-> NoRow]
    /\ fpc = [g \in Flusher |-> "idle"]
    /\ fpending = [g \in Flusher |-> {}]
    /\ freported = [g \in Flusher |-> {}]
    /\ crashed = {}
    /\ before = [c \in Evictor \cup Flusher |-> {}]

-----------------------------------------------------------------------------
(* materialize                                                             *)

\* One future per fingerprint: a second job takes the first one's place.
Tracking_Slip(p, b) == {a \in inflight[p] : Target[a] # Target[b]} \cup {b}

\* _inflight with the future of b added ...
Tracking(p, b) == inflight[p] \cup {b}

\* The callback drops the fingerprint's whole bucket.
Untracking_Slip(p, b) == {a \in inflight[p] : Target[a] # Target[b]}

\* ... and without it: the other futures of its fingerprint stay.
Untracking(p, b) == inflight[p] \ {b}

\* Under _inflight_lock: hand the job to the pool and track its future.  The
\* pool has a worker at least, or it could not have been made.
Submit(b) ==
    LET p == Owner[b] IN
    /\ b \in Background
    /\ MaxWorkers > 0
    /\ pc[b] = "idle" /\ Alive(p)
    /\ pc' = [pc EXCEPT ![b] = "queued"]
    /\ queue' = [queue EXCEPT ![p] = Append(@, b)]
    /\ inflight' = [inflight EXCEPT ![p] = Tracking(p, b)]
    /\ UNCHANGED <<service, existing, evicting, flushing, crashed, before>>

\* The pool cannot be made, or takes no more jobs: the exception is the
\* caller's, and nothing is tracked.
SubmitRaises(b) ==
    /\ b \in Background
    /\ pc[b] = "idle" /\ Alive(Owner[b])
    /\ pc' = [pc EXCEPT ![b] = "refused"]
    /\ UNCHANGED <<service, existing, pool, evicting, flushing, crashed, before>>

\* background=False: the caller's thread runs _persist itself, untracked.
MaterializeSync(b) ==
    /\ b \notin Background
    /\ pc[b] = "idle" /\ Alive(Owner[b])
    /\ pc' = [pc EXCEPT ![b] = "create"]
    /\ UNCHANGED <<service, existing, pool, evicting, flushing, crashed, before>>

\* A job that raised keeps its worker.
Occupied_Slip(p) ==
    {b \in OwnBackground(p) : pc[b] \notin Waiting /\ pc[b] # "done"}

Occupied(p) == {b \in OwnBackground(p) : Running(b)}

\* A free worker takes the oldest job.
StartJob(b) ==
    LET p == Owner[b] IN
    /\ pc[b] = "queued" /\ Alive(p)
    /\ queue[p] # <<>> /\ Head(queue[p]) = b
    /\ Cardinality(Occupied(p)) < MaxWorkers
    /\ pc' = [pc EXCEPT ![b] = "create"]
    /\ queue' = [queue EXCEPT ![p] = Tail(@)]
    /\ UNCHANGED <<service, existing, inflight, evicting, flushing, crashed, before>>

\* The done-callback of the future, under _inflight_lock.
Untrack(b) ==
    LET p == Owner[b] IN
    /\ Finished(b) /\ b \in inflight[p] /\ Alive(p)
    /\ inflight' = [inflight EXCEPT ![p] = Untracking(p, b)]
    /\ UNCHANGED <<service, building, queue, evicting, flushing, crashed, before>>

-----------------------------------------------------------------------------
(* _persist and _cleanup_failed_build                                      *)

\* b's thread makes its next move, leaving everything but its own place and
\* the service as they are.
Persisting(b, phase) == pc[b] = phase /\ Alive(Owner[b])
Goto(b, phase) ==
    /\ pc' = [pc EXCEPT ![b] = phase]
    /\ UNCHANGED <<pool, evicting, flushing, crashed, before>>

\* Encoding the table and creating the database come before the failure
\* domain: an exception of either ends the persist with no cleanup.  Arrow's
\* own exception is not made a StoreError.
EncodeFails(b) ==
    /\ Persisting(b, "create")
    /\ Goto(b, "unencodable")
    /\ UNCHANGED <<service, existing>>

CreateEntryDatabase(b, reply) ==
    /\ Persisting(b, "create")
    /\ SetDatabase(b, "empty", reply)
    /\ Goto(b, IF Raised(reply) THEN "failed" ELSE "load")
    /\ UNCHANGED existing

\* The upload and the load; a failure of either goes to the cleanup.  A
\* table too big for the row then needs a persisted result.
LoadEntry(b, reply) ==
    /\ Persisting(b, "load")
    /\ SetDatabase(b, "loaded", reply)
    /\ Goto(b, IF Raised(reply) THEN "cleanup_db"
               ELSE IF b \in Inline THEN "publish" ELSE "mint")
    /\ UNCHANGED existing

MintResult(b) ==
    /\ Persisting(b, "mint")
    /\ \E phase \in {"publish", "cleanup_db"} : Goto(b, phase)
    /\ UNCHANGED <<service, existing>>

\* The row keeps the status a RegistryEntry has by default.
ReadyRow_Slip(b) == [status |-> "building", database_id |-> b]

ReadyRow(b) == [status |-> "ready", database_id |-> b]

\* The database of the row that is replaced is deleted with it.
MarkReady_Slip(b, reply) ==
    LET f == Target[b] IN
    /\ Persisting(b, "publish")
    /\ entries' = [entries EXCEPT ![f] = ReadyRow(b)]
    /\ database' = [a \in Build |->
                      IF HasRow(f) /\ entries[f].database_id = a THEN "deleted"
                                                               ELSE database[a]]
    /\ Goto(b, IF b \in Indexed THEN "index" ELSE "done")
    /\ UNCHANGED existing

\* Registry.mark_ready: an upsert that replaces whatever row is there.
MarkReady(b, reply) ==
    /\ Persisting(b, "publish")
    /\ SetRow(Target[b], ReadyRow(b), reply)
    /\ Goto(b, IF Raised(reply) THEN "cleanup_db"
               ELSE IF b \in Indexed THEN "index" ELSE "done")
    /\ UNCHANGED existing

\* Index kickoff inside the failure domain.
CreateIndexes_Slip(b) ==
    /\ Persisting(b, "index")
    /\ \E phase \in {"done", "cleanup_db"} : Goto(b, phase)
    /\ UNCHANGED <<service, existing>>

\* Index kickoff, outside the failure domain of the publication.
CreateIndexes(b) ==
    /\ Persisting(b, "index")
    /\ \E phase \in {"done", "index_failed"} : Goto(b, phase)
    /\ UNCHANGED <<service, existing>>

\* An exception here is logged and swallowed.
CleanupDatabase(b, reply) ==
    /\ Persisting(b, "cleanup_db")
    /\ SetDatabase(b, "deleted", reply)
    /\ Goto(b, "cleanup_lookup")
    /\ UNCHANGED existing

\* Registry.mark_failed first reads the row that is there, whoever wrote it;
\* when there is none, or the read fails, the persist is over.
CleanupLookup(b) ==
    LET f == Target[b] IN
    /\ Persisting(b, "cleanup_lookup")
    /\ \/ /\ HasRow(f)
          /\ existing' = [existing EXCEPT ![b] = entries[f]]
          /\ Goto(b, "cleanup_mark")
       \/ /\ Goto(b, "failed")
          /\ UNCHANGED existing
    /\ UNCHANGED service

\* The row is written back as it was read.
FailedRow_Slip(row) == row

FailedRow(row) == [row EXCEPT !.status = "failed"]

\* ... then writes it back with the status changed; an exception is swallowed.
MarkFailed(b, reply) ==
    /\ Persisting(b, "cleanup_mark")
    /\ SetRow(Target[b], FailedRow(existing[b]), reply)
    /\ Goto(b, "failed")
    /\ UNCHANGED existing

-----------------------------------------------------------------------------
(* evict                                                                   *)

Evicting(e, phase) == epc[e] = phase /\ Alive(Owner[e])
EvictGoto(e, phase) ==
    /\ epc' = [epc EXCEPT ![e] = phase]
    /\ UNCHANGED <<building, pool, flushing, crashed>>

\* Under _inflight_lock: this fingerprint's futures.
EvictSnapshot(e) ==
    LET ofEntry == {b \in Build : Target[b] = Target[e]} IN
    /\ Evicting(e, "idle")
    /\ EvictGoto(e, "wait")
    /\ epending' = [epending EXCEPT ![e] = inflight[Owner[e]] \cap ofEntry]
    /\ before' = [before EXCEPT ![e] = Submitted(Owner[e]) \cap ofEntry]
    /\ UNCHANGED <<service, eentry>>

\* Waits for the persists to have published, not just to be over.
WaitOver_Slip(pending) == \A b \in pending : Published(b)

\* futures_wait without a timeout.
WaitOver(pending) == \A b \in pending : Finished(b)

\* The database goes first, the row after it.
EvictLookup_Slip(e) ==
    LET row == entries[Target[e]] IN
    /\ Evicting(e, "wait")
    /\ WaitOver(epending[e])
    /\ eentry' = [eentry EXCEPT ![e] = row]
    /\ EvictGoto(e, "delete_row")
    /\ IF row = NoRow THEN UNCHANGED service
       ELSE SetDatabase(row.database_id, "deleted", "ok")
    /\ UNCHANGED <<epending, before>>

\* futures_wait has returned; look the row up.
EvictLookup(e) ==
    /\ Evicting(e, "wait")
    /\ WaitOver(epending[e])
    /\ \/ /\ eentry' = [eentry EXCEPT ![e] = entries[Target[e]]]
          /\ EvictGoto(e, "delete_row")
       \/ /\ EvictGoto(e, "failed")
          /\ UNCHANGED eentry
    /\ UNCHANGED <<service, epending, before>>

EvictDeleteRow(e, reply) ==
    /\ Evicting(e, "delete_row")
    /\ SetRow(Target[e], NoRow, reply)
    /\ EvictGoto(e, IF Raised(reply) THEN "failed"
                    ELSE IF eentry[e] = NoRow THEN "done" ELSE "delete_db")
    /\ UNCHANGED <<epending, eentry, before>>

\* The database of the row that is there now, if there is one.
EvictedDatabase_Slip(e) ==
    IF HasRow(Target[e]) THEN entries[Target[e]].database_id
                         ELSE eentry[e].database_id

EvictedDatabase(e) == eentry[e].database_id

EvictDeleteDatabase(e, reply) ==
    /\ Evicting(e, "delete_db")
    /\ SetDatabase(EvictedDatabase(e), "deleted", reply)
    /\ EvictGoto(e, IF Raised(reply) THEN "failed" ELSE "done")
    /\ UNCHANGED <<epending, eentry, before>>

-----------------------------------------------------------------------------
(* flush                                                                   *)

FlushSnapshot(g) ==
    LET p == Owner[g] IN
    /\ fpc[g] = "idle" /\ Alive(p)
    /\ fpc' = [fpc EXCEPT ![g] = "wait"]
    /\ fpending' = [fpending EXCEPT ![g] = inflight[p]]
    /\ before' = [before EXCEPT ![g] = Submitted(p)]
    /\ UNCHANGED <<service, building, pool, evicting, freported, crashed>>

\* Every future is done, or the timeout has passed; return the exceptions of
\* those that are done.
FlushReturn(g) ==
    /\ fpc[g] = "wait" /\ Alive(Owner[g])
    /\ g \in Timed \/ WaitOver(fpending[g])
    /\ fpc' = [fpc EXCEPT ![g] = "done"]
    /\ freported' = [freported EXCEPT ![g] = {b \in fpending[g] : HasFailed(b)}]
    /\ UNCHANGED <<service, building, pool, evicting, fpending, crashed, before>>

-----------------------------------------------------------------------------

\* The process is killed: its threads, queue and futures are gone.
Crash(p) ==
    /\ Alive(p)
    /\ crashed' = crashed \cup {p}
    /\ UNCHANGED <<service, building, pool, evicting, flushing, before>>

\* The steps of a build's own thread.
PersistStep(b) ==
    \/ EncodeFails(b)
    \/ \E reply \in Reply : CreateEntryDatabase(b, reply)
    \/ \E reply \in Reply : LoadEntry(b, reply)
    \/ MintResult(b)
    \/ \E reply \in Reply : MarkReady(b, reply)
    \/ CreateIndexes(b)
    \/ \E reply \in Reply : CleanupDatabase(b, reply)
    \/ CleanupLookup(b)
    \/ \E reply \in Reply : MarkFailed(b, reply)

EvictStep(e) ==
    \/ EvictLookup(e)
    \/ \E reply \in Reply : EvictDeleteRow(e, reply)
    \/ \E reply \in Reply : EvictDeleteDatabase(e, reply)

\* What the library and its pool do by themselves ...
LibraryStep ==
    \/ \E b \in Build : StartJob(b) \/ Untrack(b) \/ PersistStep(b)
    \/ \E e \in Evictor : EvictStep(e)
    \/ \E g \in Flusher : FlushReturn(g)

\* ... and what the application and the machine it runs on do to it.
EnvironmentStep ==
    \/ \E b \in Build : Submit(b) \/ SubmitRaises(b) \/ MaterializeSync(b)
    \/ \E e \in Evictor : EvictSnapshot(e)
    \/ \E g \in Flusher : FlushSnapshot(g)
    \/ \E p \in Process : Crash(p)

Next == LibraryStep \/ EnvironmentStep

Spec == Init /\ [][Next]_vars

\* A thread that can run does run; nobody has to call the library, and no
\* process has to crash.
Fairness ==
    /\ \A b \in Build :
        WF_vars(StartJob(b)) /\ WF_vars(Untrack(b)) /\ WF_vars(PersistStep(b))
    /\ \A e \in Evictor : WF_vars(EvictStep(e))
    /\ \A g \in Flusher : WF_vars(FlushReturn(g))

FairSpec == Spec /\ Fairness
=============================================================================
