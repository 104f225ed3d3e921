------------------------ MODULE EntryStoreProperties ------------------------
(***************************************************************************)
(* What EntryStore guarantees, what its documentation says and it does not *)
(* do, and the abstract specification it implements.                       *)
(***************************************************************************)
EXTENDS EntryStore

\* b may still be published.
Fresh(b) == pc[b] \in {"idle", "queued", "create", "load", "mint", "publish"}

ReadyRowOf(f, b) == IsReady(f) /\ entries[f].database_id = b

\* A hit never points at data that is gone: the database of a ready row is
\* loaded, whichever builds, cleanups and evictions of whichever processes
\* are half done (store.py:9, "never a ready row pointing at deleted data").
NoDanglingReadyRow ==
    \A f \in Fingerprint :
        IsReady(f) => database[entries[f].database_id] = "loaded"

\* The same, when acknowledgements may be lost, of the rows whose mark_ready
\* returned: no later cleanup or eviction takes their data away first.
AcknowledgedRowIsBacked ==
    \A f \in Fingerprint, b \in Build :
        ReadyRowOf(f, b) /\ Published(b) => database[b] = "loaded"

\* A persist that ended with an exception before its publication has no ready
\* row, and none later (store.py:13, "they leave no ready registry row").
FailedPersistIsInvisible ==
    \A f \in Fingerprint, b \in Build :
        ReadyRowOf(f, b) => pc[b] # "failed"

\* An entry becomes ready only by its own build's mark_ready: no write-back
\* of a row read earlier (mark_failed) revives one that was evicted,
\* replaced or marked failed in the meantime.
NoResurrection ==
    [][\A f \in Fingerprint, b \in Build :
        ReadyRowOf(f, b)' /\ ~ReadyRowOf(f, b) => pc[b] = "publish"]_vars

\* Once evict has deleted the row, no background persist that its process had
\* submitted before evict took its snapshot of _inflight can make the entry
\* ready again (store.py:307).  One submitted while evict waits may.
EvictIsFinal ==
    \A e \in Evictor : epc[e] \in {"delete_db", "done"} =>
        \A b \in before[e] : ~ReadyRowOf(Target[e], b)

\* When flush returns without a timeout, every background persist submitted
\* before it has finished: the bookkeeping of _inflight never loses a job
\* (store.py:119, "an old job can never untrack a newer one").
FlushWaitsForEarlierBuilds ==
    \A g \in Flusher \ Timed : fpc[g] = "done" =>
        \A b \in before[g] : Finished(b)

\* Persists, evictions and flushes come to an end as long as their process
\* lives: no job is stuck in the pool and nobody waits for ever.
PersistFinishes ==
    \A b \in Build : (pc[b] # "idle") ~> (Finished(b) \/ ~Alive(Owner[b]))

EvictFinishes ==
    \A e \in Evictor :
        (epc[e] # "idle") ~> (epc[e] \in {"done", "failed"} \/ ~Alive(Owner[e]))

FlushFinishes ==
    \A g \in Flusher : (fpc[g] # "idle") ~> (fpc[g] = "done" \/ ~Alive(Owner[g]))

-----------------------------------------------------------------------------
(* Why they hold: the parts of the inductive invariants                    *)

\* b ended before it had asked the service for anything.
Stillborn(b) == pc[b] \in {"unencodable", "refused"}

\* Every row, stored or held by a thread, was written by a build that is past
\* its publication, under that build's own fingerprint.
RefersBack(row, f) ==
    row # NoRow => LET b == row.database_id IN
        ~Fresh(b) /\ ~Stillborn(b) /\ Target[b] = f

References ==
    /\ \A f \in Fingerprint : RefersBack(entries[f], f)
    /\ \A b \in Build : RefersBack(existing[b], Target[b])
    /\ \A e \in Evictor : RefersBack(eentry[e], Target[e])

\* Data is there before the row and goes after it.
Backing ==
    /\ \A b \in Build :
        pc[b] \in Waiting \cup {"create"} \/ Stillborn(b) => database[b] = "absent"
    /\ \A b \in Build : pc[b] \in {"mint", "publish"} => database[b] = "loaded"
    /\ AcknowledgedRowIsBacked
    /\ ~LostAcks => \A f \in Fingerprint, b \in Build :
                        ReadyRowOf(f, b) => Published(b)
    /\ \A e \in Evictor : epc[e] = "delete_db" =>
            ~ReadyRowOf(Target[e], eentry[e].database_id)

\* An unfinished write-behind build is tracked, and who waits for it knows it.
Tracked ==
    \A b \in Background : pc[b] = "idle" \/ Finished(b) \/ b \in inflight[Owner[b]]

Awaited ==
    /\ \A e \in Evictor : epc[e] = "wait" =>
            \A b \in before[e] : Finished(b) \/ b \in epending[e]
    /\ \A e \in Evictor : epc[e] \in {"delete_row", "delete_db", "done"} =>
            \A b \in before[e] : Finished(b)
    /\ \A g \in Flusher : fpc[g] = "wait" =>
            \A b \in before[g] : Finished(b) \/ b \in fpending[g]

-----------------------------------------------------------------------------
(* What else the proofs establish                                          *)

\* What flush does surface: it returns nothing but exceptions of jobs it found
\* in _inflight, and without a timeout all of those (store.py:139).
FlushReportsWhatItFound ==
    \A g \in Flusher :
        /\ freported[g] \subseteq {b \in fpending[g] : HasFailed(b)}
        /\ fpc[g] = "done" /\ g \notin Timed =>
                {b \in fpending[g] : HasFailed(b)} \subseteq freported[g]

\* An evict that returns normally has taken away the data of the row it looked
\* up, and no row ever serves it again, whoever publishes or writes a row back
\* at the same time or later (store.py:319).
EvictedDataIsGone ==
    \A e \in Evictor : epc[e] = "done" /\ eentry[e] # NoRow =>
        LET d == eentry[e].database_id IN
        database[d] = "deleted" /\ \A f \in Fingerprint : ~ReadyRowOf(f, d)

\* A worker can take b.
Startable(b) ==
    LET p == Owner[b] IN
    /\ pc[b] = "queued" /\ queue[p] # <<>> /\ Head(queue[p]) = b
    /\ Cardinality(Occupied(p)) < MaxWorkers

\* Some job of the process is under way, or a worker is there for one.
PoolMoves(p) == \E b \in OwnBackground(p) : Running(b) \/ Startable(b)

\* The pool is never stuck: as long as a job is queued, or an evict or a flush
\* waits for one, some job of the same process can take its next step.  This
\* is what keeps PersistFinishes, EvictFinishes and FlushFinishes from ending
\* in a deadlock, for any number of workers and jobs, zero workers included.
NobodyWaitsForNothing ==
    /\ \A b \in Build : pc[b] = "queued" => PoolMoves(Owner[b])
    /\ \A e \in Evictor :
            epc[e] = "wait" => WaitOver(epending[e]) \/ PoolMoves(Owner[e])
    /\ \A g \in Flusher :
            fpc[g] = "wait" => WaitOver(fpending[g]) \/ PoolMoves(Owner[g])

\* s has every member of S, once, and nothing else.
Lists(s, S) ==
    /\ \A i \in 1..Len(s) : s[i] \in S
    /\ \A x \in S : \E i \in 1..Len(s) : s[i] = x
    /\ \A i, j \in 1..Len(s) : s[i] = s[j] => i = j

\* The queue of a process holds its queued jobs.
Queued(p) == {b \in OwnBackground(p) : pc[b] = "queued"}
QueueIsExact ==
    /\ \A p \in Process : Lists(queue[p], Queued(p))
    /\ \A b \in Build : pc[b] = "queued" => b \in Background /\ MaxWorkers > 0

\* Futures are of builds that were submitted, in the process that waits.
OwnFutures ==
    /\ \A p \in Process : inflight[p] \subseteq Submitted(p)
    /\ \A e \in Evictor : epending[e] \subseteq Submitted(Owner[e])
    /\ \A g \in Flusher : fpending[g] \subseteq Submitted(Owner[g])

-----------------------------------------------------------------------------
(* What the documentation says and the code does not do                    *)

\* "Failures are logged loudly and surfaced by flush()" (store.py:13).
FlushSurfacesFailures ==
    \A g \in Flusher \ Timed : fpc[g] = "done" =>
        \A b \in before[g] : HasFailed(b) =>
            \E h \in Flusher : b \in freported[h]

-----------------------------------------------------------------------------

\* The entry store as a SnapshotCache: a snapshot is served by a ready row and
\* readable while its database is loaded; it is fresh until it is published
\* or its build gives up.  Implemented as long as no acknowledgement is lost.
Cache == INSTANCE SnapshotCache WITH
    None <- NoRow,
    served <- [f \in Fingerprint |->
                  IF IsReady(f) THEN entries[f].database_id ELSE NoRow],
    readable <- {b \in Build : database[b] = "loaded"},
    fresh <- {b \in Build : Fresh(b)}

CacheSpec == Cache!Spec

\* With lost acknowledgements, of the rows whose mark_ready returned: a row
\* that is ready though its build saw an exception is nobody's promise, and
\* costs its fingerprint the snapshot that was served before it, no more.
Acknowledged == INSTANCE SnapshotCache WITH
    None <- NoRow,
    served <- [f \in Fingerprint |->
                  IF IsReady(f) /\ Published(entries[f].database_id)
                  THEN entries[f].database_id ELSE NoRow],
    readable <- {b \in Build : database[b] = "loaded"},
    fresh <- {b \in Build : Fresh(b)}

LossyCacheSpec == Acknowledged!LossySpec
=============================================================================
