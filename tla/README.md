# hotdata-materialized in TLA+

A verification project for `hotdata_materialized`: TLA+ modules that model the
entry store, the registry, the `@materialize` wrapper, the fingerprints, the
ageing of entries and what the threads of a process share,
configurations that check them with TLC, and theorems that TLAPS proves for every
value of the constants. Paths are relative to the repository.

The package caches the result of a function in a remote service. Each cached
entry is an *instant database* of its own, found through a row of the shared
*registry*. The service offers no transactions: persisting, evicting,
refreshing and bootstrapping are sequences of HTTP requests, made by the
threads of many processes, any of which may fail or be the last one a process
makes. That is what the project is about.

## 1. The system

| component | state | operations | modelled by |
|---|---|---|---|
| **entry store** `store.py` | `_inflight` (futures by fingerprint, under a lock), the global thread pool and its queue | `materialize`, `_persist`, `_cleanup_failed_build`, `evict`, `flush`, `read_table`, `query_table` | `EntryStore`, `EntryStoreProperties`, `SnapshotCache`; `IndexCreation`; the reads in `Materialize`; the expiry of databases in `Expiry` |
| **registry rows** `registry.py` | one row per fingerprint, in the service | `lookup`, `mark_ready`, `mark_failed`, `delete`, `list_expired` | `HotdataService`, `EntryStore`, `Expiry` |
| **registry bootstrap** `registry.py` | `_database_id`, `_bootstrap_lock`; the registry databases of the workspace | `database_id`, `_find_or_create_database`, heal in `_execute` | `Bootstrap` |
| **wrapper and frame** `decorator.py` | per call: where it is; per frame: its entry and table | the wrapper, `MaterializedFrame.arrow`, `.sql`, `.search` | `Materialize` (expiry of the hit: `Expiry`) |
| **runtime, clients** `decorator.py`, `client.py` | two lazy singletons with a lock each, the global executor | `get_runtime`, `get_clients`, resets, `_get_executor` | `Runtime` |
| **fingerprints** `fingerprint.py` | none | canonical JSON, SHA-256 | `Fingerprint` |
| **configuration** `conf.py` | frozen record | `from_django`, `from_dict` | `Configure` of `Runtime`; constants of the others |
| **indexes** `indexes.py` | none | declarations | `IndexCreation` (`Declared`), `EntryStore` (`Indexed`) |
| **SQL quoting** `_sql.py`, **Arrow** `_arrow.py` | none | encoders | outcome only (`EncodeFails`, `Inline`) |
| **demo** `demo/` | none | evict, call, flush, call five times | its calls are actions |
| **release tooling** `scripts/` | files | changelog text, git, gh | - |
| **Hotdata service** (external) | databases, tables, indexes, results | create, load, query, index, delete, expire | `HotdataService`, part of `Bootstrap`, `Expiry`, `IndexCreation` |

How they interact. A wrapped call looks its fingerprint up in the registry. On
a hit it returns a frame over the row; on a miss it runs the function and hands
the captured table to the store, which persists it in the pool (write-behind,
the default) or in the calling thread. A persist is: encode; create the entry's
database; upload and load; mint a persisted result if the table is too big for
the row; upsert the ready row; create indexes. A failure between the load and
the upsert deletes the database and marks the row of the fingerprint, if there
is one, failed. `evict` waits for this process's persists of the fingerprint,
looks the row up, deletes the row, then the database. `flush` waits for this
process's persists and returns their exceptions. All of them reach the registry
through `Registry.database_id`, which finds or creates the registry database
once per process. A row carries the time at which it stops being a hit, and a
database the later time at which the service drops it; both are computed by the
process that persists, from its own clock, at two different moments. The store,
the registry and the clients are made on first use and shared by the threads of
a process, and so is the executor, which outlives a reset of the others.

What makes it hard: every request is a point where another process may act;
requests fail with or without having taken effect; cleanup can fail as well; a
killed process leaves its sequence where it is; `mark_failed` is a read followed
by a write; futures are untracked by callbacks that race the snapshots of
`evict` and `flush`; locks do not reach across processes; a frame reads its
data long after the row it came from may have gone, in up to three requests;
times are compared that were read from different clocks; index creation is
retried while it holds a worker; and lazy singletons are made under nested
locks by whoever comes first. `PROJECT.json` lists these
hazards, each at its line, with the properties that watch it.

What makes each component correct:

- entry store: a ready row has its data, at all times; only a build's own
  publication makes an entry ready; an eviction is not undone by persists that
  were there before it; waiting is for the right jobs and ends;
- bootstrap: one registry per process and, when one is there, one for all; a
  half-made registry is repaired; no row is lost; no lock is left behind;
- wrapper: a hit is on published data of the same fingerprint, and stays
  readable until somebody evicts it; a read fails only when its data is gone,
  and ends; a miss waits for no pool;
- expiry: no data is served past its time, none is dropped by the service while
  it is served, and no database with a ttl is left behind for ever;
- index creation: a table lock that goes in time costs no index, no conflict is
  taken for a success, and the pool gets through;
- runtime: one store, one set of clients and one executor per process, so that
  `flush` misses nothing; no lock is held for ever;
- fingerprints: different calls have different ones.

## 2. The modules

`HotdataService` is the service as the package uses it. `database[b]` is the
state of the instant database of build `b` (the service mints unique ids, so
the build names it); `entries[f]` is the row of a fingerprint. A request ends
"ok", "refused" (exception, no effect) or, if `LostAcks`, "lost" (exception,
with effect). A row keeps its status and database id: the other columns are
copied unread, except `expires_at`, which is the subject of `Expiry`, and the
inline payload, which is the set `Inline`.

`EntryStore` is `store.py` with the row operations of `registry.py`. One `Build`
is one call of `EntryStore.materialize`, one `Evictor` or `Flusher` one call of
`evict` or `flush`; `Owner` is the process of each.

| code | actions |
|---|---|
| `materialize` | `Submit` (submit and track, under the lock), `SubmitRaises` (the pool cannot be made or takes no more jobs; nothing is tracked), `MaterializeSync` |
| thread pool | `StartJob` (oldest job, `MaxWorkers` at a time) |
| `_untrack` | `Untrack`, some time after the job ends |
| `_persist` | `EncodeFails`, `CreateEntryDatabase`, `LoadEntry`, `MintResult`, `MarkReady`, `CreateIndexes` |
| `_cleanup_failed_build` | `CleanupDatabase`, `CleanupLookup`, `MarkFailed` (the two halves of `Registry.mark_failed`) |
| `evict` | `EvictSnapshot`, `EvictLookup` (after the wait), `EvictDeleteRow`, `EvictDeleteDatabase` |
| `flush` | `FlushSnapshot`, `FlushReturn` |
| kill of a process | `Crash`; a restarted process is another one |

`pc` is the program counter of a build, with the exception its future holds
told apart where the code does (`failed` before the publication,
`index_failed` after it, `unencodable` before the failure domain); `refused` is
a build that never became a job. `before` is a
history variable: the background builds submitted when an `evict` or `flush`
took its snapshot.

`EntryStoreProperties` states what holds of it, the parts of the inductive
invariants, what the documentation says that does not hold, and the refinement
of `SnapshotCache`. `SnapshotCache` is what the store promises: of each key it
serves one snapshot or none, only of snapshots that are readable; snapshots
become readable (`Store`), are published once and never again, are abandoned or
withdrawn, and are discarded only when they are not served. It has a second
next-state relation, `LossyNext`, which adds `Lose`: a build is given up for a
request that took effect. The store is mapped to it twice, as `Cache` by all ready
rows and as `Acknowledged` by those whose `mark_ready` returned.

`Bootstrap` is the other half of `registry.py`. Each thread makes one lookup or
one upsert; threads share `cached` (`_database_id`) and `holder`
(`_bootstrap_lock`) with their process, and the `workspace` with everybody.
`Call`, `UseCached`, `StartBootstrap`, `List`, `Create`, `Seed` are
`database_id` and `_find_or_create_database`; `Query`, `Heal`, `Requery` are
`_execute` with its one retry; `Upsert` is `_upsert`. Initially the workspace is
new, or has a registry, seeded or not. A thread that stops anywhere stands for
a killed process.

`Materialize` composes the wrapper with `EntryStore`: the call `c` and the build
it may make have the same name, the steps of the store are steps of the
composition, and `Submit` and `MaterializeSync` happen only inside a call
(`MissBehind`, `MissThrough`). `CallRejected` is what `get_runtime` and
`fingerprint_call` raise, outside any `try`; `Hit`, `Miss` (also of a lookup that
raised), `ComputeRaised`, `MissRefused` (the pool's own exception, which is not
a `MaterializedError`), `Persisted`, `EncodeRaised` are the rest of the wrapper. A frame
that a call returned is used one request after the other:

| code | actions |
|---|---|
| `MaterializedFrame.arrow`, `read_table` | `ReadTable` (an inline payload, or the first request of a remote read), `FetchStored` (the result minted at persist time, and the fallback) |
| `sql`, `search`, `vector_search`, `query_table` | `QueryTable` |
| `_run_select` | `Select`, answered at once or by a result |
| `_fetch_arrow` of that result | `FetchResult` |

`request` is the request under way, "raised" once one ended in a `StoreError`. A
stored result may be gone before its database or outlive it. With `ReadFaults`
the service may refuse any read.

`IndexCreation` puts the loop of `_create_index` in the place of `CreateIndexes`,
EntryStore's one step for it: `CreateIndex`, `RetryConflict`, `LastConflict`
and `IndexRefused` are the outcomes of one attempt. `hold` is how many of the
loop's sleeps the table is still locked for; an index name that is taken is the
other cause of a conflict, which the code cannot tell from the first.

`Expiry` is one entry in time: `now` is the service's clock, `Skew` how far each
process's is ahead. `Begin` and `Stamp` are the two readings of the clock in a
persist, each followed by the request that uses it (`CreateDatabase`,
`MarkReady`); `Lookup` and `Check` are the hit check, which reads the clock after
the row; `StartList` and `ListExpired` are `list_expired`, which reads it before.
`Expire` is the service's backstop, at any time from the deadline on or never:
that it comes is the formula `ServiceDrops`, which no specification has among its
fairness. The interleaving of cleanups is `EntryStore`'s subject; here a persist
that fails does so in one step (`GiveUp`), leaving anything its cleanup or a kill
may leave, also after a `mark_ready` that raised though it had written its row
(`MarkReadyUnanswered`; the build is then "uncertain", and "withdrawn" once
given up).

`Runtime` is what the threads of one process share: `clients`, `runtime` and
`executor`, named after the thread that made them, and the two locks.
`get_runtime` is `UseRuntime` or `StartRuntime`, `Configure`, the steps of
`get_clients` (`UseClients` or `StartClients`, `Connect`) and `Assemble`; a
configuration that raises lets go of both locks (`Raise`). `GetExecutor`,
`Submit`, `StartJob`, `FinishJob` are a persist as far as the pool is concerned
(`ExecutorRaises` is the `ValueError` of a pool without workers, which the
settings may ask for, and `SubmitRaises` that of a pool that is shut down),
`FlushSnapshot` and `FlushReturn` a flush of the store the thread has.
`ResetRuntime`, `ResetClients` and `Reconfigure` happen at any time. That there is
one store and one registry per process is what `EntryStore` and `Bootstrap`
take for granted.

`Fingerprint` is `fingerprint.py`. A value is a leaf (a string, an int, a date, a
uuid, an opaque object) or a container of leaves; `Json` is what
`canonical_json` makes of it, with `JsonLeaf` the default hook and `JsonKey` what
`json.dumps` does to the keys of a dict; `Rejected` is when they raise; `Digest`
is `fingerprint_call`, whose `key_fn` replaces args and kwargs. A string that
begins with the name of a tag is told from one that does not. On top of these
operators is a cache of one entry: some call makes it (`Store`), any calls
follow and hit it when their fingerprint is its own (`Serve`), so that "false
hit" is a statement about what a caller is given. `json.dumps` is taken to tell
JSON trees apart, and SHA-256 their texts.

`EntryStore`, `Materialize`, `IndexCreation` and `Expiry` assume a registry that is
there and seeded, and take fingerprints as given; `Bootstrap` is about how the
registry comes to be. An operator `Name_Slip` is `Name` with
a mistake a programmer could make; it belongs to no specification, and shows,
put in place of `Name`, that the property it is listed with in `PROJECT.json`
can fail.

## 3. What is checked

| run | what it shows |
|---|---|
| `store` | `NoDanglingReadyRow`, `FailedPersistIsInvisible`, `NoResurrection`, `EvictIsFinal` and the refinement `CacheSpec`, with three builds, one of them in another process, an eviction, refused requests and kills |
| `pool` | `FlushWaitsForEarlierBuilds`, and that persists, evictions and flushes end, with one worker |
| `bootstrap` | `OneRegistryPerProcess`, `FoundRegistryIsShared`, `LookupsRecover`, `OperationsFinish`, with refused and unacknowledged requests |
| `materialize` | `OnlyEvictionTakesData`, `HitsArePublished`, `ReadsSurviveLostResults`, `CallsEnd`, `ReadsEnd`, with unacknowledged requests |
| `index` | `SuccessMeansIndexed`, `LocksAreWaitedOut`, `PersistFinishes` with one worker, and that the loop implements the step of `EntryStore` it stands for (`ImplementsStore`) |
| `expiry` | `BackstopComesLast`, `HitsHaveTheirData`, `StalenessIsBounded`, `ListedRowsAreNotServed`, `DatabasesAreReclaimed` (if the service drops what has expired), with three clocks that disagree |
| `runtime` | `FlushCoversTheProcess`, `OneClientPerProcess`, `PoolIsBounded`, `WorkIsFinished`, under resets and changes of the settings |
| `fingerprint` | `OrdinaryCallsAreTold`, `VersionsAreTold`, for every pair of calls over small values |

Each also checks its module's type invariant, except `pool`, which shares
`store`'s module. Four runs show where the code does not do what a document or a
comment says; each checks one property, and TLC finds the counterexample:

- `flush`, `FlushSurfacesFailures`: "Failures are logged loudly and surfaced by
  flush()" (`store.py:13`). A persist that fails before `flush` takes its
  snapshot has been untracked, and nobody is told. `test_store.py:115` passes
  only because its flush usually wins that race.
- `wipe`, `AcknowledgedRowsStay`: the empty replace-mode load comes "before the
  first real write" (`registry.py:134`). In TLC's trace a process creates the
  registry, another lists it and its upsert returns, and the first one's seed
  (`registry.py:136`) then empties the table; a heal (`registry.py:150`) that races
  an upsert does the same. `Upsert` creating a missing table is how `tests/fakes.py` has
  the service behave.
- `sql`, `SqlWorksOncePersisted`: on a fresh miss `.sql()` raises "until the
  background persist lands" (`DESIGN.md:215`). The frame of a write-behind miss
  keeps the pending entry it was returned with, which never gets a database id:
  it raises for as long as the frame lives.
- `collision`, `NoFalseHit`: "false hits are not" safe (`fingerprint.py:3-4`). A
  date has the fingerprint of the string `'date:' + d.isoformat()`, a tuple and a
  set that of a list, an integer key that of its decimal string.
  `OrdinaryCallsAreTold` is what does hold.

Six more things that documents say and the modules contradict have no run of
their own. `mark_failed` writes a failed row over whatever row the fingerprint has, so
that a failed persist can leave one ("a failed persist leaves no registry row",
`README.md:162`). Of two concurrent misses the first to publish leaves a loaded
database no row names, as does each refresh, for ever when the ttl is None ("just
wasted compute", `DESIGN.md:204`; `DatabasesAreReclaimed` is the case with a
ttl). Two processes that start in a new workspace create a registry each ("one
instant database", `registry.py:1`). And a ready row over a deleted database, as a
lost acknowledgement of `mark_ready` leaves it, is a hit
(`OnlyEvictionTakesData` names the case; "treated as a miss", `DESIGN.md:315`).
"Nothing server-side expires entry databases" and the sweep is therefore
mandatory (`DESIGN.md:288-290`), but the store sends an expiry with each create
and calls it a "best-effort backstop" (`store.py:322`), and the package has no
sweep: a database that was left behind goes only if the service takes it, which
is why `DatabasesAreReclaimed` is conditional on `ServiceDrops`. And the cache is
to degrade never to "no page" (`decorator.py:11`), but settings, arguments
without a fingerprint, a pool that cannot be made and an encoder raise in the
caller (`CallRejected`, `MissRefused`, `EncodeRaised`; `CallsEnd` and
`MaterializeFailsOpen` say that nothing else of the library does).

**Bounds.** Calls are finite sets, each call is made at most once, so no counter
needs a cap. `store` has three builds because the hazards of `mark_failed`, of
the per-fingerprint bookkeeping and of an eviction between them need a build
that fails, one that publishes and one that evict waits for; one process has two
of them, so that a second future of a fingerprint exists, and the third runs in
another process, which no lock or future connects to the first. One fingerprint
is enough: nothing a step does to a fingerprint depends on another's row, except
the queue, and the proofs are for any number. `Inline` and `Indexed` are split
between the builds so that every path through `_persist` occurs. `pool` has more
jobs than workers. `bootstrap` has two threads per process, for the lock, and two
processes, for what the lock does not cover, each with a reader and a writer. `fingerprint` has
two functions, one with a `key_fn`, two versions and two atoms: each part of a
call can differ or agree, and no comparison involves a third. `index` has locks
of five sleeps, the most that the loop waits out, and of six, the least that
it does not, and a declaration that is its own conflict. `expiry` has the
smallest clock in which the properties are tight: a grace of 2 is exactly a
slow persist of 1 plus a reader 1 behind, and by `Horizon` every time computed
from a capture by `LastCapture` has passed. Its bounds `MaxWait` and
`MaxPersist` are in the guard of `Tick` only: time does not pass beyond them
while a build is under way. In `runtime` two users, who call or flush, race for
the runtime and one direct user for the clients; the settings ask for one worker,
for none, with which no pool can be made, or are invalid. A pool of one is where
a size not kept shows first; that it is kept between two positive sizes is the
theorem `PoolSizeIsKept`. The
configurations of the violation runs are the smallest that show the divergence,
with no request failing where none has to.

All configurations say `CHECK_DEADLOCK FALSE`: when every call has been made and
has ended, or the processes are dead, nothing is left to happen.

**Fairness.** In `EntryStore`, weak fairness of each build's thread
(`PersistStep`), of the pool (`StartJob`), of the callback (`Untrack`) and of
waiting calls (`EvictStep`, `FlushReturn`): threads of a live process are
scheduled, and every request returns or raises, which the SDK's timeouts see to.
Nothing obliges an application to call the library, nor a process to die, and a
dead process owes nothing: the liveness properties end in "or its process is
dead". Weak fairness of `StartJob` is enough since the queue is first-in
first-out. In `Bootstrap`, weak fairness of each thread; `threading.Lock` is not
fair, but each thread takes it once. In `Materialize` only callers are fair, and
the persist a synchronous caller runs itself, with the reads of its frame:
`CallsEnd` and `ReadsEnd` hold however slow the pool is. `IndexCreation` has the
fairness of `EntryStore`, a build's attempts included. The end that `CallsEnd` means is a frame,
or an exception before anything was asked of the service (`RaisedFirst`).
In `Expiry` time passes and persists take their steps; hit checks, sweeps and the
service owe nothing. Only `DatabasesAreReclaimed` assumes, as its premise
`ServiceDrops`, that the service does drop what is due, at some time. In
`Runtime` threads that have called take their steps and workers run; a thread
takes each lock at most once, so weak fairness is enough for it to get one,
and nobody need ever call, reset or reconfigure. `FlushCoversTheProcess` asks of
a flush that it waits for the persists of the store it is called on, and, in a
process whose runtime is never reset, for all of the process.

## 4. What is proved

Eight modules, `EntryStoreProofs`, `PoolProofs`, `BootstrapProofs`,
`FingerprintProofs`, `MaterializeProofs`, `IndexCreationProofs`, `ExpiryProofs` and
`RuntimeProofs`, are checked by TLAPS, for any sets of processes, threads, builds, calls, fingerprints,
functions, versions, atoms and settings, any number of workers (none and
negative ones included, with which no job is queued), any
declarations, ttls and clocks, and from the named assumptions of the modules
only: the constants have their types, evictions and flushes are different calls,
`NoRow` is no row and no database, the special ids of `Bootstrap` are no
threads', `NoCall` is no call, functions with a `key_fn` are functions,
`Forever` is no time, `Indexed` is the set of builds that declare an index, and
`None` of `Runtime` is no thread and no setting. Every safety property of a
passing run and the refinements are proved. `AcknowledgedRowsHaveData`,
`LossyCacheSpec` and `MaterializeImplementsStore` have no run of their own, nor have the properties that the
modules collect under "What else the proofs establish"; TLC found no
counterexample to those on the instances of the runs, before they were proved.

*A ready row has its data* (`ReadyRowsHaveData`, `FailedPersistsAreInvisible`,
`AcknowledgedRowsHaveData`, `StoreImplementsCache`). `NoDanglingReadyRow` alone is
not inductive: an eviction about to delete a database might be looking at a ready
row's. `References` says that every row, stored or held by a thread that read it
earlier, was written by a build that is past its publication, under that build's
own fingerprint: hence a row can be written back, or a database deleted, without
touching a build still to be published. `Backing` says when data is there: not
before the create, always between the load and the publication, as long as an
acknowledged ready row points at it, and that an eviction which deletes a
database has seen to it that its row is not ready. The second and third theorem
and the refinement follow. Where it matters they assume `~LostAcks`;
`AcknowledgedRowIsBacked` and `LossyCacheSpec` are what remains without that
assumption.

*Nobody brings an entry back* (`ReadinessIsPublishedOnce`, `EvictionIsFinal`).
The first follows from the types step by step: `MarkFailed` writes a failed row,
so only `MarkReady` makes one ready. The second needs `Tracked` (an unfinished
background build is in its process's `_inflight`) and `Awaited` (who waits for it
knows it: each earlier build is finished or among the futures waited for), so
that the builds in `before` are over when the row is deleted. A persist that is
submitted after evict's snapshot, while it waits, is in neither and may publish
the entry again. `FlushWaits` is from the same two.

*Bootstrap.* `ProcessCreatesOneRegistry` rests on `LockHeld` (a thread that lists,
creates or seeds holds its process's lock) and `NoneYet` (while one is about to
create, its process has created none); `FoundRegistryIsUsed` on `NobodyCreates`
(when a registry was there from the start, nobody ever leaves the listing for a
creation). `HealedLookupsSucceed` needs that a thread which queries again has
seen the heal's load accepted, so that the database it uses is seeded, and that no
database is unseeded later. `LocksAreLetGo` says whose a taken lock is: of a thread
that is in the middle of its bootstrap. `RowsOfSettledRegistriesStay` draws the
line around what the run `wipe` shows: a registry that is seeded, and of which no
seed or heal is under way, stays so and loses no row (`Unmade` says that the ids
still to be created are nobody's, so that no later bootstrap comes back to it).
A wiped row was therefore written while a heal, or the seed, was under way.

*Fingerprints.* `HitsHaveTheDigest` is the invariant: who is served has the digest
of the stored call. `VersionsBustTheCache` reads function and version off it.
`OrdinaryCallsAreServedTheirOwn` needs that the digest determines the call, which
for its value is `OrdinaryValuesAreTold`: on ordinary values, leaf by leaf
(`LeavesAreTold`) and container by container, `Json` is injective.
`OpaqueCallsAreRejected` is the type invariant: what `Rejected` lets through has
no opaque leaf. `FalseHitsAreOfShape` bounds what the run `collision` shows: without
strings that look like a tag, two values with one fingerprint are `Alike`, the same
but for list, tuple or set, or for an int as the key of a dict and its text.

*The store is a snapshot cache* (`StoreImplementsLossyCache`,
`StoreImplementsCache`). `StepsFromOutside` goes through the actions of
`EntryStore` once, under `References` and `Backing`, and shows each to be, of the
acknowledged rows, a step of `SnapshotCache` or a stutter, or `Lose` if
acknowledgements may be lost. Hence, with no assumption on the service,
`LossyCacheSpec`: a publication whose acknowledgement was lost takes the row that
was served before it out of service, and nothing more. The refinement needs
`Lose`: on the instance of `store` with two builds and `LostAcks` TLC finds steps
that `SnapshotCache` without it has not, and none outside `LossySpec`. Without
lost acknowledgements every ready row is acknowledged, by `Backing`, so the two
mappings agree and `CacheSpec` follows. `MaterializeImplementsCache`,
`LoopImplementsCache` and their `Lossy` counterparts carry both to the two
compositions, through their own refinements of `EntryStore`.

*What an eviction took stays away* (`EvictionRemovesData`). An eviction that ends
well has deleted a database, also when acknowledgements are lost, and no row is
ready over it later. `PastBuildsOnlyLose` is what it needs: of a build that
cannot be published any more, a deleted database stays deleted and a row that is
not ready stays so.

*The pool* (`PoolProofs`). Weak fairness makes a waiting thread proceed once it can;
that it ever can is a matter of states, and is proved. `PoolIsNeverStuck`: while a job
is queued, or an eviction or a flush waits, a job of the same process runs or
has a worker. The argument: `OwnFutures`, who waits does so for jobs submitted in
its own process; `QueueIsExact`, the queue of a process lists its queued jobs,
each once (`AppendLists` and `TailLists` are the lemmas about sequences), so
that a queued job implies a head of the queue, which is a job of that process;
and when no job runs, no worker is occupied and there is at least one, as a job
is queued only with a pool that could be made.
`FlushReportsFailures` is what holds of the promise that the run `flush` refutes:
the exceptions of the jobs flush found tracked, all of them without a timeout.

*The wrapper.* `MaterializeImplementsStore` maps each step of a call to the step
of the store it contains, or to a stutter, so that the theorems above hold of the
composition and may be used in it. `HitsArePublished` and `OnlyEvictionTakesData`
are about a frame long after it was made, when its build and its row may have
moved on; neither is inductive. `BuildsAdvance` says that builds only move
forwards and that what is published loses its data by an eviction only,
`References` where a row comes from, never from a build that was refused or not
encoded; `Framed` then
says of every frame what was true of its row when it was looked up and stays
true, and that a request goes on only where there is data to be had. The three
properties follow from `Framed` and the invariants of the store, and so do
`OnlyEvictionsFailReads`, where nothing is lost or refused, and `HitsFindTheirData`.
`MaterializeFailsOpen` is what is true of "never to "no page"" (`decorator.py:11`):
a call that raised did so before its first request to create anything
(`RaisedFirst`: for its settings, its arguments, its function, the pool or the
encoder), has created no database, and no row names it. So whatever fails
at the service, in whatever order and however often, is not the caller's. That
the exceptions come first is inductive with `OnlyMissesPersist`, as the store
begins no build of its own (`StoreStartsNothing`); that there is nothing of the
call is from `Backing` and `References`.

*Index creation.* `LoopImplementsStore`: every attempt is EntryStore's
`CreateIndexes` or a stutter, and a step of EntryStore that would be
`CreateIndexes` is none of the composition's. `Progress` (the indexes of a build are
those of the declarations it has dealt with) gives `SuccessIsComplete`.
`Patience` (while the table is locked, every attempt was followed by a sleep, so
attempts and sleeps agree) gives `LocksDoNotFailIndexes`: at the sixth conflict
five sleeps are over.

*Expiry.* `AgesInv` dates everything. `Timely` bounds the time from the capture to
the first reading of the clock and from there to the second, `Dated` says what
was computed from each, `Genuine` that any row, stored, looked up or listed,
carries the time its own build computed and that its build has written it
(`Written`), acknowledged or not, and `Swept`
that a listed row had expired by the lister's clock. With `Genuine` the
properties become inequalities about one build's two readings, whichever
rows replaced which in the meantime. `DatabasesAreDue` is the part of
`DatabasesAreReclaimed` that the code itself guarantees: a database with a ttl is due at a time bounded from the
capture, even if its build was killed; and `EntriesAreNotCutShort` is the other side
of `StalenessIsBounded`, from `Patient` (the readings come after the capture, in
their order): no entry is turned down before its ttl is over.

*Runtime.* `ClientsAreShared` rests on: whoever makes clients holds the lock and
finds none, and without a reset all clients in anybody's hands are the shared
ones. `FlushMissesNothing` has the same for the runtime, and that a flush waits
for each job in `before` or finds it done, of its own store also after resets.
`LocksNestOneWay` rests on `Holding` (which lock a thread at each place has):
the runtime's lock is taken before the clients', never after it, so that
whoever waits does so for a thread that can go on, at most one lock further.
`JobsGetWorkers` is the same of the executor: a queued job has an executor that
is there and has a worker (`Staffed`: none was made without), and either one of its jobs runs or a worker is free. For `PoolSizeIsKept`, `Sized` says
that the thread that made the executor has its store for good, and that a store's
configuration stays; `SizeStays` that the size is one number throughout, and the
bound follows from the guard of `StartJob` and cardinalities
(`FiniteSetTheorems`).

Only model-checked: the liveness properties (`PersistFinishes`, `EvictFinishes`,
`FlushFinishes`, `OperationsFinish`, `CallsEnd`, `ReadsEnd`, `DatabasesAreReclaimed`,
`WorkIsFinished`), as fairness and `ENABLED` are beyond these proofs. What is proved of
them is that no state is a deadlock they could end in: `PoolIsNeverStuck`,
`LocksAreLetGo`, `LocksNestOneWay`, `JobsGetWorkers` and `DatabasesAreDue`.

## 5. What is not modelled, and why

- *Time together with interleaving.* `Expiry` has one entry, no evictions and
  one-step failures; `EntryStore` has no clock. A reading of `Hit` in
  `Materialize` is "a row that is ready and not expired". ISO strings are taken as
  numbers: `utcnow_iso` and `_iso_plus_seconds` give them one format and offset. No
  call of `list_expired` evicts anything yet, since the sweep is not part of the
  package.
- *Late requests.* A lost acknowledgement is modelled; a request that takes
  effect after its caller has seen the exception and moved on is not.
- *Normal interpreter exit*, which waits for the pool, is not a `Crash`;
  `KeyboardInterrupt` and other non-`Exception`s inside a persist are not modelled.
- *Raw exceptions.* What reaches the caller past `except MaterializedError` is in
  `CallRejected`, `MissRefused` and `EncodeRaised`. `EncodeFails` stands for the
  `OverflowError` of a ttl that is out of `datetime`'s range as well, which
  `_create_entry_database` raises before its `try`. `database_id()` outside the
  `try` of `_upsert` and `delete` lets the SDK's `ApiException` through, but the
  package's own callers catch everything (`_persist`, `_cleanup_failed_build`) or
  have the id by then (`evict`). Not modelled is a submit that raises when its job
  is queued already, as CPython's does when it cannot start another thread.
- *Values* nested deeper than one level or with several elements, floats, None and
  booleans (`json.dumps` equates a key `None` or `True` with its string, as it does
  an int), the other tagged types, and `fingerprint_queryset`, which is exported but has
  no caller in the package.
- *Decoration time.* `materialize` raises for an embedding-backed index next to
  others when the function is decorated; declarations that are refused by
  the service are `IndexRefused`.
- *`_rewrite_this`, the search templates and `_sql.py`* turn strings into strings and
  keep no state; their unit tests go value by value. A query of them is
  `QueryTable`.
- *The calls of `Runtime` and of `EntryStore`* meet in no module: `Runtime` has one
  registry and store per process as its result, `EntryStore` as its premise.
- *The demo and the release scripts*: a benchmark that makes calls modelled
  elsewhere in sequence, and text processing around git and gh. *Exceptions and the package
  surface* are declarations.
- Formatting, encodings, statistics columns, logging, release tooling.

## 6. Plan

Done, in this order: `HotdataService`, `EntryStore` with `EntryStoreProperties` and
`SnapshotCache`, `Bootstrap`, `Materialize` with the reads in their steps,
`Fingerprint`, `Expiry`, `IndexCreation`, `Runtime`, and the proofs above.

What could be added: a fingerprint with two levels of nesting; a sweep that
evicts what `list_expired` returned, once the package has one, against refreshes of
the listed entries; `Expiry` with the cleanups of `EntryStore`.
