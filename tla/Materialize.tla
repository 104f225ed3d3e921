---------------------------- MODULE Materialize -----------------------------
(***************************************************************************)
(* decorator.py: calls of functions wrapped with @materialize, on top of   *)
(* the entry store.  A call looks its fingerprint up; on a hit it returns  *)
(* a frame over the row it found, otherwise it runs the function and hands *)
(* the result to the store.  The frame of a hit reads its data later, when *)
(* the row may be long gone, in up to three requests; any frame may be     *)
(* queried with SQL, which takes two.                                      *)
(*                                                                         *)
(* The call c makes at most one build, named c too; Owner, Target and      *)
(* Background say which process makes the call, with which fingerprint,    *)
(* and whether it persists write-behind.                                   *)
(***************************************************************************)
EXTENDS EntryStore

CONSTANT
    ReadFaults    \* TRUE iff a read may be refused though its data is there

ASSUME ReadFaultsAssumption == ReadFaults \in BOOLEAN

VARIABLES
    step,         \* where each call is
    frame,        \* the entry in the frame it returned; NoRow for an entry
                  \* without a database id
    backing,      \* where the frame's data comes from: "remote" to be read,
                  \* "local" in the frame
    reading,      \* what the frame is in use for
    request       \* ... and the request under way, "raised" once one ended
                  \* in a StoreError

store == <<service, building, pool, evicting, flushing, crashed, before>>
uses == <<reading, request>>
calls == <<step, frame, backing, uses>>
allVars == <<store, calls>>

MaterializeTypeOK ==
    /\ TypeOK
    /\ step \in [Build -> {"idle", "compute", "persist", "hit", "miss", "raised"}]
    /\ frame \in [Build -> Row \cup {NoRow}]
    /\ backing \in [Build -> {"none", "remote", "local"}]
    /\ reading \in [Build -> {"none", "arrow", "sql"}]
    /\ request \in [Build -> {"none", "stored", "select", "result", "raised"}]
    /\ \A c \in Build : backing[c] = "remote" => frame[c] \in Row

MaterializeInit ==
    /\ Init
    /\ step = [c \in Build |-> "idle"]
    /\ frame = [c \in Build |-> NoRow]
    /\ backing = [c \in Build |-> "none"]
    /\ reading = [c \in Build |-> "none"]
    /\ request = [c \in Build |-> "none"]

Returned(c) == step[c] \in {"hit", "miss"}

-----------------------------------------------------------------------------
(* The wrapper                                                             *)

Calling(c, at) == step[c] = at /\ Alive(Owner[c])
Move(c, to) == step' = [step EXCEPT ![c] = to]

Return(c, kind, entry, source) ==
    /\ Move(c, kind)
    /\ frame' = [frame EXCEPT ![c] = entry]
    /\ backing' = [backing EXCEPT ![c] = source]
    /\ UNCHANGED uses

\* get_runtime and fingerprint_call come first, outside any handler: what they
\* raise is the caller's, and so is what its key_fn raises.
CallRejected(c) ==
    /\ Calling(c, "idle")
    /\ Move(c, "raised")
    /\ UNCHANGED <<store, frame, backing, uses>>

\* A row of any status counts.
IsHit_Slip(f) == HasRow(f)

IsHit(f) == IsReady(f)

\* Then the hit check; a lookup that raises, or an expired
\* row (Expiry), counts as a miss.
Hit(c) ==
    LET f == Target[c] IN
    /\ Calling(c, "idle")
    /\ IsHit(f)
    /\ Return(c, "hit", entries[f], "remote")
    /\ UNCHANGED store

Miss(c) ==
    /\ Calling(c, "idle")
    /\ Move(c, "compute")
    /\ UNCHANGED <<store, frame, backing, uses>>

\* The exceptions of the wrapped function, and those of to_arrow, are the
\* caller's.
ComputeRaised(c) ==
    /\ Calling(c, "compute")
    /\ Move(c, "raised")
    /\ UNCHANGED <<store, frame, backing, uses>>

\* The caller waits until the persist is over.
MissBehind_Slip(c) ==
    /\ \/ /\ Calling(c, "compute")
          /\ Submit(c)
          /\ Move(c, "persist")
          /\ UNCHANGED <<frame, backing, uses>>
       \/ /\ Calling(c, "persist") /\ c \in Background /\ Finished(c)
          /\ Return(c, "miss", NoRow, "local")
          /\ UNCHANGED store

\* The function has returned, and the store gets its result.  Write-behind:
\* the caller has its frame as soon as the job is queued.
MissBehind(c) ==
    /\ Calling(c, "compute")
    /\ Submit(c)
    /\ Return(c, "miss", NoRow, "local")

\* What the pool raises when it cannot be made or is shut down is not a
\* MaterializedError: it reaches the caller.
MissRefused(c) ==
    /\ Calling(c, "compute")
    /\ SubmitRaises(c)
    /\ Move(c, "raised")
    /\ UNCHANGED <<frame, backing, uses>>

\* background=False: the persist runs in the call ...
MissThrough(c) ==
    /\ Calling(c, "compute")
    /\ MaterializeSync(c)
    /\ Move(c, "persist")
    /\ UNCHANGED <<frame, backing, uses>>

\* ... and the frame holds the ready entry, or, when the store raised, one
\* that is not persisted.
Persisted(c) ==
    /\ Calling(c, "persist") /\ c \notin Background
    /\ Finished(c) /\ pc[c] # "unencodable"
    /\ Return(c, "miss", IF pc[c] = "done" THEN ReadyRow(c) ELSE NoRow, "local")
    /\ UNCHANGED store

\* An encoder's exception is not a MaterializedError: it reaches the caller.
EncodeRaised(c) ==
    /\ Calling(c, "persist") /\ c \notin Background
    /\ pc[c] = "unencodable"
    /\ Move(c, "raised")
    /\ UNCHANGED <<store, frame, backing, uses>>

-----------------------------------------------------------------------------
(* The frame                                                               *)

Idle(c) == Returned(c) /\ Alive(Owner[c]) /\ request[c] \in {"none", "raised"}
Requesting(c, at) == Alive(Owner[c]) /\ request[c] = at

Readable(c) == database[frame[c].database_id] = "loaded"

Use(c, what, next) ==
    /\ reading' = [reading EXCEPT ![c] = what]
    /\ request' = [request EXCEPT ![c] = next]
    /\ UNCHANGED <<store, step, frame>>

\* The next request, or the end of the use: an arrow() that got its table
\* keeps it in the frame.
Continue(c, next) == Use(c, reading[c], next) /\ UNCHANGED backing
Fail(c) == Use(c, "none", "raised") /\ UNCHANGED backing
Succeed(c) ==
    /\ Use(c, "none", "none")
    /\ backing' = IF reading[c] = "arrow" THEN [backing EXCEPT ![c] = "local"] ELSE backing

\* MaterializedFrame.arrow without a table: read_table decodes an inline
\* payload; for other rows it fetches the stored result, if there is one.
ReadTable(c) ==
    /\ Idle(c) /\ backing[c] = "remote"
    /\ IF frame[c].database_id \in Inline
       THEN Use(c, "none", "none") /\ backing' = [backing EXCEPT ![c] = "local"]
       ELSE /\ \E next \in {"stored", "select"} : Use(c, "arrow", next)
            /\ UNCHANGED backing

\* MaterializedFrame.sql, search and vector_search, by query_table.  Without a
\* database id they raise at once and change nothing.
QueryTable(c) ==
    /\ Idle(c) /\ frame[c] # NoRow
    /\ Use(c, "sql", "select")
    /\ UNCHANGED backing

\* A stored result that cannot be fetched is the end of the read.
FetchStored_Slip(c) ==
    /\ Requesting(c, "stored")
    /\ Succeed(c) \/ Fail(c)

\* The stored result may be gone long before its database, or still be there
\* after it; whatever goes wrong, the read asks the database itself.
FetchStored(c) ==
    /\ Requesting(c, "stored")
    /\ Succeed(c) \/ Continue(c, "select")

\* _run_select: the answer is inline, or a result to be fetched.
Select(c) ==
    /\ Requesting(c, "select")
    /\ \/ Readable(c) /\ (Succeed(c) \/ Continue(c, "result"))
       \/ (~Readable(c) \/ ReadFaults) /\ Fail(c)

\* The result is waited for until it is there.
FetchResult_Slip(c) ==
    /\ Requesting(c, "result")
    /\ Readable(c) /\ Succeed(c)

\* _fetch_arrow of that result, which the database may not outlive.
FetchResult(c) ==
    /\ Requesting(c, "result")
    /\ \/ Succeed(c)
       \/ (~Readable(c) \/ ReadFaults) /\ Fail(c)

-----------------------------------------------------------------------------

CallStep(c) ==
    \/ ComputeRaised(c)
    \/ MissBehind(c) \/ MissRefused(c) \/ MissThrough(c) \/ Persisted(c) \/ EncodeRaised(c)

ReadStep(c) == FetchStored(c) \/ Select(c) \/ FetchResult(c)

StoreStep ==
    /\ \/ LibraryStep
       \/ \E e \in Evictor : EvictSnapshot(e)
       \/ \E g \in Flusher : FlushSnapshot(g)
       \/ \E p \in Process : Crash(p)
    /\ UNCHANGED calls

MaterializeNext ==
    \/ \E c \in Build :
          \/ CallRejected(c) \/ Hit(c) \/ Miss(c) \/ CallStep(c)
          \/ ReadTable(c) \/ QueryTable(c) \/ ReadStep(c)
    \/ StoreStep

MaterializeSpec == MaterializeInit /\ [][MaterializeNext]_allVars

\* The caller's thread runs, the pool's need not: it may be as slow or as
\* stuck as it likes.
CallerFairness ==
    \A c \in Build :
        /\ WF_allVars(CallStep(c)) /\ WF_allVars(ReadStep(c))
        /\ c \notin Background => WF_allVars(PersistStep(c) /\ UNCHANGED calls)

FairMaterializeSpec == MaterializeSpec /\ CallerFairness

-----------------------------------------------------------------------------
(* Properties                                                              *)

\* A frame with a database id loses its data only to an eviction that looked
\* its row up, or to the cleanup of a build whose acknowledgement was lost;
\* a refresh of the entry by another call leaves it readable.
OnlyEvictionTakesData ==
    \A c \in Build : frame[c] # NoRow =>
        LET d == frame[c].database_id IN
        \/ database[d] = "loaded"
        \/ \E e \in Evictor : eentry[e] # NoRow /\ eentry[e].database_id = d
        \/ LostAcks /\ ~Published(d)

\* A hit is on a row that was ready: its build went all the way through
\* mark_ready's request, under the fingerprint of the call (decorator.py:206).
HitsArePublished ==
    \A c \in Build : step[c] = "hit" =>
        LET d == frame[c].database_id IN
        Target[d] = Target[c] /\ frame[c].status = "ready"
            /\ \/ Published(d)
               \/ LostAcks /\ pc[d] \in Cleaning \cup {"failed"}

\* The call has raised, and had asked the service for no change by then.
RaisedFirst(c) == step[c] = "raised" /\ pc[c] \in {"idle", "refused", "unencodable"}

\* Every call comes to its end however slow the pool is: a write-behind miss
\* waits for nobody, a synchronous one for its own requests only.  The end is
\* a frame, also when a request of the persist fails (decorator.py:11); only a
\* call that has not got that far may raise.
CallsEnd ==
    \A c \in Build :
        (step[c] # "idle") ~> (Returned(c) \/ RaisedFirst(c) \/ ~Alive(Owner[c]))

\* A read raises only when its data is gone: a stored result that cannot be
\* fetched any more is no reason, the query after it gets the same data
\* (store.py:251).
ReadsSurviveLostResults ==
    ~ReadFaults =>
        \A c \in Build :
            request[c] = "raised" => ~Readable(c)

\* Every read ends, with its table or a StoreError, also when the database is
\* deleted between two of its requests.
ReadsEnd ==
    \A c \in Build :
        (reading[c] # "none") ~> (reading[c] = "none" \/ ~Alive(Owner[c]))

-----------------------------------------------------------------------------
(* What else the proofs establish                                          *)

\* The store sees a call only once its function has returned.
OnlyMissesPersist ==
    \A c \in Build : step[c] \in {"idle", "compute", "hit"} => pc[c] = "idle"

\* A call that raises does so before it has asked the service for any change,
\* and leaves no database and no row of its own behind.  What may reach the
\* caller is a ConfigurationError of get_runtime, what fingerprint_call or
\* key_fn raise, what the function and to_arrow raise, what the pool raises
\* when it cannot take the job, and what the encoder raises in a synchronous
\* persist; never a failed request, of which decorator.py:11 says 'the cache
\* can degrade to "no cache," never to "no page."'
CallsFailOpen ==
    \A c \in Build : step[c] = "raised" =>
        /\ RaisedFirst(c)
        /\ database[c] = "absent"
        /\ \A f \in Fingerprint : HasRow(f) => entries[f].database_id # c

\* With a service that refuses nothing that is there and loses no
\* acknowledgement, a read fails only after an eviction that had looked up
\* the row of its database (store.py:319): no other call of the function, no
\* refresh and no failed build takes a frame's data away.
ReadsFailByEvictionOnly ==
    ~ReadFaults /\ ~LostAcks =>
        \A c \in Build : request[c] = "raised" =>
            \E e \in Evictor :
                eentry[e] # NoRow /\ eentry[e].database_id = frame[c].database_id

\* A hit begins with its data in place, though the row was written, replaced,
\* evicted or marked failed by others (decorator.py:206): the frame can be
\* read at that moment, unless an acknowledgement was lost.
HitsAreReadable ==
    [][~LostAcks =>
        \A c \in Build : step[c] # "hit" /\ step'[c] = "hit" => Readable(c)']_allVars

-----------------------------------------------------------------------------
(* What the documentation says and the code does not do                    *)

\* "on a fresh write-behind miss it raises until the background persist lands"
\* (DESIGN.md, MaterializedFrame): once the persist of the call that returned
\* the frame has landed, its sql() has a database to ask.
SqlWorksOncePersisted ==
    \A c \in Build :
        step[c] = "miss" /\ pc[c] = "done" /\ database[c] = "loaded" =>
            frame[c] # NoRow
=============================================================================
