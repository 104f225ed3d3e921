------------------------------- MODULE Expiry -------------------------------
(***************************************************************************)
(* How entries age: the row of an entry expires ttl after its mark_ready   *)
(* (registry.py), its database ttl + grace after it was created            *)
(* (store.py), and the two times are read from the clock at different      *)
(* moments, by processes whose clocks disagree.                            *)
(*                                                                         *)
(* One entry, that is, the row of one fingerprint; the builds are those    *)
(* that fill it first and those that refresh it.  Requests fail or take    *)
(* effect; the interleaving of cleanups and evictions is EntryStore's      *)
(* subject and left out.  Times are numbers: the ISO strings of the code   *)
(* have one format and one offset, so they compare as numbers do.          *)
(*                                                                         *)
(* An operator Name_Slip is Name with a plausible mistake in it and no     *)
(* part of the specification.                                              *)
(***************************************************************************)
EXTENDS Integers

CONSTANTS
    Build,        \* calls of EntryStore.materialize for the entry
    Reader,       \* hit checks of the wrapper
    Sweeper,      \* calls of Registry.list_expired
    Skew,         \* how far the clock of the process that makes each call is
                  \* ahead of the service's
    Ttl,          \* the ttl of each build, Forever when it is None
    Forever,      \* no expiry
    NoRow,
    Grace,        \* config.entry_expiry_grace_seconds
    MaxWait,      \* bounds: how long a captured result waits for its persist
    MaxPersist,   \* ... and a persist takes from the time it gives the
                  \* database to the time it gives the row
    LastCapture,  \* bounds: the time after which nothing is captured
    Horizon       \* ... and the last tick of the clock

ASSUME TimesAssumption ==
    /\ Grace \in Nat /\ MaxWait \in Nat /\ MaxPersist \in Nat
    /\ LastCapture \in Nat /\ Horizon \in Nat
    /\ Forever \notin Int
    /\ Ttl \in [Build -> Nat \cup {Forever}]
    /\ Skew \in [Build \cup Reader \cup Sweeper -> Int]

VARIABLES
    now,          \* the service's clock
    pc,           \* where each build is
    database,     \* the state of each build's database ...
    deadline,     \* ... and its server-side expires_at
    stamp,        \* the expires_at that mark_ready computed
    entry,        \* the registry's row
    step,         \* where each hit check is
    frame,        \* the row it looked up
    asof,         \* the time each list_expired asks for
    listed,       \* the row it returned
    captured,     \* history: when each build's data was captured ...
    begun         \* ... and its database's expiry computed

service == <<database, deadline, entry>>
builds == <<pc, stamp, captured, begun>>
readers == <<step, frame>>
sweepers == <<asof, listed>>
vars == <<now, service, builds, readers, sweepers>>

Time == Int \cup {Forever}
Row == [status : {"ready", "failed"}, database_id : Build, expires_at : Time]

ASSUME NoRowAssumption == NoRow \notin Row

TypeOK ==
    /\ now \in Nat
    /\ pc \in [Build -> {"idle", "queued", "create", "load", "stamp", "publish",
                         "done", "failed", "uncertain", "withdrawn"}]
    /\ database \in [Build -> {"absent", "empty", "loaded", "deleted", "expired"}]
    /\ deadline \in [Build -> Time]
    /\ stamp \in [Build -> Time]
    /\ entry \in Row \cup {NoRow}
    /\ step \in [Reader -> {"idle", "check", "hit", "miss"}]
    /\ frame \in [Reader -> Row \cup {NoRow}]
    /\ asof \in [Sweeper -> Time]
    /\ listed \in [Sweeper -> Row \cup {NoRow}]
    /\ captured \in [Build -> Nat]
    /\ begun \in [Build -> Nat]

Init ==
    /\ now = 0
    /\ pc = [b \in Build |-> "idle"]
    /\ database = [b \in Build |-> "absent"]
    /\ deadline = [b \in Build |-> Forever]
    /\ stamp = [b \in Build |-> Forever]
    /\ entry = NoRow
    /\ step = [r \in Reader |-> "idle"]
    /\ frame = [r \in Reader |-> NoRow]
    /\ asof = [s \in Sweeper |-> Forever]
    /\ listed = [s \in Sweeper |-> NoRow]
    /\ captured = [b \in Build |-> 0]
    /\ begun = [b \in Build |-> 0]

-----------------------------------------------------------------------------
(* The clocks                                                              *)

\* utcnow_iso() in the process that makes the call c.
Clock(c) == now + Skew[c]

\* The service's clock advances as long as no build is at the limit of what
\* it may take.
Tick ==
    /\ now < Horizon
    /\ \A b \in Build :
        /\ pc[b] = "queued" => now < captured[b] + MaxWait
        /\ pc[b] \in {"create", "load", "stamp"} => now < begun[b] + MaxPersist
    /\ now' = now + 1
    /\ UNCHANGED <<service, builds, readers, sweepers>>

\* The service drops a database whose time has come, sooner or later.
Expire(b) ==
    /\ database[b] \in {"empty", "loaded"}
    /\ deadline[b] # Forever /\ deadline[b] <= now
    /\ database' = [database EXCEPT ![b] = "expired"]
    /\ UNCHANGED <<now, deadline, entry, builds, readers, sweepers>>

-----------------------------------------------------------------------------
(* A persist                                                               *)

Goto(b, phase) ==
    /\ pc' = [pc EXCEPT ![b] = phase]
    /\ UNCHANGED <<now, readers, sweepers>>

\* The wrapper has the function's result and hands it to the store.
Capture(b) ==
    /\ pc[b] = "idle" /\ now <= LastCapture
    /\ captured' = [captured EXCEPT ![b] = now]
    /\ Goto(b, "queued")
    /\ UNCHANGED <<service, stamp, begun>>

\* The grace is forgotten.
DatabaseExpiry_Slip(b) ==
    IF Ttl[b] = Forever THEN Forever ELSE Clock(b) + Ttl[b]

DatabaseExpiry(b) ==
    IF Ttl[b] = Forever THEN Forever ELSE Clock(b) + Ttl[b] + Grace

\* _create_entry_database reads the clock ...
Begin(b) ==
    /\ pc[b] = "queued"
    /\ deadline' = [deadline EXCEPT ![b] = DatabaseExpiry(b)]
    /\ begun' = [begun EXCEPT ![b] = now]
    /\ Goto(b, "create")
    /\ UNCHANGED <<database, entry, stamp, captured>>

\* The time is computed but not sent.
CreateDatabase_Slip(b) ==
    /\ pc[b] = "create"
    /\ database' = [database EXCEPT ![b] = "empty"]
    /\ deadline' = [deadline EXCEPT ![b] = Forever]
    /\ Goto(b, "load")
    /\ UNCHANGED <<entry, stamp, captured, begun>>

\* ... and creates the database with the time it computed.
CreateDatabase(b) ==
    /\ pc[b] = "create"
    /\ database' = [database EXCEPT ![b] = "empty"]
    /\ Goto(b, "load")
    /\ UNCHANGED <<deadline, entry, stamp, captured, begun>>

Load(b) ==
    /\ pc[b] = "load" /\ database[b] = "empty"
    /\ database' = [database EXCEPT ![b] = "loaded"]
    /\ Goto(b, "stamp")
    /\ UNCHANGED <<deadline, entry, stamp, captured, begun>>

\* _iso_plus_seconds(now, ttl), unless the ttl is None.
RowExpiry(b) == IF Ttl[b] = Forever THEN Forever ELSE Clock(b) + Ttl[b]

\* mark_ready reads the clock ...
Stamp(b) ==
    /\ pc[b] = "stamp"
    /\ stamp' = [stamp EXCEPT ![b] = RowExpiry(b)]
    /\ Goto(b, "publish")
    /\ UNCHANGED <<service, captured, begun>>

\* The row keeps the status a RegistryEntry has by default.
ReadyRow_Slip(b) ==
    [status |-> "building", database_id |-> b, expires_at |-> stamp[b]]

ReadyRow(b) == [status |-> "ready", database_id |-> b, expires_at |-> stamp[b]]

\* ... and upserts the row, however long that takes.
MarkReady(b) ==
    /\ pc[b] = "publish"
    /\ entry' = ReadyRow(b)
    /\ Goto(b, "done")
    /\ UNCHANGED <<database, deadline, stamp, captured, begun>>

\* mark_ready raises though the row was written.
MarkReadyUnanswered(b) ==
    /\ pc[b] = "publish"
    /\ entry' = ReadyRow(b)
    /\ Goto(b, "uncertain")
    /\ UNCHANGED <<database, deadline, stamp, captured, begun>>

\* What is left of the database of a persist that fails: the request that
\* failed may have taken effect, and the deletion may not.
Left(b) ==
    IF pc[b] = "create" THEN {"absent", "empty"}
    ELSE {database[b], "deleted"} \cup
         (IF pc[b] = "load" /\ database[b] = "empty" THEN {"loaded"} ELSE {})

\* A persist fails.  At the create, which may have taken effect all the same,
\* there is no id and no cleanup; after that the database is deleted and the
\* row marked failed, as far as that works, or the process has been killed.
\* mark_failed keeps everything else of the row, its expiry too.
GiveUp(b) ==
    /\ pc[b] \in {"create", "load", "stamp", "publish", "uncertain"}
    /\ Goto(b, IF pc[b] = "uncertain" THEN "withdrawn" ELSE "failed")
    /\ \E state \in Left(b) : database' = [database EXCEPT ![b] = state]
    /\ \/ UNCHANGED entry
       \/ /\ pc[b] # "create" /\ entry # NoRow
          /\ entry' = [entry EXCEPT !.status = "failed"]
    /\ UNCHANGED <<deadline, stamp, captured, begun>>

-----------------------------------------------------------------------------
(* The hit check and the list of what has expired                          *)

\* The row is good until its time has passed.
IsExpired_Slip(row, time) == row.expires_at # Forever /\ row.expires_at < time

\* RegistryEntry.is_expired.
IsExpired(row, time) == row.expires_at # Forever /\ row.expires_at <= time

\* The wrapper looks the row up first ...
Lookup(r) ==
    /\ step[r] = "idle"
    /\ frame' = [frame EXCEPT ![r] = entry]
    /\ step' = [step EXCEPT ![r] = "check"]
    /\ UNCHANGED <<now, service, builds, sweepers>>

\* A row of any age is served.
IsHit_Slip(row, time) == row # NoRow /\ row.status = "ready"

IsHit(row, time) == row # NoRow /\ row.status = "ready" /\ ~IsExpired(row, time)

\* ... and then its own clock.
Check(r) ==
    /\ step[r] = "check"
    /\ step' = [step EXCEPT ![r] = IF IsHit(frame[r], Clock(r)) THEN "hit" ELSE "miss"]
    /\ UNCHANGED <<now, service, builds, frame, sweepers>>

\* list_expired reads its clock ...
StartList(s) ==
    /\ asof[s] = Forever
    /\ asof' = [asof EXCEPT ![s] = Clock(s)]
    /\ UNCHANGED <<now, service, builds, readers, listed>>

\* What expires within the grace is listed already.
ExpiredBy_Slip(time) ==
    entry # NoRow /\ entry.expires_at # Forever /\ entry.expires_at <= time + Grace

\* WHERE expires_at IS NOT NULL AND expires_at <= time.
ExpiredBy(time) ==
    entry # NoRow /\ entry.expires_at # Forever /\ entry.expires_at <= time

\* ... and asks for the rows that have expired by then, whatever their status.
ListExpired(s) ==
    /\ asof[s] # Forever /\ listed[s] = NoRow
    /\ ExpiredBy(asof[s])
    /\ listed' = [listed EXCEPT ![s] = entry]
    /\ UNCHANGED <<now, service, builds, readers, asof>>

-----------------------------------------------------------------------------

PersistStep(b) ==
    \/ Begin(b) \/ CreateDatabase(b) \/ Load(b) \/ Stamp(b)
    \/ MarkReady(b) \/ MarkReadyUnanswered(b) \/ GiveUp(b)

Next ==
    \/ Tick
    \/ \E b \in Build : Capture(b) \/ PersistStep(b) \/ Expire(b)
    \/ \E r \in Reader : Lookup(r) \/ Check(r)
    \/ \E s \in Sweeper : StartList(s) \/ ListExpired(s)

Spec == Init /\ [][Next]_vars

\* Time passes and persists come to an end (EntryStore).  Nothing makes the
\* service drop what has expired: the code calls that a best-effort backstop.
FairSpec ==
    /\ Spec
    /\ WF_vars(Tick)
    /\ \A b \in Build : WF_vars(PersistStep(b))

\* What store.py:323 hopes for of the service.
ServiceDrops == \A b \in Build : WF_vars(Expire(b))

-----------------------------------------------------------------------------
(* Properties                                                              *)

\* The service's own expiry is "a safety net behind the sweep, never the
\* primary eviction path" (conf.py:27): it takes a database only when the row
\* has been expired for the grace, less what the persist took between the two
\* readings of the clock.  This holds of the stored row and of every row
\* that somebody has looked up.
BackstopComesLast ==
    \A row \in {entry} \cup {frame[r] : r \in Reader} :
        row # NoRow /\ database[row.database_id] = "expired" =>
            row.expires_at # Forever /\ row.expires_at + Grace - MaxPersist <= now

Served(r) == step[r] = "check" /\ step'[r] = "hit"

\* A hit is never on a database that the service has expired, as long as the
\* grace makes up for a slow persist and for the reader's clock being behind
\* (decorator.py:209).
HitsHaveTheirData ==
    [][\A r \in Reader :
        Served(r) /\ MaxPersist - Skew[r] <= Grace =>
            database[frame[r].database_id] # "expired"]_vars

\* "Expired entries stop being served immediately" (README.md:151): with the
\* clocks in step, data is served for less than its ttl from the time it was
\* stamped, hence for less than that, the wait for a worker and the persist
\* from the time it was captured.
StalenessIsBounded ==
    [][\A r \in Reader : Served(r) =>
        LET b == frame[r].database_id IN
        Ttl[b] # Forever =>
            now < captured[b] + MaxWait + MaxPersist + Ttl[b] + Skew[b] - Skew[r]]_vars

\* What list_expired returned can be taken away: no reader whose clock is not
\* behind the caller's is ever served that row again.
ListedRowsAreNotServed ==
    [][\A r \in Reader, s \in Sweeper :
        Served(r) /\ frame[r] = listed[s] => Skew[r] < Skew[s]]_vars

\* Provided that the service does drop what has expired, no entry with a ttl
\* leaks its database, whatever becomes of its row: also a persist that was
\* killed half way, and one whose row another build replaced, leave nothing
\* for ever.  This is what sending the time at the create is for (store.py:323,
\* "best-effort server-side backstop"); without the service's part, which the
\* code cannot have, such a database stays.
DatabasesAreReclaimed ==
    ServiceDrops =>
        \A b \in Build : Ttl[b] # Forever =>
            (database[b] \in {"empty", "loaded"}
                ~> database[b] \in {"deleted", "expired"})

-----------------------------------------------------------------------------
(* Why they hold: the parts of the inductive invariant                     *)

\* Where a persist is, and when it read its clock.
Timely(b) ==
    /\ captured[b] <= now /\ begun[b] <= now
    /\ pc[b] = "queued" => now <= captured[b] + MaxWait
    /\ pc[b] \in {"create", "load", "stamp"} => now <= begun[b] + MaxPersist
    /\ pc[b] \notin {"idle", "queued"} => begun[b] <= captured[b] + MaxWait

\* mark_ready has written the row.
Wrote == {"done", "uncertain", "withdrawn"}
Written(b) == pc[b] \in Wrote
Stamped(b) == pc[b] = "publish" \/ Written(b)

\* What it computed from the clock.
Dated(b) ==
    /\ pc[b] \in {"idle", "queued", "create"} => database[b] = "absent"
    /\ pc[b] \notin {"idle", "queued"} =>
        IF Ttl[b] = Forever THEN deadline[b] = Forever
        ELSE deadline[b] = begun[b] + Skew[b] + Ttl[b] + Grace
    /\ Stamped(b) =>
        IF Ttl[b] = Forever THEN stamp[b] = Forever
        ELSE stamp[b] # Forever /\ stamp[b] <= begun[b] + MaxPersist + Skew[b] + Ttl[b]
    /\ database[b] = "expired" => deadline[b] # Forever /\ deadline[b] <= now

\* A row anybody holds is the one its build wrote, but for the status.
Genuine(row) ==
    row # NoRow => Written(row.database_id) /\ row.expires_at = stamp[row.database_id]

Swept(s) ==
    /\ asof[s] # Forever => asof[s] <= now + Skew[s]
    /\ listed[s] # NoRow =>
        /\ asof[s] # Forever /\ listed[s].expires_at # Forever
        /\ listed[s].expires_at <= asof[s]

AgesInv ==
    /\ \A b \in Build : Timely(b) /\ Dated(b)
    /\ Genuine(entry)
    /\ \A r \in Reader : Genuine(frame[r])
    /\ \A s \in Sweeper : Genuine(listed[s]) /\ Swept(s)

-----------------------------------------------------------------------------
(* What else the proofs establish                                          *)

\* What DatabasesAreReclaimed waits for is on its way from the beginning: any
\* database made with a ttl, whatever became of its build, is due at a time
\* bounded by its capture, and one without a ttl is never dropped by the
\* service (store.py:323).
DeadlinesAreBounded ==
    \A b \in Build :
        /\ Ttl[b] = Forever => database[b] # "expired"
        /\ Ttl[b] # Forever /\ database[b] # "absent" =>
            /\ deadline[b] # Forever
            /\ deadline[b] <= captured[b] + MaxWait + Skew[b] + Ttl[b] + Grace

\* A reader's check finds a ready row, and does not serve it.
TurnedDown(r) ==
    /\ step[r] = "check" /\ step'[r] = "miss"
    /\ frame[r] # NoRow /\ frame[r].status = "ready"

\* The counterpart of StalenessIsBounded: a reader that turns a ready row down
\* does so at the earliest when the ttl has passed since the capture, but for
\* the two clocks.  A slow persist never makes an entry live shorter, and an
\* entry without a ttl is never turned down (registry.py:87).
EntriesLiveTheirTtl ==
    [][\A r \in Reader : TurnedDown(r) =>
        LET b == frame[r].database_id IN
        Ttl[b] # Forever /\ captured[b] + Ttl[b] + Skew[b] - Skew[r] <= now]_vars

\* Time only passes between the capture and the readings of the clock.
Patient(b) ==
    /\ pc[b] \notin {"idle", "queued"} => captured[b] <= begun[b]
    /\ Stamped(b) /\ Ttl[b] # Forever =>
        begun[b] + Skew[b] + Ttl[b] <= stamp[b]
=============================================================================
