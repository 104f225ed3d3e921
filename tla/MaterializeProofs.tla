-------------------------- MODULE MaterializeProofs --------------------------
(***************************************************************************)
(* Theorems about Materialize for every number of calls, processes and     *)
(* fingerprints: the wrapper uses the store as EntryStore describes it,    *)
(* what it serves was published, and what becomes of it afterwards.        *)
(***************************************************************************)
EXTENDS Materialize, EntryStoreProofs

USE ReadFaultsAssumption

-----------------------------------------------------------------------------
(* The wrapper and the store                                               *)

\* Every step of a call or a frame is a step of the store or leaves it alone.
LEMMA CallsUseTheStore ==
  ASSUME [MaterializeNext]_allVars PROVE [Next]_vars
<1> USE DEF store, calls, uses
<1>1. ASSUME NEW c \in Build,
             CallRejected(c) \/ Hit(c) \/ Miss(c) \/ ComputeRaised(c) \/ Persisted(c) \/ EncodeRaised(c)
      PROVE  UNCHANGED vars
  BY <1>1 DEF CallRejected, Hit, Miss, ComputeRaised, Persisted, EncodeRaised, vars
<1>2. ASSUME NEW c \in Build, MissBehind(c) \/ MissRefused(c) \/ MissThrough(c) PROVE Next
  BY <1>2 DEF MissBehind, MissRefused, MissThrough, Next, EnvironmentStep
<1>3. ASSUME NEW c \in Build, ReadTable(c) \/ QueryTable(c) \/ ReadStep(c) PROVE UNCHANGED vars
  BY <1>3 DEF ReadTable, QueryTable, ReadStep, FetchStored, Select, FetchResult, Succeed, Fail,
     Continue, Use, vars
<1>4. CASE StoreStep
  BY <1>4 DEF StoreStep, Next, EnvironmentStep
<1>5. CASE UNCHANGED allVars
  BY <1>5 DEF allVars, vars
<1>6. QED
  BY <1>1, <1>2, <1>3, <1>4, <1>5 DEF MaterializeNext, CallStep

\* Wrapped functions use the entry store as EntryStore says it may be used, so
\* that all that is proved of EntryStore holds for them.
THEOREM MaterializeImplementsStore == MaterializeSpec => Spec
<1>1. MaterializeInit => Init
  BY DEF MaterializeInit
<1>2. [MaterializeNext]_allVars => [Next]_vars
  BY CallsUseTheStore
<1>3. QED
  BY <1>1, <1>2, PTL DEF MaterializeSpec, Spec

-----------------------------------------------------------------------------
(* Builds, databases and evictions                                         *)

\* What a step may do to a build and to its database.
Moves(b) ==
    /\ Published(b) => Published(b)'
    /\ pc[b] \in Cleaning \cup {"failed"} => pc'[b] \in Cleaning \cup {"failed"}
    /\ pc'[b] = "unencodable" => pc[b] \in {"create", "unencodable"}
    /\ pc'[b] = "done" => Published(b) \/ pc[b] = "publish"
    /\ database'[b] = "loaded" /\ database[b] # "loaded" => pc[b] = "load"
    /\ Published(b)' /\ ~Published(b) => pc[b] = "publish" /\ database'[b] = database[b]
    /\ Published(b) /\ database[b] = "loaded" /\ database'[b] # "loaded" =>
          \E e \in Evictor : eentry[e] \in Row /\ eentry[e].database_id = b /\ UNCHANGED eentry

\* Builds only move on: what is published stays so, what failed is not made
\* ready, and data goes for good, by an eviction when it was published.
LEMMA BuildsAdvance ==
  ASSUME TypeOK, [Next]_vars, NEW c \in Build PROVE Moves(c)
<1> USE DEF TypeOK, ServiceTypeOK, Published, Cleaning, Moves, building, pool, evicting, flushing, service
<1>1. ASSUME NEW b \in Build,
             Submit(b) \/ SubmitRaises(b) \/ MaterializeSync(b) \/ StartJob(b) \/ Untrack(b)
      PROVE  Moves(c)
  BY <1>1 DEF Submit, SubmitRaises, MaterializeSync, StartJob, Untrack
<1>2. ASSUME NEW b \in Build, PersistStep(b) PROVE Moves(c)
  <2> USE DEF Persisting, Goto, SetDatabase, SetRow
  <2>1. CASE EncodeFails(b) \/ MintResult(b) \/ CleanupLookup(b)
    BY <2>1 DEF EncodeFails, MintResult, CleanupLookup
  <2>2. ASSUME NEW reply \in Reply, CreateEntryDatabase(b, reply) \/ CleanupDatabase(b, reply)
        PROVE  Moves(c)
    BY <2>2 DEF CreateEntryDatabase, CleanupDatabase
  <2>3. ASSUME NEW reply \in Reply, LoadEntry(b, reply) PROVE Moves(c)
    BY <2>3 DEF LoadEntry
  <2>4. ASSUME NEW reply \in Reply, MarkReady(b, reply) PROVE Moves(c)
    BY <2>4 DEF MarkReady
  <2>5. CASE CreateIndexes(b)
    BY <2>5 DEF CreateIndexes
  <2>6. ASSUME NEW reply \in Reply, MarkFailed(b, reply) PROVE Moves(c)
    BY <2>6 DEF MarkFailed
  <2>7. QED
    BY <1>2, <2>1, <2>2, <2>3, <2>4, <2>5, <2>6 DEF PersistStep
<1>3. ASSUME NEW e \in Evictor, EvictSnapshot(e) PROVE Moves(c)
  BY <1>3 DEF EvictSnapshot, EvictGoto
<1>4. ASSUME NEW e \in Evictor, EvictStep(e) PROVE Moves(c)
  <2> USE DEF Evicting, EvictGoto, SetDatabase, SetRow
  <2>1. CASE EvictLookup(e)
    BY <2>1 DEF EvictLookup
  <2>2. ASSUME NEW reply \in Reply, EvictDeleteRow(e, reply) PROVE Moves(c)
    BY <2>2 DEF EvictDeleteRow
  <2>3. ASSUME NEW reply \in Reply, EvictDeleteDatabase(e, reply) PROVE Moves(c)
    <3>1. eentry[e] \in Row /\ UNCHANGED <<pc, eentry>>
      BY <2>3 DEF EvictDeleteDatabase
    <3>2. database'[c] = database[c] \/ (database'[c] = "deleted" /\ eentry[e].database_id = c)
      BY <2>3 DEF EvictDeleteDatabase, EvictedDatabase
    <3>3. QED
      BY <3>1, <3>2
  <2>4. QED
    BY <1>4, <2>1, <2>2, <2>3 DEF EvictStep
<1>5. ASSUME NEW g \in Flusher, FlushSnapshot(g) \/ FlushReturn(g) PROVE Moves(c)
  BY <1>5 DEF FlushSnapshot, FlushReturn
<1>6. ASSUME NEW p \in Process, Crash(p) PROVE Moves(c)
  BY <1>6 DEF Crash
<1>7. CASE UNCHANGED vars
  BY <1>7 DEF vars
<1>8. QED
  BY <1>1, <1>2, <1>3, <1>4, <1>5, <1>6, <1>7 DEF Next, LibraryStep, EnvironmentStep

\* Published data is there until an eviction that looked its row up.
Kept(b) ==
    Published(b) =>
        \/ database[b] = "loaded"
        \/ \E e \in Evictor : eentry[e] \in Row /\ eentry[e].database_id = b

DataIsKept == \A b \in Build : Kept(b)

\* An eviction looks one row up, once.
LookedUpOnce ==
    \A e \in Evictor : eentry[e] # NoRow => epc[e] \notin {"idle", "wait"}

\* Only an eviction that looked the row up deletes what was published.
LEMMA PublishedDataIsKept == Spec => [](DataIsKept /\ LookedUpOnce)
<1> DEFINE Inv == DataIsKept /\ LookedUpOnce
<1> USE DEF DataIsKept
<1>1. Init => Inv
  BY DEF Init, ServiceInit, Kept, LookedUpOnce, Published
<1>2. TypeOK /\ Backing /\ Inv /\ [Next]_vars => Inv'
  <2> SUFFICES ASSUME TypeOK, Backing, Inv, [Next]_vars PROVE Inv'
    OBVIOUS
  <2>1. /\ LookedUpOnce'
        /\ \A e \in Evictor : eentry[e] \in Row => eentry'[e] = eentry[e]
    <3> USE DEF TypeOK, LookedUpOnce, evicting
    <3>1. ASSUME NEW e \in Evictor, EvictSnapshot(e) PROVE <2>1!:
      BY <3>1, NoRowAssumption DEF EvictSnapshot, EvictGoto, Evicting
    <3>2. ASSUME NEW e \in Evictor, EvictStep(e) PROVE <2>1!:
      BY <3>2, NoRowAssumption DEF EvictStep, EvictLookup, EvictDeleteRow, EvictDeleteDatabase, EvictGoto, Evicting
    <3>3. CASE UNCHANGED evicting
      BY <3>3
    <3>4. QED
      BY <3>1, <3>2, <3>3
      DEF Next, LibraryStep, EnvironmentStep, PersistStep, EncodeFails, CreateEntryDatabase, LoadEntry,
          MintResult, MarkReady, CreateIndexes, CleanupDatabase, CleanupLookup, MarkFailed, Goto,
          Submit, SubmitRaises, MaterializeSync, StartJob, Untrack, FlushSnapshot, FlushReturn, Crash, vars
  <2>2. ASSUME NEW b \in Build PROVE Kept(b)'
    <3>1. Moves(b)
      BY BuildsAdvance
    <3>2. pc[b] = "publish" => database[b] = "loaded"
      BY DEF Backing
    <3>3. QED
      BY <2>1, <3>1, <3>2 DEF Kept, Moves
  <2>3. QED
    BY <2>1, <2>2
<1>3. QED
  BY <1>1, <1>2, TypeCorrect, RowsAreBacked, PTL DEF Spec

-----------------------------------------------------------------------------
(* Frames                                                                  *)

\* Every variable of the wrapper and of its frames keeps its type; a frame
\* that is still to be read has a database to read it from (decorator.py).
THEOREM MaterializeTypeCorrect == MaterializeSpec => []MaterializeTypeOK
<1> USE DEF MaterializeTypeOK
<1>1. MaterializeInit => MaterializeTypeOK
  <2> SUFFICES ASSUME MaterializeInit PROVE MaterializeTypeOK
    OBVIOUS
  <2>1. TypeOK
    BY DEF MaterializeInit, Init, ServiceInit, TypeOK, ServiceTypeOK, DatabaseState, Row, Phase
  <2>2. QED
    BY <2>1 DEF MaterializeInit
<1>2. MaterializeTypeOK /\ [MaterializeNext]_allVars => MaterializeTypeOK'
  <2> SUFFICES ASSUME MaterializeTypeOK, [MaterializeNext]_allVars PROVE MaterializeTypeOK'
    OBVIOUS
  <2>0. TypeOK'
    BY CallsUseTheStore, TypesAreKept
  <2> USE DEF calls, uses
  <2>1. ASSUME NEW c \in Build, Hit(c) PROVE MaterializeTypeOK'
    <3>1. entries[Target[c]] \in Row
      BY <2>1, CallsAssumption DEF Hit, IsHit, IsReady, HasRow, TypeOK, ServiceTypeOK
    <3>2. QED
      BY <2>0, <2>1, <3>1 DEF Hit, Return, Move
  <2>2. ASSUME NEW c \in Build,
               \/ CallRejected(c) \/ Miss(c) \/ ComputeRaised(c)
               \/ MissRefused(c) \/ EncodeRaised(c) \/ MissThrough(c)
        PROVE  MaterializeTypeOK'
    BY <2>0, <2>2 DEF CallRejected, MissRefused, Miss, ComputeRaised, EncodeRaised, MissThrough, Move
  <2>3. ASSUME NEW c \in Build, MissBehind(c) \/ Persisted(c) PROVE MaterializeTypeOK'
    <3>1. ReadyRow(c) \in Row
      BY DEF ReadyRow, Row
    <3>2. QED
      BY <2>0, <2>3, <3>1 DEF MissBehind, Persisted, Return, Move
  <2>4. ASSUME NEW c \in Build, ReadTable(c) \/ QueryTable(c) PROVE MaterializeTypeOK'
    BY <2>0, <2>4 DEF ReadTable, QueryTable, Use
  <2>5. ASSUME NEW c \in Build, ReadStep(c) PROVE MaterializeTypeOK'
    BY <2>0, <2>5 DEF ReadStep, FetchStored, Select, FetchResult, Succeed, Fail, Continue, Use
  <2>6. CASE UNCHANGED calls
    BY <2>0, <2>6
  <2>7. QED
    BY <2>1, <2>2, <2>3, <2>4, <2>5, <2>6 DEF MaterializeNext, CallStep, StoreStep, allVars
<1>3. QED
  BY <1>1, <1>2, PTL DEF MaterializeSpec

\* The entry in a frame was published by the build of its database: or so it
\* looked, when the acknowledgement of mark_ready was lost.
Genuine(c) ==
    frame[c] # NoRow =>
        LET d == frame[c].database_id IN
        /\ frame[c].status = "ready" /\ Target[d] = Target[c]
        /\ \/ Published(d)
           \/ LostAcks /\ pc[d] \in Cleaning \cup {"failed"}

\* Only frames that were returned hold an entry or are in use.
Used(c) ==
    /\ ~Returned(c) => frame[c] = NoRow
    /\ step[c] = "hit" \/ request[c] # "none" => frame[c] # NoRow

\* A use of a frame ends in an error only without data.
Unfailing(c) ==
    ~ReadFaults /\ request[c] = "raised" => database[frame[c].database_id] # "loaded"

Framed == \A c \in Build : Genuine(c) /\ Used(c) /\ Unfailing(c)

\* No step changes the entry of a frame once it is there, or makes it less
\* genuine.
LEMMA FramesAreGenuine == MaterializeSpec => []Framed
<1> DEFINE Inv == Framed
<1> USE DEF Framed
<1>1. MaterializeInit => Inv
  BY DEF MaterializeInit, Genuine, Used, Unfailing, Returned
<1>2. MaterializeTypeOK /\ References /\ Backing /\ Inv /\ [MaterializeNext]_allVars => Inv'
  <2> SUFFICES ASSUME MaterializeTypeOK, References, Backing, Inv,
                      [MaterializeNext]_allVars, NEW c \in Build
               PROVE  Genuine(c)' /\ Used(c)' /\ Unfailing(c)'
    BY Zenon
  <2>0. TypeOK /\ [Next]_vars
    BY CallsUseTheStore DEF MaterializeTypeOK
  <2> DEFINE d == frame[c].database_id
             Goal == Genuine(c)' /\ Used(c)' /\ Unfailing(c)'
  \* The entry of a frame stays genuine, and data that is gone stays away.
  <2>1. ASSUME frame[c] # NoRow, frame'[c] = frame[c]
        PROVE  Genuine(c)' /\ (database[d] # "loaded" => database'[d] # "loaded")
    <3>1. d \in Build
      BY <2>1 DEF MaterializeTypeOK, Row
    <3>2. Moves(d)
      BY <2>0, <3>1, BuildsAdvance
    <3>3. QED
      BY <2>1, <3>2 DEF Genuine, Moves, Published, Cleaning
  <2>2. ASSUME UNCHANGED <<step[c], frame[c], request[c]>> PROVE Goal
    BY <2>1, <2>2 DEF Genuine, Used, Unfailing, Returned
  \* A call that is under way has no frame.
  <2>3. ASSUME UNCHANGED <<frame[c], uses>>, ~Returned(c), step'[c] # "hit" PROVE Goal
    BY <2>3 DEF Genuine, Used, Unfailing, uses
  <2>4. ASSUME NEW a \in Build, Hit(a) PROVE Goal
    <3>1. CASE a # c
      BY <2>2, <2>4, <3>1 DEF Hit, Return, Move, MaterializeTypeOK, uses
    <3>2. CASE a = c
      <4> DEFINE f == Target[c]
                 b == entries[f].database_id
      <4>1. /\ frame'[c] = entries[f] /\ step'[c] = "hit" /\ request'[c] = request[c]
            /\ frame[c] = NoRow /\ ReadyRowOf(f, b) /\ UNCHANGED <<pc, database>>
        BY <2>4, <3>2 DEF Hit, IsHit, Calling, Return, Move, MaterializeTypeOK, uses, Used, Returned,
           ReadyRowOf, store, building, service
      <4>2. f \in Fingerprint /\ b \in Build
        BY <2>0, <4>1, CallsAssumption DEF TypeOK, ServiceTypeOK, Row, ReadyRowOf, IsReady, HasRow
      <4>3. ~Fresh(b) /\ Target[b] = f /\ ~Stillborn(b)
        BY <4>1, <4>2 DEF References, RefersBack, ReadyRowOf, IsReady, HasRow
      <4>4. Published(b) \/ (LostAcks /\ pc[b] \in Cleaning \cup {"failed"})
        BY <2>0, <4>1, <4>2, <4>3 DEF Backing, Fresh, Stillborn, Published, Cleaning, TypeOK, Phase
      <4>5. Genuine(c)'
        BY <4>1, <4>3, <4>4 DEF Genuine, ReadyRowOf, IsReady, Published
      <4>6. Used(c)' /\ Unfailing(c)'
        BY <4>1 DEF Used, Unfailing, ReadyRowOf, IsReady, HasRow, Returned
      <4>7. QED
        BY <4>5, <4>6
    <3>3. QED
      BY <3>1, <3>2
  <2>5. ASSUME NEW a \in Build,
               \/ CallRejected(a) \/ Miss(a) \/ ComputeRaised(a)
               \/ MissRefused(a) \/ EncodeRaised(a) \/ MissThrough(a)
        PROVE  Goal
    <3>1. CASE a # c
      BY <2>2, <2>5, <3>1 DEF CallRejected, Miss, ComputeRaised, MissRefused, EncodeRaised, MissThrough,
         Move, MaterializeTypeOK, uses
    <3>2. CASE a = c
      BY <2>3, <2>5, <3>2
      DEF CallRejected, Miss, ComputeRaised, MissRefused, EncodeRaised, MissThrough,
          Move, Calling, Returned, MaterializeTypeOK
    <3>3. QED
      BY <3>1, <3>2
  <2>6. ASSUME NEW a \in Build, MissBehind(a) PROVE Goal
    <3>1. CASE a # c
      BY <2>2, <2>6, <3>1 DEF MissBehind, Return, Move, MaterializeTypeOK, uses
    <3>2. CASE a = c
      <4>1. ~Returned(c) /\ frame[c] = NoRow /\ frame'[c] = NoRow /\ step'[c] # "hit"
        BY <2>6, <3>2 DEF MissBehind, Calling, Return, Move, MaterializeTypeOK, Returned, Used
      <4>2. QED
        BY <2>3, <2>6, <4>1 DEF MissBehind, Return
    <3>3. QED
      BY <3>1, <3>2
  <2>7. ASSUME NEW a \in Build, Persisted(a) PROVE Goal
    <3>1. CASE a # c
      BY <2>2, <2>7, <3>1 DEF Persisted, Return, Move, MaterializeTypeOK, uses
    <3>2. CASE a = c
      <4>1. /\ ~Returned(c) /\ frame[c] = NoRow /\ request[c] = "none"
            /\ step'[c] = "miss" /\ UNCHANGED <<uses, pc>>
        BY <2>7, <3>2 DEF Persisted, Calling, Return, Move, MaterializeTypeOK, Returned, Used, store, building
      <4>2. CASE pc[c] = "done"
        <5>1. frame'[c] = ReadyRow(c) /\ Published(c)'
          BY <2>7, <3>2, <4>1, <4>2 DEF Persisted, Return, MaterializeTypeOK, Published
        <5>2. QED
          BY <4>1, <5>1 DEF ReadyRow, Genuine, Used, Unfailing, Returned, uses
      <4>3. CASE pc[c] # "done"
        <5>1. frame'[c] = NoRow
          BY <2>7, <3>2, <4>3 DEF Persisted, Return, MaterializeTypeOK
        <5>2. QED
          BY <2>3, <4>1, <5>1
      <4>4. QED
        BY <4>2, <4>3
    <3>3. QED
      BY <3>1, <3>2
  \* A frame in use stays the frame of its call; the use fails for want of data.
  <2>8. ASSUME NEW a \in Build, ReadTable(a) \/ QueryTable(a) \/ ReadStep(a) PROVE Goal
    <3>1. CASE a # c
      BY <2>2, <2>8, <3>1
      DEF ReadTable, QueryTable, ReadStep, FetchStored, Select, FetchResult, Succeed, Fail, Continue,
          Use, MaterializeTypeOK
    <3>2. CASE a = c
      <4>1. /\ frame[c] # NoRow /\ UNCHANGED <<step, frame, database>>
            /\ request'[c] = "raised" => ReadFaults \/ ~Readable(c)
        BY <2>8, <3>2, NoRowAssumption
        DEF ReadTable, QueryTable, ReadStep, FetchStored, Select, FetchResult, Succeed, Fail, Continue,
            Use, Requesting, Idle, MaterializeTypeOK, Used, store, service
      <4>2. QED
        BY <2>1, <4>1 DEF Used, Unfailing, Readable, Returned
    <3>3. QED
      BY <3>1, <3>2
  <2>9. CASE UNCHANGED calls
    BY <2>2, <2>9 DEF calls, uses
  <2>10. QED
    BY <2>4, <2>5, <2>6, <2>7, <2>8, <2>9 DEF MaterializeNext, CallStep, StoreStep, allVars
<1>3. QED
  BY <1>1, <1>2, MaterializeTypeCorrect, MaterializeImplementsStore, RowsAreBacked, PTL DEF MaterializeSpec

\* What a hit serves was ready, under the fingerprint of the call: its build
\* got as far as mark_ready's request (decorator.py, hit check).
THEOREM HitsWerePublished == MaterializeSpec => []HitsArePublished
<1>1. Framed => HitsArePublished
  BY DEF Framed, Genuine, Used, HitsArePublished
<1>2. QED
  BY <1>1, FramesAreGenuine, PTL

\* The data of a frame is there as long as nobody evicts the entry, whatever
\* becomes of its row meanwhile (store.py, evict; _cleanup_failed_build).
THEOREM FramesKeepTheirData == MaterializeSpec => []OnlyEvictionTakesData
<1>1. MaterializeTypeOK /\ Framed /\ DataIsKept => OnlyEvictionTakesData
  BY NoRowAssumption DEF MaterializeTypeOK, Row, Framed, Genuine, DataIsKept, Kept, OnlyEvictionTakesData, Published, Cleaning
<1>2. QED
  BY <1>1, MaterializeTypeCorrect, FramesAreGenuine, MaterializeImplementsStore, PublishedDataIsKept, PTL

\* A read raises only for want of data: when the stored result is gone, the
\* query that follows finds the same data (store.py, read_table).
THEOREM LostResultsAreSurvived == MaterializeSpec => []ReadsSurviveLostResults
<1>1. Framed => ReadsSurviveLostResults
  BY DEF Framed, Unfailing, ReadsSurviveLostResults, Readable
<1>2. QED
  BY <1>1, FramesAreGenuine, PTL

-----------------------------------------------------------------------------
(* What a caller may see of the store's troubles                           *)

\* The store begins no build of its own, and does nothing more with one that
\* the pool refused or whose table could not be encoded.
LEMMA StoreStartsNothing ==
  ASSUME TypeOK, StoreStep, NEW c \in Build, pc[c] \in {"idle", "refused", "unencodable"}
  PROVE  pc'[c] = pc[c]
<1> USE DEF TypeOK, building
<1>1. ASSUME NEW b \in Build, StartJob(b) \/ Untrack(b) PROVE pc'[c] = pc[c]
  BY <1>1 DEF StartJob, Untrack
<1>2. ASSUME NEW b \in Build, PersistStep(b) PROVE pc'[c] = pc[c]
  BY <1>2 DEF PersistStep, EncodeFails, CreateEntryDatabase, LoadEntry, MintResult, MarkReady,
     CreateIndexes, CleanupDatabase, CleanupLookup, MarkFailed, Persisting, Goto
<1>3. ASSUME NEW e \in Evictor, EvictStep(e) \/ EvictSnapshot(e) PROVE pc'[c] = pc[c]
  BY <1>3 DEF EvictStep, EvictSnapshot, EvictLookup, EvictDeleteRow, EvictDeleteDatabase, EvictGoto
<1>4. ASSUME NEW g \in Flusher, FlushReturn(g) \/ FlushSnapshot(g) PROVE pc'[c] = pc[c]
  BY <1>4 DEF FlushReturn, FlushSnapshot
<1>5. ASSUME NEW p \in Process, Crash(p) PROVE pc'[c] = pc[c]
  BY <1>5 DEF Crash
<1>6. QED
  BY <1>1, <1>2, <1>3, <1>4, <1>5 DEF StoreStep, LibraryStep

\* A call that raises has changed nothing at the service: it got no further
\* than its function, the pool or the encoder (decorator.py, wrapper; store.py,
\* materialize), so that no failed request ever is the caller's.
THEOREM MaterializeFailsOpen == MaterializeSpec => [](OnlyMissesPersist /\ CallsFailOpen)
<1> DEFINE Inv == OnlyMissesPersist /\ \A c \in Build : step[c] = "raised" => RaisedFirst(c)
<1> USE DEF OnlyMissesPersist, RaisedFirst
<1>1. MaterializeInit => Inv
  BY DEF MaterializeInit, Init
<1>2. MaterializeTypeOK /\ Inv /\ [MaterializeNext]_allVars => Inv'
  <2> SUFFICES ASSUME MaterializeTypeOK, Inv, [MaterializeNext]_allVars PROVE Inv'
    OBVIOUS
  <2> USE DEF MaterializeTypeOK, store, building
  <2>1. ASSUME NEW a \in Build,
               CallRejected(a) \/ Hit(a) \/ Miss(a) \/ ComputeRaised(a) \/ Persisted(a) \/ EncodeRaised(a)
        PROVE  Inv'
    BY <2>1 DEF CallRejected, Hit, Miss, ComputeRaised, Persisted, EncodeRaised, Calling, Return, Move
  <2>2. ASSUME NEW a \in Build, MissBehind(a) \/ MissThrough(a) PROVE Inv'
    <3>1. /\ pc[a] = "idle" /\ \A c \in Build : c # a => pc'[c] = pc[c] /\ step'[c] = step[c]
          /\ step'[a] \in {"miss", "persist"}
      BY <2>2 DEF MissBehind, MissThrough, Submit, MaterializeSync, Calling, Return, Move, TypeOK
    <3>2. QED
      BY <3>1
  <2>3. ASSUME NEW a \in Build, MissRefused(a) PROVE Inv'
    <3>1. /\ pc'[a] = "refused" /\ step'[a] = "raised"
          /\ \A c \in Build : c # a => pc'[c] = pc[c] /\ step'[c] = step[c]
      BY <2>3 DEF MissRefused, SubmitRaises, Move, TypeOK
    <3>2. QED
      BY <3>1
  <2>4. ASSUME NEW a \in Build, ReadTable(a) \/ QueryTable(a) \/ ReadStep(a) PROVE Inv'
    BY <2>4 DEF ReadTable, QueryTable, ReadStep, FetchStored, Select, FetchResult, Succeed, Fail,
       Continue, Use
  <2>5. CASE StoreStep
    <3>1. UNCHANGED step
      BY <2>5 DEF StoreStep, calls
    <3>2. QED
      BY <2>5, <3>1, StoreStartsNothing
  <2>6. CASE UNCHANGED allVars
    BY <2>6 DEF allVars, calls
  <2>7. QED
    BY <2>1, <2>2, <2>3, <2>4, <2>5, <2>6 DEF MaterializeNext, CallStep
\* What was not asked for is not there, and no row names it.
<1>3. References /\ Backing /\ Inv => CallsFailOpen
  <2> SUFFICES ASSUME References, Backing, Inv, NEW c \in Build, step[c] = "raised"
               PROVE  /\ database[c] = "absent"
                      /\ \A f \in Fingerprint : HasRow(f) => entries[f].database_id # c
    BY DEF CallsFailOpen
  <2>1. pc[c] = "idle" \/ Stillborn(c)
    BY DEF Stillborn
  <2>2. database[c] = "absent"
    BY <2>1 DEF Backing, Waiting
  <2>3. ASSUME NEW f \in Fingerprint, HasRow(f), entries[f].database_id = c PROVE FALSE
    BY <2>1, <2>3 DEF References, RefersBack, HasRow, Fresh
  <2>4. QED
    BY <2>2, <2>3
<1>4. QED
  BY <1>1, <1>2, <1>3, MaterializeTypeCorrect, MaterializeImplementsStore, RowsAreBacked, PTL
  DEF MaterializeSpec

-----------------------------------------------------------------------------
(* When a frame can be read                                                *)

\* Nothing but an eviction costs a frame its data, as long as the service
\* answers for what it has and loses no acknowledgement (store.py, evict).
THEOREM OnlyEvictionsFailReads == MaterializeSpec => []ReadsFailByEvictionOnly
<1>1. Framed /\ OnlyEvictionTakesData => ReadsFailByEvictionOnly
  BY DEF Framed, Used, Unfailing, OnlyEvictionTakesData, ReadsFailByEvictionOnly
<1>2. QED
  BY <1>1, FramesAreGenuine, FramesKeepTheirData, PTL

\* The row a call finds ready has its data at that moment (decorator.py, hit
\* check; store.py, evict and _cleanup_failed_build).
THEOREM HitsFindTheirData == MaterializeSpec => HitsAreReadable
<1> DEFINE Step == ~LostAcks =>
                     \A c \in Build : step[c] # "hit" /\ step'[c] = "hit" => Readable(c)'
<1>1. MaterializeTypeOK /\ Backing /\ [MaterializeNext]_allVars => [Step]_allVars
  <2> SUFFICES ASSUME MaterializeTypeOK, Backing, [MaterializeNext]_allVars, ~LostAcks,
                      NEW c \in Build, step[c] # "hit", step'[c] = "hit"
               PROVE  Readable(c)'
    OBVIOUS
  <2> USE DEF MaterializeTypeOK
  <2>1. Hit(c)
    BY DEF MaterializeNext, CallStep, StoreStep, CallRejected, Hit, Miss, ComputeRaised, MissBehind,
       MissRefused, MissThrough,
       Persisted, EncodeRaised, ReadTable, QueryTable, ReadStep, FetchStored, Select, FetchResult,
       Succeed, Fail, Continue, Use, Return, Move, allVars, calls
  <2> DEFINE f == Target[c]
             d == entries[f].database_id
  <2>2. /\ IsReady(f) /\ frame'[c] = entries[f] /\ UNCHANGED database
        /\ f \in Fingerprint
    BY <2>1, CallsAssumption DEF Hit, IsHit, Return, store, service
  <2>3. d \in Build /\ ReadyRowOf(f, d)
    BY <2>2 DEF TypeOK, ServiceTypeOK, Row, ReadyRowOf, IsReady, HasRow
  <2>4. database[d] = "loaded"
    BY <2>2, <2>3 DEF Backing, AcknowledgedRowIsBacked
  <2>5. QED
    BY <2>2, <2>4 DEF Readable
<1>2. QED
  BY <1>1, MaterializeTypeCorrect, MaterializeImplementsStore, RowsAreBacked, PTL
  DEF MaterializeSpec, HitsAreReadable

\* Calls of wrapped functions see a snapshot cache: the abstract specification
\* holds of the whole of it, hits, misses, frames, evictions and kills, when
\* no acknowledgement is lost.
THEOREM MaterializeImplementsCache == ASSUME ~LostAcks PROVE MaterializeSpec => CacheSpec
BY MaterializeImplementsStore, StoreImplementsCache, PTL

\* The same with lost acknowledgements, of the rows that were acknowledged.
THEOREM MaterializeImplementsLossyCache == MaterializeSpec => LossyCacheSpec
BY MaterializeImplementsStore, StoreImplementsLossyCache, PTL
=============================================================================
