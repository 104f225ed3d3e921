---------------------------- MODULE ExpiryProofs ----------------------------
(***************************************************************************)
(* Theorems about Expiry for every ttl and grace, any number of builds,    *)
(* readers and sweepers, and clocks that are wrong by any amount.          *)
(***************************************************************************)
EXTENDS Expiry, TLAPS

USE TimesAssumption, NoRowAssumption

\* Every variable keeps its type: every row has the expiry its build computed,
\* or none (registry.py, mark_ready).
THEOREM TypeCorrect == Spec => []TypeOK
<1> USE DEF TypeOK, Time, Row
<1>1. Init => TypeOK
  BY DEF Init
<1>2. TypeOK /\ [Next]_vars => TypeOK'
  <2> SUFFICES ASSUME TypeOK, [Next]_vars PROVE TypeOK'
    OBVIOUS
  <2> USE DEF service, builds, readers, sweepers, Goto, Clock
  <2>1. CASE Tick
    BY <2>1 DEF Tick
  <2>2. ASSUME NEW b \in Build, Capture(b) \/ Expire(b) PROVE TypeOK'
    BY <2>2 DEF Capture, Expire
  <2>3. ASSUME NEW b \in Build, Begin(b) PROVE TypeOK'
    BY <2>3 DEF Begin, DatabaseExpiry
  <2>4. ASSUME NEW b \in Build, CreateDatabase(b) \/ Load(b) PROVE TypeOK'
    BY <2>4 DEF CreateDatabase, Load
  <2>5. ASSUME NEW b \in Build, Stamp(b) PROVE TypeOK'
    BY <2>5 DEF Stamp, RowExpiry
  <2>6. ASSUME NEW b \in Build, MarkReady(b) \/ MarkReadyUnanswered(b) PROVE TypeOK'
    BY <2>6 DEF MarkReady, MarkReadyUnanswered, ReadyRow
  <2>7. ASSUME NEW b \in Build, GiveUp(b) PROVE TypeOK'
    <3>1. database' \in [Build -> {"absent", "empty", "loaded", "deleted", "expired"}]
      BY <2>7 DEF GiveUp, Left
    <3>2. entry' \in Row \cup {NoRow}
      BY <2>7 DEF GiveUp
    <3>3. QED
      BY <2>7, <3>1, <3>2 DEF GiveUp
  <2>8. ASSUME NEW r \in Reader, Lookup(r) \/ Check(r) PROVE TypeOK'
    BY <2>8 DEF Lookup, Check
  <2>9. ASSUME NEW s \in Sweeper, StartList(s) \/ ListExpired(s) PROVE TypeOK'
    BY <2>9 DEF StartList, ListExpired
  <2>10. CASE UNCHANGED vars
    BY <2>10 DEF vars
  <2>11. QED
    BY <2>1, <2>2, <2>3, <2>4, <2>5, <2>6, <2>7, <2>8, <2>9, <2>10 DEF Next, PersistStep
<1>3. QED
  BY <1>1, <1>2, PTL DEF Spec

-----------------------------------------------------------------------------
(* The inductive invariant: which reading of which clock each time in the  *)
(* registry and in the service comes from                                  *)

\* Persists keep within their times and compute what they should.
LEMMA BuildsKeepTime ==
  ASSUME TypeOK, TypeOK', \A b \in Build : Timely(b) /\ Dated(b), [Next]_vars
  PROVE  \A b \in Build : (Timely(b) /\ Dated(b))'
<1> SUFFICES ASSUME NEW c \in Build PROVE (Timely(c) /\ Dated(c))'
  OBVIOUS
<1> USE DEF TypeOK, Time, Timely, Dated, Stamped, Written, Wrote, service, builds, readers,
    sweepers, Goto, Clock
<1>1. CASE Tick
  BY <1>1 DEF Tick
<1>2. ASSUME NEW b \in Build, Capture(b) PROVE (Timely(c) /\ Dated(c))'
  BY <1>2 DEF Capture
<1>3. ASSUME NEW b \in Build, Expire(b) PROVE (Timely(c) /\ Dated(c))'
  BY <1>3 DEF Expire
<1>4. ASSUME NEW b \in Build, Begin(b) PROVE (Timely(c) /\ Dated(c))'
  BY <1>4 DEF Begin, DatabaseExpiry
<1>5. ASSUME NEW b \in Build, CreateDatabase(b) PROVE (Timely(c) /\ Dated(c))'
  BY <1>5 DEF CreateDatabase
<1>6. ASSUME NEW b \in Build, Load(b) PROVE (Timely(c) /\ Dated(c))'
  BY <1>6 DEF Load
<1>7. ASSUME NEW b \in Build, Stamp(b) PROVE (Timely(c) /\ Dated(c))'
  BY <1>7 DEF Stamp, RowExpiry
<1>8. ASSUME NEW b \in Build, MarkReady(b) \/ MarkReadyUnanswered(b) PROVE (Timely(c) /\ Dated(c))'
  BY <1>8 DEF MarkReady, MarkReadyUnanswered
<1>9. ASSUME NEW b \in Build, GiveUp(b) PROVE (Timely(c) /\ Dated(c))'
  BY <1>9 DEF GiveUp, Left
<1>10. ASSUME NEW r \in Reader, Lookup(r) \/ Check(r) PROVE (Timely(c) /\ Dated(c))'
  BY <1>10 DEF Lookup, Check
<1>11. ASSUME NEW s \in Sweeper, StartList(s) \/ ListExpired(s) PROVE (Timely(c) /\ Dated(c))'
  BY <1>11 DEF StartList, ListExpired
<1>12. CASE UNCHANGED vars
  BY <1>12 DEF vars
<1>13. QED
  BY <1>1, <1>2, <1>3, <1>4, <1>5, <1>6, <1>7, <1>8, <1>9, <1>10, <1>11, <1>12
  DEF Next, PersistStep

\* A row that was written stays as it was: its build computes no other time.
LEMMA PublishedIsFinal ==
  ASSUME TypeOK, TypeOK', [Next]_vars, NEW row \in Row \cup {NoRow}, Genuine(row)
  PROVE  row # NoRow => /\ pc'[row.database_id] \in Wrote
                        /\ row.expires_at = stamp'[row.database_id]
<1> SUFFICES ASSUME row # NoRow
             PROVE  pc'[row.database_id] \in Wrote /\ row.expires_at = stamp'[row.database_id]
  OBVIOUS
<1> DEFINE d == row.database_id
<1>1. d \in Build /\ Written(d) /\ row.expires_at = stamp[d]
  BY DEF Row, Genuine
<1>2. pc'[d] \in Wrote /\ stamp'[d] = stamp[d]
  BY <1>1 DEF Written, Wrote, TypeOK, vars, Next, PersistStep, Tick, Capture, Expire, Begin,
     CreateDatabase, Load, Stamp, MarkReady, MarkReadyUnanswered, GiveUp, Lookup, Check, StartList,
     ListExpired, Goto, service, builds, readers, sweepers
<1>3. QED
  BY <1>1, <1>2

\* Rows in the registry and in anybody's hands are rows that were published.
LEMMA RowsAreGenuine ==
  ASSUME TypeOK, TypeOK', [Next]_vars, Genuine(entry),
         \A r \in Reader : Genuine(frame[r]), \A s \in Sweeper : Genuine(listed[s])
  PROVE  /\ Genuine(entry)'
         /\ \A r \in Reader : Genuine(frame[r])'
         /\ \A s \in Sweeper : Genuine(listed[s])'
<1> DEFINE Kept(row) == row # NoRow => /\ pc'[row.database_id] \in Wrote
                                      /\ row.expires_at = stamp'[row.database_id]
<1>1. Kept(entry)
  BY PublishedIsFinal DEF TypeOK
<1>2. \A r \in Reader : Kept(frame[r])
  BY PublishedIsFinal DEF TypeOK
<1>3. \A s \in Sweeper : Kept(listed[s])
  BY PublishedIsFinal DEF TypeOK
<1>4. Kept(entry')
  <2>1. ASSUME NEW b \in Build, MarkReady(b) \/ MarkReadyUnanswered(b) PROVE Kept(entry')
    BY <2>1 DEF MarkReady, MarkReadyUnanswered, Wrote, ReadyRow, Goto, TypeOK
  <2>2. ASSUME NEW b \in Build, GiveUp(b) PROVE Kept(entry')
    <3>1. CASE entry = NoRow
      BY <2>2, <3>1, <1>1 DEF GiveUp
    <3>2. CASE entry # NoRow
      <4>1. entry' # NoRow => entry'.database_id = entry.database_id
                                /\ entry'.expires_at = entry.expires_at
        BY <2>2, <3>2 DEF GiveUp, TypeOK, Row
      <4>2. QED
        BY <4>1, <3>2, <1>1
    <3>3. QED
      BY <3>1, <3>2
  <2>3. CASE UNCHANGED entry
    BY <2>3, <1>1
  <2>4. QED
    BY <2>1, <2>2, <2>3 DEF vars, Next, PersistStep, Tick, Capture, Expire, Begin, CreateDatabase,
       Load, Stamp, Lookup, Check, StartList, ListExpired, service
<1>5. ASSUME NEW r \in Reader PROVE Kept(frame'[r])
  <2>1. frame'[r] \in {frame[r], entry}
    BY DEF TypeOK, vars, Next, PersistStep, Tick, Capture, Expire, Begin, CreateDatabase, Load,
       Stamp, MarkReady, MarkReadyUnanswered, GiveUp, Lookup, Check, StartList, ListExpired,
       Goto, readers
  <2>2. QED
    BY <2>1, <1>1, <1>2
<1>6. ASSUME NEW s \in Sweeper PROVE Kept(listed'[s])
  <2>1. listed'[s] \in {listed[s], entry}
    BY DEF TypeOK, vars, Next, PersistStep, Tick, Capture, Expire, Begin, CreateDatabase, Load,
       Stamp, MarkReady, MarkReadyUnanswered, GiveUp, Lookup, Check, StartList, ListExpired,
       Goto, sweepers
  <2>2. QED
    BY <2>1, <1>1, <1>3
<1>7. QED
  BY <1>4, <1>5, <1>6 DEF Genuine, Written

\* What was listed had expired by the clock that list_expired read.
LEMMA ListsHadExpired ==
  ASSUME TypeOK, TypeOK', [Next]_vars, NEW s \in Sweeper, Swept(s)
  PROVE  Swept(s)'
<1> USE DEF TypeOK, Time, Row, Swept, Clock
<1>1. CASE Tick
  BY <1>1 DEF Tick, sweepers
<1>2. ASSUME NEW t \in Sweeper, StartList(t) PROVE Swept(s)'
  BY <1>2 DEF StartList
<1>3. ASSUME NEW t \in Sweeper, ListExpired(t) PROVE Swept(s)'
  BY <1>3 DEF ListExpired, ExpiredBy
<1>4. CASE UNCHANGED <<now, sweepers>>
  BY <1>4 DEF sweepers
<1>5. QED
  BY <1>1, <1>2, <1>3, <1>4 DEF vars, Next, PersistStep, Capture, Expire, Begin, CreateDatabase,
     Load, Stamp, MarkReady, MarkReadyUnanswered, GiveUp, Lookup, Check, Goto

\* The parts together are an invariant.
LEMMA TimesAreKept == Spec => []AgesInv
<1>1. Init => AgesInv
  BY DEF Init, AgesInv, Timely, Dated, Stamped, Written, Wrote, Genuine, Swept
<1>2. TypeOK /\ TypeOK' /\ AgesInv /\ [Next]_vars => AgesInv'
  <2> SUFFICES ASSUME TypeOK, TypeOK', AgesInv, [Next]_vars PROVE AgesInv'
    OBVIOUS
  <2>1. \A b \in Build : (Timely(b) /\ Dated(b))'
    BY BuildsKeepTime DEF AgesInv
  <2>2. /\ Genuine(entry)'
        /\ \A r \in Reader : Genuine(frame[r])'
        /\ \A s \in Sweeper : Genuine(listed[s])'
    BY RowsAreGenuine DEF AgesInv
  <2>3. \A s \in Sweeper : Swept(s)'
    BY ListsHadExpired DEF AgesInv
  <2>4. QED
    BY <2>1, <2>2, <2>3 DEF AgesInv
<1>3. QED
  BY <1>1, <1>2, TypeCorrect, PTL DEF Spec

-----------------------------------------------------------------------------
(* What follows                                                            *)

\* A row whose database the service has expired had itself expired the
\* grace earlier, but for the time its persist took.
LEMMA BackstopIsBehind ==
  ASSUME TypeOK, AgesInv, NEW row \in Row, Genuine(row),
         database[row.database_id] = "expired"
  PROVE  row.expires_at # Forever /\ row.expires_at + Grace - MaxPersist <= now
<1> DEFINE b == row.database_id
<1>1. b \in Build /\ Written(b) /\ row.expires_at = stamp[b]
  BY DEF Genuine, Row
<1>2. Timely(b) /\ Dated(b)
  BY <1>1 DEF AgesInv
<1>3. deadline[b] # Forever /\ deadline[b] <= now
  BY <1>2 DEF Dated
<1>4. /\ Ttl[b] # Forever /\ deadline[b] = begun[b] + Skew[b] + Ttl[b] + Grace
      /\ stamp[b] # Forever /\ stamp[b] <= begun[b] + MaxPersist + Skew[b] + Ttl[b]
  BY <1>1, <1>2, <1>3 DEF Dated, Stamped
<1>5. QED
  BY <1>1, <1>3, <1>4 DEF TypeOK, Time

\* The service's expiry is a backstop: it never comes before the row's own by
\* more than a slow persist takes from the grace (conf.py:27).
THEOREM BackstopIsNeverFirst == Spec => []BackstopComesLast
<1>1. TypeOK /\ AgesInv => BackstopComesLast
  <2> SUFFICES ASSUME TypeOK, AgesInv,
                      NEW row \in {entry} \cup {frame[r] : r \in Reader},
                      row # NoRow, database[row.database_id] = "expired"
               PROVE  row.expires_at # Forever /\ row.expires_at + Grace - MaxPersist <= now
    BY DEF BackstopComesLast
  <2>1. row \in Row /\ Genuine(row)
    BY DEF TypeOK, AgesInv
  <2>2. QED
    BY <2>1, BackstopIsBehind
<1>2. QED
  BY <1>1, TypeCorrect, TimesAreKept, PTL

\* What being served takes: a ready row that has not expired by the reader's
\* clock at that moment.
LEMMA ServedRowIsGood ==
  ASSUME TypeOK, TypeOK', [Next]_vars, NEW r \in Reader, Served(r)
  PROVE  /\ frame[r] \in Row /\ frame[r] # NoRow
         /\ frame[r].expires_at # Forever => now + Skew[r] < frame[r].expires_at
<1>1. PICK q \in Reader : Check(q)
  BY DEF Served, TypeOK, vars, Next, PersistStep, Tick, Capture, Expire, Begin, CreateDatabase,
     Load, Stamp, MarkReady, MarkReadyUnanswered, GiveUp, Lookup, StartList, ListExpired,
     Goto, readers
<1>2. IsHit(frame[r], Clock(r))
  BY <1>1 DEF Check, Served, TypeOK
<1>3. frame[r] \in Row /\ frame[r] # NoRow
  BY <1>2 DEF IsHit, TypeOK
<1>4. frame[r].expires_at \in Time
  BY <1>3 DEF Row
<1>5. frame[r].expires_at # Forever => ~(frame[r].expires_at <= now + Skew[r])
  BY <1>2 DEF IsHit, IsExpired, Clock
<1>6. QED
  BY <1>3, <1>4, <1>5 DEF TypeOK, Time

\* A hit has its data as long as the grace makes up for the slowest persist
\* and the reader's slow clock.
THEOREM HitsAreBacked == Spec => HitsHaveTheirData
<1>1. TypeOK /\ TypeOK' /\ AgesInv /\ [Next]_vars =>
        [\A r \in Reader :
           Served(r) /\ MaxPersist - Skew[r] <= Grace =>
             database[frame[r].database_id] # "expired"]_vars
  <2> SUFFICES ASSUME TypeOK, TypeOK', AgesInv, [Next]_vars, NEW r \in Reader, Served(r),
                      MaxPersist - Skew[r] <= Grace,
                      database[frame[r].database_id] = "expired"
               PROVE  FALSE
    OBVIOUS
  <2> DEFINE row == frame[r]
  <2>1. row \in Row /\ (row.expires_at # Forever => now + Skew[r] < row.expires_at)
    BY ServedRowIsGood
  <2>2. row.expires_at # Forever /\ row.expires_at + Grace - MaxPersist <= now
    BY <2>1, BackstopIsBehind DEF AgesInv
  <2>3. row.expires_at \in Int
    BY <2>1, <2>2 DEF Row, Time
  <2>4. QED
    BY <2>1, <2>2, <2>3 DEF TypeOK
<1>2. QED
  BY <1>1, TypeCorrect, TimesAreKept, PTL DEF Spec, HitsHaveTheirData

\* No data is served beyond its ttl, the wait for a worker and the persist,
\* counted from its capture (README.md, Expiry and eviction).
THEOREM ServedDataIsFresh == Spec => StalenessIsBounded
<1>1. TypeOK /\ TypeOK' /\ AgesInv /\ [Next]_vars =>
        [\A r \in Reader : Served(r) =>
           LET b == frame[r].database_id IN
           Ttl[b] # Forever =>
             now < captured[b] + MaxWait + MaxPersist + Ttl[b] + Skew[b] - Skew[r]]_vars
  <2> SUFFICES ASSUME TypeOK, TypeOK', AgesInv, [Next]_vars, NEW r \in Reader, Served(r),
                      Ttl[frame[r].database_id] # Forever
               PROVE  LET b == frame[r].database_id IN
                      now < captured[b] + MaxWait + MaxPersist + Ttl[b] + Skew[b] - Skew[r]
    OBVIOUS
  <2> DEFINE b == frame[r].database_id
  <2>1. /\ frame[r] \in Row /\ frame[r] # NoRow
        /\ frame[r].expires_at # Forever => now + Skew[r] < frame[r].expires_at
    BY ServedRowIsGood
  <2>2. b \in Build /\ Written(b) /\ frame[r].expires_at = stamp[b]
    BY <2>1 DEF AgesInv, Genuine, Row
  <2>3. /\ stamp[b] # Forever /\ stamp[b] <= begun[b] + MaxPersist + Skew[b] + Ttl[b]
        /\ begun[b] <= captured[b] + MaxWait
    BY <2>2 DEF AgesInv, Timely, Dated, Stamped, Written, Wrote
  <2>4. stamp[b] \in Int
    BY <2>2, <2>3 DEF TypeOK, Time
  <2>5. QED
    BY <2>1, <2>2, <2>3, <2>4 DEF TypeOK
<1>2. QED
  BY <1>1, TypeCorrect, TimesAreKept, PTL DEF Spec, StalenessIsBounded

\* Nobody whose clock is at least the sweeper's is served a row it listed.
THEOREM ListedRowsAreOver == Spec => ListedRowsAreNotServed
<1>1. TypeOK /\ TypeOK' /\ AgesInv /\ [Next]_vars =>
        [\A r \in Reader, s \in Sweeper :
           Served(r) /\ frame[r] = listed[s] => Skew[r] < Skew[s]]_vars
  <2> SUFFICES ASSUME TypeOK, TypeOK', AgesInv, [Next]_vars, NEW r \in Reader, NEW s \in Sweeper,
                      Served(r), frame[r] = listed[s]
               PROVE  Skew[r] < Skew[s]
    OBVIOUS
  <2>1. /\ frame[r] \in Row /\ frame[r] # NoRow
        /\ frame[r].expires_at # Forever => now + Skew[r] < frame[r].expires_at
    BY ServedRowIsGood
  <2>2. /\ frame[r].expires_at # Forever /\ frame[r].expires_at <= asof[s]
        /\ asof[s] # Forever /\ asof[s] <= now + Skew[s]
    BY <2>1 DEF AgesInv, Swept
  <2>3. frame[r].expires_at \in Int /\ asof[s] \in Int
    BY <2>1, <2>2 DEF TypeOK, Row, Time
  <2>4. QED
    BY <2>1, <2>2, <2>3 DEF TypeOK
<1>2. QED
  BY <1>1, TypeCorrect, TimesAreKept, PTL DEF Spec, ListedRowsAreNotServed

\* Whatever becomes of a build, its database is due in time, or never when it
\* has no ttl (store.py, _create_entry_database).
THEOREM DatabasesAreDue == Spec => []DeadlinesAreBounded
<1>1. TypeOK /\ AgesInv => DeadlinesAreBounded
  <2> SUFFICES ASSUME TypeOK, AgesInv, NEW b \in Build
               PROVE  /\ Ttl[b] = Forever => database[b] # "expired"
                      /\ Ttl[b] # Forever /\ database[b] # "absent" =>
                           /\ deadline[b] # Forever
                           /\ deadline[b] <= captured[b] + MaxWait + Skew[b] + Ttl[b] + Grace
    BY DEF DeadlinesAreBounded
  <2>1. Timely(b) /\ Dated(b)
    BY DEF AgesInv
  <2>2. CASE Ttl[b] = Forever
    BY <2>1, <2>2 DEF Dated
  <2>3. CASE Ttl[b] # Forever /\ database[b] # "absent"
    <3>1. /\ deadline[b] = begun[b] + Skew[b] + Ttl[b] + Grace
          /\ begun[b] <= captured[b] + MaxWait
      BY <2>1, <2>3 DEF Timely, Dated
    <3>2. QED
      BY <2>3, <3>1 DEF TypeOK
  <2>4. QED
    BY <2>2, <2>3
<1>2. QED
  BY <1>1, TypeCorrect, TimesAreKept, PTL

\* The clock of the row is read after that of the database, and both after the
\* capture.
LEMMA BuildsArePatient == Spec => [](\A b \in Build : Patient(b))
<1> DEFINE Inv == \A b \in Build : Patient(b)
<1>1. Init => Inv
  BY DEF Init, Patient, Stamped, Written, Wrote
<1>2. TypeOK /\ AgesInv /\ Inv /\ [Next]_vars => Inv'
  <2> SUFFICES ASSUME TypeOK, AgesInv, Inv, [Next]_vars, NEW c \in Build PROVE Patient(c)'
    OBVIOUS
  <2>0. Timely(c)
    BY DEF AgesInv
  <2> USE DEF TypeOK, Time, Patient, Stamped, Written, Wrote, builds, Goto, Clock
  <2>1. ASSUME NEW b \in Build, Capture(b) PROVE Patient(c)'
    BY <2>1 DEF Capture
  <2>2. ASSUME NEW b \in Build, Begin(b) PROVE Patient(c)'
    BY <2>0, <2>2 DEF Begin, Timely
  <2>3. ASSUME NEW b \in Build,
               \/ CreateDatabase(b) \/ Load(b)
               \/ MarkReady(b) \/ MarkReadyUnanswered(b) \/ GiveUp(b)
        PROVE  Patient(c)'
    BY <2>3 DEF CreateDatabase, Load, MarkReady, MarkReadyUnanswered, GiveUp
  <2>4. ASSUME NEW b \in Build, Stamp(b) PROVE Patient(c)'
    BY <2>0, <2>4 DEF Stamp, RowExpiry, Timely
  <2>5. CASE UNCHANGED builds
    BY <2>5
  <2>6. QED
    BY <2>1, <2>2, <2>3, <2>4, <2>5 DEF Next, PersistStep, Tick, Expire, Lookup, Check, StartList,
       ListExpired, vars
<1>3. QED
  BY <1>1, <1>2, TypeCorrect, TimesAreKept, PTL DEF Spec

\* No entry is turned down before its ttl is over (registry.py, is_expired).
THEOREM EntriesAreNotCutShort == Spec => EntriesLiveTheirTtl
<1> DEFINE Step == \A r \in Reader : TurnedDown(r) =>
                    LET b == frame[r].database_id IN
                    Ttl[b] # Forever /\ captured[b] + Ttl[b] + Skew[b] - Skew[r] <= now
<1>1. TypeOK /\ AgesInv /\ (\A b \in Build : Patient(b)) /\ [Next]_vars => [Step]_vars
  <2> SUFFICES ASSUME TypeOK, AgesInv, \A b \in Build : Patient(b), [Next]_vars,
                      NEW r \in Reader, TurnedDown(r)
               PROVE  LET b == frame[r].database_id IN
                      Ttl[b] # Forever /\ captured[b] + Ttl[b] + Skew[b] - Skew[r] <= now
    OBVIOUS
  <2> DEFINE b == frame[r].database_id
  <2> USE DEF TurnedDown
  <2>1. Check(r)
    BY DEF TypeOK, vars, Next, PersistStep, Tick, Capture, Expire, Begin, CreateDatabase,
       Load, Stamp, MarkReady, MarkReadyUnanswered, GiveUp, Lookup, Check, StartList, ListExpired,
       Goto, readers
  <2>2. frame[r] \in Row /\ IsExpired(frame[r], Clock(r))
    BY <2>1 DEF Check, IsHit, TypeOK
  <2>3. frame[r].expires_at # Forever /\ frame[r].expires_at <= now + Skew[r]
    BY <2>2 DEF IsExpired, Clock
  <2>4. b \in Build /\ Written(b) /\ stamp[b] = frame[r].expires_at
    BY <2>2 DEF AgesInv, Genuine, Row
  <2>5. Ttl[b] # Forever
    BY <2>3, <2>4 DEF AgesInv, Dated, Stamped
  <2>6. captured[b] <= begun[b] /\ begun[b] + Skew[b] + Ttl[b] <= stamp[b]
    BY <2>4, <2>5 DEF Patient, Stamped, Written, Wrote
  <2>7. stamp[b] \in Int
    BY <2>3, <2>4 DEF TypeOK, Time
  <2>8. QED
    BY <2>3, <2>4, <2>5, <2>6, <2>7 DEF TypeOK
<1>2. QED
  BY <1>1, TypeCorrect, TimesAreKept, BuildsArePatient, PTL DEF Spec, EntriesLiveTheirTtl
=============================================================================
