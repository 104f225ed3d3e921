---------------------------- MODULE IndexCreation ----------------------------
(***************************************************************************)
(* store.py, _create_index: the search indexes of an entry are created     *)
(* after its publication, one declaration after the other, and a request   *)
(* that meets a conflict is tried again after a sleep, six times in all.   *)
(* Here EntryStore's CreateIndexes, one step that succeeds or fails, is    *)
(* the loop it stands for; everything else is EntryStore.                  *)
(*                                                                         *)
(* A conflict has two causes that the code does not tell apart: the lock   *)
(* of the table that its load may still hold, and an index of that name.   *)
(***************************************************************************)
EXTENDS EntryStoreProperties

CONSTANTS
    Index,        \* index names: a column and a type
    Declared,     \* the declarations of each build
    IndexFaults,  \* TRUE iff a request may be refused for no reason below
    Holds         \* how long the load of each build may keep its table
                  \* locked after the publication, in sleeps of the loop

ASSUME DeclaredAssumption ==
    /\ Declared \in [Build -> Seq(Index)]
    /\ Indexed = {b \in Build : Declared[b] # <<>>}
    /\ IndexFaults \in BOOLEAN
    /\ Holds \in [Build -> SUBSET Nat]

VARIABLES
    position,     \* how many of its declarations each build has dealt with
    attempt,      \* how many requests for the next one met a conflict
    created,      \* the indexes of each build's table
    hold,         \* how many sleeps its table is locked for ...
    slept         \* ... and how many of them are over

retries == <<position, attempt, created, hold, slept>>
indexVars == <<vars, retries>>

\* range(5).
LastAttempt_Slip == 4

\* The number of the last attempt, counted from 0.
LastAttempt == 5

IndexTypeOK ==
    /\ TypeOK
    /\ position \in [Build -> Nat]
    /\ attempt \in [Build -> 0..LastAttempt]
    /\ created \in [Build -> SUBSET Index]
    /\ hold \in [Build -> Nat]
    /\ slept \in [Build -> Nat]
    /\ \A b \in Build : pc[b] = "index" => position[b] < Len(Declared[b])

IndexInit ==
    /\ Init
    /\ position = [b \in Build |-> 0]
    /\ attempt = [b \in Build |-> 0]
    /\ created = [b \in Build |-> {}]
    /\ hold \in [Build -> UNION {Holds[b] : b \in Build}]
    /\ \A b \in Build : hold[b] \in Holds[b]
    /\ slept = [b \in Build |-> 0]

-----------------------------------------------------------------------------

Creating(b) == Persisting(b, "index") /\ UNCHANGED <<service, existing>>

\* The declaration whose turn it is.
Current(b) == Declared[b][position[b] + 1]

Conflict(b) == slept[b] < hold[b] \/ Current(b) \in created[b]

\* The loop over the declarations goes on after the last of them.
CreateIndex_Slip(b) ==
    /\ Creating(b)
    /\ ~Conflict(b) /\ database[b] = "loaded"
    /\ created' = [created EXCEPT ![b] = @ \cup {Current(b)}]
    /\ position' = [position EXCEPT ![b] = @ + 1]
    /\ attempt' = [attempt EXCEPT ![b] = 0]
    /\ Goto(b, "index")
    /\ UNCHANGED <<hold, slept>>

\* The request is accepted: on to the next declaration, with six attempts.
CreateIndex(b) ==
    /\ Creating(b)
    /\ ~Conflict(b) /\ database[b] = "loaded"
    /\ created' = [created EXCEPT ![b] = @ \cup {Current(b)}]
    /\ position' = [position EXCEPT ![b] = @ + 1]
    /\ attempt' = [attempt EXCEPT ![b] = 0]
    /\ Goto(b, IF position[b] + 1 = Len(Declared[b]) THEN "done" ELSE "index")
    /\ UNCHANGED <<hold, slept>>

Sleep(b) ==
    /\ slept' = [slept EXCEPT ![b] = IF @ < hold[b] THEN @ + 1 ELSE @]
    /\ UNCHANGED hold

\* ConflictException: sleep and try again ...
RetryConflict(b) ==
    /\ Creating(b) /\ Conflict(b)
    /\ attempt[b] < LastAttempt
    /\ attempt' = [attempt EXCEPT ![b] = @ + 1]
    /\ Sleep(b)
    /\ Goto(b, "index")
    /\ UNCHANGED <<position, created>>

\* The last conflict ends the loop as a success would.
LastConflict_Slip(b) ==
    /\ Creating(b) /\ Conflict(b)
    /\ attempt[b] = LastAttempt
    /\ Goto(b, "done")
    /\ UNCHANGED retries

\* The attempts start all over again.
LastConflict_Slip2(b) ==
    /\ Creating(b) /\ Conflict(b)
    /\ attempt[b] = LastAttempt
    /\ attempt' = [attempt EXCEPT ![b] = 0]
    /\ Sleep(b)
    /\ Goto(b, "index")
    /\ UNCHANGED <<position, created>>

\* ... but at the sixth one give up, the declarations that follow included.
LastConflict(b) ==
    /\ Creating(b) /\ Conflict(b)
    /\ attempt[b] = LastAttempt
    /\ Goto(b, "index_failed")
    /\ UNCHANGED retries

\* The index is part of the failure domain.
IndexRefused_Slip(b) ==
    /\ Creating(b)
    /\ Goto(b, "cleanup_db")
    /\ UNCHANGED retries

\* Any other exception is not retried: no request is repeated that may have
\* taken effect.
IndexRefused(b) ==
    /\ Creating(b) /\ (IndexFaults \/ database[b] # "loaded")
    /\ Goto(b, "index_failed")
    /\ UNCHANGED retries

IndexStep(b) ==
    CreateIndex(b) \/ RetryConflict(b) \/ LastConflict(b) \/ IndexRefused(b)

\* EntryStore, with the loop for CreateIndexes.
StoreStep == Next /\ (\A b \in Build : pc[b] = "index" => pc'[b] = "index") /\ UNCHANGED retries

IndexNext == StoreStep \/ \E b \in Build : IndexStep(b)

IndexSpec == IndexInit /\ [][IndexNext]_indexVars

\* The next thing that happens to a build.
BuildStep(b) ==
    \/ IndexStep(b)
    \/ (StartJob(b) \/ Untrack(b)) /\ UNCHANGED retries
    \/ pc[b] # "index" /\ PersistStep(b) /\ UNCHANGED retries

\* The fairness of EntryStore: whatever thread can run, runs.  Of a build's
\* steps at most one kind is ever enabled.
IndexFairness ==
    /\ \A b \in Build : WF_indexVars(BuildStep(b))
    /\ \A e \in Evictor : WF_indexVars(EvictStep(e) /\ UNCHANGED retries)
    /\ \A g \in Flusher : WF_indexVars(FlushReturn(g) /\ UNCHANGED retries)

FairIndexSpec == IndexSpec /\ IndexFairness

-----------------------------------------------------------------------------
(* Properties                                                              *)

Names(b, n) == {Declared[b][i] : i \in 1..n}
Repeats(b) ==
    \E i, j \in 1..Len(Declared[b]) : i < j /\ Declared[b][i] = Declared[b][j]

\* A persist that succeeds has created every index it declares: no conflict
\* is taken for a success (store.py:377).
SuccessMeansIndexed ==
    \A b \in Build : pc[b] = "done" => created[b] = Names(b, Len(Declared[b]))

\* A table lock that goes within five sleeps costs no index ("wait it out",
\* store.py:370): otherwise it takes a refused request, a database that is
\* deleted meanwhile, or two declarations with one name.
LocksAreWaitedOut ==
    ~IndexFaults =>
        \A b \in Build :
            pc[b] = "index_failed" /\ database[b] = "loaded" =>
                hold[b] > 5 \/ Repeats(b)

\* The loop is the step it stands for: whatever holds of EntryStore holds here.
ImplementsStore == Spec

-----------------------------------------------------------------------------
(* Why they hold: the parts of the inductive invariant                     *)

Progress ==
    \A b \in Build :
        /\ created[b] = Names(b, position[b])
        /\ pc[b] = "index" => position[b] < Len(Declared[b])
        /\ pc[b] = "done" => position[b] = Len(Declared[b])
        /\ pc[b] \notin {"index", "done", "index_failed"} => position[b] = 0

\* As long as the table is locked, every attempt was followed by a sleep.
Patience ==
    \A b \in Build : slept[b] < hold[b] => attempt[b] = slept[b]
=============================================================================
