--------------------------- MODULE HotdataService ---------------------------
(***************************************************************************)
(* The Hotdata workspace as hotdata_materialized uses it: the instant      *)
(* databases that hold one entry each, and the rows of the registry's      *)
(* `entries` table.  The service is not in the repository; what is here    *)
(* is what store.py and registry.py rely on when they call it.             *)
(*                                                                         *)
(* A database id is minted by the service and is unique, so the database   *)
(* that the build b creates is named b.                                    *)
(***************************************************************************)

CONSTANTS
    Fingerprint,  \* identities of materialized calls (fingerprint.py)
    Build,        \* calls of EntryStore.materialize, each at most one persist
    NoRow,        \* what a lookup returns when no row has the fingerprint
    LostAcks      \* TRUE iff a request may take effect though its caller
                  \* sees an exception (a timeout, a dropped response)

VARIABLES
    database,     \* the state of each build's instant database
    entries       \* the registry: the row stored under each fingerprint

service == <<database, entries>>

-----------------------------------------------------------------------------

\* "absent": not created; "empty": created, its table not loaded yet.
DatabaseState == {"absent", "empty", "loaded", "deleted"}

\* A stored row. A 'building' entry is only ever returned to a caller
\* (store.py, materialize); no code path writes one.
Row == [status : {"ready", "failed"}, database_id : Build]

ASSUME NoRowAssumption == NoRow \notin Row
ASSUME NoRowIsNoDatabase == NoRow \notin Build
ASSUME LostAcksAssumption == LostAcks \in BOOLEAN

ServiceTypeOK ==
    /\ database \in [Build -> DatabaseState]
    /\ entries \in [Fingerprint -> Row \cup {NoRow}]

ServiceInit ==
    /\ database = [b \in Build |-> "absent"]
    /\ entries = [f \in Fingerprint |-> NoRow]

-----------------------------------------------------------------------------

\* How one request ends. "refused": an exception and no effect; "lost": an
\* exception although the request took effect.
Reply == {"ok", "refused"} \cup (IF LostAcks THEN {"lost"} ELSE {})

TookEffect(reply) == reply # "refused"
Raised(reply) == reply # "ok"

\* The requests, each as the change it makes when it takes effect.
SetDatabase(b, state, reply) ==
    /\ database' = IF TookEffect(reply) THEN [database EXCEPT ![b] = state]
                                        ELSE database
    /\ UNCHANGED entries

\* An upsert or delete load of one row; key=["fingerprint"], so at most one
\* row is stored under a fingerprint.
SetRow(f, row, reply) ==
    /\ entries' = IF TookEffect(reply) THEN [entries EXCEPT ![f] = row]
                                       ELSE entries
    /\ UNCHANGED database

HasRow(f) == entries[f] # NoRow

\* A hit: what the wrapper of decorator.py serves without calling the
\* function, as long as the row has not expired.
IsReady(f) == HasRow(f) /\ entries[f].status = "ready"
=============================================================================
