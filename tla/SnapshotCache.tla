--------------------------- MODULE SnapshotCache ----------------------------
(***************************************************************************)
(* What the entry store promises a reader of the registry, without any of  *)
(* its machinery.  Under each fingerprint at most one snapshot is served.  *)
(* A snapshot is served only while its data can be read, its data is given *)
(* up only once it is not served, and a snapshot that has been served or   *)
(* given up once never becomes served again.                               *)
(***************************************************************************)
CONSTANTS
    Fingerprint,
    Build,        \* the snapshots that could ever be served
    Target,       \* the fingerprint each snapshot is of
    None          \* nothing is served

VARIABLES
    served,       \* the snapshot served under each fingerprint, or None
    readable,     \* the snapshots whose data can be read
    fresh         \* the snapshots that were never served nor given up

vars == <<served, readable, fresh>>

-----------------------------------------------------------------------------

Init ==
    /\ served = [f \in Fingerprint |-> None]
    /\ readable = {}
    /\ fresh = Build

\* The data of a snapshot has been stored; nobody can see it yet.
Store(b) ==
    /\ b \in fresh
    /\ readable' = readable \cup {b}
    /\ UNCHANGED <<served, fresh>>

\* From now on b is served, instead of whatever was.
Publish(b) ==
    /\ b \in fresh \cap readable
    /\ served' = [served EXCEPT ![Target[b]] = b]
    /\ fresh' = fresh \ {b}
    /\ UNCHANGED readable

\* b will never be served.
Abandon(b) ==
    /\ b \in fresh
    /\ fresh' = fresh \ {b}
    /\ UNCHANGED <<served, readable>>

Withdraw(f) ==
    /\ served' = [served EXCEPT ![f] = None]
    /\ UNCHANGED <<readable, fresh>>

Discard(b) ==
    /\ b \notin fresh
    /\ \A f \in Fingerprint : served[f] # b
    /\ readable' = readable \ {b}
    /\ UNCHANGED <<served, fresh>>

Next ==
    \/ \E b \in Build : Store(b) \/ Publish(b) \/ Abandon(b) \/ Discard(b)
    \/ \E f \in Fingerprint : Withdraw(f)

Spec == Init /\ [][Next]_vars

\* What a service that loses acknowledgements adds to that: b is given up for a
\* request that took effect, so that its data is stored after all, or what
\* was served in its place is served no more.
Lose(b) ==
    /\ b \in fresh
    /\ fresh' = fresh \ {b}
    /\ \/ readable' = readable \cup {b} /\ UNCHANGED served
       \/ served' = [served EXCEPT ![Target[b]] = None] /\ UNCHANGED readable

LossyNext == Next \/ \E b \in Build : Lose(b)

LossySpec == Init /\ [][LossyNext]_vars
=============================================================================
