---------------------------- MODULE MCEntryStore ----------------------------
(* Instances of EntryStore small enough for TLC.                           *)
EXTENDS EntryStoreProperties

CONSTANTS f1, p1, p2, a1, a2, b1, e1, g1

\* Two processes work on one fingerprint: p1 submits a1 and a2 write-behind
\* and evicts; p2 persists b1 inline.
MCOwner ==
    [c \in Build \cup Evictor \cup Flusher |-> IF c = b1 THEN p2 ELSE p1]
MCTarget == [c \in Build \cup Evictor |-> f1]
=============================================================================
