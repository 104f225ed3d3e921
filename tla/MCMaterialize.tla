--------------------------- MODULE MCMaterialize ----------------------------
(* Calls of one function, from two processes, and an eviction.             *)
EXTENDS Materialize

CONSTANTS f1, p1, p2, a1, a2, b1, e1

MCOwner == [c \in Build \cup Evictor \cup Flusher |-> IF c = b1 THEN p2 ELSE p1]
MCTarget == [c \in Build \cup Evictor |-> f1]
=============================================================================
