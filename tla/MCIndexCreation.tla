--------------------------- MODULE MCIndexCreation --------------------------
(* Two write-behind builds of one fingerprint in one process: a1 declares  *)
(* two indexes, a2 the same one twice.  Another process evicts the entry.  *)
EXTENDS IndexCreation

CONSTANTS f1, p1, p2, a1, a2, e1, i1, i2

MCOwner == [c \in Build \cup Evictor \cup Flusher |-> IF c = e1 THEN p2 ELSE p1]
MCTarget == [c \in Build \cup Evictor |-> f1]
MCDeclared == [b \in Build |-> IF b = a1 THEN <<i1, i2>> ELSE <<i1, i1>>]
MCHolds == [b \in Build |-> IF b = a1 THEN {0, 5, 6} ELSE {0}]
=============================================================================
