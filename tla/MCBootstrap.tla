---------------------------- MODULE MCBootstrap -----------------------------
(* Two threads in one process, two in another.                             *)
EXTENDS Bootstrap

CONSTANTS t1, t2, u1, u2, p1, p2

MCHomeOf == [t \in Thread |-> IF t \in {t1, t2} THEN p1 ELSE p2]
=============================================================================
