------------------------------ MODULE MCExpiry ------------------------------
(* A build with a ttl, by a process whose clock is fast, and one without,  *)
(* by a process whose clock is right; a reader and a sweeper that are slow.*)
EXTENDS Expiry

CONSTANTS b1, b2, r1, s1

MCSkew == [c \in Build \cup Reader \cup Sweeper |->
             IF c = b1 THEN 1 ELSE IF c = b2 THEN 0 ELSE -1]
MCTtl == [b \in Build |-> IF b = b1 THEN 1 ELSE Forever]
=============================================================================
