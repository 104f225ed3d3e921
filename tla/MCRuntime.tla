----------------------------- MODULE MCRuntime ------------------------------
(* Settings for one worker, for none, and without the required keys.       *)
EXTENDS Runtime

CONSTANTS u1, u2, d1, s1, s2, bad

MCWorkers == [s \in Setting |-> IF s = s2 THEN 0 ELSE 1]
=============================================================================
