--------------------------- MODULE MCFingerprint ----------------------------
(* Two functions, one of them with a key_fn, at two versions.              *)
EXTENDS Fingerprint

CONSTANTS f1, g1, v1, v2, a1, a2
=============================================================================
