--------------------------- MODULE MCRequestQueue ----------------------------
(* Instances of RequestQueue for TLC.                                        *)
EXTENDS RequestQueue, TLC

CONSTANTS r1, r2, r3

Symmetric == Permutations({r1, r2})
=============================================================================
