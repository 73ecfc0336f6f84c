------------------------- MODULE MCReleaseLifecycle -------------------------
(* Small instances of ReleaseLifecycle.                                      *)
EXTENDS ReleaseLifecycle, TLC

CONSTANTS r1, r2, v1, v2, p1, q1, q2, q3

ReleaseSymmetry ==
    Permutations({r1, r2}) \cup Permutations({v1, v2}) \cup Permutations({q1, q2, q3})
=============================================================================
