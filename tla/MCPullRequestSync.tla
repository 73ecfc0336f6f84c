------------------------- MODULE MCPullRequestSync -------------------------
(* Small instances of PullRequestSync.                                      *)
EXTENDS PullRequestSync, TLC

CONSTANTS w1, w2, r1

WorkerSymmetry == Permutations({w1, w2})
=============================================================================
