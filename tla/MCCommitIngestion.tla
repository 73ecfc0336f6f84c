-------------------------- MODULE MCCommitIngestion --------------------------
(* Small instances of CommitIngestion.                                       *)
EXTENDS CommitIngestion, TLC

CONSTANTS c1, c2, w1, w2, p1, p2

CommitSymmetry == Permutations({c1, c2}) \cup Permutations({w1, w2}) \cup Permutations({p1, p2})
=============================================================================
