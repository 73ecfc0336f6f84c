------------------------- MODULE MCScoreCalculation -------------------------
(* Small instances of ScoreCalculation.                                      *)
EXTENDS ScoreCalculation, TLC

CONSTANTS j1, j2, j3, w1, r1, r2

JobSymmetry == Permutations({j1, j2, j3})
=============================================================================
