------------------------- MODULE MCReportGeneration -------------------------
(* Small instances of ReportGeneration.                                      *)
EXTENDS ReportGeneration, TLC

CONSTANTS q1, q2, w1, w2, h1, h2

\* Two reports on the organization: one subject, two date ranges.
OneSubject == [r \in Report |-> "audit"]
JobIds == Report \X (0..MaxRetries)
ReportSymmetry == Permutations({q1, q2}) \cup Permutations({h1, h2}) \cup Permutations({w1, w2})
=============================================================================
