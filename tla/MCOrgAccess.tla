---------------------------- MODULE MCOrgAccess ----------------------------
(* Small instances of OrgAccess.                                            *)
EXTENDS OrgAccess, TLC

CONSTANTS ann, bob, cyd, h1, h2

HandlerSymmetry == Permutations({h1, h2}) \cup Permutations({ann, bob})
=============================================================================
