---------------------------- MODULE MCAuditTrail ----------------------------
(* Small instances of AuditTrail.                                            *)
EXTENDS AuditTrail, TLC

CONSTANTS login, archiving1, archiving2, forget, alice, owner, r1, r2, w1

MCEntry == {login, archiving1, archiving2, forget}
MCAuthor == (login :> alice) @@ (forget :> owner)
MCSubject == (forget :> alice)

TrailSymmetry ==
    Permutations({archiving1, archiving2}) \cup Permutations({r1, r2})
=============================================================================
