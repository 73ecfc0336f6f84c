----------------------------- MODULE Membership -----------------------------
(***************************************************************************)
(* What an organization promises about who belongs to it, however requests *)
(* and commit ingestion interleave: there are two ways in, an invitation   *)
(* that is not revoked at that moment and the enrolment of whoever is      *)
(* found to have written a commit, and both lead to the lowest role; a     *)
(* role is given to and taken from members only, so nobody comes back      *)
(* through a change of role that was decided while they were one; a        *)
(* revoked invitation is gone for good.                                    *)
(***************************************************************************)
CONSTANTS User, Founders, Invite, None

VARIABLES
    role,   \* [User -> the member's role, or None]
    invites \* [Invite -> "absent", "pending", "accepted" or "deleted"]

members == <<role, invites>>

Open(i) == invites[i] \in {"pending", "accepted"}

Init ==
    /\ role = [u \in User |-> IF u \in Founders THEN "OWNER" ELSE None]
    /\ invites = [i \in Invite |-> "absent"]

Offer(i) ==
    /\ invites[i] = "absent"
    /\ invites' = [invites EXCEPT ![i] = "pending"]
    /\ UNCHANGED role

Revoke(i) ==
    /\ Open(i)
    /\ invites' = [invites EXCEPT ![i] = "deleted"]
    /\ UNCHANGED role

\* An invitation admits a user, or only notes that somebody who belongs already used it.
Use(i) ==
    /\ Open(i)
    /\ invites' = [invites EXCEPT ![i] = "accepted"]
    /\ \/ \E u \in User : role[u] = None /\ role' = [role EXCEPT ![u] = "DEVELOPER"]
       \/ UNCHANGED role

\* The author of a commit becomes a member, uninvited, and also after having been removed.
Enroll(u) ==
    /\ role[u] = None
    /\ role' = [role EXCEPT ![u] = "DEVELOPER"]
    /\ UNCHANGED invites

\* A member gets another role.
Appoint(u, r) ==
    /\ role[u] # None
    /\ role' = [role EXCEPT ![u] = r]
    /\ UNCHANGED invites

Leave(u) ==
    /\ role[u] # None
    /\ role' = [role EXCEPT ![u] = None]
    /\ UNCHANGED invites

Next ==
    \/ \E i \in Invite : Offer(i) \/ Revoke(i) \/ Use(i)
    \/ \E u \in User : Enroll(u) \/ Leave(u) \/ \E r \in {"DEVELOPER", "ADMIN", "OWNER"} : Appoint(u, r)

Spec == Init /\ [][Next]_members
=============================================================================
