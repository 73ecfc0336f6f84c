----------------------------- MODULE OrgAccess -----------------------------
(***************************************************************************)
(* Who may do what in one organization: memberships and roles, invitations *)
(* and removal requests (organizations.service), behind RolesGuard and its *)
(* permission cache.  Requests are served concurrently; each is a sequence *)
(* of awaited statements, and only accepting an invitation is a            *)
(* transaction.  Beside the requests, commit ingestion enrols the authors  *)
(* it finds.                                                               *)
(*                                                                         *)
(* A request runs in a Handler, a slot of the server:                      *)
(*   guard -> verify -> read -> (count) -> write -> (decide) -> invalidate *)
(***************************************************************************)
EXTENDS Naturals, FiniteSets

CONSTANTS
    User,
    Founders,    \* the owners the organization starts with
    Handler,     \* requests in flight
    Kind,        \* the kinds of requests the instance makes, a subset of AllKinds
    Invite,      \* ids of invitations
    Removal,     \* ids of removal requests
    None,
    MaxJoins,    \* bound: memberships one user ever has
    MaxRequests, \* bound: requests served and authors enrolled in all
    CachedKind   \* bound: kinds whose decisions stay in the cache (Redis may evict any)

AllKinds == {"changeRole", "remove", "askRemoval", "approve", "reject", "cancel",
             "invite", "revoke", "accept"}

Role == {"DEVELOPER", "ADMIN", "OWNER"}
InviteState == {"absent", "pending", "accepted", "deleted"}
RemovalState == {"PENDING", "APPROVED", "REJECTED", "CANCELLED"}
RemovalRecord == [requester : User, target : User, status : RemovalState]
Stage == {"idle", "guard", "verify", "read", "count", "write", "decide", "invalidate", "close"}
Decision == [user : User, kind : AllKinds, granted : BOOLEAN]

\* A request: its kind and parameters, the role RolesGuard saw, the row of the target
\* that was read, the owners there were then.
Request == [kind : AllKinds, actor : User, target : User, want : Role \cup {None},
            id : Invite \cup Removal \cup {None}, saw : Role \cup {None},
            row : 0..MaxJoins, owners : SUBSET User]

ASSUME OrgAssumption ==
    /\ Founders \subseteq User /\ Founders # {}
    /\ Kind \subseteq AllKinds
    /\ None \notin User \cup Invite \cup Removal \cup Role
    /\ None \notin Request /\ None \notin RemovalRecord
    /\ MaxJoins \in Nat \ {0}
    /\ MaxRequests \in Nat
    /\ CachedKind \subseteq Kind

VARIABLES
    role,       \* [User -> Role \cup {None}]: organization_members
    joins,      \* [User -> Nat]: memberships so far, the identity of the current row
    invites,    \* [Invite -> InviteState]
    removals,   \* [Removal -> RemovalRecord \cup {None}]: member_removal_requests
    cache,      \* set of cached decisions
    pc,         \* [Handler -> Stage]
    arrived,    \* requests and enrolments so far
    req,        \* [Handler -> the request and what it has read]
    excused,    \* history: users a stale decision may be cached for, with a known cause
    raced       \* history: the owners were lost to a write whose count was outdated

vars == <<role, joins, invites, removals, cache, pc, arrived, req, excused, raced>>

\* The roles @Roles and verifyUserRole ask for.  TEAM_LEAD asks for no other treatment
\* than DEVELOPER here and is left out.
Required(kind) ==
    IF kind \in {"changeRole", "approve", "reject"} THEN {"OWNER"} ELSE {"ADMIN", "OWNER"}

Owners == {u \in User : role[u] = "OWNER"}
Members == {u \in User : role[u] # None}

TypeOK ==
    /\ role \in [User -> Role \cup {None}]
    /\ joins \in [User -> 0..MaxJoins]
    /\ invites \in [Invite -> InviteState]
    /\ removals \in [Removal -> RemovalRecord \cup {None}]
    /\ cache \subseteq Decision
    /\ pc \in [Handler -> Stage]
    /\ arrived \in 0..MaxRequests
    /\ req \in [Handler -> Request \cup {None}]
    /\ \A h \in Handler : req[h] = None <=> pc[h] = "idle"
    /\ excused \subseteq User
    /\ raced \in BOOLEAN

Init ==
    /\ role = [u \in User |-> IF u \in Founders THEN "OWNER" ELSE None]
    /\ joins = [u \in User |-> IF u \in Founders THEN 1 ELSE 0]
    /\ invites = [i \in Invite |-> "absent"]
    /\ removals = [r \in Removal |-> None]
    /\ cache = {}
    /\ pc = [h \in Handler |-> "idle"]
    /\ arrived = 0
    /\ req = [h \in Handler |-> None]
    /\ excused = {}
    /\ raced = FALSE

tables == <<role, joins, invites, removals>>
history == <<excused, raced>>

NewRequest == arrived < MaxRequests /\ arrived' = arrived + 1

-----------------------------------------------------------------------------
Goto(h, stage) ==
    /\ pc' = [pc EXCEPT ![h] = stage]
    /\ UNCHANGED req

End(h) ==
    /\ pc' = [pc EXCEPT ![h] = "idle"]
    /\ req' = [req EXCEPT ![h] = None]

\* Past its write a request needs only its kind, target and id.
Then(h, stage) ==
    /\ pc' = [pc EXCEPT ![h] = stage]
    /\ req' = [req EXCEPT ![h].actor = req[h].target, ![h].want = None, ![h].saw = None,
                          ![h].row = 0, ![h].owners = {}]

\* The parameters a request of the kind may carry.
Parameters(kind, actor) ==
    {[kind |-> kind, actor |-> actor, target |-> t, want |-> w, id |-> i,
      saw |-> role[actor], row |-> 0, owners |-> {}] :
        t \in IF kind \in {"changeRole", "remove", "askRemoval"} THEN User \ {actor}
              ELSE {actor},
        w \in IF kind = "changeRole" THEN Role ELSE {None},
        i \in CASE kind \in {"invite", "revoke", "accept"} -> Invite
                [] kind \in {"remove", "askRemoval", "approve", "reject", "cancel"} -> Removal
                [] OTHER -> {None}}

\* A guarded request arrives and RolesGuard reads the membership; a caller who is not a
\* member is refused.
Arrive(h) ==
    /\ pc[h] = "idle"
    /\ NewRequest
    /\ \E kind \in Kind \ {"accept"}, u \in Members :
           \E r \in Parameters(kind, u) : req' = [req EXCEPT ![h] = r]
    /\ pc' = [pc EXCEPT ![h] = "guard"]
    /\ UNCHANGED <<tables, cache, history>>

Granted(kind, saw) == saw \in Required(kind)

\* The guard lets the request through; what it saw is not used again.
Admit(h) ==
    /\ pc' = [pc EXCEPT ![h] = "verify"]
    /\ req' = [req EXCEPT ![h].saw = None]

\* The rest of RolesGuard: the cached decision of this user and handler if there is one,
\* else the decision for the role read before, which is then cached.
Guard(h) ==
    LET r == req[h]
        hits == {d \in cache : d.user = r.actor /\ d.kind = r.kind}
        new == [user |-> r.actor, kind |-> r.kind, granted |-> Granted(r.kind, r.saw)]
    IN
    /\ pc[h] = "guard"
    /\ \/ /\ \E d \in hits : IF d.granted THEN Admit(h) ELSE End(h)
          /\ UNCHANGED <<cache, excused>>
       \/ /\ hits = {}
          /\ IF new.granted THEN Admit(h) ELSE End(h)
          /\ cache' = IF r.kind \in CachedKind THEN cache \cup {new} ELSE cache
          /\ excused' = IF role[r.actor] # r.saw THEN excused \cup {r.actor} ELSE excused
    /\ UNCHANGED <<arrived, tables, raced>>

\* A cached decision outlives its TTL.
ExpireDecision(d) ==
    /\ d \in cache
    /\ cache' = cache \ {d}
    /\ UNCHANGED <<arrived, tables, pc, req, history>>

\* verifyUserRole, on a fresh read.  Only cancelling a removal request goes without.
VerifyRole(h) ==
    LET r == req[h] IN
    /\ pc[h] = "verify"
    /\ IF r.kind = "cancel" \/ role[r.actor] \in Required(r.kind)
       THEN Goto(h, "read") ELSE End(h)
    /\ UNCHANGED <<arrived, tables, cache, history>>

\* Remember the target's row and the owners of the moment, and go on.
Seen(h, stage) ==
    LET t == req[h].target IN
    /\ req' = [req EXCEPT ![h].row = joins[t], ![h].owners = Owners]
    /\ pc' = [pc EXCEPT ![h] = stage]

-----------------------------------------------------------------------------
\* updateMemberRole.  (The reads of one service method are one step.)

ChangeRoleReads(h) ==
    LET r == req[h] IN
    /\ pc[h] = "read"
    /\ r.kind = "changeRole"
    /\ IF r.target \in Members
       THEN Seen(h, IF role[r.target] = "OWNER" /\ r.want # "OWNER" THEN "count" ELSE "write")
       ELSE End(h)
    /\ UNCHANGED <<arrived, tables, cache, history>>

\* Mutant: refuses only when there is no owner at all.
CountOwners_OffByOne(h) ==
    /\ pc[h] = "count"
    /\ IF Cardinality(Owners) < 1 THEN End(h)
       ELSE /\ pc' = [pc EXCEPT ![h] = "write"]
            /\ req' = [req EXCEPT ![h].owners = Owners]
    /\ UNCHANGED <<arrived, tables, cache, history>>

\* "Cannot demote (remove) the last owner."
CountOwners(h) ==
    /\ pc[h] = "count"
    /\ IF Cardinality(Owners) <= 1 THEN End(h)
       ELSE /\ pc' = [pc EXCEPT ![h] = "write"]
            /\ req' = [req EXCEPT ![h].owners = Owners]
    /\ UNCHANGED <<arrived, tables, cache, history>>

\* The membership that was read is still there: the statements below name its id, and
\* fail when the row is gone, also when the user has joined again.
RowThere(r) == role[r.target] # None /\ joins[r.target] = r.row

\* The write takes the last owner, though not the owners that were read.
RacedLoss(r) == r.owners # Owners /\ Owners' = {}

\* Mutant: the cached decisions of the member are kept.
ChangeRole_KeepsCache(h) ==
    LET r == req[h] IN
    /\ pc[h] = "write"
    /\ r.kind = "changeRole"
    /\ \/ /\ RowThere(r)
          /\ role' = [role EXCEPT ![r.target] = r.want]
          /\ raced' = (raced \/ RacedLoss(r))
          /\ End(h)
       \/ ~RowThere(r) /\ End(h) /\ UNCHANGED <<role, raced>>
    /\ UNCHANGED <<arrived, joins, invites, removals, cache, excused>>

\* Mutant: an upsert by organization and user, which finds the user whatever has happened.
ChangeRole_Upsert(h) ==
    LET r == req[h] IN
    /\ pc[h] = "write"
    /\ r.kind = "changeRole"
    /\ role' = [role EXCEPT ![r.target] = r.want]
    /\ raced' = (raced \/ RacedLoss(r))
    /\ Then(h, "invalidate")
    /\ UNCHANGED <<arrived, joins, invites, removals, cache, excused>>

\* The write fails when the row is gone.
ChangeRole(h) ==
    LET r == req[h] IN
    /\ pc[h] = "write"
    /\ r.kind = "changeRole"
    /\ \/ /\ RowThere(r)
          /\ role' = [role EXCEPT ![r.target] = r.want]
          /\ raced' = (raced \/ RacedLoss(r))
          /\ Then(h, "invalidate")
       \/ ~RowThere(r) /\ End(h) /\ UNCHANGED <<role, raced>>
    /\ UNCHANGED <<arrived, joins, invites, removals, cache, excused>>

-----------------------------------------------------------------------------
\* removeMember: an administrator's removal becomes a request to the owners; whoever is
\* no administrator by now is taken for an owner.

RemoveReads(h) ==
    LET r == req[h] IN
    /\ pc[h] = "read"
    /\ r.kind = "remove"
    /\ CASE r.target \notin Members -> End(h)
         [] r.target \in Members /\ role[r.actor] = "ADMIN" ->
                IF role[r.target] \in {"OWNER", "ADMIN"} THEN End(h)
                ELSE /\ req' = [req EXCEPT ![h].kind = "askRemoval"]
                     /\ UNCHANGED pc
         [] OTHER -> Seen(h, IF role[r.target] = "OWNER" THEN "count" ELSE "write")
    /\ UNCHANGED <<arrived, tables, cache, history>>

RemoveMember(h) ==
    LET r == req[h] IN
    /\ pc[h] = "write"
    /\ r.kind \in {"remove", "approve"}
    /\ \/ /\ RowThere(r)
          /\ role' = [role EXCEPT ![r.target] = None]
          /\ raced' = (raced \/ RacedLoss(r))
          /\ Then(h, IF r.kind = "remove" THEN "invalidate" ELSE "decide")
       \/ ~RowThere(r) /\ End(h) /\ UNCHANGED <<role, raced>>
    /\ UNCHANGED <<arrived, joins, invites, removals, cache, excused>>

\* "If there were pending removal requests for this member, mark them approved."
ClosePending(h) ==
    /\ pc[h] = "close"
    /\ removals' = [m \in Removal |->
           IF removals[m] # None /\ removals[m].target = req[h].target
                                 /\ removals[m].status = "PENDING"
           THEN [removals[m] EXCEPT !.status = "APPROVED"] ELSE removals[m]]
    /\ End(h)
    /\ UNCHANGED <<arrived, role, joins, invites, cache, history>>

-----------------------------------------------------------------------------
\* createRemovalRequest.

PendingFor(u) ==
    \E m \in Removal : removals[m] # None /\ removals[m].target = u
                                          /\ removals[m].status = "PENDING"

AskRemovalReads(h) ==
    LET r == req[h] IN
    /\ pc[h] = "read"
    /\ r.kind = "askRemoval"
    /\ IF /\ role[r.actor] # "DEVELOPER"
          /\ r.target \in Members
          /\ role[r.actor] = "ADMIN" => role[r.target] = "DEVELOPER"
          /\ ~PendingFor(r.target)
       THEN Seen(h, "write") ELSE End(h)
    /\ UNCHANGED <<arrived, tables, cache, history>>

CreateRemovalRequest(h) ==
    LET r == req[h] IN
    /\ pc[h] = "write"
    /\ r.kind = "askRemoval"
    /\ removals' = IF removals[r.id] # None THEN removals
                   ELSE [removals EXCEPT ![r.id] =
                       [requester |-> r.actor, target |-> r.target, status |-> "PENDING"]]
    /\ End(h)
    /\ UNCHANGED <<arrived, role, joins, invites, cache, history>>

-----------------------------------------------------------------------------
\* approveRemovalRequest, rejectRemovalRequest, cancelRemovalRequest: the status is
\* checked by one statement and written, unconditionally, by a later one.

DecideReads(h) ==
    LET r == req[h] IN
    /\ pc[h] = "read"
    /\ r.kind \in {"approve", "reject", "cancel"}
    /\ IF removals[r.id] = None
       THEN End(h)
       ELSE LET t == removals[r.id].target IN
            IF \/ removals[r.id].status # "PENDING"
               \/ /\ r.kind = "cancel"
                  /\ removals[r.id].requester # r.actor /\ role[r.actor] # "OWNER"
            THEN End(h)
            ELSE /\ req' = [req EXCEPT ![h].target = t, ![h].row = joins[t],
                                       ![h].owners = Owners]
                 /\ pc' = [pc EXCEPT ![h] =
                        IF r.kind # "approve" \/ t \notin Members THEN "decide"
                        ELSE IF role[t] = "OWNER" THEN "count" ELSE "write"]
    /\ UNCHANGED <<arrived, tables, cache, history>>

\* Mutant: the status written is the name of the action.
StatusOf_ActionName(kind) == kind

StatusOf(kind) ==
    CASE kind = "approve" -> "APPROVED" [] kind = "reject" -> "REJECTED" [] OTHER -> "CANCELLED"

Decide(h) ==
    LET r == req[h] IN
    /\ pc[h] = "decide"
    /\ removals' = [removals EXCEPT ![r.id].status = StatusOf(r.kind)]
    /\ IF r.kind = "approve" THEN Then(h, "invalidate") ELSE End(h)
    /\ UNCHANGED <<arrived, role, joins, invites, cache, history>>

-----------------------------------------------------------------------------
\* Invitations.  The invited address is not compared with the account that accepts.

InviteReads(h) ==
    LET r == req[h] IN
    /\ pc[h] = "read"
    /\ r.kind = "invite"
    /\ IF \A i \in Invite : invites[i] # "pending"
       THEN Goto(h, "write") ELSE End(h)
    /\ UNCHANGED <<arrived, tables, cache, history>>

CreateInvitation(h) ==
    LET r == req[h] IN
    /\ pc[h] = "write"
    /\ r.kind = "invite"
    /\ invites' = IF invites[r.id] = "absent" THEN [invites EXCEPT ![r.id] = "pending"]
                  ELSE invites
    /\ End(h)
    /\ UNCHANGED <<arrived, role, joins, removals, cache, history>>

RevokeInvitation(h) ==
    LET r == req[h] IN
    /\ pc[h] = "read"
    /\ r.kind = "revoke"
    /\ invites' = IF invites[r.id] \in {"pending", "accepted"}
                  THEN [invites EXCEPT ![r.id] = "deleted"] ELSE invites
    /\ End(h)
    /\ UNCHANGED <<arrived, role, joins, removals, cache, history>>

\* The checks of acceptInvitation: the invitation is there and not accepted.
AcceptReads(h) ==
    /\ pc[h] = "idle"
    /\ NewRequest
    /\ "accept" \in Kind
    /\ \E i \in Invite, u \in User :
           /\ invites[i] = "pending"
           /\ joins[u] < MaxJoins
           /\ req' = [req EXCEPT ![h] =
                  [kind |-> "accept", actor |-> u, target |-> u, want |-> None, id |-> i,
                   saw |-> role[u], row |-> 0, owners |-> {}]]
    /\ pc' = [pc EXCEPT ![h] = "write"]
    /\ UNCHANGED <<tables, cache, history>>

Join(h) ==
    LET r == req[h] IN
    /\ role' = [role EXCEPT ![r.actor] = "DEVELOPER"]
    /\ joins' = [joins EXCEPT ![r.actor] = @ + 1]

\* Mutant: the membership is created before the invitation is updated.
Accept_NoTransaction(h) ==
    LET r == req[h] IN
    /\ pc[h] = "write"
    /\ r.kind = "accept"
    /\ joins[r.actor] < MaxJoins
    /\ IF role[r.actor] = None THEN Join(h) ELSE UNCHANGED <<role, joins>>
    /\ IF invites[r.id] # "deleted"
       THEN invites' = [invites EXCEPT ![r.id] = "accepted"] /\ Then(h, "invalidate")
       ELSE UNCHANGED invites /\ End(h)
    /\ UNCHANGED <<arrived, removals, cache, history>>

\* A user who was a member when asked only marks the invitation; for anybody else the
\* membership and the mark are one transaction, which fails when the invitation has been
\* deleted or the user has become a member meanwhile.
Accept(h) ==
    LET r == req[h] IN
    /\ pc[h] = "write"
    /\ r.kind = "accept"
    /\ joins[r.actor] < MaxJoins
    /\ IF invites[r.id] # "deleted" /\ (r.saw # None \/ role[r.actor] = None)
       THEN /\ invites' = [invites EXCEPT ![r.id] = "accepted"]
            /\ IF r.saw = None THEN Join(h) ELSE UNCHANGED <<role, joins>>
            /\ Then(h, "invalidate")
       ELSE /\ UNCHANGED <<role, joins, invites>>
            /\ End(h)
    /\ UNCHANGED <<arrived, removals, cache, history>>

\* Commit ingestion finds a known user or an alias behind an author, or makes a user of the
\* author, and enrols whoever is no member.  No decision is invalidated: neither a lowest
\* role nor none is granted anything here.
Enroll(u) ==
    /\ role[u] = None
    /\ joins[u] < MaxJoins
    /\ NewRequest
    /\ role' = [role EXCEPT ![u] = "DEVELOPER"]
    /\ joins' = [joins EXCEPT ![u] = @ + 1]
    /\ UNCHANGED <<invites, removals, cache, pc, req, history>>

-----------------------------------------------------------------------------
\* invalidateUserPermissions, the last step of whatever changes a membership (but for
\* removeMember, which then closes the pending requests).  deletePattern lists the keys and
\* deletes what it has listed: a decision cached in between stays, and all of them stay
\* when Redis fails, which is logged and swallowed.
InvalidateUser(h) ==
    LET u == req[h].target
        mine == {d \in cache : d.user = u}
    IN
    /\ pc[h] = "invalidate"
    /\ \E kept \in SUBSET mine :
           /\ cache' = cache \ (mine \ kept)
           /\ excused' = IF \A d \in kept : d.granted = Granted(d.kind, role[u])
                         THEN excused \ {u} ELSE excused \cup {u}
    /\ IF req[h].kind = "remove" THEN Goto(h, "close") ELSE End(h)
    /\ UNCHANGED <<arrived, tables, raced>>

\* A change of the target's membership is written and its invalidation is still to come.
InvalidationDue(h) == pc[h] = "invalidate" \/ (pc[h] = "decide" /\ req[h].kind = "approve")

\* A statement throws or the server goes down: the request ends where it is.
Abort(h) ==
    /\ pc[h] # "idle"
    /\ excused' = IF InvalidationDue(h) THEN excused \cup {req[h].target} ELSE excused
    /\ End(h)
    /\ UNCHANGED <<arrived, tables, cache, raced>>

Next ==
    \/ \E h \in Handler :
           \/ Arrive(h) \/ Guard(h) \/ VerifyRole(h)
           \/ ChangeRoleReads(h) \/ CountOwners(h) \/ ChangeRole(h)
           \/ RemoveReads(h) \/ RemoveMember(h) \/ ClosePending(h)
           \/ AskRemovalReads(h) \/ CreateRemovalRequest(h)
           \/ DecideReads(h) \/ Decide(h)
           \/ InviteReads(h) \/ CreateInvitation(h) \/ RevokeInvitation(h)
           \/ AcceptReads(h) \/ Accept(h)
           \/ InvalidateUser(h) \/ Abort(h)
    \/ \E u \in User : Enroll(u)
    \/ \E d \in cache : ExpireDecision(d)

Spec == Init /\ [][Next]_vars

-----------------------------------------------------------------------------
\* Properties.

Invalidating(u) == \E h \in Handler : req[h] # None /\ req[h].target = u /\ InvalidationDue(h)

\* A cached decision agrees with the role the user has now, if any, but for four causes: the
\* invalidation is under way, or it died with its request, or it missed the decision (Redis
\* failed, or the decision was cached between listing and deletion), or a guard cached the
\* decision for a role it had read before the change.
StaleDecisionHasCause ==
    \A d \in cache :
        \/ d.granted = Granted(d.kind, role[d.user])
        \/ Invalidating(d.user)
        \/ d.user \in excused

\* An organization loses its last owner only when a demotion or removal goes ahead on a
\* count that another one has made outdated: one at a time, the checks suffice.
OwnerlessHasCause == Owners = {} => raced

\* No request makes anybody a member through an invitation that has been revoked, though it
\* may be revoked between the checks of acceptInvitation and its transaction.  (A step that
\* leaves every request where it is is one of commit ingestion.)
RevokedAdmitsNobody ==
    [][\A u \in User : role[u] = None /\ role'[u] # None =>
           \/ \E i \in Invite : /\ invites[i] \in {"pending", "accepted"}
                               /\ invites'[i] = "accepted"
           \/ UNCHANGED <<pc, req>>]_vars

\* The module implements the membership of the organization: requests that read, wait and
\* write, and fail anywhere, and authors being enrolled meanwhile, change roles and
\* invitations only as Membership does.
Organization == INSTANCE Membership
MembershipSpec == Organization!Spec

-----------------------------------------------------------------------------
\* The inductive invariant behind the properties (proved in OrgAccess_proofs).

\* What the earlier stages of a request have established for the later ones.
Begun(h) ==
    LET r == req[h] IN
    /\ r.kind = "accept" =>
           r.target = r.actor /\ r.id \in Invite /\ invites[r.id] # "absent"
    /\ r.kind \in {"approve", "reject", "cancel"} =>
           /\ r.id \in Removal
           /\ pc[h] \in {"count", "write", "decide"} => removals[r.id] # None
    /\ pc[h] = "decide" => r.kind \in {"approve", "reject", "cancel"}

RequestsBegun == \A h \in Handler : pc[h] # "idle" => Begun(h)

\* Whoever is about to take away an owner's role has seen another owner.
TakesRole(h) ==
    /\ pc[h] = "write"
    /\ \/ req[h].kind \in {"remove", "approve"}
       \/ req[h].kind = "changeRole" /\ req[h].want # "OWNER"

AnotherOwnerSeen ==
    \A h \in Handler :
        TakesRole(h) /\ req[h].target \in req[h].owners =>
            req[h].owners \ {req[h].target} # {}

IInv ==
    /\ TypeOK
    /\ RequestsBegun
    /\ AnotherOwnerSeen
    /\ StaleDecisionHasCause
    /\ OwnerlessHasCause
=============================================================================
