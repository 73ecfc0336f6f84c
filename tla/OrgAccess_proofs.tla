-------------------------- MODULE OrgAccess_proofs --------------------------
(***************************************************************************)
(* OrgAccess for any number of users, requests, invitations and removal    *)
(* requests: the causes of a stale decision and of a lost last owner, and  *)
(* that a revoked invitation admits nobody.  One lemma per action shows    *)
(* that it preserves IInv.                                                 *)
(***************************************************************************)
EXTENDS OrgAccess, FiniteSetTheorems, TLAPS

\* The founders are owners, and no request is being served.
LEMMA InitEstablishes == Init => IInv
<1> SUFFICES ASSUME Init PROVE IInv
  OBVIOUS
<1> USE OrgAssumption DEF Init
<1>1. TypeOK
  <2>1. role \in [User -> Role \cup {None}] /\ joins \in [User -> 0..MaxJoins]
    BY DEF Role
  <2>2. invites \in [Invite -> InviteState] /\ removals \in [Removal -> RemovalRecord \cup {None}]
    BY DEF InviteState
  <2>3. /\ pc \in [Handler -> Stage] /\ req \in [Handler -> Request \cup {None}]
        /\ \A h \in Handler : req[h] = None <=> pc[h] = "idle"
    BY DEF Stage
  <2>4. cache \subseteq Decision /\ arrived \in 0..MaxRequests /\ excused \subseteq User
    OBVIOUS
  <2>5. QED
    BY <2>1, <2>2, <2>3, <2>4 DEF TypeOK
<1>2. RequestsBegun /\ AnotherOwnerSeen
  BY DEF RequestsBegun, AnotherOwnerSeen, TakesRole
<1>3. StaleDecisionHasCause /\ OwnerlessHasCause
  BY DEF StaleDecisionHasCause, OwnerlessHasCause, Owners
<1>4. QED
  BY <1>1, <1>2, <1>3 DEF IInv

\* A step of one request leaves the others as they are, once begun.
LEMMA OneBegins ==
    ASSUME RequestsBegun, NEW h \in Handler,
           \A g \in Handler \ {h} : pc'[g] = pc[g] /\ req'[g] = req[g],
           \A i \in Invite : invites[i] # "absent" => invites'[i] # "absent",
           \A m \in Removal : removals[m] # None => removals'[m] # None,
           pc'[h] # "idle" => Begun(h)'
    PROVE  RequestsBegun'
BY DEF RequestsBegun, Begun

\* A step of one request leaves what the others have seen.
LEMMA OneTakes ==
    ASSUME AnotherOwnerSeen, NEW h \in Handler,
           \A g \in Handler \ {h} : pc'[g] = pc[g] /\ req'[g] = req[g],
           TakesRole(h)' /\ req'[h].target \in req'[h].owners =>
               req'[h].owners \ {req'[h].target} # {}
    PROVE  AnotherOwnerSeen'
BY DEF AnotherOwnerSeen, TakesRole

\* Two owners are one besides any user.
LEMMA TwoOwners ==
    ASSUME NEW S, NEW u, ~(Cardinality(S) <= 1)
    PROVE  S \ {u} # {}
<1> SUFFICES ASSUME S \ {u} = {} PROVE FALSE
  OBVIOUS
<1>1. S = {} \/ S = {u}
  OBVIOUS
<1>2. Cardinality({}) <= 1
  BY FS_EmptySet
<1>3. Cardinality({u}) = 1
  BY FS_Singleton, Zenon
<1>4. QED
  BY <1>1, <1>2, <1>3

\* A request past its write is still a request.
LEMMA ThenTyped ==
    ASSUME NEW h \in Handler, NEW stage, req \in [Handler -> Request \cup {None}],
           req[h] \in Request, Then(h, stage)
    PROVE  req'[h] \in Request
<1>1. req'[h] = [req[h] EXCEPT !.actor = req[h].target, !.want = None, !.saw = None,
                               !.row = 0, !.owners = {}]
  BY DEF Then
<1>2. 0 \in 0..MaxJoins
  BY OrgAssumption
<1>3. QED
  BY <1>1, <1>2 DEF Request

\* A decided request for removal is still one.
LEMMA DecidedTyped ==
    ASSUME NEW m \in RemovalRecord, NEW s \in RemovalState
    PROVE  [m EXCEPT !.status = s] \in RemovalRecord
BY DEF RemovalRecord

\* A request arrives.
LEMMA ArrivePreserves ==
    ASSUME IInv, NEW h \in Handler, Arrive(h)
    PROVE  IInv'
<1> USE OrgAssumption DEF IInv
<1>1. TypeOK'
  BY DEF Arrive, NewRequest, Members, Parameters, TypeOK, tables, history, Request,
     RemovalRecord, Role, InviteState, RemovalState, Stage, Decision, AllKinds
<1>2. RequestsBegun'
  BY DEF Arrive, NewRequest, Members, Parameters, TypeOK, tables, history, RequestsBegun,
     Begun, Stage
<1>3. AnotherOwnerSeen'
  BY DEF Arrive, NewRequest, Members, Parameters, TypeOK, tables, history, AnotherOwnerSeen,
     TakesRole, Stage
<1>4. StaleDecisionHasCause'
  BY DEF Arrive, NewRequest, Members, Parameters, TypeOK, tables, history,
     StaleDecisionHasCause, Invalidating, InvalidationDue, Granted, Stage
<1>5. OwnerlessHasCause'
  BY DEF Arrive, NewRequest, Members, Parameters, TypeOK, tables, history, OwnerlessHasCause,
     Owners, Stage
<1>6. QED
  BY <1>1, <1>2, <1>3, <1>4, <1>5
     DEF IInv

\* A decision is cached for the role the guard saw; if that has changed, the user is excused.
LEMMA GuardPreserves ==
    ASSUME IInv, NEW h \in Handler, Guard(h)
    PROVE  IInv'
<1> USE OrgAssumption DEF IInv
<1>1. TypeOK'
  <2>1. pc' \in [Handler -> Stage]
    BY DEF Guard, Admit, End, Granted, TypeOK, Stage
  <2>2. /\ req' \in [Handler -> Request \cup {None}]
        /\ \A g \in Handler : req'[g] = None <=> pc'[g] = "idle"
    <3>1. req[h] \in Request
      BY DEF Guard, Admit, End, Granted, TypeOK
    <3>2. \/ req'[h] \in Request /\ pc'[h] # "idle"
          \/ req'[h] = None /\ pc'[h] = "idle"
      BY <3>1
         DEF Guard, Admit, End, Granted, TypeOK, Stage, Request
    <3>3. QED
      BY <3>2
         DEF Guard, Admit, End, Granted, TypeOK
  <2>3. role' \in [User -> Role \cup {None}] /\ joins' \in [User -> 0..MaxJoins]
    BY DEF Guard, Admit, End, Granted, TypeOK, tables, history, Request
  <2>4. invites' \in [Invite -> InviteState] /\ removals' \in [Removal -> RemovalRecord \cup {None}]
    BY DEF Guard, Admit, End, Granted, TypeOK, tables, history
  <2>5. cache' \subseteq Decision
    <3>1. req[h] \in Request
      BY DEF Guard, TypeOK
    <3>2. Granted(req[h].kind, req[h].saw) \in BOOLEAN
      BY DEF Granted
    <3>3. [user |-> req[h].actor, kind |-> req[h].kind,
           granted |-> Granted(req[h].kind, req[h].saw)] \in Decision
      BY <3>1, <3>2 DEF Request, Decision
    <3>4. QED
      BY <3>3 DEF Guard, TypeOK
  <2>6. arrived' \in 0..MaxRequests /\ excused' \subseteq User /\ raced' \in BOOLEAN
    BY DEF Guard, Admit, End, Granted, TypeOK, tables, history, Request
  <2>7. QED
    BY <2>1, <2>2, <2>3, <2>4, <2>5, <2>6
       DEF TypeOK
<1>2. RequestsBegun'
  <2>1. \A g \in Handler \ {h} : pc'[g] = pc[g] /\ req'[g] = req[g]
    BY DEF Guard, Admit, End, Granted, TypeOK
  <2>2. \A i \in Invite : invites[i] # "absent" => invites'[i] # "absent"
    BY DEF Guard, Admit, End, Granted, tables, history, TypeOK
  <2>3. \A m \in Removal : removals[m] # None => removals'[m] # None
    BY DEF Guard, Admit, End, Granted, tables, history, TypeOK, RemovalRecord
  <2>4. pc'[h] # "idle" => Begun(h)'
    BY DEF Guard, Admit, End, Granted, tables, history, TypeOK, Begun, RequestsBegun,
       Request, Stage
  <2>5. QED
    BY <2>1, <2>2, <2>3, <2>4, OneBegins
<1>3. AnotherOwnerSeen'
  BY DEF Guard, Admit, End, Granted, TypeOK, tables, history, AnotherOwnerSeen, TakesRole,
     Stage
<1>4. StaleDecisionHasCause'
  BY DEF Guard, Admit, End, Granted, TypeOK, tables, history, StaleDecisionHasCause,
     Invalidating, InvalidationDue, Members, Stage
<1>5. OwnerlessHasCause'
  BY DEF Guard, Admit, End, Granted, TypeOK, tables, history, OwnerlessHasCause, Owners,
     Stage
<1>6. QED
  BY <1>1, <1>2, <1>3, <1>4, <1>5
     DEF IInv

\* A decision less.
LEMMA ExpireDecisionPreserves ==
    ASSUME IInv, NEW d \in cache, ExpireDecision(d)
    PROVE  IInv'
<1> USE OrgAssumption DEF IInv
<1>1. TypeOK'
  BY DEF ExpireDecision, TypeOK, tables, history, Request, RemovalRecord, Role, InviteState,
     RemovalState, Stage, Decision, AllKinds
<1>2. RequestsBegun'
  BY DEF ExpireDecision, TypeOK, tables, history, RequestsBegun, Begun, Stage
<1>3. AnotherOwnerSeen'
  BY DEF ExpireDecision, TypeOK, tables, history, AnotherOwnerSeen, TakesRole, Stage
<1>4. StaleDecisionHasCause'
  BY DEF ExpireDecision, TypeOK, tables, history, StaleDecisionHasCause, Invalidating,
     InvalidationDue, Members, Granted, Stage
<1>5. OwnerlessHasCause'
  BY DEF ExpireDecision, TypeOK, tables, history, OwnerlessHasCause, Owners, Stage
<1>6. QED
  BY <1>1, <1>2, <1>3, <1>4, <1>5
     DEF IInv

\* Nothing but the stage changes.
LEMMA VerifyRolePreserves ==
    ASSUME IInv, NEW h \in Handler, VerifyRole(h)
    PROVE  IInv'
<1> USE OrgAssumption DEF IInv
<1>1. TypeOK'
  BY DEF VerifyRole, Goto, End, TypeOK, tables, history, Request, RemovalRecord, Role,
     InviteState, RemovalState, Stage, Decision, AllKinds
<1>2. RequestsBegun'
  BY DEF VerifyRole, Goto, End, TypeOK, tables, history, RequestsBegun, Begun, Stage
<1>3. AnotherOwnerSeen'
  BY DEF VerifyRole, Goto, End, TypeOK, tables, history, AnotherOwnerSeen, TakesRole, Stage
<1>4. StaleDecisionHasCause'
  BY DEF VerifyRole, Goto, End, TypeOK, tables, history, StaleDecisionHasCause, Invalidating,
     InvalidationDue, Members, Granted, Stage
<1>5. OwnerlessHasCause'
  BY DEF VerifyRole, Goto, End, TypeOK, tables, history, OwnerlessHasCause, Owners, Stage
<1>6. QED
  BY <1>1, <1>2, <1>3, <1>4, <1>5
     DEF IInv

\* An owner is counted unless he stays one.
LEMMA ChangeRoleReadsPreserves ==
    ASSUME IInv, NEW h \in Handler, ChangeRoleReads(h)
    PROVE  IInv'
<1> USE OrgAssumption DEF IInv
<1>1. TypeOK'
  BY DEF ChangeRoleReads, Seen, End, Members, Owners, TypeOK, tables, history, Request,
     RemovalRecord, Role, InviteState, RemovalState, Stage, Decision, AllKinds
<1>2. RequestsBegun'
  <2>1. \A g \in Handler \ {h} : pc'[g] = pc[g] /\ req'[g] = req[g]
    BY DEF ChangeRoleReads, Seen, End, Members, Owners, TypeOK
  <2>2. \A i \in Invite : invites[i] # "absent" => invites'[i] # "absent"
    BY DEF ChangeRoleReads, Seen, End, Members, Owners, tables, history, TypeOK
  <2>3. \A m \in Removal : removals[m] # None => removals'[m] # None
    BY DEF ChangeRoleReads, Seen, End, Members, Owners, tables, history, TypeOK,
       RemovalRecord
  <2>4. pc'[h] # "idle" => Begun(h)'
    BY DEF ChangeRoleReads, Seen, End, Members, Owners, tables, history, TypeOK, Begun,
       RequestsBegun, Request, Stage
  <2>5. QED
    BY <2>1, <2>2, <2>3, <2>4, OneBegins
<1>3. AnotherOwnerSeen'
  <2>1. \A g \in Handler \ {h} : pc'[g] = pc[g] /\ req'[g] = req[g]
    BY DEF ChangeRoleReads, Seen, End, Members, Owners, TypeOK
  <2>2. TakesRole(h)' /\ req'[h].target \in req'[h].owners =>
            req'[h].owners \ {req'[h].target} # {}
    BY DEF ChangeRoleReads, Seen, End, Members, Owners, TypeOK, TakesRole, AnotherOwnerSeen,
       Request, Stage
  <2>3. QED
    BY <2>1, <2>2, OneTakes
<1>4. StaleDecisionHasCause'
  BY DEF ChangeRoleReads, Seen, End, Members, Owners, TypeOK, tables, history,
     StaleDecisionHasCause, Invalidating, InvalidationDue, Granted, Stage
<1>5. OwnerlessHasCause'
  BY DEF ChangeRoleReads, Seen, End, Members, Owners, TypeOK, tables, history,
     OwnerlessHasCause, Stage
<1>6. QED
  BY <1>1, <1>2, <1>3, <1>4, <1>5
     DEF IInv

\* Two owners are one more than the target.
LEMMA CountOwnersPreserves ==
    ASSUME IInv, NEW h \in Handler, CountOwners(h)
    PROVE  IInv'
<1> USE OrgAssumption DEF IInv
<1>1. TypeOK'
  BY DEF CountOwners, End, Owners, TypeOK, tables, history, Request, RemovalRecord, Role,
     InviteState, RemovalState, Stage, Decision, AllKinds
<1>2. RequestsBegun'
  <2>1. \A g \in Handler \ {h} : pc'[g] = pc[g] /\ req'[g] = req[g]
    BY DEF CountOwners, End, Owners, TypeOK
  <2>2. \A i \in Invite : invites[i] # "absent" => invites'[i] # "absent"
    BY DEF CountOwners, End, Owners, tables, history, TypeOK
  <2>3. \A m \in Removal : removals[m] # None => removals'[m] # None
    BY DEF CountOwners, End, Owners, tables, history, TypeOK, RemovalRecord
  <2>4. pc'[h] # "idle" => Begun(h)'
    BY DEF CountOwners, End, Owners, tables, history, TypeOK, Begun, RequestsBegun, Request,
       Stage
  <2>5. QED
    BY <2>1, <2>2, <2>3, <2>4, OneBegins
<1>3. AnotherOwnerSeen'
  <2>1. \A g \in Handler \ {h} : pc'[g] = pc[g] /\ req'[g] = req[g]
    BY DEF CountOwners, End, TypeOK
  <2>2. ~(Cardinality(Owners) <= 1) => Owners \ {req[h].target} # {}
    BY TwoOwners
  <2>3. CASE Cardinality(Owners) <= 1
    BY <2>1, <2>3, OneTakes DEF CountOwners, End, TypeOK, TakesRole
  <2>4. CASE ~(Cardinality(Owners) <= 1)
    <3>1. req[h] \in Request /\ req'[h] = [req[h] EXCEPT !.owners = Owners]
      BY <2>4 DEF CountOwners, TypeOK
    <3>2. req'[h].target = req[h].target /\ req'[h].owners = Owners
      BY <3>1 DEF Request
    <3>3. QED
      BY <2>1, <2>2, <2>4, <3>2, OneTakes
  <2>5. QED
    BY <2>3, <2>4
<1>4. StaleDecisionHasCause'
  BY DEF CountOwners, End, Owners, TypeOK, tables, history, StaleDecisionHasCause,
     Invalidating, InvalidationDue, Members, Granted, Stage
<1>5. OwnerlessHasCause'
  BY DEF CountOwners, End, Owners, TypeOK, tables, history, OwnerlessHasCause, Stage
<1>6. QED
  BY <1>1, <1>2, <1>3, <1>4, <1>5
     DEF IInv

\* The target is being invalidated from here on; an outdated count is on record.
LEMMA ChangeRolePreserves ==
    ASSUME IInv, NEW h \in Handler, ChangeRole(h)
    PROVE  IInv'
<1> USE OrgAssumption DEF IInv
<1>1. TypeOK'
  <2>1. pc' \in [Handler -> Stage]
    BY DEF ChangeRole, End, Then, RowThere, RacedLoss, TypeOK, Stage
  <2>2. /\ req' \in [Handler -> Request \cup {None}]
        /\ \A g \in Handler : req'[g] = None <=> pc'[g] = "idle"
    <3>1. req[h] \in Request /\ req \in [Handler -> Request \cup {None}]
      BY DEF ChangeRole, TypeOK
    <3>2. (\E stage \in Stage \ {"idle"} : Then(h, stage)) \/ End(h)
      BY DEF ChangeRole, Stage
    <3>3. CASE \E stage \in Stage \ {"idle"} : Then(h, stage)
      <4>1. PICK stage \in Stage \ {"idle"} : Then(h, stage)
        BY <3>3
      <4>2. req'[h] \in Request
        BY <3>1, <4>1, ThenTyped
      <4>3. QED
        BY <4>1, <4>2 DEF Then, TypeOK
    <3>4. CASE End(h)
      BY <3>4 DEF End, TypeOK
    <3>5. QED
      BY <3>2, <3>3, <3>4
  <2>3. role' \in [User -> Role \cup {None}] /\ joins' \in [User -> 0..MaxJoins]
    BY DEF ChangeRole, End, Then, RowThere, RacedLoss, TypeOK, tables, history, Request
  <2>4. invites' \in [Invite -> InviteState] /\ removals' \in [Removal -> RemovalRecord \cup {None}]
    BY DEF ChangeRole, End, Then, RowThere, RacedLoss, TypeOK, tables, history
  <2>5. cache' \subseteq Decision
    BY DEF ChangeRole, End, Then, RowThere, RacedLoss, TypeOK, tables, history, Decision
  <2>6. arrived' \in 0..MaxRequests /\ excused' \subseteq User /\ raced' \in BOOLEAN
    BY DEF ChangeRole, End, Then, RowThere, RacedLoss, TypeOK, tables, history, Request
  <2>7. QED
    BY <2>1, <2>2, <2>3, <2>4, <2>5, <2>6
       DEF TypeOK
<1>2. RequestsBegun'
  <2>1. \A g \in Handler \ {h} : pc'[g] = pc[g] /\ req'[g] = req[g]
    BY DEF ChangeRole, End, Then, RowThere, RacedLoss, TypeOK
  <2>2. \A i \in Invite : invites[i] # "absent" => invites'[i] # "absent"
    BY DEF ChangeRole, End, Then, RowThere, RacedLoss, tables, history, TypeOK
  <2>3. \A m \in Removal : removals[m] # None => removals'[m] # None
    BY DEF ChangeRole, End, Then, RowThere, RacedLoss, tables, history, TypeOK, RemovalRecord
  <2>4. pc'[h] # "idle" => Begun(h)'
    BY DEF ChangeRole, End, Then, RowThere, RacedLoss, tables, history, TypeOK, Begun,
       RequestsBegun, Request, Stage
  <2>5. QED
    BY <2>1, <2>2, <2>3, <2>4, OneBegins
<1>3. AnotherOwnerSeen'
  BY DEF ChangeRole, End, Then, RowThere, RacedLoss, TypeOK, tables, history,
     AnotherOwnerSeen, TakesRole, Stage
<1>4. StaleDecisionHasCause'
  <2>1. \A u \in User : Invalidating(u) => Invalidating(u)'
    BY DEF ChangeRole, End, Then, RowThere, RacedLoss, TypeOK, Request, Invalidating,
       InvalidationDue, Stage
  <2>2. \A u \in User : role'[u] = role[u] \/ Invalidating(u)'
    BY DEF ChangeRole, End, Then, RowThere, RacedLoss, TypeOK, Request, Invalidating,
       InvalidationDue
  <2>3. cache' = cache /\ excused' = excused
    BY DEF ChangeRole, End, Then, RowThere, RacedLoss, history
  <2>4. QED
    BY <2>1, <2>2, <2>3
       DEF TypeOK, StaleDecisionHasCause, Decision
<1>5. OwnerlessHasCause'
  <2>1. CASE UNCHANGED <<role, raced>>
    BY <2>1 DEF OwnerlessHasCause, Owners
  <2>2. CASE RacedLoss(req[h]) /\ raced' = (raced \/ RacedLoss(req[h]))
    BY <2>2 DEF OwnerlessHasCause
  <2>3. CASE /\ ~RacedLoss(req[h])
             /\ role' = [role EXCEPT ![req[h].target] = req[h].want]
             /\ raced' = (raced \/ RacedLoss(req[h]))
    <3>1. req[h].target \in User
      BY DEF ChangeRole, TypeOK, Request
    <3>2. CASE req[h].want = "OWNER"
      BY <2>3, <3>1, <3>2 DEF OwnerlessHasCause, Owners, TypeOK
    <3>3. CASE req[h].want # "OWNER"
      <4>1. SUFFICES ASSUME Owners' = {} PROVE raced'
        BY DEF OwnerlessHasCause
      <4>2. TakesRole(h) /\ req[h].owners = Owners
        BY <2>3, <3>3, <4>1 DEF ChangeRole, TakesRole, RacedLoss
      <4>3. Owners' = Owners \ {req[h].target}
        BY <2>3, <3>1, <3>3 DEF Owners, TypeOK
      <4>4. QED
        BY <2>3, <4>1, <4>2, <4>3 DEF AnotherOwnerSeen, OwnerlessHasCause
    <3>4. QED
      BY <3>2, <3>3
  <2>4. QED
    BY <2>1, <2>2, <2>3 DEF ChangeRole
<1>6. QED
  BY <1>1, <1>2, <1>3, <1>4, <1>5
     DEF IInv

\* An owner is counted before he is removed.
LEMMA RemoveReadsPreserves ==
    ASSUME IInv, NEW h \in Handler, RemoveReads(h)
    PROVE  IInv'
<1> USE OrgAssumption DEF IInv
<1>1. TypeOK'
  BY DEF RemoveReads, Seen, End, Members, Owners, TypeOK, tables, history, Request,
     RemovalRecord, Role, InviteState, RemovalState, Stage, Decision, AllKinds
<1>2. RequestsBegun'
  <2>1. \A g \in Handler \ {h} : pc'[g] = pc[g] /\ req'[g] = req[g]
    BY DEF RemoveReads, Seen, End, Members, Owners, TypeOK
  <2>2. \A i \in Invite : invites[i] # "absent" => invites'[i] # "absent"
    BY DEF RemoveReads, Seen, End, Members, Owners, tables, history, TypeOK
  <2>3. \A m \in Removal : removals[m] # None => removals'[m] # None
    BY DEF RemoveReads, Seen, End, Members, Owners, tables, history, TypeOK, RemovalRecord
  <2>4. pc'[h] # "idle" => Begun(h)'
    BY DEF RemoveReads, Seen, End, Members, Owners, tables, history, TypeOK, Begun,
       RequestsBegun, Request, Stage
  <2>5. QED
    BY <2>1, <2>2, <2>3, <2>4, OneBegins
<1>3. AnotherOwnerSeen'
  <2>1. \A g \in Handler \ {h} : pc'[g] = pc[g] /\ req'[g] = req[g]
    BY DEF RemoveReads, Seen, End, Members, Owners, TypeOK
  <2>2. TakesRole(h)' /\ req'[h].target \in req'[h].owners =>
            req'[h].owners \ {req'[h].target} # {}
    BY DEF RemoveReads, Seen, End, Members, Owners, TypeOK, TakesRole, AnotherOwnerSeen,
       Request, Stage
  <2>3. QED
    BY <2>1, <2>2, OneTakes
<1>4. StaleDecisionHasCause'
  BY DEF RemoveReads, Seen, End, Members, Owners, TypeOK, tables, history,
     StaleDecisionHasCause, Invalidating, InvalidationDue, Granted, Stage
<1>5. OwnerlessHasCause'
  BY DEF RemoveReads, Seen, End, Members, Owners, TypeOK, tables, history, OwnerlessHasCause,
     Stage
<1>6. QED
  BY <1>1, <1>2, <1>3, <1>4, <1>5
     DEF IInv

\* The target is no member any more.
LEMMA RemoveMemberPreserves ==
    ASSUME IInv, NEW h \in Handler, RemoveMember(h)
    PROVE  IInv'
<1> USE OrgAssumption DEF IInv
<1>1. TypeOK'
  <2>1. pc' \in [Handler -> Stage]
    BY DEF RemoveMember, End, Then, RowThere, RacedLoss, TypeOK, Stage
  <2>2. /\ req' \in [Handler -> Request \cup {None}]
        /\ \A g \in Handler : req'[g] = None <=> pc'[g] = "idle"
    <3>1. req[h] \in Request /\ req \in [Handler -> Request \cup {None}]
      BY DEF RemoveMember, TypeOK
    <3>2. (\E stage \in Stage \ {"idle"} : Then(h, stage)) \/ End(h)
      BY DEF RemoveMember, Stage
    <3>3. CASE \E stage \in Stage \ {"idle"} : Then(h, stage)
      <4>1. PICK stage \in Stage \ {"idle"} : Then(h, stage)
        BY <3>3
      <4>2. req'[h] \in Request
        BY <3>1, <4>1, ThenTyped
      <4>3. QED
        BY <4>1, <4>2 DEF Then, TypeOK
    <3>4. CASE End(h)
      BY <3>4 DEF End, TypeOK
    <3>5. QED
      BY <3>2, <3>3, <3>4
  <2>3. role' \in [User -> Role \cup {None}] /\ joins' \in [User -> 0..MaxJoins]
    BY DEF RemoveMember, End, Then, RowThere, RacedLoss, TypeOK, tables, history, Request
  <2>4. invites' \in [Invite -> InviteState] /\ removals' \in [Removal -> RemovalRecord \cup {None}]
    BY DEF RemoveMember, End, Then, RowThere, RacedLoss, TypeOK, tables, history
  <2>5. cache' \subseteq Decision
    BY DEF RemoveMember, End, Then, RowThere, RacedLoss, TypeOK, tables, history, Decision
  <2>6. arrived' \in 0..MaxRequests /\ excused' \subseteq User /\ raced' \in BOOLEAN
    BY DEF RemoveMember, End, Then, RowThere, RacedLoss, TypeOK, tables, history, Request
  <2>7. QED
    BY <2>1, <2>2, <2>3, <2>4, <2>5, <2>6
       DEF TypeOK
<1>2. RequestsBegun'
  <2>1. \A g \in Handler \ {h} : pc'[g] = pc[g] /\ req'[g] = req[g]
    BY DEF RemoveMember, End, Then, RowThere, RacedLoss, TypeOK
  <2>2. \A i \in Invite : invites[i] # "absent" => invites'[i] # "absent"
    BY DEF RemoveMember, End, Then, RowThere, RacedLoss, tables, history, TypeOK
  <2>3. \A m \in Removal : removals[m] # None => removals'[m] # None
    BY DEF RemoveMember, End, Then, RowThere, RacedLoss, tables, history, TypeOK,
       RemovalRecord
  <2>4. pc'[h] # "idle" => Begun(h)'
    BY DEF RemoveMember, End, Then, RowThere, RacedLoss, tables, history, TypeOK, Begun,
       RequestsBegun, Request, Stage
  <2>5. QED
    BY <2>1, <2>2, <2>3, <2>4, OneBegins
<1>3. AnotherOwnerSeen'
  BY DEF RemoveMember, End, Then, RowThere, RacedLoss, TypeOK, tables, history,
     AnotherOwnerSeen, TakesRole, Stage
<1>4. StaleDecisionHasCause'
  <2>1. \A u \in User : Invalidating(u) => Invalidating(u)'
    BY DEF RemoveMember, End, Then, TypeOK, Request, Invalidating, InvalidationDue, Stage
  <2>2. \A u \in User : role'[u] = role[u] \/ Invalidating(u)'
    BY DEF RemoveMember, End, Then, TypeOK, Request, Invalidating, InvalidationDue
  <2>3. cache' = cache /\ excused' = excused
    BY DEF RemoveMember
  <2>4. QED
    BY <2>1, <2>2, <2>3 DEF TypeOK, StaleDecisionHasCause, Decision
<1>5. OwnerlessHasCause'
  <2>1. CASE UNCHANGED <<role, raced>>
    BY <2>1 DEF OwnerlessHasCause, Owners
  <2>2. CASE RacedLoss(req[h]) /\ raced' = (raced \/ RacedLoss(req[h]))
    BY <2>2 DEF OwnerlessHasCause
  <2>3. CASE /\ ~RacedLoss(req[h])
             /\ role' = [role EXCEPT ![req[h].target] = None]
             /\ raced' = (raced \/ RacedLoss(req[h]))
    <3>1. req[h].target \in User
      BY DEF RemoveMember, TypeOK, Request
    <3>2. SUFFICES ASSUME Owners' = {} PROVE raced'
      BY DEF OwnerlessHasCause
    <3>3. TakesRole(h) /\ req[h].owners = Owners
      BY <2>3, <3>2 DEF RemoveMember, TakesRole, RacedLoss
    <3>4. Owners' = Owners \ {req[h].target}
      BY <2>3, <3>1 DEF Owners, TypeOK, Role
    <3>5. QED
      BY <2>3, <3>2, <3>3, <3>4 DEF AnotherOwnerSeen, OwnerlessHasCause
  <2>4. QED
    BY <2>1, <2>2, <2>3 DEF RemoveMember
<1>6. QED
  BY <1>1, <1>2, <1>3, <1>4, <1>5
     DEF IInv

\* Requests stay requests.
LEMMA ClosePendingPreserves ==
    ASSUME IInv, NEW h \in Handler, ClosePending(h)
    PROVE  IInv'
<1> USE OrgAssumption DEF IInv
<1>1. TypeOK'
  BY DEF ClosePending, End, TypeOK, tables, history, Request, RemovalRecord, Role,
     InviteState, RemovalState, Stage, Decision, AllKinds
<1>2. RequestsBegun'
  <2>1. \A g \in Handler \ {h} : pc'[g] = pc[g] /\ req'[g] = req[g]
    BY DEF ClosePending, End, TypeOK
  <2>2. \A i \in Invite : invites[i] # "absent" => invites'[i] # "absent"
    BY DEF ClosePending, End, tables, history, TypeOK
  <2>3. \A m \in Removal : removals[m] # None => removals'[m] # None
    <3>1. "APPROVED" \in RemovalState
      BY DEF RemovalState
    <3>2. \A m \in Removal : removals[m] # None =>
              [removals[m] EXCEPT !.status = "APPROVED"] # None
      BY <3>1, DecidedTyped DEF TypeOK
    <3>3. QED
      BY <3>2 DEF ClosePending, TypeOK
  <2>4. pc'[h] # "idle" => Begun(h)'
    BY DEF ClosePending, End, tables, history, TypeOK, Begun, RequestsBegun, Request, Stage
  <2>5. QED
    BY <2>1, <2>2, <2>3, <2>4, OneBegins
<1>3. AnotherOwnerSeen'
  BY DEF ClosePending, End, TypeOK, tables, history, AnotherOwnerSeen, TakesRole, Stage
<1>4. StaleDecisionHasCause'
  BY DEF ClosePending, End, TypeOK, tables, history, StaleDecisionHasCause, Invalidating,
     InvalidationDue, Members, Granted, Stage
<1>5. OwnerlessHasCause'
  BY DEF ClosePending, End, TypeOK, tables, history, OwnerlessHasCause, Owners, Stage
<1>6. QED
  BY <1>1, <1>2, <1>3, <1>4, <1>5
     DEF IInv

\* Only reads.
LEMMA AskRemovalReadsPreserves ==
    ASSUME IInv, NEW h \in Handler, AskRemovalReads(h)
    PROVE  IInv'
<1> USE OrgAssumption DEF IInv
<1>1. TypeOK'
  BY DEF AskRemovalReads, Seen, End, Members, Owners, PendingFor, TypeOK, tables, history,
     Request, RemovalRecord, Role, InviteState, RemovalState, Stage, Decision, AllKinds
<1>2. RequestsBegun'
  <2>1. \A g \in Handler \ {h} : pc'[g] = pc[g] /\ req'[g] = req[g]
    BY DEF AskRemovalReads, Seen, End, Members, Owners, PendingFor, TypeOK
  <2>2. \A i \in Invite : invites[i] # "absent" => invites'[i] # "absent"
    BY DEF AskRemovalReads, Seen, End, Members, Owners, PendingFor, tables, history, TypeOK
  <2>3. \A m \in Removal : removals[m] # None => removals'[m] # None
    BY DEF AskRemovalReads, Seen, End, Members, Owners, PendingFor, tables, history, TypeOK,
       RemovalRecord
  <2>4. pc'[h] # "idle" => Begun(h)'
    BY DEF AskRemovalReads, Seen, End, Members, Owners, PendingFor, tables, history, TypeOK,
       Begun, RequestsBegun, Request, Stage
  <2>5. QED
    BY <2>1, <2>2, <2>3, <2>4, OneBegins
<1>3. AnotherOwnerSeen'
  <2>1. \A g \in Handler \ {h} : pc'[g] = pc[g] /\ req'[g] = req[g]
    BY DEF AskRemovalReads, Seen, End, Members, Owners, PendingFor, TypeOK
  <2>2. TakesRole(h)' /\ req'[h].target \in req'[h].owners =>
            req'[h].owners \ {req'[h].target} # {}
    BY DEF AskRemovalReads, Seen, End, Members, Owners, PendingFor, TypeOK, TakesRole,
       AnotherOwnerSeen, Request, Stage
  <2>3. QED
    BY <2>1, <2>2, OneTakes
<1>4. StaleDecisionHasCause'
  BY DEF AskRemovalReads, Seen, End, Members, Owners, PendingFor, TypeOK, tables, history,
     StaleDecisionHasCause, Invalidating, InvalidationDue, Granted, Stage
<1>5. OwnerlessHasCause'
  BY DEF AskRemovalReads, Seen, End, Members, Owners, PendingFor, TypeOK, tables, history,
     OwnerlessHasCause, Stage
<1>6. QED
  BY <1>1, <1>2, <1>3, <1>4, <1>5
     DEF IInv

\* One more request for removal.
LEMMA CreateRemovalRequestPreserves ==
    ASSUME IInv, NEW h \in Handler, CreateRemovalRequest(h)
    PROVE  IInv'
<1> USE OrgAssumption DEF IInv
<1>1. TypeOK'
  <2>1. req[h] \in Request
    BY DEF CreateRemovalRequest, TypeOK
  <2>2. [requester |-> req[h].actor, target |-> req[h].target, status |-> "PENDING"]
            \in RemovalRecord
    BY <2>1 DEF Request, RemovalRecord, RemovalState
  <2>3. removals' \in [Removal -> RemovalRecord \cup {None}]
    BY <2>2 DEF CreateRemovalRequest, TypeOK
  <2>4. /\ pc' \in [Handler -> Stage] /\ req' \in [Handler -> Request \cup {None}]
        /\ \A g \in Handler : req'[g] = None <=> pc'[g] = "idle"
    BY DEF CreateRemovalRequest, End, TypeOK, Stage
  <2>5. QED
    BY <2>3, <2>4 DEF CreateRemovalRequest, TypeOK, history
<1>2. RequestsBegun'
  BY DEF CreateRemovalRequest, End, TypeOK, tables, history, RequestsBegun, Begun, Stage
<1>3. AnotherOwnerSeen'
  BY DEF CreateRemovalRequest, End, TypeOK, tables, history, AnotherOwnerSeen, TakesRole,
     Stage
<1>4. StaleDecisionHasCause'
  BY DEF CreateRemovalRequest, End, TypeOK, tables, history, StaleDecisionHasCause,
     Invalidating, InvalidationDue, Members, Granted, Stage
<1>5. OwnerlessHasCause'
  BY DEF CreateRemovalRequest, End, TypeOK, tables, history, OwnerlessHasCause, Owners, Stage
<1>6. QED
  BY <1>1, <1>2, <1>3, <1>4, <1>5
     DEF IInv

\* The request to decide is there, and an owner is counted.
LEMMA DecideReadsPreserves ==
    ASSUME IInv, NEW h \in Handler, DecideReads(h)
    PROVE  IInv'
<1> USE OrgAssumption DEF IInv
<1>1. TypeOK'
  <2>1. pc' \in [Handler -> Stage]
    BY DEF DecideReads, End, Members, Owners, TypeOK, Stage
  <2>2. /\ req' \in [Handler -> Request \cup {None}]
        /\ \A g \in Handler : req'[g] = None <=> pc'[g] = "idle"
    <3>1. req[h] \in Request /\ req \in [Handler -> Request \cup {None}]
      BY DEF DecideReads, TypeOK
    <3>2. CASE End(h)
      BY <3>2 DEF End, TypeOK
    <3>3. CASE ~End(h)
      <4>1. removals[req[h].id] # None /\ req[h].id \in Removal
        BY <3>3 DEF DecideReads, Begun, RequestsBegun
      <4>2. removals[req[h].id].target \in User
        BY <4>1 DEF TypeOK, RemovalRecord
      <4>3. req'[h] = [req[h] EXCEPT !.target = removals[req[h].id].target,
                                     !.row = joins[removals[req[h].id].target],
                                     !.owners = Owners]
        BY <3>1, <3>3, <4>1 DEF DecideReads
      <4>4. req'[h] \in Request
        <5>1. joins[removals[req[h].id].target] \in 0..MaxJoins /\ Owners \in SUBSET User
          BY <4>2 DEF TypeOK, Owners
        <5>2. QED
          BY <3>1, <4>2, <4>3, <5>1 DEF Request
      <4>5. pc'[h] # "idle" /\ \A g \in Handler \ {h} : pc'[g] = pc[g] /\ req'[g] = req[g]
        BY <3>1, <3>3, <4>1 DEF DecideReads, TypeOK
      <4>6. QED
        <5>1. DOMAIN req' = Handler /\ req' = [req EXCEPT ![h] = req'[h]]
          BY <3>1, <4>1, <3>3 DEF DecideReads
        <5>2. req' \in [Handler -> Request \cup {None}]
          BY <3>1, <4>4, <5>1
        <5>3. QED
          BY <4>4, <4>5, <5>2 DEF TypeOK
    <3>4. QED
      BY <3>2, <3>3
  <2>3. role' \in [User -> Role \cup {None}] /\ joins' \in [User -> 0..MaxJoins]
    BY DEF DecideReads, End, Members, Owners, TypeOK, tables, history, Request
  <2>4. invites' \in [Invite -> InviteState] /\ removals' \in [Removal -> RemovalRecord \cup {None}]
    BY DEF DecideReads, End, Members, Owners, TypeOK, tables, history
  <2>5. cache' \subseteq Decision
    BY DEF DecideReads, End, Members, Owners, TypeOK, tables, history, Decision
  <2>6. arrived' \in 0..MaxRequests /\ excused' \subseteq User /\ raced' \in BOOLEAN
    BY DEF DecideReads, End, Members, Owners, TypeOK, tables, history, Request
  <2>7. QED
    BY <2>1, <2>2, <2>3, <2>4, <2>5, <2>6
       DEF TypeOK
<1>2. RequestsBegun'
  <2>1. \A g \in Handler \ {h} : pc'[g] = pc[g] /\ req'[g] = req[g]
    BY DEF DecideReads, End, TypeOK
  <2>2. invites' = invites /\ removals' = removals
    BY DEF DecideReads, tables
  <2>3. CASE End(h)
    BY <2>1, <2>2, <2>3, OneBegins DEF End, TypeOK
  <2>4. CASE ~End(h)
    <3>1. /\ req[h] \in Request
          /\ req[h].kind \in {"approve", "reject", "cancel"} /\ req[h].id \in Removal
      BY DEF DecideReads, TypeOK, RequestsBegun, Begun
    <3>2. req'[h] = [req[h] EXCEPT !.target = removals[req[h].id].target,
                                   !.row = joins[removals[req[h].id].target],
                                   !.owners = Owners]
      BY <2>4 DEF DecideReads, TypeOK
    <3>3. req'[h].kind = req[h].kind /\ req'[h].id = req[h].id
      BY <3>1, <3>2 DEF Request
    <3>4. removals[req[h].id] # None
      BY <2>4 DEF DecideReads
    <3>5. Begun(h)'
      BY <2>2, <3>1, <3>3, <3>4 DEF Begun
    <3>6. QED
      BY <2>1, <2>2, <3>5, OneBegins
  <2>5. QED
    BY <2>3, <2>4
<1>3. AnotherOwnerSeen'
  <2>1. \A g \in Handler \ {h} : pc'[g] = pc[g] /\ req'[g] = req[g]
    BY DEF DecideReads, End, Members, Owners, TypeOK
  <2>2. TakesRole(h)' /\ req'[h].target \in req'[h].owners =>
            req'[h].owners \ {req'[h].target} # {}
    BY DEF DecideReads, End, Members, Owners, TypeOK, TakesRole, AnotherOwnerSeen, Request,
       Stage
  <2>3. QED
    BY <2>1, <2>2, OneTakes
<1>4. StaleDecisionHasCause'
  BY DEF DecideReads, End, Members, Owners, TypeOK, tables, history, StaleDecisionHasCause,
     Invalidating, InvalidationDue, Granted, Stage
<1>5. OwnerlessHasCause'
  BY DEF DecideReads, End, Members, Owners, TypeOK, tables, history, OwnerlessHasCause, Stage
<1>6. QED
  BY <1>1, <1>2, <1>3, <1>4, <1>5
     DEF IInv

\* The request to decide is still there.
LEMMA DecidePreserves ==
    ASSUME IInv, NEW h \in Handler, Decide(h)
    PROVE  IInv'
<1> USE OrgAssumption DEF IInv
<1>1. TypeOK'
  <2>1. pc' \in [Handler -> Stage]
    BY DEF Decide, StatusOf, Then, End, TypeOK, Stage
  <2>2. /\ req' \in [Handler -> Request \cup {None}]
        /\ \A g \in Handler : req'[g] = None <=> pc'[g] = "idle"
    <3>1. req[h] \in Request /\ req \in [Handler -> Request \cup {None}]
      BY DEF Decide, TypeOK
    <3>2. (\E stage \in Stage \ {"idle"} : Then(h, stage)) \/ End(h)
      BY DEF Decide, Stage
    <3>3. CASE \E stage \in Stage \ {"idle"} : Then(h, stage)
      <4>1. PICK stage \in Stage \ {"idle"} : Then(h, stage)
        BY <3>3
      <4>2. req'[h] \in Request
        BY <3>1, <4>1, ThenTyped
      <4>3. QED
        BY <4>1, <4>2 DEF Then, TypeOK
    <3>4. CASE End(h)
      BY <3>4 DEF End, TypeOK
    <3>5. QED
      BY <3>2, <3>3, <3>4
  <2>3. role' \in [User -> Role \cup {None}] /\ joins' \in [User -> 0..MaxJoins]
    BY DEF Decide, StatusOf, Then, End, TypeOK, tables, history, Request
  <2>4. invites' \in [Invite -> InviteState] /\ removals' \in [Removal -> RemovalRecord \cup {None}]
    <3>1. req[h].id \in Removal /\ removals[req[h].id] \in RemovalRecord
      BY DEF Decide, TypeOK, RequestsBegun, Begun
    <3>2. StatusOf(req[h].kind) \in RemovalState
      BY DEF StatusOf, RemovalState
    <3>3. [removals[req[h].id] EXCEPT !.status = StatusOf(req[h].kind)] \in RemovalRecord
      BY <3>1, <3>2, DecidedTyped
    <3>4. QED
      BY <3>1, <3>3 DEF Decide, TypeOK
  <2>5. cache' \subseteq Decision
    BY DEF Decide, StatusOf, Then, End, TypeOK, tables, history, Decision
  <2>6. arrived' \in 0..MaxRequests /\ excused' \subseteq User /\ raced' \in BOOLEAN
    BY DEF Decide, StatusOf, Then, End, TypeOK, tables, history, Request
  <2>7. QED
    BY <2>1, <2>2, <2>3, <2>4, <2>5, <2>6
       DEF TypeOK
<1>2. RequestsBegun'
  <2>1. \A g \in Handler \ {h} : pc'[g] = pc[g] /\ req'[g] = req[g]
    BY DEF Decide, StatusOf, Then, End, TypeOK
  <2>2. \A i \in Invite : invites[i] # "absent" => invites'[i] # "absent"
    BY DEF Decide, StatusOf, Then, End, tables, history, TypeOK
  <2>3. \A m \in Removal : removals[m] # None => removals'[m] # None
    <3>1. req[h].id \in Removal /\ removals[req[h].id] \in RemovalRecord
      BY DEF Decide, TypeOK, RequestsBegun, Begun
    <3>2. StatusOf(req[h].kind) \in RemovalState
      BY DEF StatusOf, RemovalState
    <3>3. [removals[req[h].id] EXCEPT !.status = StatusOf(req[h].kind)] # None
      BY <3>1, <3>2, DecidedTyped
    <3>4. QED
      BY <3>3 DEF Decide, TypeOK
  <2>4. pc'[h] # "idle" => Begun(h)'
    BY DEF Decide, StatusOf, Then, End, tables, history, TypeOK, Begun, RequestsBegun,
       Request, Stage
  <2>5. QED
    BY <2>1, <2>2, <2>3, <2>4, OneBegins
<1>3. AnotherOwnerSeen'
  BY DEF Decide, StatusOf, Then, End, TypeOK, tables, history, AnotherOwnerSeen, TakesRole,
     Stage
<1>4. StaleDecisionHasCause'
  <2>1. \A u \in User : Invalidating(u) => Invalidating(u)'
    BY DEF Decide, StatusOf, Then, End, TypeOK, Request, Invalidating, InvalidationDue, Stage
  <2>2. \A u \in User : role'[u] = role[u] \/ Invalidating(u)'
    BY DEF Decide
  <2>3. cache' = cache /\ excused' = excused
    BY DEF Decide, StatusOf, Then, End, history
  <2>4. QED
    BY <2>1, <2>2, <2>3
       DEF TypeOK, StaleDecisionHasCause, Decision
<1>5. OwnerlessHasCause'
  BY DEF Decide, StatusOf, Then, End, TypeOK, tables, history, OwnerlessHasCause, Owners,
     Stage
<1>6. QED
  BY <1>1, <1>2, <1>3, <1>4, <1>5
     DEF IInv

\* Only reads.
LEMMA InviteReadsPreserves ==
    ASSUME IInv, NEW h \in Handler, InviteReads(h)
    PROVE  IInv'
<1> USE OrgAssumption DEF IInv
<1>1. TypeOK'
  BY DEF InviteReads, Goto, End, TypeOK, tables, history, Request, RemovalRecord, Role,
     InviteState, RemovalState, Stage, Decision, AllKinds
<1>2. RequestsBegun'
  BY DEF InviteReads, Goto, End, TypeOK, tables, history, RequestsBegun, Begun, Stage
<1>3. AnotherOwnerSeen'
  BY DEF InviteReads, Goto, End, TypeOK, tables, history, AnotherOwnerSeen, TakesRole, Stage
<1>4. StaleDecisionHasCause'
  BY DEF InviteReads, Goto, End, TypeOK, tables, history, StaleDecisionHasCause,
     Invalidating, InvalidationDue, Members, Granted, Stage
<1>5. OwnerlessHasCause'
  BY DEF InviteReads, Goto, End, TypeOK, tables, history, OwnerlessHasCause, Owners, Stage
<1>6. QED
  BY <1>1, <1>2, <1>3, <1>4, <1>5
     DEF IInv

\* An invitation is never absent again.
LEMMA CreateInvitationPreserves ==
    ASSUME IInv, NEW h \in Handler, CreateInvitation(h)
    PROVE  IInv'
<1> USE OrgAssumption DEF IInv
<1>1. TypeOK'
  BY DEF CreateInvitation, End, TypeOK, tables, history, Request, RemovalRecord, Role,
     InviteState, RemovalState, Stage, Decision, AllKinds
<1>2. RequestsBegun'
  BY DEF CreateInvitation, End, TypeOK, tables, history, RequestsBegun, Begun, Stage
<1>3. AnotherOwnerSeen'
  BY DEF CreateInvitation, End, TypeOK, tables, history, AnotherOwnerSeen, TakesRole, Stage
<1>4. StaleDecisionHasCause'
  BY DEF CreateInvitation, End, TypeOK, tables, history, StaleDecisionHasCause, Invalidating,
     InvalidationDue, Members, Granted, Stage
<1>5. OwnerlessHasCause'
  BY DEF CreateInvitation, End, TypeOK, tables, history, OwnerlessHasCause, Owners, Stage
<1>6. QED
  BY <1>1, <1>2, <1>3, <1>4, <1>5
     DEF IInv

\* A revoked invitation is deleted, not absent.
LEMMA RevokeInvitationPreserves ==
    ASSUME IInv, NEW h \in Handler, RevokeInvitation(h)
    PROVE  IInv'
<1> USE OrgAssumption DEF IInv
<1>1. TypeOK'
  BY DEF RevokeInvitation, End, TypeOK, tables, history, Request, RemovalRecord, Role,
     InviteState, RemovalState, Stage, Decision, AllKinds
<1>2. RequestsBegun'
  BY DEF RevokeInvitation, End, TypeOK, tables, history, RequestsBegun, Begun, Stage
<1>3. AnotherOwnerSeen'
  BY DEF RevokeInvitation, End, TypeOK, tables, history, AnotherOwnerSeen, TakesRole, Stage
<1>4. StaleDecisionHasCause'
  BY DEF RevokeInvitation, End, TypeOK, tables, history, StaleDecisionHasCause, Invalidating,
     InvalidationDue, Members, Granted, Stage
<1>5. OwnerlessHasCause'
  BY DEF RevokeInvitation, End, TypeOK, tables, history, OwnerlessHasCause, Owners, Stage
<1>6. QED
  BY <1>1, <1>2, <1>3, <1>4, <1>5
     DEF IInv

\* The invitation is there.
LEMMA AcceptReadsPreserves ==
    ASSUME IInv, NEW h \in Handler, AcceptReads(h)
    PROVE  IInv'
<1> USE OrgAssumption DEF IInv
<1>1. TypeOK'
  BY DEF AcceptReads, NewRequest, TypeOK, tables, history, Request, RemovalRecord, Role,
     InviteState, RemovalState, Stage, Decision, AllKinds
<1>2. RequestsBegun'
  BY DEF AcceptReads, NewRequest, TypeOK, tables, history, RequestsBegun, Begun, Stage
<1>3. AnotherOwnerSeen'
  BY DEF AcceptReads, NewRequest, TypeOK, tables, history, AnotherOwnerSeen, TakesRole, Stage
<1>4. StaleDecisionHasCause'
  BY DEF AcceptReads, NewRequest, TypeOK, tables, history, StaleDecisionHasCause,
     Invalidating, InvalidationDue, Members, Granted, Stage
<1>5. OwnerlessHasCause'
  BY DEF AcceptReads, NewRequest, TypeOK, tables, history, OwnerlessHasCause, Owners, Stage
<1>6. QED
  BY <1>1, <1>2, <1>3, <1>4, <1>5
     DEF IInv

\* Whoever joins is being invalidated and takes no owner away.
LEMMA AcceptPreserves ==
    ASSUME IInv, NEW h \in Handler, Accept(h)
    PROVE  IInv'
<1> USE OrgAssumption DEF IInv
<1>1. TypeOK'
  <2>1. req[h] \in Request /\ req \in [Handler -> Request \cup {None}]
    BY DEF Accept, TypeOK
  <2>2. req[h].actor \in User /\ joins[req[h].actor] \in 0..MaxJoins
    BY <2>1 DEF Request, TypeOK
  <2>3. Then(h, "invalidate") \/ End(h)
    BY DEF Accept
  <2>4. /\ pc' \in [Handler -> Stage] /\ req' \in [Handler -> Request \cup {None}]
        /\ \A g \in Handler : req'[g] = None <=> pc'[g] = "idle"
    <3>1. CASE Then(h, "invalidate")
      <4>1. req'[h] \in Request
        BY <2>1, <3>1, ThenTyped
      <4>2. QED
        BY <2>1, <3>1, <4>1 DEF Then, TypeOK, Stage
    <3>2. CASE End(h)
      BY <2>1, <3>2 DEF End, TypeOK, Stage
    <3>3. QED
      BY <2>3, <3>1, <3>2
  <2>5. role' \in [User -> Role \cup {None}] /\ joins' \in [User -> 0..MaxJoins]
    <3>1. "DEVELOPER" \in Role
      BY DEF Role
    <3>2. \/ Join(h) /\ joins[req[h].actor] < MaxJoins
          \/ UNCHANGED <<role, joins>>
      BY DEF Accept
    <3>3. QED
      BY <2>2, <3>1, <3>2 DEF Join, TypeOK
  <2>6. invites' \in [Invite -> InviteState]
    BY DEF Accept, TypeOK, InviteState
  <2>7. QED
    BY <2>4, <2>5, <2>6 DEF Accept, TypeOK, history
<1>2. RequestsBegun'
  <2>1. \A g \in Handler \ {h} : pc'[g] = pc[g] /\ req'[g] = req[g]
    BY DEF Accept, Join, Then, End, TypeOK
  <2>2. \A i \in Invite : invites[i] # "absent" => invites'[i] # "absent"
    BY DEF Accept, Join, Then, End, tables, history, TypeOK
  <2>3. \A m \in Removal : removals[m] # None => removals'[m] # None
    BY DEF Accept, Join, Then, End, tables, history, TypeOK, RemovalRecord
  <2>4. pc'[h] # "idle" => Begun(h)'
    BY DEF Accept, Join, Then, End, tables, history, TypeOK, Begun, RequestsBegun, Request,
       Stage
  <2>5. QED
    BY <2>1, <2>2, <2>3, <2>4, OneBegins
<1>3. AnotherOwnerSeen'
  BY DEF Accept, Join, Then, End, TypeOK, tables, history, AnotherOwnerSeen, TakesRole, Stage
<1>4. StaleDecisionHasCause'
  <2>1. \A u \in User : Invalidating(u) => Invalidating(u)'
    BY DEF Accept, Join, Then, End, TypeOK, Request, Invalidating, InvalidationDue, Stage
  <2>2. \A u \in User : role'[u] = role[u] \/ Invalidating(u)'
    BY DEF Accept, Join, Then, End, TypeOK, Request, Invalidating, InvalidationDue,
       RequestsBegun, Begun
  <2>3. cache' = cache /\ excused' = excused
    BY DEF Accept, Join, Then, End, history
  <2>4. QED
    BY <2>1, <2>2, <2>3
       DEF TypeOK, StaleDecisionHasCause, Decision
<1>5. OwnerlessHasCause'
  <2>1. req[h] \in Request
    BY DEF Accept, TypeOK
  <2>2. role' = role \/ (role[req[h].actor] = None
                         /\ role' = [role EXCEPT ![req[h].actor] = "DEVELOPER"])
    BY DEF Accept, Join
  <2>3. Owners \subseteq Owners'
    BY <2>1, <2>2 DEF Owners, TypeOK, Request, Role
  <2>4. QED
    BY <2>3 DEF OwnerlessHasCause, Accept, history
<1>6. QED
  BY <1>1, <1>2, <1>3, <1>4, <1>5
     DEF IInv

\* A decision about the user that is still there agrees with his role, or he is excused.
LEMMA InvalidateUserPreserves ==
    ASSUME IInv, NEW h \in Handler, InvalidateUser(h)
    PROVE  IInv'
<1> USE OrgAssumption DEF IInv
<1>1. TypeOK'
  BY DEF InvalidateUser, Goto, End, TypeOK, tables, history, Request, RemovalRecord, Role,
     InviteState, RemovalState, Stage, Decision, AllKinds
<1>2. RequestsBegun'
  BY DEF InvalidateUser, Goto, End, TypeOK, tables, history, RequestsBegun, Begun, Stage
<1>3. AnotherOwnerSeen'
  BY DEF InvalidateUser, Goto, End, TypeOK, tables, history, AnotherOwnerSeen, TakesRole,
     Stage
<1>4. StaleDecisionHasCause'
  <2>1. /\ cache' \subseteq cache /\ role' = role
        /\ \A d \in cache' : d.user = req[h].target =>
              d.granted = Granted(d.kind, role[d.user]) \/ req[h].target \in excused'
        /\ excused \ {req[h].target} \subseteq excused'
    BY DEF InvalidateUser, tables
  <2>2. \A u \in User \ {req[h].target} : Invalidating(u) => Invalidating(u)'
    BY DEF InvalidateUser, Goto, End, TypeOK, Invalidating, InvalidationDue
  <2>3. \A d \in cache : d.user \in User
    BY DEF TypeOK, Decision
  <2>4. QED
    BY <2>1, <2>2, <2>3 DEF StaleDecisionHasCause, Granted
<1>5. OwnerlessHasCause'
  BY DEF InvalidateUser, Goto, End, TypeOK, tables, history, OwnerlessHasCause, Owners, Stage
<1>6. QED
  BY <1>1, <1>2, <1>3, <1>4, <1>5
     DEF IInv

\* Whoever is enrolled may do no more than before.
LEMMA EnrollPreserves ==
    ASSUME IInv, NEW u \in User, Enroll(u)
    PROVE  IInv'
<1> USE OrgAssumption DEF IInv
<1>1. TypeOK'
  <2>1. "DEVELOPER" \in Role /\ joins[u] \in 0..MaxJoins
    BY DEF Role, TypeOK
  <2>2. role' \in [User -> Role \cup {None}] /\ joins' \in [User -> 0..MaxJoins]
    BY <2>1 DEF Enroll, TypeOK
  <2>3. QED
    BY <2>2 DEF Enroll, NewRequest, TypeOK, history
<1>2. RequestsBegun' /\ AnotherOwnerSeen'
  BY DEF Enroll, RequestsBegun, Begun, AnotherOwnerSeen, TakesRole
<1>3. StaleDecisionHasCause'
  <2>1. \A d \in cache : Granted(d.kind, role'[d.user]) = Granted(d.kind, role[d.user])
    <3>1. \A kind : Granted(kind, None) = FALSE /\ Granted(kind, "DEVELOPER") = FALSE
      BY DEF Granted, Required, Role
    <3>2. QED
      BY <3>1 DEF Enroll, TypeOK, Decision
  <2>2. /\ cache' = cache /\ excused' = excused
        /\ \A v \in User : Invalidating(v) <=> Invalidating(v)'
    BY DEF Enroll, history, Invalidating, InvalidationDue
  <2>3. \A d \in cache : d.user \in User
    BY DEF TypeOK, Decision
  <2>4. QED
    BY <2>1, <2>2, <2>3 DEF StaleDecisionHasCause
<1>4. OwnerlessHasCause'
  <2>1. Owners \subseteq Owners'
    BY DEF Enroll, Owners, TypeOK, Role
  <2>2. QED
    BY <2>1 DEF Enroll, history, OwnerlessHasCause
<1>5. QED
  BY <1>1, <1>2, <1>3, <1>4

\* The user whose invalidation dies is excused.
LEMMA AbortPreserves ==
    ASSUME IInv, NEW h \in Handler, Abort(h)
    PROVE  IInv'
<1> USE OrgAssumption DEF IInv
<1>1. TypeOK'
  BY DEF Abort, End, InvalidationDue, TypeOK, tables, history, Request, RemovalRecord, Role,
     InviteState, RemovalState, Stage, Decision, AllKinds
<1>2. RequestsBegun'
  BY DEF Abort, End, InvalidationDue, TypeOK, tables, history, RequestsBegun, Begun, Stage
<1>3. AnotherOwnerSeen'
  BY DEF Abort, End, InvalidationDue, TypeOK, tables, history, AnotherOwnerSeen, TakesRole,
     Stage
<1>4. StaleDecisionHasCause'
  BY DEF Abort, End, InvalidationDue, TypeOK, tables, history, StaleDecisionHasCause,
     Invalidating, Members, Granted, Stage
<1>5. OwnerlessHasCause'
  BY DEF Abort, End, InvalidationDue, TypeOK, tables, history, OwnerlessHasCause, Owners,
     Stage
<1>6. QED
  BY <1>1, <1>2, <1>3, <1>4, <1>5
     DEF IInv

\* A step that changes nothing preserves everything.
LEMMA StutterPreserves ==
    ASSUME IInv, UNCHANGED vars
    PROVE  IInv'
<1> USE DEF vars
<1>1. TypeOK' /\ RequestsBegun' /\ AnotherOwnerSeen'
  BY DEF IInv, TypeOK, RequestsBegun, Begun, AnotherOwnerSeen, TakesRole
<1>2. StaleDecisionHasCause' /\ OwnerlessHasCause'
  BY DEF IInv, StaleDecisionHasCause, OwnerlessHasCause, Invalidating,
     InvalidationDue, Members, Owners
<1>3. QED
  BY <1>1, <1>2 DEF IInv

\* Every step preserves the inductive invariant.
LEMMA NextPreserves == IInv /\ [Next]_vars => IInv'
<1> SUFFICES ASSUME IInv, [Next]_vars PROVE IInv'
  OBVIOUS
<1>1. ASSUME NEW h \in Handler,
             Arrive(h) \/ Guard(h) \/ VerifyRole(h) \/ ChangeRoleReads(h) \/ CountOwners(h)
                \/ ChangeRole(h) \/ RemoveReads(h) \/ RemoveMember(h) \/ ClosePending(h)
      PROVE  IInv'
  BY <1>1, ArrivePreserves, GuardPreserves, VerifyRolePreserves, ChangeRoleReadsPreserves,
     CountOwnersPreserves, ChangeRolePreserves, RemoveReadsPreserves, RemoveMemberPreserves,
     ClosePendingPreserves
<1>2. ASSUME NEW h \in Handler,
             AskRemovalReads(h) \/ CreateRemovalRequest(h) \/ DecideReads(h) \/ Decide(h)
                \/ InvalidateUser(h) \/ Abort(h)
      PROVE  IInv'
  BY <1>2, AskRemovalReadsPreserves, CreateRemovalRequestPreserves, DecideReadsPreserves,
     DecidePreserves, InvalidateUserPreserves, AbortPreserves
<1>3. ASSUME NEW h \in Handler,
             InviteReads(h) \/ CreateInvitation(h) \/ RevokeInvitation(h) \/ AcceptReads(h)
                \/ Accept(h)
      PROVE  IInv'
  BY <1>3, InviteReadsPreserves, CreateInvitationPreserves, RevokeInvitationPreserves,
     AcceptReadsPreserves, AcceptPreserves
<1>4. CASE (\E d \in cache : ExpireDecision(d)) \/ (\E u \in User : Enroll(u))
  BY <1>4, ExpireDecisionPreserves, EnrollPreserves
<1>5. CASE UNCHANGED vars
  BY <1>5, StutterPreserves
<1>6. QED
  BY <1>1, <1>2, <1>3, <1>4, <1>5 DEF Next

\* The inductive invariant holds throughout every behaviour.
THEOREM Invariance == Spec => []IInv
BY InitEstablishes, NextPreserves, PTL DEF Spec

\* Type correctness.
THEOREM TypeCorrect == Spec => []TypeOK
<1>1. IInv => TypeOK
  BY DEF IInv
<1>2. QED
  BY <1>1, Invariance, PTL

\* A decision of RolesGuard that is cached against the user's role is being invalidated, or
\* its invalidation died or missed it, or a guard cached it for a role read before the change.
THEOREM StaleDecisionExplained == Spec => []StaleDecisionHasCause
<1>1. IInv => StaleDecisionHasCause
  BY DEF IInv
<1>2. QED
  BY <1>1, Invariance, PTL

\* As long as no demotion or removal went ahead on an outdated count, there is an owner.
THEOREM OwnerlessExplained == Spec => []OwnerlessHasCause
<1>1. IInv => OwnerlessHasCause
  BY DEF IInv
<1>2. QED
  BY <1>1, Invariance, PTL

\* No request makes a member but through an invitation not revoked when its transaction runs.
THEOREM RevokedAdmitsNone == Spec => RevokedAdmitsNobody
<1>1. ASSUME IInv, [Next]_vars, NEW u \in User, role[u] = None, role'[u] # None,
             ~UNCHANGED <<pc, req>>
      PROVE  \E i \in Invite : invites[i] \in {"pending", "accepted"}
                               /\ invites'[i] = "accepted"
  <2>1. role' # role
    BY <1>1
  <2>2. PICK h \in Handler : ChangeRole(h) \/ RemoveMember(h) \/ Accept(h)
    <3>1. ~UNCHANGED vars /\ ~UNCHANGED tables /\ ~UNCHANGED role
      BY <2>1 DEF vars, tables
    <3>2. (\A d \in cache : ~ExpireDecision(d)) /\ (\A v \in User : ~Enroll(v))
      BY <1>1, <3>1 DEF ExpireDecision, Enroll
    <3>3. \A g \in Handler : ~Arrive(g) /\ ~Guard(g) /\ ~VerifyRole(g) /\ ~ChangeRoleReads(g)
      BY <3>1 DEF Arrive, Guard, VerifyRole, ChangeRoleReads, tables
    <3>4. \A g \in Handler : ~CountOwners(g) /\ ~RemoveReads(g) /\ ~ClosePending(g)
      BY <3>1 DEF CountOwners, RemoveReads, ClosePending, tables
    <3>5. \A g \in Handler : ~AskRemovalReads(g) /\ ~CreateRemovalRequest(g) /\ ~DecideReads(g)
      BY <3>1 DEF AskRemovalReads, CreateRemovalRequest, DecideReads, tables
    <3>6. \A g \in Handler : ~Decide(g) /\ ~InviteReads(g) /\ ~CreateInvitation(g)
      BY <3>1 DEF Decide, InviteReads, CreateInvitation, tables
    <3>7. \A g \in Handler : /\ ~RevokeInvitation(g) /\ ~AcceptReads(g)
                             /\ ~InvalidateUser(g) /\ ~Abort(g)
      BY <3>1 DEF RevokeInvitation, AcceptReads, InvalidateUser, Abort, tables
    <3>8. QED
      BY <1>1, <3>1, <3>2, <3>3, <3>4, <3>5, <3>6, <3>7 DEF Next
  <2>3. ~ChangeRole(h) /\ ~RemoveMember(h)
    BY <1>1 DEF IInv, TypeOK, ChangeRole, RemoveMember, RowThere
  <2>4. Accept(h)
    BY <2>2, <2>3
  <2>5. req[h].kind = "accept" /\ req[h].id \in Invite /\ invites[req[h].id] # "absent"
    BY <1>1, <2>4 DEF IInv, RequestsBegun, Begun, Accept
  <2>6. invites[req[h].id] # "deleted" /\ invites' = [invites EXCEPT ![req[h].id] = "accepted"]
    BY <1>1, <2>1, <2>4 DEF Accept
  <2>7. QED
    BY <1>1, <2>5, <2>6 DEF IInv, TypeOK, InviteState
<1>2. IInv /\ [Next]_vars =>
        [\A u \in User : role[u] = None /\ role'[u] # None =>
            \/ \E i \in Invite : /\ invites[i] \in {"pending", "accepted"}
                                /\ invites'[i] = "accepted"
            \/ UNCHANGED <<pc, req>>]_vars
  BY <1>1
<1>3. QED
  BY <1>2, Invariance, PTL DEF Spec, RevokedAdmitsNobody

-----------------------------------------------------------------------------
\* Refinement of Membership.

\* Requests that do not write a membership or an invitation stutter.
LEMMA OthersStutter ==
    ASSUME NEW h \in Handler,
           \/ Arrive(h) \/ Guard(h) \/ VerifyRole(h) \/ ChangeRoleReads(h) \/ CountOwners(h)
           \/ RemoveReads(h) \/ ClosePending(h) \/ AskRemovalReads(h)
           \/ CreateRemovalRequest(h) \/ DecideReads(h) \/ Decide(h)
           \/ InviteReads(h) \/ AcceptReads(h) \/ InvalidateUser(h) \/ Abort(h)
    PROVE  UNCHANGED <<role, invites>>
<1>1. CASE Arrive(h) \/ Guard(h) \/ VerifyRole(h) \/ ChangeRoleReads(h) \/ CountOwners(h)
  BY <1>1 DEF Arrive, Guard, VerifyRole, ChangeRoleReads, CountOwners, tables
<1>2. CASE RemoveReads(h) \/ ClosePending(h) \/ AskRemovalReads(h) \/ CreateRemovalRequest(h)
  BY <1>2 DEF RemoveReads, ClosePending, AskRemovalReads, CreateRemovalRequest, tables
<1>3. CASE DecideReads(h) \/ Decide(h) \/ InviteReads(h) \/ AcceptReads(h)
  BY <1>3 DEF DecideReads, Decide, InviteReads, AcceptReads, tables
<1>4. CASE InvalidateUser(h) \/ Abort(h)
  BY <1>4 DEF InvalidateUser, Abort, tables
<1>5. QED
  BY <1>1, <1>2, <1>3, <1>4

\* The five statements that write are the five steps of Membership.
LEMMA WritesRefine ==
    ASSUME IInv, NEW h \in Handler,
           \/ ChangeRole(h) \/ RemoveMember(h)
           \/ CreateInvitation(h) \/ RevokeInvitation(h) \/ Accept(h)
    PROVE  Organization!Next \/ UNCHANGED Organization!members
<1> USE DEF IInv, TypeOK, Organization!Next, Organization!members
<1> DEFINE r == req[h]
<1>1. CASE ChangeRole(h)
  <2>1. r \in Request
    BY <1>1 DEF ChangeRole
  <2>2. CASE UNCHANGED role
    BY <1>1, <2>2 DEF ChangeRole
  <2>3. CASE RowThere(r) /\ role' = [role EXCEPT ![r.target] = r.want]
    <3>1. r.target \in User
      BY <2>1 DEF Request
    <3>2. CASE r.want = None
      <4>1. Organization!Leave(r.target)
        BY <1>1, <2>3, <3>2 DEF ChangeRole, RowThere, Organization!Leave
      <4>2. QED
        BY <3>1, <4>1
    <3>3. CASE r.want # None
      <4>1. r.want \in {"DEVELOPER", "ADMIN", "OWNER"}
        BY <2>1, <3>3 DEF Request, Role
      <4>2. Organization!Appoint(r.target, r.want)
        BY <1>1, <2>3 DEF ChangeRole, RowThere, Organization!Appoint
      <4>3. QED
        BY <3>1, <4>1, <4>2
    <3>4. QED
      BY <3>2, <3>3
  <2>4. QED
    BY <1>1, <2>2, <2>3 DEF ChangeRole
<1>2. CASE RemoveMember(h)
  <2>1. r.target \in User
    BY <1>2 DEF RemoveMember, Request
  <2>2. Organization!Leave(r.target) \/ UNCHANGED Organization!members
    BY <1>2 DEF RemoveMember, RowThere, Organization!Leave
  <2>3. QED
    BY <2>1, <2>2
<1>3. CASE CreateInvitation(h)
  <2>1. CASE invites[r.id] = "absent" /\ r.id \in Invite
    BY <1>3, <2>1 DEF CreateInvitation, Organization!Offer
  <2>2. CASE invites[r.id] # "absent"
    BY <1>3, <2>2 DEF CreateInvitation
  <2>3. CASE r.id \notin Invite
    <3>1. invites' = invites
      BY <1>3, <2>3 DEF CreateInvitation
    <3>2. QED
      BY <1>3, <3>1 DEF CreateInvitation
  <2>4. QED
    BY <2>1, <2>2, <2>3
<1>4. CASE RevokeInvitation(h)
  <2>1. CASE invites[r.id] \in {"pending", "accepted"} /\ r.id \in Invite
    BY <1>4, <2>1 DEF RevokeInvitation, Organization!Revoke, Organization!Open
  <2>2. CASE invites[r.id] \notin {"pending", "accepted"}
    BY <1>4, <2>2 DEF RevokeInvitation
  <2>3. CASE r.id \notin Invite
    <3>1. invites' = invites
      BY <1>4, <2>3 DEF RevokeInvitation
    <3>2. QED
      BY <1>4, <3>1 DEF RevokeInvitation
  <2>4. QED
    BY <2>1, <2>2, <2>3
<1>5. CASE Accept(h)
  <2>1. r.actor \in User /\ r.id \in Invite /\ invites[r.id] # "absent"
    BY <1>5 DEF Accept, RequestsBegun, Begun, Request
  <2>2. CASE UNCHANGED <<role, invites>>
    BY <2>2
  <2>3. CASE invites[r.id] # "deleted" /\ (r.saw # None \/ role[r.actor] = None)
    <3>1. Organization!Open(r.id)
      BY <2>1, <2>3 DEF Organization!Open, InviteState
    <3>2. Organization!Use(r.id)
      BY <1>5, <2>1, <2>3, <3>1 DEF Accept, Join, Organization!Use
    <3>3. QED
      BY <2>1, <3>2
  <2>4. QED
    BY <1>5, <2>2, <2>3 DEF Accept
<1>6. QED
  BY <1>1, <1>2, <1>3, <1>4, <1>5

\* Of all that concurrent requests and enrolments do to an organization, a reader of its
\* members and invitations sees only steps of Membership.
THEOREM ImplementsMembership == Spec => MembershipSpec
<1>1. Init => Organization!Init
  BY DEF Init, Organization!Init
<1>2. IInv /\ [Next]_vars => [Organization!Next]_(Organization!members)
  <2>1. ASSUME UNCHANGED vars PROVE UNCHANGED Organization!members
    BY <2>1 DEF vars, Organization!members
  <2>2. ASSUME NEW d \in cache, ExpireDecision(d) PROVE UNCHANGED Organization!members
    BY <2>2 DEF ExpireDecision, tables, Organization!members
  <2>3. ASSUME NEW u \in User, Enroll(u) PROVE Organization!Next
    BY <2>3 DEF Enroll, Organization!Next, Organization!Enroll
  <2>4. QED
    BY <2>1, <2>2, <2>3, OthersStutter, WritesRefine DEF Next, Organization!members
<1>3. QED
  BY <1>1, <1>2, Invariance, PTL DEF Spec, MembershipSpec, Organization!Spec
=============================================================================
