SPECIFICATION Spec
CONSTANTS
    ann = ann
    bob = bob
    cyd = cyd
    h1 = h1
    h2 = h2
    User = {ann, bob, cyd}
    Founders = {ann, bob}
    Handler = {h1, h2}
    Kind = {"changeRole", "remove", "askRemoval", "approve", "reject", "cancel", "invite", "revoke", "accept"}
    Invite = {i1}
    Removal = {m1}
    None = None
    MaxJoins = 2
    MaxRequests = 4
    CachedKind = {"changeRole"}
SYMMETRY HandlerSymmetry
INVARIANTS TypeOK StaleDecisionHasCause OwnerlessHasCause
PROPERTIES RevokedAdmitsNobody MembershipSpec
CHECK_DEADLOCK FALSE
