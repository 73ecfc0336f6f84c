SPECIFICATION Spec
CONSTANTS
    r1 = r1
    r2 = r2
    v1 = v1
    v2 = v2
    p1 = p1
    q1 = q1
    q2 = q2
    q3 = q3
    None = None
    Release = {r1}
    Version = {v1, v2}
    Repo = {p1}
    Call = {q1, q2, q3}
    Kinds = {"create", "rollback"}
    Options = {"release", "workflow"}
    MaxTime = 0
    Faults = {}
INVARIANTS
    RollbackDispatchedOnce
CHECK_DEADLOCK FALSE
