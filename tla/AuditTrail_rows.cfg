SPECIFICATION Spec
CONSTANTS
    login = login
    archiving1 = archiving1
    archiving2 = archiving2
    forget = forget
    alice = alice
    owner = owner
    r1 = r1
    r2 = r2
    w1 = w1
    Action = {login}
    Archival = {archiving1, archiving2}
    Erasure = {forget}
    JobId <- MCEntry
    Author <- MCAuthor
    Subject <- MCSubject
    User = {alice, owner}
    System = System
    Anonymous = Anonymous
    Row = {r1, r2}
    None = None
    Worker = {w1}
    NoWorker = NoWorker
    MaxAttempts = 2
    MaxStalled = 0
SYMMETRY TrailSymmetry
INVARIANTS TypeOK RowKeptOnce ForgottenStaysForgotten ChainHasNoCycle
PROPERTY RecordSpec
CHECK_DEADLOCK FALSE
