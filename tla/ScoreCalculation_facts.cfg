SPECIFICATION FairSpec
CONSTANTS
    j1 = j1
    j2 = j2
    j3 = j3
    w1 = w1
    r1 = r1
    r2 = r2
    None = None
    NoWorker = NoWorker
    JobId = {j1, j2}
    Worker = {w1}
    Reader = {r1}
    MaxAttempts = 1
    MaxStalled = 1
    MinCommits = 1
    MaxCommits = 1
    MaxReviews = 1
    MaxOthers = 1
    Faults = {"database", "enqueue", "redis", "crash", "stall"}
INVARIANTS
    TypeOK
    LagHasCause
PROPERTIES
    LagEnds
    CacheConverges
CHECK_DEADLOCK FALSE
