SPECIFICATION Spec
CONSTANTS
    c1 = c1
    c2 = c2
    w1 = w1
    w2 = w2
    p1 = p1
    p2 = p2
    None = None
    NoWorker = NoWorker
    Commit = {c1}
    JobId = {c1}
    Worker = {w1}
    FollowUp = {"event"}
    Poller = {p1, p2}
    MaxAttempts = 1
    MaxStalled = 0
    MaxTime = 1
    Lookback = 0
    Faults = {"api", "database", "queue", "crash", "evict"}
SYMMETRY CommitSymmetry
INVARIANTS
    CronPollsExclusive
    MissedHasCause
CHECK_DEADLOCK FALSE
