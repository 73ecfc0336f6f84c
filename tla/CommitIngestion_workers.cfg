SPECIFICATION FairSpec
CONSTANTS
    c1 = c1
    c2 = c2
    w1 = w1
    w2 = w2
    p1 = p1
    p2 = p2
    None = None
    NoWorker = NoWorker
    Commit = {c1}
    JobId = {c1}
    Worker = {w1, w2}
    FollowUp = {"alert", "scan", "recalculate", "milestones", "event"}
    Poller = {}
    MaxAttempts = 3
    MaxStalled = 1
    MaxTime = 0
    Lookback = 1
    Faults = {"api", "database", "queue", "crash", "stall", "evict"}
INVARIANTS
    TypeOK
    FollowUpsAtMostOnce
    CompletedIsStored
    UnfollowedHasCause
PROPERTIES
    LedgerSpec
    QueuedSettles
CHECK_DEADLOCK FALSE
