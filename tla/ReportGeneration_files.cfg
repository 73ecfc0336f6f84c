SPECIFICATION Spec
CONSTANTS
    q1 = q1
    q2 = q2
    w1 = w1
    w2 = w2
    h1 = h1
    h2 = h2
    Report = {q1, q2}
    Subject <- OneSubject
    JobId <- JobIds
    Worker = {w1, w2}
    Handler = {h1, h2}
    NoWorker = NoWorker
    None = None
    Partial = Partial
    MaxAttempts = 1
    MaxStalled = 0
    MaxRetries = 2
    MaxRequests = 3
    MaxSecond = 1
SYMMETRY ReportSymmetry
INVARIANTS TypeOK ReadyHasOwnFile
CHECK_DEADLOCK FALSE
