SPECIFICATION Spec
CONSTANTS
    w1 = w1
    w2 = w2
    r1 = r1
    JobId = {"opened", "closed", "reopened", "synchronize", "review_requested"}
    Worker = {w1, w2}
    Request = {r1}
    NoWorker = NoWorker
    None = None
    MaxAttempts = 2
    MaxStalled = 0
    Commenting = FALSE
    Page = 1
    MaxEvents = 3
    MaxComments = 0
    MaxRequests = 0
SYMMETRY WorkerSymmetry
INVARIANTS TypeOK InOrderIsExact UnevaluatedHasCause
PROPERTY MergedUndoneOnlyLate
CHECK_DEADLOCK FALSE
