SPECIFICATION Spec
CONSTANTS
    w1 = w1
    w2 = w2
    r1 = r1
    JobId = {"opened", "closed", "reopened", "synchronize", "review_requested"}
    Worker = {w1}
    Request = {r1}
    NoWorker = NoWorker
    None = None
    MaxAttempts = 2
    MaxStalled = 0
    Commenting = TRUE
    Page = 1
    MaxEvents = 1
    MaxComments = 3
    MaxRequests = 2
INVARIANT SecondCommentHasCause
CHECK_DEADLOCK FALSE
