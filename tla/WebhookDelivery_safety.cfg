SPECIFICATION Spec
CONSTANTS
    push = push
    ping = ping
    retry = retry
    j1 = j1
    j2 = j2
    r1 = r1
    r2 = r2
    Request = {r1, r2}
    GitHubId = {push, ping}
    PingId = {ping}
    RetryId = {retry}
    Job = {j1, j2}
    PayloadJobs <- MCPayloadJobs
    IdemRetention = 0
    LogRetention = 1
    MaxDay = 2
    Faults = {"crash", "database", "queue", "disconnect"}
    None = None
SYMMETRY Symmetric
INVARIANTS
    TypeOK
    OneOwnerPerDelivery
    AcknowledgedMeansQueued
    SuccessIsOnRecord
    PendingHasCause
PROPERTIES
    DeliverySpec
CHECK_DEADLOCK FALSE
