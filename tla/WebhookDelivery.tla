--------------------------- MODULE WebhookDelivery ---------------------------
(***************************************************************************)
(* The webhook endpoint: WebhookService.processWebhook as run concurrently *)
(* by the HTTP requests of one repository, with the two tables it keeps    *)
(* (webhook_idempotency and webhook_logs), the BullMQ jobs the event        *)
(* handlers add, the midnight clean-ups, GitHub's redeliveries and the    *)
(* operator's manual retry.                                                *)
(*                                                                         *)
(* Every await of processWebhook is a step of its own, so any other        *)
(* request, clean-up or crash may fall between two of them.  Whether a     *)
(* request is authorised (secret cache, signature, rate limit) is a free   *)
(* choice at every request: the endpoint has to be right either way.       *)
(***************************************************************************)
EXTENDS Naturals, FiniteSets

CONSTANTS
    Request,       \* HTTP request slots (concurrent executions of processWebhook)
    GitHubId,      \* X-GitHub-Delivery ids, the same for every redelivery
    PingId,        \* those of them whose X-GitHub-Event is 'ping'
    RetryId,       \* ids minted by retryWebhookDelivery: <id>-retry-<ms>
    Job,           \* BullMQ job ids
    PayloadJobs,   \* PayloadJobs[d]: the jobs the handler adds for payload d
    IdemRetention, \* WEBHOOK_IDEMPOTENCY_RETENTION_DAYS
    LogRetention,  \* WEBHOOK_LOG_RETENTION_DAYS
    MaxDay,        \* bound: days the model's clock runs
    Faults,        \* which faults may happen: subset of FaultKind
    None           \* "no row", "no delivery"

FaultKind == {"crash", "database", "queue", "disconnect"}

ASSUME DeliveryAssumption ==
    /\ PingId \subseteq GitHubId
    /\ GitHubId \cap RetryId = {}
    /\ PayloadJobs \in [GitHubId -> SUBSET Job]
    /\ \A d \in PingId : PayloadJobs[d] = {}
    /\ IdemRetention \in Nat /\ LogRetention \in Nat /\ MaxDay \in Nat
    /\ Faults \subseteq FaultKind
    /\ None \notin GitHubId \cup RetryId \cup Nat

Delivery == GitHubId \cup RetryId

\* The awaits of processWebhook at which a request can be suspended.
Stage == {"idle", "isProcessed", "getCachedResult", "ping", "authorize", "createLog",
          "route", "markProcessed", "logSuccess", "logFailed"}
Reply == {"none", "ok", "cached", "pong", "refused", "conflict", "error"}
LogStatus == {"PENDING", "SUCCESS", "FAILED"}

VARIABLES
    pc,      \* [Request -> Stage]
    rid,     \* [Request -> delivery id of the request]
    todo,    \* [Request -> jobs its handler has still to add]
    reply,   \* [Request -> answer of the last finished execution in the slot]
    log,     \* webhook_logs:        [Delivery -> row [status, day] or None]
    idem,    \* webhook_idempotency: [Delivery -> day of creation or None]
    origin,  \* [RetryId -> the delivery it was minted for, None while unused]
    added,   \* history: the job ids ever handed to BullMQ
    stranded,\* history: the deliveries whose handling ended without an outcome in their row
    repoRow, \* the repository row of the payload exists
    today    \* the calendar day

vars == <<pc, rid, todo, reply, log, idem, origin, added, stranded, repoRow, today>>
tables == <<log, idem, origin, added, stranded, repoRow, today>>

LogRow == [status : LogStatus, day : 0..MaxDay]

ASSUME NoneIsNoRow == None \notin LogRow \cup LogStatus

TypeOK ==
    /\ pc \in [Request -> Stage]
    /\ rid \in [Request -> Delivery \cup {None}]
    /\ todo \in [Request -> SUBSET Job]
    /\ reply \in [Request -> Reply]
    /\ log \in [Delivery -> LogRow \cup {None}]
    /\ idem \in [Delivery -> (0..MaxDay) \cup {None}]
    /\ origin \in [RetryId -> GitHubId \cup {None}]
    /\ added \subseteq Job
    /\ stranded \subseteq Delivery
    /\ repoRow \in BOOLEAN
    /\ today \in 0..MaxDay
    /\ \A r \in Request : pc[r] # "idle" => rid[r] \in Delivery

\* The GitHub delivery whose payload d carries: a retry resends a stored payload.
PayloadOf(d) == IF d \in RetryId THEN origin[d] ELSE d
IsPing(d) == PayloadOf(d) \in PingId
JobsOf(d) == IF PayloadOf(d) \in GitHubId THEN PayloadJobs[PayloadOf(d)] ELSE {}

Init ==
    /\ pc = [r \in Request |-> "idle"]
    /\ rid = [r \in Request |-> None]
    /\ todo = [r \in Request |-> {}]
    /\ reply = [r \in Request |-> "none"]
    /\ log = [d \in Delivery |-> None]
    /\ idem = [d \in Delivery |-> None]
    /\ origin = [x \in RetryId |-> None]
    /\ added = {}
    /\ stranded = {}
    /\ repoRow = TRUE
    /\ today = 0

-----------------------------------------------------------------------------
\* Control helpers.

Goto(r, to) == pc' = [pc EXCEPT ![r] = to]

\* A request in one of these stages has inserted the log row of its delivery and runs
\* its handler or writes down the outcome.
Owner(r) == pc[r] \in {"route", "markProcessed", "logSuccess", "logFailed"}

\* The delivery of an owner whose row has no outcome yet.
Unsettled(r) ==
    {d \in {rid[r]} : Owner(r) /\ log[d] # None /\ log[d].status = "PENDING"}

Finish(r, answer) ==
    /\ pc' = [pc EXCEPT ![r] = "idle"]
    /\ reply' = [reply EXCEPT ![r] = answer]

Start(r, d) ==
    /\ pc[r] = "idle"
    /\ pc' = [pc EXCEPT ![r] = "isProcessed"]
    /\ rid' = [rid EXCEPT ![r] = d]
    /\ todo' = [todo EXCEPT ![r] = {}]
    /\ reply' = [reply EXCEPT ![r] = "none"]

-----------------------------------------------------------------------------
\* Arrival.

\* GitHub delivers, or redelivers with the same id, whenever it likes.
Receive(r, d) ==
    /\ d \in GitHubId
    /\ Start(r, d)
    /\ UNCHANGED tables

\* retryWebhookDelivery: the stored payload of an existing log row, whatever its
\* status, goes through processWebhook again under a new id.  Two retries of one
\* delivery within the same millisecond mint the same id.
ManualRetry(r, d, x) ==
    /\ log[d] # None
    /\ repoRow
    /\ \/ origin[x] = None
       \/ origin[x] = PayloadOf(d) /\ \E q \in Request : pc[q] # "idle" /\ rid[q] = x
    /\ Start(r, x)
    /\ origin' = [origin EXCEPT ![x] = PayloadOf(d)]
    /\ UNCHANGED <<log, idem, added, stranded, repoRow, today>>

-----------------------------------------------------------------------------
\* processWebhook, await by await.

\* Mutant: the idempotency check is skipped.
IsProcessed_Skipped(r) ==
    /\ pc[r] = "isProcessed"
    /\ Goto(r, IF IsPing(rid[r]) THEN "ping" ELSE "authorize")
    /\ UNCHANGED <<rid, todo, reply, tables>>

\* First read of webhook_idempotency.
IsProcessed(r) ==
    /\ pc[r] = "isProcessed"
    /\ \/ /\ idem[rid[r]] # None
          /\ Goto(r, "getCachedResult")
       \/ /\ idem[rid[r]] = None
          /\ Goto(r, IF IsPing(rid[r]) THEN "ping" ELSE "authorize")
    /\ UNCHANGED <<rid, todo, reply, tables>>

\* Second read: the clean-up may have taken the record in between, and then the
\* delivery is processed as if it were new.  Stored results are always successes:
\* the handlers return success or throw, and a throw is never recorded.
GetCachedResult(r) ==
    /\ pc[r] = "getCachedResult"
    /\ \/ /\ idem[rid[r]] # None
          /\ Finish(r, "cached")
       \/ /\ idem[rid[r]] = None
          /\ Goto(r, IF IsPing(rid[r]) THEN "ping" ELSE "authorize")
          /\ UNCHANGED reply
    /\ UNCHANGED <<rid, todo, tables>>

\* A ping is recorded and answered before any signature is looked at; the unique
\* index on deliveryId makes a second concurrent ping fail.
Ping(r) ==
    /\ pc[r] = "ping"
    /\ \/ /\ idem[rid[r]] = None
          /\ idem' = [idem EXCEPT ![rid[r]] = today]
          /\ \/ Finish(r, "pong")
             \/ "database" \in Faults /\ Finish(r, "error")
       \/ /\ idem[rid[r]] # None \/ "database" \in Faults
          /\ Finish(r, "error")
          /\ UNCHANGED idem
    /\ UNCHANGED <<rid, todo, log, origin, added, stranded, repoRow, today>>

\* JSON parsing, repository secret, rate limit and signature.  A cached secret is
\* enough: the repository row may already be gone.
Authorize(r) ==
    /\ pc[r] = "authorize"
    /\ \/ Finish(r, "refused")
       \/ Goto(r, "createLog") /\ UNCHANGED reply
    /\ UNCHANGED <<rid, todo, tables>>

\* Mutant: createLog upserts instead of relying on the unique index.
CreateLog_Upsert(r) ==
    /\ pc[r] = "createLog"
    /\ log' = [log EXCEPT ![rid[r]] = [status |-> "PENDING", day |-> today]]
    /\ Goto(r, "route")
    /\ todo' = [todo EXCEPT ![r] = JobsOf(rid[r])]
    /\ UNCHANGED <<rid, reply, idem, origin, added, stranded, repoRow, today>>

\* INSERT of the PENDING row, outside the try block: the unique index on deliveryId
\* and the foreign key to the repository throw straight out of processWebhook.  So does
\* a lost answer, and then the row is there and nobody handles it.
CreateLog(r) ==
    /\ pc[r] = "createLog"
    /\ \/ /\ log[rid[r]] = None /\ repoRow
          /\ log' = [log EXCEPT ![rid[r]] = [status |-> "PENDING", day |-> today]]
          /\ \/ /\ Goto(r, "route")
                /\ todo' = [todo EXCEPT ![r] = JobsOf(rid[r])]
                /\ stranded' = stranded \ {rid[r]}
                /\ UNCHANGED reply
             \/ /\ "database" \in Faults
                /\ Finish(r, "error")
                /\ stranded' = stranded \cup {rid[r]}
                /\ UNCHANGED todo
       \/ /\ log[rid[r]] # None
          /\ Finish(r, "conflict")
          /\ UNCHANGED <<log, todo, stranded>>
       \/ /\ ~repoRow \/ "database" \in Faults
          /\ Finish(r, "error")
          /\ UNCHANGED <<log, todo, stranded>>
    /\ UNCHANGED <<rid, idem, origin, added, repoRow, today>>

\* The handler awaits the queue for each of its jobs in turn.
EnqueueJob(r, j) ==
    /\ pc[r] = "route"
    /\ j \in todo[r]
    /\ todo' = [todo EXCEPT ![r] = @ \ {j}]
    /\ added' = added \cup {j}
    /\ UNCHANGED <<pc, rid, reply, log, idem, origin, stranded, repoRow, today>>

\* Mutant: the handler returns without awaiting the queue.
HandlerReturns_NotAwaited(r) ==
    /\ pc[r] = "route"
    /\ Goto(r, "markProcessed")
    /\ UNCHANGED <<rid, todo, reply, tables>>

HandlerReturns(r) ==
    /\ pc[r] = "route"
    /\ todo[r] = {}
    /\ Goto(r, "markProcessed")
    /\ UNCHANGED <<rid, todo, reply, tables>>

\* Mutant: the handler swallows the error of the queue.
HandlerThrows_Swallowed(r) ==
    /\ pc[r] = "route"
    /\ "queue" \in Faults
    /\ Goto(r, "markProcessed")
    /\ UNCHANGED <<rid, todo, reply, tables>>

\* A malformed payload, or Redis refusing an add after some jobs already went in.
HandlerThrows(r) ==
    /\ pc[r] = "route"
    /\ "queue" \in Faults
    /\ Goto(r, "logFailed")
    /\ UNCHANGED <<rid, todo, reply, tables>>

\* Mutant: a failed insert of the record is only logged.
MarkProcessed_BestEffort(r) ==
    /\ pc[r] = "markProcessed"
    /\ \/ idem' = [idem EXCEPT ![rid[r]] = today]
       \/ "database" \in Faults /\ UNCHANGED idem
    /\ Goto(r, "logSuccess")
    /\ UNCHANGED <<rid, todo, reply, log, origin, added, stranded, repoRow, today>>

MarkProcessed(r) ==
    /\ pc[r] = "markProcessed"
    /\ \/ /\ idem[rid[r]] = None
          /\ idem' = [idem EXCEPT ![rid[r]] = today]
          /\ \/ Goto(r, "logSuccess")
             \/ "database" \in Faults /\ Goto(r, "logFailed")
       \/ /\ idem[rid[r]] # None \/ "database" \in Faults
          /\ Goto(r, "logFailed")
          /\ UNCHANGED idem
    /\ UNCHANGED <<rid, todo, reply, log, origin, added, stranded, repoRow, today>>

\* The success update is still inside the try block: when it throws (or the row is
\* gone) the catch block marks the delivery failed although it was recorded, and even
\* when the update was made and only its answer was lost.
LogSuccess(r) ==
    /\ pc[r] = "logSuccess"
    /\ \/ /\ log[rid[r]] # None
          /\ log' = [log EXCEPT ![rid[r]].status = "SUCCESS"]
          /\ \/ Finish(r, "ok")
             \/ "database" \in Faults /\ Goto(r, "logFailed") /\ UNCHANGED reply
       \/ /\ log[rid[r]] = None \/ "database" \in Faults
          /\ Goto(r, "logFailed")
          /\ UNCHANGED <<log, reply>>
    /\ UNCHANGED <<rid, todo, idem, origin, added, stranded, repoRow, today>>

\* Mutant: the status string is stored without its mapping to the enum.
LogFailed_Unmapped(r) ==
    /\ pc[r] = "logFailed"
    /\ log[rid[r]] # None
    /\ Finish(r, "error")
    /\ log' = [log EXCEPT ![rid[r]].status = "failed"]
    /\ UNCHANGED <<rid, todo, idem, origin, added, stranded, repoRow, today>>

\* Mutant: the error is rethrown without updating the row.
LogFailed_Forgotten(r) ==
    /\ pc[r] = "logFailed"
    /\ Finish(r, "error")
    /\ UNCHANGED <<rid, todo, tables>>

\* The catch block; if its own update throws, the row stays as it is.
LogFailed(r) ==
    /\ pc[r] = "logFailed"
    /\ Finish(r, "error")
    /\ \/ /\ log[rid[r]] # None
          /\ log' = [log EXCEPT ![rid[r]].status = "FAILED"]
          /\ UNCHANGED stranded
       \/ /\ log[rid[r]] = None \/ "database" \in Faults
          /\ stranded' = stranded \cup Unsettled(r)
          /\ UNCHANGED log
    /\ UNCHANGED <<rid, todo, idem, origin, added, repoRow, today>>

-----------------------------------------------------------------------------
\* The environment.

\* The process serving the request dies; nothing of it is persisted.
Crash(r) ==
    /\ "crash" \in Faults
    /\ pc[r] # "idle"
    /\ pc' = [pc EXCEPT ![r] = "idle"]
    /\ reply' = [reply EXCEPT ![r] = "none"]
    /\ stranded' = stranded \cup Unsettled(r)
    /\ UNCHANGED <<rid, todo, log, idem, origin, added, repoRow, today>>

\* Midnight crons.
CleanupIdempotency ==
    /\ \E d \in Delivery : idem[d] # None /\ idem[d] + IdemRetention < today
    /\ idem' = [d \in Delivery |->
                  IF idem[d] # None /\ idem[d] + IdemRetention < today THEN None ELSE idem[d]]
    /\ UNCHANGED <<pc, rid, todo, reply, log, origin, added, stranded, repoRow, today>>

CleanupLogs ==
    /\ \E d \in Delivery : log[d] # None /\ log[d].day + LogRetention < today
    /\ log' = [d \in Delivery |->
                 IF log[d] # None /\ log[d].day + LogRetention < today THEN None ELSE log[d]]
    /\ UNCHANGED <<pc, rid, todo, reply, idem, origin, added, stranded, repoRow, today>>

\* disconnectAccount deletes the repository; its log rows go with it (cascade).
DisconnectAccount ==
    /\ "disconnect" \in Faults
    /\ repoRow
    /\ repoRow' = FALSE
    /\ log' = [d \in Delivery |-> None]
    /\ UNCHANGED <<pc, rid, todo, reply, idem, origin, added, stranded, today>>

\* Requests last seconds: the day changes, and an account is connected again
\* through OAuth, only when none is under way.
Quiet == \A r \in Request : pc[r] = "idle"

NextDay ==
    /\ Quiet
    /\ today < MaxDay
    /\ today' = today + 1
    /\ UNCHANGED <<pc, rid, todo, reply, log, idem, origin, added, stranded, repoRow>>

ReconnectAccount ==
    /\ Quiet
    /\ ~repoRow
    /\ repoRow' = TRUE
    /\ UNCHANGED <<pc, rid, todo, reply, log, idem, origin, added, stranded, today>>

-----------------------------------------------------------------------------
Process(r) ==
    \/ IsProcessed(r) \/ GetCachedResult(r) \/ Ping(r) \/ Authorize(r) \/ CreateLog(r)
    \/ \E j \in Job : EnqueueJob(r, j)
    \/ HandlerReturns(r) \/ HandlerThrows(r)
    \/ MarkProcessed(r) \/ LogSuccess(r) \/ LogFailed(r)

Next ==
    \/ \E r \in Request, d \in Delivery : Receive(r, d)
    \/ \E r \in Request, d \in Delivery, x \in RetryId : ManualRetry(r, d, x)
    \/ \E r \in Request : Process(r) \/ Crash(r)
    \/ CleanupIdempotency \/ CleanupLogs
    \/ DisconnectAccount \/ ReconnectAccount \/ NextDay

Spec == Init /\ [][Next]_vars

-----------------------------------------------------------------------------
\* Properties.

\* Two overlapping deliveries of one id (GitHub's timeout and retry) both pass the
\* isProcessed check; still at most one of them runs the handler.
OneOwnerPerDelivery ==
    \A p, q \in Request : Owner(p) /\ Owner(q) /\ rid[p] = rid[q] => p = q

\* The handler never runs for a delivery that is on record as processed, in spite of
\* the unguarded window between isProcessed and createLog: so markProcessed's INSERT
\* never hits its unique index and turns a delivery that succeeded into a failed one.
HandlerRunsFresh ==
    \A r \in Request : pc[r] \in {"route", "markProcessed"} => idem[rid[r]] = None

\* An event on record as processed had all its jobs accepted by the queue, whatever
\* crash, queue fault or partial enqueue came before.
RecordMeansQueued ==
    \A d \in Delivery : idem[d] # None => JobsOf(d) \subseteq added

\* A 2xx answer tells GitHub never to send the delivery again: it is given only when
\* all its jobs were accepted.
AcknowledgedMeansQueued ==
    \A r \in Request : reply[r] \in {"ok", "cached"} => JobsOf(rid[r]) \subseteq added

\* A SUCCESS row is backed by the idempotency record for as long as records are kept.
SuccessIsOnRecord ==
    \A d \in Delivery :
        log[d] # None /\ log[d].status = "SUCCESS" =>
            idem[d] # None \/ log[d].day + IdemRetention < today

\* A row that says SUCCESS is overwritten only by the catch block of the request that
\* wrote it: no late writer of the same delivery, and no retry of it, changes the outcome.
SuccessIsFinal ==
    [][\A d \in Delivery :
         log[d] # None /\ log[d].status = "SUCCESS" /\ log'[d] # None
            => \/ log'[d].status = "SUCCESS"
               \/ \E r \in Request : pc[r] = "logFailed" /\ rid[r] = d]_vars

\* What the tables and the running handlers say of each delivery.
Work == [d \in Delivery |-> JobsOf(d)]
Running == {rid[r] : r \in {q \in Request : Owner(q)}}
RowStatus == [d \in Delivery |-> IF log[d] = None THEN None ELSE log[d].status]
OnRecord == {d \in Delivery : idem[d] # None}

\* The concurrent executions of processWebhook, the clean-ups and the faults implement
\* DeliveryBook: the handler runs only for a delivery that is off record and has no row,
\* so recording it never hits the unique index; nothing but that handler writes the row,
\* so no late writer overwrites an outcome; a delivery is put on record when all its jobs
\* are queued; and retention never takes the row or the record of one under way.
Book == INSTANCE DeliveryBook WITH work <- Work, running <- Running, row <- RowStatus,
                                   onRecord <- OnRecord, queued <- added
DeliverySpec == Book!Spec

\* A PENDING row that nobody is handling is left by a crash, by an insert whose answer was
\* lost, or by an outcome that could not be written: failing handlers, refused duplicates
\* and lost races leave none.  And such a row stays: no redelivery, retry or other request
\* ever settles it.
PendingHasCause ==
    \A d \in Delivery :
        RowStatus[d] # None =>
            (RowStatus[d] = "PENDING" /\ d \notin Running <=> d \in stranded)

-----------------------------------------------------------------------------
\* The inductive invariant behind the safety properties (proved in
\* WebhookDelivery_proofs).

Known(d) == d \in RetryId => origin[d] # None

\* A retry id in use carries the payload of a GitHub delivery.
OriginsKnown ==
    /\ \A r \in Request : rid[r] # None => Known(rid[r])
    /\ \A d \in Delivery : log[d] # None \/ idem[d] # None => Known(d)

\* Pings and events take separate paths after the idempotency check.
PathsSeparate ==
    \A r \in Request :
        /\ pc[r] = "ping" => IsPing(rid[r])
        /\ pc[r] \in {"authorize", "createLog"} \/ Owner(r) => ~IsPing(rid[r])

\* An owner's row is there, of today and without an outcome it knows of, unless the
\* repository is gone.
OwnerHoldsRow ==
    /\ ~repoRow => \A d \in Delivery : log[d] = None
    /\ \A r \in Request :
          Owner(r) /\ repoRow =>
              /\ log[rid[r]] # None
              /\ log[rid[r]].day = today
              /\ \/ log[rid[r]].status = "PENDING"
                 \/ pc[r] = "logFailed" /\ log[rid[r]].status = "SUCCESS"

\* A request between its idempotency check and its INSERT is for a delivery that is
\* not on record, or whose row will refuse it.
FreshOrRefused ==
    \A r \in Request :
        pc[r] \in {"authorize", "createLog"} /\ repoRow =>
            \/ idem[rid[r]] = None
            \/ log[rid[r]] # None /\ log[rid[r]].day = today

\* Jobs are accounted for: still to add, or accepted.
JobsAccounted ==
    \A r \in Request :
        /\ pc[r] = "route" =>
              /\ todo[r] \subseteq JobsOf(rid[r])
              /\ JobsOf(rid[r]) \ todo[r] \subseteq added
        /\ pc[r] \in {"markProcessed", "logSuccess"} => JobsOf(rid[r]) \subseteq added

\* Records are not from the future, and a success is recorded no earlier than its row.
RecordsDated ==
    /\ \A r \in Request :
          /\ pc[r] = "logSuccess" => idem[rid[r]] = today
          /\ pc[r] = "logFailed" => idem[rid[r]] \in {None, today}
    /\ \A d \in Delivery :
          /\ log[d] # None => log[d].day <= today
          /\ log[d] # None /\ log[d].status = "SUCCESS" =>
                (idem[d] # None /\ log[d].day <= idem[d]) \/ log[d].day + IdemRetention < today

IInv ==
    /\ TypeOK /\ OriginsKnown /\ PathsSeparate /\ OneOwnerPerDelivery
    /\ OwnerHoldsRow /\ FreshOrRefused /\ HandlerRunsFresh
    /\ JobsAccounted /\ RecordMeansQueued /\ AcknowledgedMeansQueued
    /\ RecordsDated
=============================================================================
