# SQDIS: models, checks and proofs

This directory holds TLA+ models of the SQDIS backend, the TLC configurations that check them on small instances,
and theorems about them whose proofs TLAPS checks for every value of the constants. Paths below are relative to the
repository; `M/` stands for `backend/src/modules/`. `PROJECT.json` has the machine-readable part: which lines each
definition models, what each run checks, the mutants, the hazards and the theorems.

    tlc -workers 2 -config WebhookDelivery_safety.cfg MCWebhookDelivery
    tlapm WebhookDelivery_proofs.tla

Contents: 1 the system, 2 the modules, 3 the runs, 4 fairness, 5 the proofs, 6 what the models
show of the code, 7 what is not modelled, 8 what is left.

## 1. The system

SQDIS collects commits, pull requests and reviews of an organization's repositories from GitHub,
scores developers (DQS) and projects (SQS) with an ML service, and builds alerts, goals, debt
tracking, releases, reports and an audit trail on top. It is a NestJS backend (one Node process
under `docker-compose.yml`: HTTP, WebSocket, crons and all queue workers together), a FastAPI ML
service, a React frontend, PostgreSQL, Redis (cache, pub/sub, BullMQ queues) and a monitoring
stack. All backend concurrency is therefore of four kinds:

* **await interleaving**: one event loop, but every `await` lets any other request, worker or
  cron run. Nearly all of the code reads a row, awaits, and writes without a condition; what
  protects it is a unique index, where there is one.
* **queues**: BullMQ retries, stalled-lock take-over, de-duplication by job id, and eviction of
  finished jobs. Jobs of different ids run in no guaranteed order.
* **crashes** between two awaits, which take every request, worker and cron of the process.
* **outside callers**: GitHub redelivers, loses and reorders webhooks; users send concurrent
  requests; external calls fail half-way.

### Inventory

| Component (source) | State it keeps | Operations | Interacts with | What is hard, and what makes it correct | Model |
|---|---|---|---|---|---|
| Webhook endpoint (`M/github/services/webhook*.ts`, `idempotency.service.ts`) | `webhook_idempotency`, `webhook_logs` | processWebhook, retryWebhookDelivery, two midnight clean-ups | event handlers, queues, secret cache, rate limit | concurrent redeliveries, partial enqueues, failures after the jobs are queued. One handler per delivery at a time; recorded or acknowledged means queued | `WebhookDelivery`, `DeliveryBook` |
| Event handlers (`*-handler.service.ts`, `event-router`) | none | parse the payload, add jobs | queues | failing after some of the jobs | push in `WebhookDelivery`, pull requests in `PullRequestSync` |
| Webhook secret and rate limit (`webhook.service.ts`, `rate-limit.service.ts`) | Redis entries | getRepositorySecret, checkRateLimit, recordRequest | repositories | stale secrets; check and count are two calls | a free choice in `WebhookDelivery` |
| GitHub connection (`github.service.ts`, `github-api.service.ts`) | `github_accounts`, `repositories` | connect, disconnect, enable, disable, configure and remove hooks | GitHub, secret cache | local rows and GitHub's hooks change in separate steps | the row going and coming back only |
| Commit ingestion (`M/commits`, `M/github/queues`, `polling.service.ts`, `backfill.service.ts`) | commit queue, `commits`, `lastSyncAt`, `isPolling` | addCommitJob, processCommit, cron and manual poll, backfill | GitHub API, debt, scores, onboarding, events | the same commit by several paths, stalls, retries, follow-ups that drop their own errors. Stored once, each follow-up at most once, never missed unnamed | `CommitIngestion`, `JobQueue`, `CommitLedger` |
| Pull requests (`pull-request.worker.ts`, `pr-quality-gate-bot.service.ts`, `commit-processor.queue.ts`) | `pull_requests`, `pull_request_quality_gates`, the bot's comment | upserts from jobs, evaluateAndReport | GitHub, queue, requests | events out of order or dropped by their job id, evaluations that overlap. In order the row is exact, no head goes without its gate unnamed, one comment | `PullRequestSync`, `JobQueue` |
| Issue, release, review and comment workers (`M/github/processors`, `M/reviews`) | their tables | upserts from jobs | queues, scores | events out of order | review storing in `ScoreCalculation`; the others not |
| Scores (`M/scores`) | `dqs_scores`, `sqs_scores`, cache, score queue | calculateAndStoreDQS/SQS, getDQS, invalidate, manual recalculation | ML service, commits, reviews, events | stale reads stored as the newest row, swallowed errors, cache put back. The newest score shows the newest facts | `ScoreCalculation` (DQS) |
| Releases (`M/releases`) | `releases` | create, update, delete, ship, roll back | GitHub, outbound webhook | read, call, write with nothing in between. Versions unique, shipped was delivered, no rollback recorded before its webhook was tried | `ReleaseLifecycle` |
| Organizations and authorization (`M/organizations`, `M/auth` guard and permission cache) | `organization_members`, invitations, removal requests, cached decisions | role change, removal, request and decision, invitation, revocation, acceptance, guard, invalidation | users, Redis, commit ingestion (which enrols authors) | count, then write; decisions cached across a change. Always an owner, no stale decision, revoked admits nobody | `OrgAccess`, `Membership` |
| Audit trail (`M/audit`) | `audit_logs`, `archived_audit_logs`, hash chain, queue | log, write, archive, anonymize | every component | the previous hash is read before earlier entries are written; archival copies what an erasure changes. Each row in one table, forgotten stays forgotten | `AuditTrail`, `AuditRecord`, `JobQueue` |
| Reports (`M/reports`) | `reports`, files, queue | create, retry, delete, generate | files, queue | row, job and file change in separate steps; names without an id. Ready means its own file | `ReportGeneration`, `JobQueue` |
| Coverage (`M/coverage`) | a status per row, queue, files | upload, parse | files, queue | as reports, with a unique file hash | not modelled |
| Attribution and aliases (`M/email-aliases`, `commits.service.ts`) | `email_aliases`, `commits.developerId`, queue | verify, remove, re-attribute | commit worker, invitations | jobs against commits under way | not modelled |
| Auth (`M/auth`) | refresh and reset tokens | login, refresh, logout, reset | users | token rotation; a token works once | not modelled |
| Debt (`M/debt`) | `debt_items` | scan of a commit, manual resolution | commit worker | commits in any order | not modelled |
| Goals (`M/goals`) | `goals`, snapshots | progress, hourly job | scores, events | request and job decide one goal twice | not modelled |
| WebSocket (`M/websocket`) | subscriptions per socket | connect, subscribe, disconnect | pub/sub | disconnect during an awaited check | not modelled |
| Sprints, onboarding, alerts, digests, teams | rows and cron jobs | CRUD, nightly jobs | events | check then insert; send then mark | not modelled |
| Dashboard, analytics, code intelligence, monitoring, notifications | appended rows, queries | reads, posts | ML service, GitHub | data, little state anything decides on | not modelled |
| ML service (`ml-service`) | models, caches | predictions | backend | the backend replaces a failing answer by a heuristic, so it always has one | not modelled |
| Frontend, monitoring, scripts | none of the backend's | views, deployment | REST, events | | not modelled |

`PROJECT.json` lists the components with their status, and 40 hazards at the line where each
bites. Further check-then-act sites of the same kind, in parts of smaller weight:
`releases.service.ts:1110` (the rollback target is the latest shipped release, which may be later
than the one rolled back) and `:604` (a soft-deleted release still occupies the unique index),
`scores.service.ts:1585` (new coverage triggers no recalculation), `alerts.service.ts:231` (duplicate
alert), `digest.service.ts:204` (sent, then marked), `sprints.service.ts:63` (overlap),
`onboarding.service.ts:607` (milestone; its exception also ends the loop over the other milestones)
and `:847`, `teams.service.ts:522` (membership), `organizations.service.ts:973` and `:1075`,
`auth.service.ts:583` (two live reset tokens), `rate-limit.service.ts:92`, `coverage.processor.ts:78`,
`debt.service.ts:885` and `:1111`, `cache.service.ts:225` (KEYS, then DEL).

## 2. The modules

Each component has a module, an `MC` module with its model values and symmetry, one `.cfg` per
run, and a `_proofs` module. A module has: constants with one named `ASSUME`, variables, `TypeOK`,
`Init`, one action per operation or per await of a longer one, `Next`, `Spec`, `FairSpec` where a run
checks liveness, the properties, and `IInv`. The definitions named `X_Y` marked "Mutant" are the
plausible bugs the properties are tested against; they are not part of any specification.

In the modules with a constant `Faults` it switches the kinds of fault, so that a run states which
failures it includes and the proofs cover every subset; in the others every fault may happen at any
time.

**WebhookDelivery**: processWebhook, await by await, for `Request` slots running concurrently. `log` and `idem` are
the two tables, `added` the jobs the queue has accepted, `reply` the answer of a slot. `pc` follows the code:
`isProcessed`, `getCachedResult`, `ping`, `authorize`, `createLog`, `route` (the handler, one job per step),
`markProcessed`, `logSuccess`, `logFailed`. `CreateLog` is the point on which everything turns: the insert lies
*outside* the try block, and the unique index on `webhook_logs.deliveryId` decides between concurrent deliveries.
`LogSuccess` lies *inside* it: its failure goes to `LogFailed` after the event was recorded. A statement may fail,
or take effect and lose its answer. `stranded` is a history variable: deliveries whose handling ended without an
outcome in their row. Authorisation is a free choice. Environment: GitHub redelivers at any time, an operator
retries under a new id (two retries in one millisecond share it), the two clean-ups, a disconnected account (rows of
the repository cascade), a crash of a request. Assumed: a request does not span midnight (`NextDay` when no slot is
busy); `ReconnectAccount` likewise takes longer than a request.

**DeliveryBook**: the abstract specification of the endpoint: a delivery is begun when it has no row and is not on
record, is handled by one execution at a time, gets its jobs queued and its row settled by that handling only, and is
put on record when all its jobs are queued. `WebhookDelivery` implements it (`DeliverySpec`): the deliveries being
handled are those of the slots past the insert (`Running`), the rows are seen by their status only (`RowStatus`), and
the clean-ups drop rows and records of deliveries that are not being handled. Checked and proved.

**JobQueue**: a BullMQ queue as variables and operations that the modules of producers and workers
EXTEND: adding (an id the queue still holds is a no-op, whatever its state), taking with a lock,
completing, failing with attempts, stalling (back to waiting up to `MaxStalled` times, then failed),
evicting. A worker that lost its lock goes on without knowing; its result is discarded.
The library itself is not in the repository; this is what the code's options rely on.

**CommitIngestion**, EXTENDS JobQueue: the webhook, the polls and the backfill add one job per commit; workers run
`CheckExisting`, `FetchDetail`, `CreateCommit`, then one `RunFollowUp` per follow-up (alert, debt scan, score
recalculation, milestones; the event, when processCommit has returned) and `Finish`, so that a crash may come
between any two. A follow-up that fails is logged and dropped (`swallowed`). `CheckExisting` skips a stored commit,
as the code does; the insert may commit and lose its answer. `cutShort` is a history variable: the follow-ups that
the inserting attempt did not live to run. Polls: `StartPoll` reads `lastSyncAt` and, for the cron only,
`isPolling`; `ListCommits` lists the default branch (a commit may be pushed to another one, be merged later,
`MergeBranch`, and be taken off again, `ForcePush`); `FilterExisting`; `QueueFound`, which may fail to fetch the
details or to queue the commit, and goes on; `StampSync` takes the time, and `WriteSync` writes it, so that two
polls may write in the other order. `unseen` (per poll: what its listing did not return) and `missed` (why the polls
may never queue a commit) are history variables. A commit has a date of its own, because GitHub filters by it.
Workers and polls crash separately, which is more than a single process does.

**CommitLedger**: the abstract specification: a commit is pushed, then stored at most once, then followed up
at most once in each way. `CommitIngestion` implements it (`LedgerSpec`), checked and proved.

**ReleaseLifecycle**: create, update, delete, ship and rollback requests on the releases table. A request reads
(`Begin` keeps its snapshot), waits, and writes; `published`, `deployed` and `dispatched` are what the outside world
was told. A fetch of the webhook that throws is swallowed, and the rollback recorded all the same
(`DispatchRollback` notes it in `cfailed`, as the answer does). `IndexAllows` is the unique index, which treats a
missing repository as distinct and still counts soft-deleted rows; `Duplicate` is the code's own check, which does
neither.

**ScoreCalculation**, EXTENDS JobQueue: one developer's DQS. Storing a commit or review leaves a
recalculation `owed` until the worker has enqueued it, or none, when the answer of the insert was lost and the retry
skips what is stored. A re-attributed commit (`AttributeCommit`) and a fact that leaves (`FactLeaves`: unattributed,
deleted, older than thirty days) ask for none. A calculation (worker, or inline in getDQS)
reads commits, reads reviews, stores, invalidates, publishes; getDQS looks in the cache, reads the
newest row, fills the cache. A score is represented by the facts it was calculated from: that is all
the properties distinguish. `dropped` is a history variable: how a recalculation was lost or not asked for since
the score was last up to date; no action reads it. Job ids contain the time in ms and are fresh here, so
`AddNewJob` takes an unused id, and a removed job's id may be used again.

**PullRequestSync**, EXTENDS JobQueue: one pull request. `hist` is GitHub's side: events, each with the state and
head it reports (`NextEvent` has what GitHub can do: a merged pull request is not reopened, a push to a closed one
moves no head). A delivery reaches the handler in any order, or never. `Handle` uses the job id of the code, pull
request *and action*, so an id that is still retained drops the event. The worker's `Apply` is the one statement of
the handler of that action (`Written`: each action writes other columns; reopened and synchronize throw without a
row); its answer may be lost after it committed, so it may run twice. Two workers may insert the row at once: the
one that meets the unique index takes it for done and completes its job, with neither write nor gate (`Collide`).
Then `evaluateAndReport`, step by step, by the worker or a request: `FindRow` (either row with the number),
`CreatePhantom` (a row under `githubPrId = prNumber`), `ListComments` (one page), `PostComment`, `PersistGate`,
`GateFails` (swallowed by the worker), `Die`. `applied`, `newest`, `late`, `dropped`, `failed`, `collided`,
`overlap` are history variables that no action reads.

**AuditTrail**, EXTENDS JobQueue: an audited operation asks (`LogAction`, timestamp), reads the hash
of the last entry (`GetLastEntryHash`), is queued (`QueueAuditEntry`), and a worker inserts the row
(`InsertRow`; the insert may run twice, after a lost answer). The archival job identifies old
rows, fetches them, and in one transaction inserts the copies and deletes the originals
(`MoveToArchive`: unique ids make a second run fail); its own entry is of the user `system`; a run stops unlogged when
its transaction fails, loses its answer or is followed by a batch that fails (`Stop`). A batch of 1000 rows is one
transaction, so a run is one here, and the three attempts of the job and the batches of a run are members of
`Archival`. A right-to-be-forgotten request updates the active rows (`EraseActive`), then the archived ones
(`EraseArchived`). `link` is the chain; sha256 is taken to be injective, so an entry stands for its hash.
Which rows are old enough is a free choice.

**AuditRecord**: the abstract specification: a row, once written, stays, shown under its user or,
after an erasure, under the anonymous identifier. Which table holds it is not visible. `AuditTrail`
implements it (`RecordSpec`, with the refinement mapping `Shown`), checked and proved.

**OrgAccess**: the requests that change who belongs to an organization, in `Handler` slots: RolesGuard (`Guard`,
with the permission cache), `verifyUserRole` (`VerifyRole`, which reads the table), reads, the count of owners, the
write, and `InvalidateUser`. A row is named by its id, so `RowThere` compares the membership that was read (`joins`
counts a user's memberships). Removal by an administrator becomes a request that an owner approves or rejects or its
author cancels; accepting an invitation checks, then runs a transaction. `Enroll` is commit ingestion, which makes
the authors it finds members, uninvited (`commits.service.ts:1391`). `InvalidateUser` may leave decisions behind: a
Redis error is swallowed (`cache.service.ts:219`), and KEYS and DEL are two commands. `Abort` is an error or a crash
between any two steps. `excused` and `raced` are history variables.

**Membership**: the abstract specification of who belongs to an organization: there are two ways in, an invitation
that is not revoked at that moment and the enrolment of the author of a commit, and both lead to the lowest role;
roles are given to and taken from members only; a revoked invitation is gone for good. `OrgAccess` implements it
(`MembershipSpec`; the mapping is the identity on roles and invitations, everything else of a request is hidden),
checked and proved.

**ReportGeneration**, EXTENDS JobQueue: create (row, then job), retry (checks FAILED, resets the row, then a new
job), delete (file, then row), each a request of separate steps that may be `Abandon`ed; the worker's `Begin`,
`SaveFile` (data gathered, file named), `OpenFile` (which empties what is there), `WriteFile`, `Complete`, `Fail`. A
file is `Partial` while it is written and stays so when the write fails or the server dies. A path is subject and
second, since the file's name has no report id in it; `files` says whose data a file holds. `wrote` and `spoilt` are
history variables. Two workers are two processes, as while a new one is being deployed.

## 3. The runs

| Run | Instance | Checks | States |
|---|---|---|---|
| `webhook_safety` | 2 request slots; a push of 2 jobs, a ping, 1 retry id; 3 days; all faults; symmetric slots and jobs | TypeOK, OneOwnerPerDelivery, AcknowledgedMeansQueued, SuccessIsOnRecord, PendingHasCause, DeliverySpec | 1.1 M |
| `commits_workers` | 1 commit with its five follow-ups, 2 workers, 3 attempts, 1 stall, all faults, no polls, fairness | TypeOK, FollowUpsAtMostOnce, CompletedIsStored, UnfollowedHasCause, LedgerSpec, QueuedSettles | 100 k |
| `commits_polls` | 1 commit on either branch, 1 follow-up, 1 worker, 2 polls or backfills, 2 instants, no lookback, all faults but stalls | CronPollsExclusive, MissedHasCause | 2.3 M |
| `release_requests` | 2 releases, 2 versions, 1 repository or none, 3 requests of any kind, 2 instants, all faults | TypeOK, VersionUniquePerRepository, ShippedWasDelivered, NoSilentRollback | 90 k |
| `release_rollback` | violation, no fault | RollbackDispatchedOnce | |
| `scores_facts` | 1 commit (stored or attributed), 1 review, 1 manual recalculation or leaving fact, 2 jobs, 1 worker, 1 reader, all faults, fairness | TypeOK, LagHasCause, LagEnds, CacheConverges | 498 k |
| `pr_events` | 3 events of every history GitHub can produce, 2 workers, 2 attempts, no comments or requests | TypeOK, InOrderIsExact, UnevaluatedHasCause, MergedUndoneOnlyLate | 4.7 M |
| `pr_gates` | violation: 3 events, 1 worker, 1 attempt | GatedIsEvaluated | |
| `pr_comments` | 1 event, 1 worker, 1 request slot used twice, 3 comments, pages of 1 | SecondCommentHasCause | 75 k |
| `audit_rows` | 1 action, 2 archival runs, 1 erasure, 2 rows, 1 worker, 2 attempts | TypeOK, RowKeptOnce, ForgottenStaysForgotten, ChainHasNoCycle, RecordSpec | 1.7 M |
| `org_requests` | 3 users of whom 2 are owners, 4 requests of nine kinds or enrolments, 2 requests at a time, 1 invitation, 1 removal request | TypeOK, StaleDecisionHasCause, OwnerlessHasCause, RevokedAdmitsNobody, MembershipSpec | 1.9 M |
| `reports_files` | 2 reports of one subject, 3 requests, 2 at a time, 2 retries per report, 2 workers, 1 attempt per job, 2 seconds | TypeOK, ReadyHasOwnFile | 165 k |

What the properties say:

* *Webhook.* GitHub's redelivery passes the idempotency check while the first delivery is still
  running; nevertheless at most one request is between the insert of the log row and the outcome
  (OneOwnerPerDelivery), the handler never runs for a delivery already recorded, nobody else writes its row or
  queues its jobs, and it is recorded only when every job was accepted (DeliverySpec); a 2xx answer means the same
  (AcknowledgedMeansQueued). A SUCCESS row is backed by the record as long as records are kept. A row is left
  PENDING only by a crash, by an insert whose answer was lost or by an outcome that could not be
  written, and then for good (PendingHasCause).
* *Commits.* Two workers on one commit, after a stall or an eviction, store it once and run each follow-up at most
  once; a job is not completed while its commit is missing. What a stored commit goes without, it goes without
  because its inserting attempt died or lost the answer before, or because that follow-up itself failed and was
  dropped (UnfollowedHasCause, an equivalence: neither retries nor races add one, one that fails takes none of the
  others with it, and nothing repairs one). A queued commit ends stored or in the failed set. Cron polls exclude
  each other whatever manual polls do. lastSyncAt may be set back, by polls that write in another order than they
  took the time; yet once the window has passed a commit of the default branch, it is stored or queued unless it
  came on the branch behind the window (`late`), was not in the list of the poll that moved the window (`unlisted`:
  it came later, or was older than a first poll or a backfill looks), its details could not be fetched (`details`),
  it could not be queued (`queue`), or its job failed for good and was evicted (`failed`): MissedHasCause. Commits
  of other branches only come by webhook.
* *Releases.* Versions stay unique in a repository though every check races; shipped means every external step asked
  for succeeded; a rollback is recorded only after its webhook went out or its fetch threw, which the answer says;
  races and crashes leave none that nobody was told of (NoSilentRollback).
* *Scores.* While the newest score does not show the facts, a recalculation that will show them is under way, or one
  was lost or not asked for in one of seven ways (the answer of the insert was lost; enqueueing failed; an error was
  swallowed; crash before enqueueing; stalled too often; a slower calculation stored older facts as the newest row;
  facts that were re-attributed or left, for which the code asks for none). LagHasCause says there is no eighth way.
  LagEnds: where none of them occurs, a lag does not last. CacheConverges: a stale cache entry does not outlive the
  hour.
* *Pull requests.* Five handlers write different columns, some run twice and some skip; as long as no event is
  skipped or late the row is nevertheless exactly the pull request (InOrderIsExact), and a merge is only taken back
  by a late event (MergedUndoneOnlyLate). A head that waits for its gate in vain has one of five causes (delivery
  lost, a step failed, job given up, job id taken, insert collided), of which the last two are the ones a reader
  would not expect (UnevaluatedHasCause). The bot comments twice only after overlapping evaluations or beyond its
  page.
* *Audit.* Overlapping archival runs keep each row in one table, in one copy; once a request to be forgotten is
  answered, no archival run that had copied a row before brings the user back (ForgottenStaysForgotten: the foreign
  key on the active table is what makes this so); the chain of hashes, built by concurrent and retried writers, has
  no cycle; to a reader of both tables, archival is invisible (RecordSpec). All of this is about rows: a retried
  write leaves two rows of one entry, which an archival run may put in different tables.
* *Organizations.* Every decision the cache holds about a member is current, about to be invalidated, or stale
  because the invalidation died with its request, because it missed the decision (Redis failed, or the decision was
  put there between KEYS and DEL), or because a guard cached it for a role it had read before the change; the checks
  against losing the last owner can only fail by a race, at the very write that loses it; an invitation revoked
  half-way through an acceptance admits nobody (RevokedAdmitsNobody), and no decision taken while somebody was a
  member brings them back after they left (MembershipSpec); commit ingestion does.
* *Reports.* A completed report has its own file, with all its data, unless another report was written under the
  same name, a request deleting the report has unlinked the file (which goes before the row), or a run of the report
  is writing it again or was cut short in doing so, whatever retries, stalled workers and lost answers do.

**Bounds.** Every race in these protocols is between two parties over one row, so two slots, workers,
polls or requests per row show it; a third request in `release_requests` lets a create precede a
race, and the third and fourth in `org_requests` let an invitation, a removal request or an enrolment exist before
two requests race over it. Two jobs per push are the least for which a handler can fail half-way. Two
attempts and one stall give first, last and stalled attempts; where no stall is allowed, a stalled
job fails, which the attempts of the job or the retries of the requests make as good a case; in `reports_files` two
retries that both saw FAILED give the two runs of one report. One commit and one review suffice for a
calculation to read between two facts. Three events are the least with an order that is wrong in the
middle (opened, closed as merged, and a third that is late, dropped or a second of the same action);
comments need one event only, and a page of one comment in place of fifty shows the same overflow.
In `org_requests` the cache keeps decisions of one kind (`CachedKind`), since Redis may evict any of
the others. Two archival runs, an action and an erasure are one of each actor that touches a row,
and one more run. Clocks count days (webhooks: with retentions 0 and 1, three days let a record expire
before its log row and both before a redelivery), poll instants or seconds; retention and lookback are
scaled down with their order kept (records expire before logs, as with 7 and 30 days). `MaxCommits`,
`MaxReviews`, `MaxOthers`, `MaxTime`, `MaxDay`, `MaxEvents`, `MaxComments`, `MaxRequests`, `MaxJoins`,
`MaxRetries` and `MaxSecond` are the bounds in guards (and the size of `Row` in AuditTrail), and
all are constants of the theorems too. `CHECK_DEADLOCK FALSE` everywhere: a finite set of requests and
facts may come to rest. The inductive invariants `IInv` were checked as invariants of the same instances.

**Mutants.** Each property of a passing run has a mutant of a modelled operation that violates it, such as an
upsert in place of the insert, a handler that does not await the queue, a poll that clears the
flag of another, coalesced recalculations, an archival without its transaction, or a role change that
leaves the cache alone.

## 4. Fairness

* `CommitIngestion!FairSpec`: WF on the steps of the workers (the event loop resumes every suspended function, and
  every awaited call returns or throws) and on the stalled-job check of a lock whose holder is gone (BullMQ runs it
  every 30 s).
* `ScoreCalculation!FairSpec`: WF on the enqueueing the worker owes, on taking jobs, calculations, reads,
  the stalled-job check of abandoned jobs, eviction (which only returns an id) and the time to live.

None is assumed on pushes, deliveries, requests, new facts or faults; crashes may recur for ever.
The other modules state safety only: with a crash allowed between any two steps and nothing in the code
that resumes a half-done request, an eventuality about deliveries, pull requests, audit entries, memberships or
reports is false (section 6 lists what is left behind), and without crashes it says little.

## 5. The proofs

TLAPS checks 7435 obligations, with no assumption but the `ASSUME`s of the modules. Each `_proofs`
module has one lemma per action (it preserves `IInv`), a lemma for `Next`, and the temporal theorem
by PTL. Properties are then read off `IInv`; action properties and refinements take one more lemma, about
a step from a state in which `IInv` holds.

| Theorem | States | Why `IInv` is stronger |
|---|---|---|
| WebhookDelivery_proofs: TypeCorrect, OneOwner, FreshHandler, RecordedIsQueued, AcknowledgedIsQueued, SuccessOnRecord, SuccessFinal, PendingExplained, ImplementsBook | Spec => []Inv; SuccessFinal an action property; refinement of `DeliveryBook` | One owner needs that an owner still *holds* its row of today, so that the clean-up cannot take it (`OwnerHoldsRow`); freshness needs that a request past its check is for an unrecorded delivery *or* will be refused by the row (`FreshOrRefused`); queued needs the jobs already added per slot (`JobsAccounted`); success, and a clean-up that takes nothing under way, need the dates of row and record (`RecordsDated`) |
| CommitIngestion_proofs: TypeCorrect, FollowedUpOnce, SingleFollower, UnfollowedExplained, MissedExplained, CompletedStored, CronExclusive, ImplementsLedger | Spec => []Inv; refinement of `CommitLedger` | The worker with follow-ups before it has inserted the row itself and nobody has run them yet (`FollowerIsFirst`, `OneFollower`); a follow-up that failed did run (`SwallowedRan`); nothing is handled before it is pushed (`OnlyPushed`). MissedExplained needs a second invariant (`WindowIInv`, below) |
| ReleaseLifecycle_proofs: TypeCorrect, VersionsUnique, ShippedDelivered, RollbackAnnounced | Spec => []Inv | What a request has achieved so far (`Delivered`, `Announced`), and that its arguments, snapshot and row exist (`Begun`) |
| ScoreCalculation_proofs: TypeCorrect, NothingForgotten | Spec => []Inv | Lock and calculation agree (`JobsLive`, `RunningHaveJobs`) |
| PullRequestSync_proofs: TypeCorrect, InOrderExact, UnevaluatedExplained, SecondCommentExplained, MergeStays | Spec => []Inv; the last an action property | How one event may follow another (`Chronicle`: why a partial write suffices), that jobs carry events of their action (`JobsCarryEvents`), that a worker holds its job's event until the gate exists or its failure or collision is on record (`WorkersHoldEvents`), what the row owes to the newest event (`RowHistory`), and that without overlap at most one process is about to post, having seen an empty page if it creates (`PostersAlone`) |
| AuditTrail_proofs: TypeCorrect, KeptOnce, StaysForgotten, NoCycle, ImplementsRecord | Spec => []Inv; refinement of `AuditRecord` | What an archival run copied is current until its transaction, because the active table cannot change under it (`CopiesCurrent`); rows once seen are kept, and half-way none of the subject's is active (`ErasureHalfWay`). The chain: below |
| OrgAccess_proofs: TypeCorrect, StaleDecisionExplained, OwnerlessExplained, RevokedAdmitsNone, ImplementsMembership | Spec => []Inv; RevokedAdmitsNone an action property; refinement of `Membership` | The parameters of a request denote rows that exist by the stage it is in (`RequestsBegun`); whoever is about to take an owner's role has counted another one (`AnotherOwnerSeen`) |
| ReportGeneration_proofs: TypeCorrect, OwnFileExplained | Spec => []Inv | Every path in a row or in a deleting request was written for its report (`PathsWritten`); the file a worker is writing is there or was unlinked by a request (`GoneHasCause`), and the one it is about to record is whole and its own or has its cause (`AboutToComplete`) |

Assumptions of note: retry ids and GitHub ids are disjoint and pings carry no jobs (`DeliveryAssumption`);
commits are their jobs (`IngestionAssumption`: the sha is in the job id); a score needs at least one commit
(`ScoreAssumption`; five in the code); a job id of a pull request is its action (`PullRequestAssumption`);
neither `system` nor an anonymous identifier is a user (`AuditAssumption`); there is a founder
(`OrgAssumption`); the job of a report is its id with the number of the retry (`ReportAssumption`).

NoCycle takes a second invariant on top of `IInv` (`ChainIInv`): every row is of an entry that was queued
(`RowsOfQueued`), and in every set of linked *operations*, written or not, one links outside the set
(`LinksWellFounded`). That is inductive where the property itself, which speaks of written rows, is not: an entry's
link is fixed before the entry is queued, so at the step that fixes it no other link can lead to it. The order of
timestamps plays no part: an entry may link to a later one.

MissedExplained speaks of the window in lastSyncAt, which overlapping polls of different ages write, also backwards,
and so needs what each of them has in hand (`WindowIInv` on top of `IInv`): every commit of the default branch is in
the list of a poll that has listed, or handled already, or among those its listing did not return (`ListAccounts`);
what is behind the window a poll started with is handled, though lastSyncAt may have been set back since
(`BehindIsHandled`); and a poll takes the time it will write only when its list is done (`SyncsEmptyHanded`).

The refinements (`ImplementsBook`, `ImplementsLedger`, `ImplementsMembership`, `ImplementsRecord`) go action by
action: a lemma says which step of the abstract specification an action is, or that it stutters, from `IInv`. In
`ImplementsBook` the set of running deliveries is derived from the stages of all slots, so three lemmas first say
how it follows them (`RunningSame`, `RunningGains`, `RunningLoses`; the last one is where one owner per delivery is
needed). PendingExplained is then an invariant over the abstract state and `stranded`.

Every safety and action property of the passing runs is proved. The liveness properties (QueuedSettles, LagEnds,
CacheConverges) are beyond the prover and model-checked too; what the violation runs refute is not a theorem.

## 6. What the models show of the code

Two runs end in counterexamples to what the repository says of itself. `release_rollback`: two concurrent
rollbacks both read `isRolledBack` before either writes it, and dispatch twice, although `README.md:320`
promises that rollbacks verify the state first, "preventing duplicate execution during concurrent calls". `pr_gates`:
an event that arrives while the queue still holds a job of the same pull request and action, be it one completed long
ago, is dropped, and its head gets no gate, although `README.md:108` says that pull requests are evaluated "on open,
synchronize, and reopen events".

Behaviours the models have, which no run asserts the opposite of:

* *Webhook.* A failed delivery cannot be redelivered by GitHub: the FAILED log row's unique index
  refuses it (the manual retry, under a new id, works). A success update that loses its answer turns the row from
  SUCCESS to FAILED although every job is queued and the delivery is on record.
* *Commits.* A commit dated before `lastSyncAt` and pushed or merged after it is never polled, nor one that comes
  during a poll, nor one whose details could not be fetched or that could not be queued: these are the causes
  MissedHasCause names. A commit of another branch whose webhook was lost is not polled at all. A crash between
  insert and follow-ups, or a lost answer of the insert, loses them: the retry skips a stored commit. A follow-up
  that fails is not repeated. Polls that overlap may set `lastSyncAt` back, which costs a second listing only.
* *Releases.* A rollback whose webhook cannot be posted is recorded with its URL, and only its answer says so. A
  ship request that started earlier marks a rolled-back release shipped. Releases without a repository are not
  covered by the unique index; a soft-deleted release blocks its version with a database error; the rollback target
  may be a later release than the one rolled back.
* *Scores.* Re-attributed commits and facts that leave trigger no recalculation. A reader puts an old score back in
  the cache after its invalidation, for up to an hour.
* *Pull requests.* Two workers that insert one row at once leave one of them satisfied without a gate. The bot
  comments twice after overlapping evaluations or when its comment is beyond the first fifty, against
  `README.md:110` ("Idempotent Bot Comments"): SecondCommentHasCause says when. The made-up row under the pull
  request's number stays OPEN beside the real one. Statements that lose their answer run again.
* *Audit.* The entry of an archival run is logged as user `system`, which the foreign key always
  refuses. Anonymisation is refused whenever the user has an active row, for the same reason, though
  its comment says it anonymizes all of them; entries still queued keep the user in any case. Two operations that
  log concurrently link to the same entry, and the chain starts anew when all entries are archived: it
  is a forest, not a list.
* *Organizations.* Two demotions, each of which counted two owners, leave none. An administrator who is demoted
  during a removal is taken for an owner and removes directly. A removal request is decided twice, by the last
  writer; a crash between removal and status leaves it pending. Two users can accept one invitation. Commit
  ingestion makes the author of a commit a member without invitation, and again after a removal; a stale decision
  stays until it expires when Redis fails at its invalidation.
* *Reports.* Two reports of one subject in one second share a file, and deleting one deletes the other's. A
  crash between row and job leaves PENDING for ever, a job that stalls for good leaves PROCESSING, and
  only FAILED can be retried. FAILED is shown between two attempts. A report deleted while it is generated
  leaves its file. A second run of a report writes over its file, and leaves a truncated one when it is cut short.

## 7. What is not modelled, and why

* Data that no property distinguishes: payloads, score formulae, messages, features. A prediction
  always has an answer, the service's or the heuristic's.
* Scores: coverage as a feature (a constant: its uploads ask for no recalculation either), ML predictions, SQS (the
  same protocol over other features), several organizations of one developer (`dqs_scores` has no organization, see
  the hazards).
* Releases: telemetry, sprint associations, readiness, PDF; they add rows of their own.
* Commit author and attribution, poll pagination (one listing), the update of code intelligence that nobody awaits,
  several repositories (they share only the cron flag).
* Pull requests: the formula of the gate, the commit status, notifications; GitHub's ids beyond 32 bits; several
  pull requests (they share nothing but workers). The issue, release and comment workers are the same upserts
  over other columns.
* Audit: retention policies, snapshots, redaction, the integrity check (nothing calls `generateChainHash`),
  compression. Organizations: creating and deleting one, bulk invitations, expiry, filters of query results.
* Reports: what they contain; nothing calls `cleanupOldFiles`.
* Coverage: its upload and parse job follow the protocol of ReportGeneration, with a unique file hash that makes a
  lost upload final; the parsers are text processing.
* Goals, sprints, teams, onboarding, alerts, digests: a check before an insert or an update, each one race
  of two parties without a protocol behind it. The hazards and section 1 name the lines.
* Auth sessions and the WebSocket gateway: a check-then-write pair each, listed with the hazards.
* Several backend processes: `docker-compose.yml` runs one; in the models a second one is more workers.
* Pure queries, rendering, mail transport, the ML service's training and parsing, the frontend: they keep no
  state that the backend decides on. They are the larger part of the repository's lines, which is why the
  map covers a small share of it.

## 8. What is left

In the order in which they would add most:

1. **Email attribution**, composed with the commit worker: verify, remove and assign an alias, re-attribution jobs,
   attribution of a commit under way; a property in the form of LagHasCause (an attribution differs from the
   verified aliases only while a job is pending or for a listed cause).
2. **Sessions**: rotation and resets; whether a refresh token is exchanged at most once.
3. **Coverage uploads**, as a second instance of ReportGeneration's protocol with the unique hash.
4. **Goals** and **debt**: the hourly job against requests; items opened and resolved by commits in any order.
5. **Repository secret**: the secret cache and the rate limit, composed with WebhookDelivery's `Authorize`.
6. **Reports left behind**: which rows stay PENDING or PROCESSING and why, in the form of PendingHasCause; and an
   abstract specification of a report's life for ReportGeneration to implement.
7. **Composition** of PullRequestSync with WebhookDelivery, where a delivery is now an atomic hand-over, and of
   ScoreCalculation with a second organization.
