--------------------------- MODULE CommitIngestion ---------------------------
(***************************************************************************)
(* How a commit gets from GitHub into the commits table of one repository. *)
(*                                                                         *)
(* Producers: the push webhook (whose own protocol is WebhookDelivery),    *)
(* the five-minute cron poll, the manually triggered poll and the          *)
(* backfill.  They add one job per commit, with the commit's sha in the    *)
(* job id, so a commit stands for its job.  Workers run                    *)
(* CommitsService.processCommit: check, fetch, insert, then one follow-up  *)
(* after the other.                                                        *)
(***************************************************************************)
EXTENDS JobQueue

CONSTANTS
    Commit,   \* shas of the repository
    FollowUp, \* the follow-ups of an inserted commit that are told apart
    Poller,   \* slots for concurrently running polls and backfills
    MaxTime,  \* bound of the clock
    Lookback, \* DEFAULT_LOOKBACK_HOURS, in clock units
    Faults,   \* subset of FaultKind
    None      \* lastSyncAt = null; a worker without a job

FaultKind == {"api", "database", "queue", "crash", "stall", "evict"}

\* What processCommit does about a commit it has inserted, one awaited call after the
\* other; the event is emitted when it returns.
FollowUpKind == {"alert", "scan", "recalculate", "milestones", "event"}

\* Why the polls may never queue a commit.
MissCause == {"late", "unlisted", "details", "queue", "failed"}

ASSUME IngestionAssumption ==
    /\ JobId = Commit
    /\ FollowUp \subseteq FollowUpKind /\ "event" \in FollowUp
    /\ MaxTime \in Nat /\ Lookback \in Nat
    /\ None \notin Nat \cup Commit \cup MissCause
    /\ Faults \subseteq FaultKind

VARIABLES
    now,       \* the clock
    pushed,    \* commits GitHub has, on any branch
    onDefault, \* the ones reachable from the default branch
    dated,     \* [Commit -> committer date]: before or after the push, by another clock
    stored,    \* rows of the commits table (unique on repository and sha)
    followUps, \* [Commit -> [FollowUp -> how often it ran]]
    swallowed, \* history: <<commit, follow-up>> whose run ended in an error, logged and dropped
    cutShort,  \* history: <<commit, follow-up>> that the inserting attempt did not live to run
    lastSync,  \* repository.lastSyncAt
    isPolling, \* PollingService.isPolling
    wpc,       \* [Worker -> where processCommit is]
    wjob,      \* [Worker -> the commit it works on]
    ppc,       \* [Poller -> where the poll is]
    pkind,     \* [Poller -> "cron", "manual" or "backfill"]
    psince,    \* [Poller -> the lastSyncAt it read]
    pfound,    \* [Poller -> shas still to filter or to queue]
    pstamp,    \* [Poller -> the time it is about to write as lastSyncAt]
    unseen,    \* history: [Poller -> commits of the branch that its listing did not return]
    missed     \* history: [Commit -> the first reason why the polls may never queue it]

workerVars == <<wpc, wjob>>
pollVars == <<ppc, pkind, psince, pfound, pstamp, unseen, isPolling>>
gitVars == <<now, pushed, onDefault, dated>>
followVars == <<followUps, swallowed, cutShort>>
dbVars == <<stored, followVars, lastSync, missed>>
vars == <<queueVars, workerVars, pollVars, gitVars, dbVars>>

\* Their order in the code, after the insert.
Rank == [create |-> 0, alert |-> 1, scan |-> 2, recalculate |-> 3, milestones |-> 4, event |-> 5]

\* The follow-ups a worker has before it at a stage.
ToCome(stage) == {k \in FollowUp : stage \in FollowUp /\ Rank[stage] <= Rank[k]}

After(stage) ==
    LET later == {k \in FollowUp : Rank[stage] < Rank[k]} IN
    IF later = {} THEN "finish" ELSE CHOOSE k \in later : \A j \in later : Rank[k] <= Rank[j]

WorkerStage == {"idle", "check", "fetch", "create", "finish"} \cup FollowUp
PollStage == {"idle", "list", "filter", "queue", "sync", "write"}
PollKind == {"cron", "manual", "backfill"}

TypeOK ==
    /\ QueueTypeOK
    /\ now \in 0..MaxTime
    /\ pushed \subseteq Commit
    /\ onDefault \subseteq pushed
    /\ dated \in [Commit -> 0..MaxTime]
    /\ stored \subseteq Commit
    /\ followUps \in [Commit -> [FollowUp -> Nat]]
    /\ swallowed \subseteq Commit \X FollowUp
    /\ cutShort \subseteq Commit \X FollowUp
    /\ lastSync \in (0..MaxTime) \cup {None}
    /\ isPolling \in BOOLEAN
    /\ wpc \in [Worker -> WorkerStage]
    /\ wjob \in [Worker -> Commit \cup {None}]
    /\ ppc \in [Poller -> PollStage]
    /\ pkind \in [Poller -> PollKind]
    /\ psince \in [Poller -> (0..MaxTime) \cup {None}]
    /\ pfound \in [Poller -> SUBSET Commit]
    /\ pstamp \in [Poller -> 0..MaxTime]
    /\ unseen \in [Poller -> SUBSET Commit]
    /\ missed \in [Commit -> MissCause \cup {None}]

Init ==
    /\ QueueInit
    /\ now = 0
    /\ pushed = {}
    /\ onDefault = {}
    /\ dated = [c \in Commit |-> 0]
    /\ stored = {}
    /\ followUps = [c \in Commit |-> [k \in FollowUp |-> 0]]
    /\ swallowed = {}
    /\ cutShort = {}
    /\ lastSync = None
    /\ isPolling = FALSE
    /\ wpc = [w \in Worker |-> "idle"]
    /\ wjob = [w \in Worker |-> None]
    /\ ppc = [p \in Poller |-> "idle"]
    /\ pkind = [p \in Poller |-> "manual"]
    /\ psince = [p \in Poller |-> None]
    /\ pfound = [p \in Poller |-> {}]
    /\ pstamp = [p \in Poller |-> 0]
    /\ unseen = [p \in Poller |-> {}]
    /\ missed = [c \in Commit |-> None]

-----------------------------------------------------------------------------
\* GitHub, the clock and the webhook.

\* The poll has had GitHub's list.
Listed(p) == ppc[p] \in {"filter", "queue", "sync", "write"}

Tick ==
    /\ now < MaxTime
    /\ now' = now + 1
    /\ UNCHANGED <<queueVars, workerVars, pollVars, pushed, onDefault, dated, dbVars>>

\* Before the start of the window of the next poll, or of one that is running.
Behind(d) ==
    \/ lastSync # None /\ d < lastSync
    \/ \E p \in Poller : ppc[p] # "idle" /\ psince[p] # None /\ d < psince[p]

\* Commits that are not stored yet get a reason why the polls may never queue them.
Miss(cs, cause) ==
    [c \in Commit |-> IF c \in cs \ stored /\ missed[c] = None THEN cause ELSE missed[c]]

\* A commit gets on the default branch: behind the window, or after a running poll has
\* had its answer, or in good time.
ReachDefault(c, d) ==
    /\ onDefault' = onDefault \cup {c}
    /\ missed' = IF Behind(d) THEN Miss({c}, "late") ELSE missed
    /\ unseen' = [p \in Poller |-> IF Listed(p) THEN unseen[p] \cup {c} ELSE unseen[p]]
    /\ UNCHANGED <<now, queueVars, workerVars, ppc, pkind, psince, pfound, pstamp, isPolling,
                   stored, followVars, lastSync>>

\* A commit is pushed, with the date its committer's clock gave it, to the default branch
\* or to another one.
PushToGitHub(c, d) ==
    /\ c \notin pushed
    /\ pushed' = pushed \cup {c}
    /\ dated' = [dated EXCEPT ![c] = d]
    /\ \/ ReachDefault(c, d)
       \/ UNCHANGED <<now, onDefault, queueVars, workerVars, pollVars, dbVars>>

\* Its branch is merged into the default branch; the sha and the date stay.
MergeBranch(c) ==
    /\ c \in pushed \ onDefault
    /\ ReachDefault(c, dated[c])
    /\ UNCHANGED <<pushed, dated>>

\* A forced push takes it off the default branch.
ForcePush(c) ==
    /\ c \in onDefault
    /\ onDefault' = onDefault \ {c}
    /\ UNCHANGED <<now, pushed, dated, queueVars, workerVars, pollVars, dbVars>>

\* A delivery of the push (the first, a redelivery or a manual retry) reaches
\* addCommitJob; it may also never arrive.
WebhookQueues(c) ==
    /\ c \in pushed
    /\ AddJob(c)
    /\ UNCHANGED <<workerVars, pollVars, gitVars, dbVars>>

-----------------------------------------------------------------------------
\* The commit worker: CommitProcessor.process and CommitsService.processCommit.

GoWorker(w, to) == wpc' = [wpc EXCEPT ![w] = to] /\ UNCHANGED wjob
FreeWorker(w) == wpc' = [wpc EXCEPT ![w] = "idle"] /\ wjob' = [wjob EXCEPT ![w] = None]

Take(w, c) ==
    /\ wpc[w] = "idle"
    /\ TakeJob(w, c)
    /\ wpc' = [wpc EXCEPT ![w] = "check"]
    /\ wjob' = [wjob EXCEPT ![w] = c]
    /\ UNCHANGED <<pollVars, gitVars, dbVars>>

\* The processor throws: any of its awaited reads and writes may fail.
Throw(w) ==
    /\ FailJob(w, wjob[w])
    /\ FreeWorker(w)
    /\ UNCHANGED <<pollVars, gitVars, dbVars>>

\* Mutant: a stored commit is followed up again, in case the last attempt did not.
CheckExisting_Resumes(w) ==
    /\ wpc[w] = "check"
    /\ GoWorker(w, IF wjob[w] \in stored THEN After("create") ELSE "fetch")
    /\ UNCHANGED <<queueVars, pollVars, gitVars, dbVars>>

\* A commit that is already stored is skipped, and with it whatever an earlier attempt
\* had not got to.
CheckExisting(w) ==
    /\ wpc[w] = "check"
    /\ \/ /\ wjob[w] \in stored
          /\ CompleteJob(w, wjob[w])
          /\ FreeWorker(w)
          /\ UNCHANGED <<pollVars, gitVars, dbVars>>
       \/ /\ wjob[w] \notin stored
          /\ GoWorker(w, "fetch")
          /\ UNCHANGED <<queueVars, pollVars, gitVars, dbVars>>
       \/ /\ "database" \in Faults
          /\ Throw(w)

\* Mutant: a failed fetch is logged and the attempt returns.
FetchDetail_Swallows(w) ==
    /\ wpc[w] = "fetch"
    /\ \/ /\ GoWorker(w, "create")
          /\ UNCHANGED <<queueVars, pollVars, gitVars, dbVars>>
       \/ /\ "api" \in Faults
          /\ CompleteJob(w, wjob[w])
          /\ FreeWorker(w)
          /\ UNCHANGED <<pollVars, gitVars, dbVars>>

\* Commit details from the GitHub API, attribution, classification, anomaly detection.
FetchDetail(w) ==
    /\ wpc[w] = "fetch"
    /\ \/ /\ GoWorker(w, "create")
          /\ UNCHANGED <<queueVars, pollVars, gitVars, dbVars>>
       \/ /\ "api" \in Faults
          /\ Throw(w)

\* Mutant: an upsert, which succeeds for the loser of the race too.
CreateCommit_Upsert(w) ==
    /\ wpc[w] = "create"
    /\ stored' = stored \cup {wjob[w]}
    /\ GoWorker(w, After("create"))
    /\ UNCHANGED <<queueVars, pollVars, gitVars, followVars, lastSync, missed>>

\* Mutant: a failed insert starts the attempt over, without the queue's limit on attempts.
CreateCommit_StartsOver(w) ==
    /\ wpc[w] = "create"
    /\ \/ /\ wjob[w] \notin stored
          /\ stored' = stored \cup {wjob[w]}
          /\ GoWorker(w, After("create"))
          /\ UNCHANGED <<queueVars, pollVars, gitVars, followVars, lastSync, missed>>
       \/ /\ wjob[w] \in stored \/ "database" \in Faults
          /\ GoWorker(w, "check")
          /\ UNCHANGED <<queueVars, pollVars, gitVars, dbVars>>

\* INSERT, guarded by the unique index on (repositoryId, sha).  It may also commit and
\* the answer be lost: the attempt throws, and the next one finds the row.
CreateCommit(w) ==
    /\ wpc[w] = "create"
    /\ \/ /\ wjob[w] \notin stored
          /\ stored' = stored \cup {wjob[w]}
          /\ GoWorker(w, After("create"))
          /\ UNCHANGED <<queueVars, pollVars, gitVars, followVars, lastSync, missed>>
       \/ /\ wjob[w] \in stored \/ "database" \in Faults
          /\ Throw(w)
       \/ /\ wjob[w] \notin stored /\ "database" \in Faults
          /\ stored' = stored \cup {wjob[w]}
          /\ cutShort' = cutShort \cup ({wjob[w]} \X FollowUp)
          /\ FailJob(w, wjob[w])
          /\ FreeWorker(w)
          /\ UNCHANGED <<pollVars, gitVars, followUps, swallowed, lastSync, missed>>

\* Mutant: an error of a follow-up is not swallowed, it fails the attempt.
RunFollowUp_Throws(w) ==
    LET c == wjob[w]
        k == wpc[w] IN
    /\ k \in FollowUp
    /\ \/ /\ followUps' = [followUps EXCEPT ![c][k] = @ + 1]
          /\ GoWorker(w, After(k))
          /\ UNCHANGED <<queueVars, pollVars, gitVars, stored, swallowed, cutShort, lastSync,
                         missed>>
       \/ /\ k # "event" /\ Faults \cap {"database", "queue"} # {}
          /\ followUps' = [followUps EXCEPT ![c][k] = @ + 1]
          /\ swallowed' = swallowed \cup {<<c, k>>}
          /\ FailJob(w, c)
          /\ FreeWorker(w)
          /\ UNCHANGED <<pollVars, gitVars, stored, cutShort, lastSync, missed>>

\* One of alert, debt scan, enqueueing of the recalculations, milestones and the
\* commit.processed event; one that does not apply (no anomaly, no developer) runs without
\* effect.  Each but the event, which is only emitted, may fail half-way; the error is
\* logged and the next one runs.
RunFollowUp(w) ==
    LET c == wjob[w]
        k == wpc[w] IN
    /\ k \in FollowUp
    /\ followUps' = [followUps EXCEPT ![c][k] = @ + 1]
    /\ \/ UNCHANGED swallowed
       \/ /\ k # "event" /\ Faults \cap {"database", "queue"} # {}
          /\ swallowed' = swallowed \cup {<<c, k>>}
    /\ GoWorker(w, After(k))
    /\ UNCHANGED <<queueVars, pollVars, gitVars, stored, cutShort, lastSync, missed>>

\* processCommit has returned, and the worker reports the job.
Finish(w) ==
    /\ wpc[w] = "finish"
    /\ CompleteJob(w, wjob[w])
    /\ FreeWorker(w)
    /\ UNCHANGED <<pollVars, gitVars, dbVars>>

WorkerStep(w) ==
    \/ \E c \in Commit : Take(w, c)
    \/ CheckExisting(w) \/ FetchDetail(w) \/ CreateCommit(w) \/ RunFollowUp(w) \/ Finish(w)

\* A process dies and starts again.  The job its worker held keeps the lock until the
\* stalled-job check finds it.
CrashWorker(w) ==
    /\ "crash" \in Faults
    /\ wpc[w] # "idle"
    /\ FreeWorker(w)
    /\ cutShort' = cutShort \cup ({wjob[w]} \X ToCome(wpc[w]))
    /\ UNCHANGED <<queueVars, pollVars, gitVars, stored, followUps, swallowed, lastSync, missed>>

\* The process that runs the polls dies and starts again.
CrashPolls ==
    /\ "crash" \in Faults
    /\ ppc' = [p \in Poller |-> "idle"]
    /\ pkind' = [p \in Poller |-> "manual"]
    /\ psince' = [p \in Poller |-> None]
    /\ pfound' = [p \in Poller |-> {}]
    /\ pstamp' = [p \in Poller |-> 0]
    /\ unseen' = [p \in Poller |-> {}]
    /\ isPolling' = FALSE
    /\ UNCHANGED <<queueVars, workerVars, gitVars, dbVars>>

\* A lock expires because its holder died, or is merely slow.
Stall(c) ==
    /\ \/ \E w \in Worker : jowner[c] = w /\ wjob[w] # c
       \/ "stall" \in Faults
    /\ StallJob(c)
    /\ UNCHANGED <<workerVars, pollVars, gitVars, dbVars>>

Evict(c) ==
    /\ "evict" \in Faults
    /\ EvictJob(c)
    /\ missed' = IF jstate[c] = "failed" THEN Miss({c}, "failed") ELSE missed
    /\ UNCHANGED <<workerVars, pollVars, gitVars, stored, followVars, lastSync>>

-----------------------------------------------------------------------------
\* Polls and backfills.

\* The cron poll skips its turn while one is under way; the manual poll and the
\* backfill do not look at the flag.  The repository row is read here.
StartPoll(p, k) ==
    /\ ppc[p] = "idle"
    /\ k = "cron" => ~isPolling
    /\ isPolling' = (isPolling \/ k = "cron")
    /\ ppc' = [ppc EXCEPT ![p] = "list"]
    /\ pkind' = [pkind EXCEPT ![p] = k]
    /\ psince' = [psince EXCEPT ![p] = lastSync]
    /\ UNCHANGED <<pfound, pstamp, unseen, queueVars, workerVars, gitVars, dbVars>>

\* calculateSinceDate; a backfill reaches back as many days as it was asked for.
SinceDates(p) ==
    IF pkind[p] = "backfill" THEN 0..now
    ELSE IF psince[p] # None THEN {psince[p]}
    ELSE {IF now > Lookback THEN now - Lookback ELSE 0}

\* Mutant: every poll clears the flag when it ends.
EndPoll_ClearsFlag(p) ==
    /\ ppc' = [ppc EXCEPT ![p] = "idle"]
    /\ pkind' = [pkind EXCEPT ![p] = "manual"]
    /\ psince' = [psince EXCEPT ![p] = None]
    /\ pfound' = [pfound EXCEPT ![p] = {}]
    /\ pstamp' = [pstamp EXCEPT ![p] = 0]
    /\ unseen' = [unseen EXCEPT ![p] = {}]
    /\ isPolling' = FALSE

\* A poll returns or throws; the cron poll's `finally` clears the flag.
EndPoll(p) ==
    /\ ppc' = [ppc EXCEPT ![p] = "idle"]
    /\ pkind' = [pkind EXCEPT ![p] = "manual"]
    /\ psince' = [psince EXCEPT ![p] = None]
    /\ pfound' = [pfound EXCEPT ![p] = {}]
    /\ pstamp' = [pstamp EXCEPT ![p] = 0]
    /\ unseen' = [unseen EXCEPT ![p] = {}]
    /\ isPolling' = (isPolling /\ pkind[p] # "cron")

\* until := new Date(), then GitHub's list of commits dated in [since, until].  No branch is
\* named, so that it is the list of the default branch.
ListCommits(p) ==
    /\ ppc[p] = "list"
    /\ \/ \E since \in SinceDates(p) :
             LET list == {c \in onDefault : since <= dated[c] /\ dated[c] <= now} IN
             /\ pfound' = [pfound EXCEPT ![p] = list]
             /\ unseen' = [unseen EXCEPT ![p] = onDefault \ list]
             /\ ppc' = [ppc EXCEPT ![p] = IF list = {} THEN "sync" ELSE "filter"]
             /\ UNCHANGED <<pkind, psince, pstamp, isPolling>>
       \/ "api" \in Faults /\ EndPoll(p)
    /\ UNCHANGED <<queueVars, workerVars, gitVars, dbVars>>

\* filterExistingCommits.
FilterExisting(p) ==
    /\ ppc[p] = "filter"
    /\ \/ /\ pfound' = [pfound EXCEPT ![p] = @ \ stored]
          /\ ppc' = [ppc EXCEPT ![p] = IF pfound[p] \subseteq stored THEN "sync" ELSE "queue"]
          /\ UNCHANGED <<pkind, psince, pstamp, unseen, isPolling>>
       \/ "database" \in Faults /\ EndPoll(p)
    /\ UNCHANGED <<queueVars, workerVars, gitVars, dbVars>>

\* One sha of processCommitBatch.  When its details cannot be fetched, or the queue does not
\* take it, that is logged and the sha skipped.
QueueFound(p, c) ==
    /\ ppc[p] = "queue"
    /\ c \in pfound[p]
    /\ pfound' = [pfound EXCEPT ![p] = @ \ {c}]
    /\ ppc' = [ppc EXCEPT ![p] = IF pfound[p] = {c} THEN "sync" ELSE "queue"]
    /\ \/ AddJob(c) /\ UNCHANGED missed
       \/ "api" \in Faults /\ missed' = Miss({c}, "details") /\ UNCHANGED queueVars
       \/ "queue" \in Faults /\ missed' = Miss({c}, "queue") /\ UNCHANGED queueVars
    /\ UNCHANGED <<pkind, psince, pstamp, unseen, isPolling, workerVars, gitVars,
                   stored, followVars, lastSync>>

\* Mutant: the batch is not awaited.
StampSync_NotAwaited(p) ==
    /\ ppc[p] \in {"sync", "queue"}
    /\ pstamp' = [pstamp EXCEPT ![p] = now]
    /\ ppc' = [ppc EXCEPT ![p] = "write"]
    /\ UNCHANGED <<pkind, psince, pfound, unseen, isPolling, queueVars, workerVars, gitVars,
                   dbVars>>

\* updateLastSyncTime reads the clock when the poll is done, not the `until` it listed up to.
StampSync(p) ==
    /\ ppc[p] = "sync"
    /\ pstamp' = [pstamp EXCEPT ![p] = now]
    /\ ppc' = [ppc EXCEPT ![p] = "write"]
    /\ UNCHANGED <<pkind, psince, pfound, unseen, isPolling, queueVars, workerVars, gitVars,
                   dbVars>>

\* Commits the next window will not reach back to, and this one did not: they got on the
\* branch after the listing, or are older than the window of a first poll or a backfill.
SkippedBy(p) ==
    {c \in unseen[p] : (psince[p] = None \/ psince[p] <= dated[c]) /\ dated[c] < pstamp[p]}

\* The update itself is awaited: another poll's, with a later time, may get there first and
\* is then overwritten.
WriteSync(p) ==
    /\ ppc[p] = "write"
    /\ \/ lastSync' = pstamp[p] /\ missed' = Miss(SkippedBy(p), "unlisted")
       \/ "database" \in Faults /\ UNCHANGED <<lastSync, missed>>
    /\ EndPoll(p)
    /\ UNCHANGED <<queueVars, workerVars, gitVars, stored, followVars>>

PollStep(p) ==
    \/ ListCommits(p) \/ FilterExisting(p) \/ StampSync(p) \/ WriteSync(p)
    \/ \E c \in Commit : QueueFound(p, c)

-----------------------------------------------------------------------------
Next ==
    \/ Tick
    \/ \E c \in Commit, d \in 0..MaxTime : PushToGitHub(c, d)
    \/ \E c \in Commit : MergeBranch(c) \/ ForcePush(c)
    \/ \E c \in Commit : WebhookQueues(c) \/ Stall(c) \/ Evict(c)
    \/ \E w \in Worker : WorkerStep(w) \/ CrashWorker(w)
    \/ CrashPolls
    \/ \E p \in Poller, k \in PollKind : StartPoll(p, k)
    \/ \E p \in Poller : PollStep(p)

Spec == Init /\ [][Next]_vars

\* Workers and the stalled-job check run for as long as the process does.  Pushes,
\* deliveries, polls and crashes are up to the environment.
FairSpec ==
    /\ Spec
    /\ \A w \in Worker : WF_vars(WorkerStep(w))
    /\ \A c \in Commit : WF_vars(\E w \in Worker : jowner[c] = w /\ wjob[w] # c /\ Stall(c))

-----------------------------------------------------------------------------
\* Properties.

\* Each follow-up of a commit runs at most once, though its job may be taken by two workers
\* at a time (a stalled lock) and added again after its eviction.
FollowUpsAtMostOnce == \A c \in Commit, k \in FollowUp : followUps[c][k] <= 1

\* Nothing follows up a commit whose row is not there yet.
FollowUpsOfStored ==
    \A c \in Commit, k \in FollowUp : followUps[c][k] > 0 => c \in stored

\* A completed job means its commit is in the table: an attempt that lost the race for
\* the row, or only found the lock gone, does not complete without it.
CompletedIsStored == \A c \in Commit : jstate[c] = "completed" => c \in stored

\* At most one worker is between the insert of a commit and the end of its attempt.
Following(w) == wpc[w] \in FollowUp \cup {"finish"}

OneFollower ==
    \A v, w \in Worker : Following(v) /\ Following(w) /\ wjob[v] = wjob[w] => v = w

\* The follow-up ran and succeeded; or the worker that inserted the commit will get to it.
Followed(c, k) == followUps[c][k] > 0 /\ <<c, k>> \notin swallowed
Coming(c, k) == \E w \in Worker : wjob[w] = c /\ k \in ToCome(wpc[w])

\* What a stored commit goes without, be it its debt scan, its score recalculation or its
\* event, it goes without for one of two reasons: the attempt that inserted it died or lost the
\* answer before it got there, or the follow-up itself failed and was dropped.  One that
\* fails takes none of the others with it; retries, stalls and lost races cost none; and no
\* later attempt makes up for any.
UnfollowedHasCause ==
    \A c \in Commit, k \in FollowUp :
        <<c, k>> \in cutShort \cup swallowed <=>
            c \in stored /\ ~Followed(c, k) /\ ~Coming(c, k)

\* Two cron polls never overlap in one process, whatever manual polls do meanwhile.
CronPollsExclusive ==
    \A p, q \in Poller :
        /\ ppc[p] # "idle" /\ pkind[p] = "cron" => isPolling
        /\ ppc[p] # "idle" /\ ppc[q] # "idle" /\ pkind[p] = "cron" /\ pkind[q] = "cron" => p = q

\* A commit the polls need not list again.
Handled(c) == c \in stored \/ jstate[c] # "absent" \/ missed[c] # None

\* Once lastSyncAt has moved past a commit, it is stored, or its job is in the queue, or it is
\* on another branch, where only the webhook finds it, or one of five things happened: it got
\* on the branch behind the window (late); the poll that moved the window did not have it in
\* its list, because it came later or was older than a first poll or a backfill looks
\* (unlisted); a poll could not fetch its details; or could not queue it; or its job failed for
\* good and was evicted.  Polls that overlap, set lastSyncAt back, die or fail elsewhere lose
\* nothing.
MissedHasCause ==
    \A c \in pushed :
        lastSync # None /\ dated[c] < lastSync => Handled(c) \/ c \notin onDefault

\* A queued commit is stored, or its job ends up in the failed set where the failure
\* monitor sees it: crashes, stalls and retries cannot leave it in between for ever.
QueuedSettles ==
    \A c \in Commit :
        jstate[c] = "waiting" ~> (c \in stored \/ jstate[c] = "failed")

\* What the safety properties rest on: a worker that is not idle has a commit; no commit
\* gets anywhere before it is pushed; a worker with follow-ups before it has inserted the row,
\* and nobody ran them before.
WorkersHaveJobs == \A w \in Worker : wpc[w] # "idle" => wjob[w] \in Commit

OnlyPushed ==
    /\ stored \subseteq pushed
    /\ \A c \in Commit : jstate[c] # "absent" => c \in pushed
    /\ \A w \in Worker : wjob[w] # None => wjob[w] \in pushed
    /\ \A p \in Poller : pfound[p] \subseteq pushed

FollowerIsFirst ==
    \A w \in Worker :
        /\ Following(w) => wjob[w] \in stored
        /\ \A k \in ToCome(wpc[w]) : followUps[wjob[w]][k] = 0

\* A follow-up that failed did run.
SwallowedRan == \A c \in Commit, k \in FollowUp : <<c, k>> \in swallowed => followUps[c][k] > 0

\* The inductive invariant; the part about follow-ups has a name of its own.
FollowersIInv ==
    /\ FollowUpsOfStored
    /\ FollowUpsAtMostOnce
    /\ FollowerIsFirst
    /\ SwallowedRan
    /\ OneFollower
    /\ UnfollowedHasCause

IInv ==
    /\ TypeOK
    /\ JobsLive
    /\ WorkersHaveJobs
    /\ OnlyPushed
    /\ FollowersIInv
    /\ CompletedIsStored
    /\ CronPollsExclusive

\* The inductive invariant of the polls' window, on top of IInv.  A poll that has had its
\* list accounts for every commit of the branch; whatever is behind the window it started
\* with is handled, though lastSyncAt may have been set back since; it takes the time when its
\* list is done.
ListAccounts ==
    \A p \in Poller : Listed(p) =>
        \A c \in onDefault : c \in unseen[p] \/ c \in pfound[p] \/ Handled(c)

BehindIsHandled ==
    \A p \in Poller : ppc[p] # "idle" /\ psince[p] # None =>
        \A c \in onDefault : dated[c] < psince[p] => Handled(c)

SyncsEmptyHanded == \A p \in Poller : ppc[p] \in {"sync", "write"} => pfound[p] = {}

WindowIInv == ListAccounts /\ BehindIsHandled /\ SyncsEmptyHanded /\ MissedHasCause

\* The module implements the ledger of commits.
Ledger == INSTANCE CommitLedger
LedgerSpec == Ledger!Spec
=============================================================================
