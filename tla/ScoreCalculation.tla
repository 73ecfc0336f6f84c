-------------------------- MODULE ScoreCalculation --------------------------
(***************************************************************************)
(* The quality score (DQS) of one developer: how new commits and reviews   *)
(* become a stored score, a cached score and a score.calculated event.     *)
(*                                                                         *)
(* The workers of the commit and the review queue store a fact and then    *)
(* enqueue a recalculation; the worker of the score queue recalculates;    *)
(* getDQS reads the cache, then the table, and calculates inline when      *)
(* there is no score at all.  All of them run in one Node process.  Scores *)
(* of different developers share only the queue and its worker.            *)
(*                                                                         *)
(* A score stands for the facts it was calculated from: the ML service, or *)
(* the heuristic that replaces it, is a function of them.  The facts are   *)
(* the developer's commits and reviews; the coverage of the repositories,  *)
(* the third feature, is taken to be constant.                             *)
(***************************************************************************)
EXTENDS JobQueue

CONSTANTS
    Reader,     \* slots for concurrent getDQS requests
    MinCommits, \* a score needs that many commits (5 in the code)
    MaxCommits, \* bound of the developer's commits
    MaxReviews, \* bound of the developer's reviews
    MaxOthers,  \* bound of the manual recalculations and the facts that leave again
    Faults,     \* subset of FaultKind
    None        \* no row, no cache entry, no job

\* How the recalculation for a change of the facts can be lost, or is not asked for at all.
Loss == {"answer lost", "enqueue failed", "error swallowed", "crashed", "stalled",
         "overtaken", "not asked for"}

FaultKind == {"database", "enqueue", "redis", "crash", "stall"}

ASSUME ScoreAssumption ==
    /\ Reader \cap Worker = {}
    /\ MinCommits \in Nat \ {0} /\ MaxCommits \in Nat /\ MaxReviews \in Nat /\ MaxOthers \in Nat
    /\ Faults \subseteq FaultKind
    /\ None \notin JobId \cup Loss /\ None \notin [commits : Nat, reviews : Nat]

Calculator == Worker \cup Reader

VARIABLES
    commits,   \* the developer's commits in the database
    reviews,   \* and reviews
    owed,      \* stored facts whose worker has not enqueued the recalculation yet
    others,    \* manual recalculations and facts that left so far
    latest,    \* the newest row of dqs_scores
    cache,     \* the entry of dqs:score:<organization>:<developer>
    cpc,       \* [Calculator -> where the calculation or the request is]
    cjob,      \* [Worker -> the job it runs]
    crow,      \* [Calculator -> the features extracted, or the row read from the table]
    dropped    \* history: how a recalculation was lost since the score was last up to date

factVars == <<commits, reviews, owed, others>>
scoreVars == <<latest, cache>>
calcVars == <<cpc, cjob, crow>>
vars == <<queueVars, factVars, scoreVars, calcVars, dropped>>

Row == [commits : Nat, reviews : Nat]
Stage == {"idle", "lookup", "read", "fill", "commits", "reviews", "store", "invalidate", "publish"}

TypeOK ==
    /\ QueueTypeOK
    /\ commits \in 0..MaxCommits /\ reviews \in 0..MaxReviews
    /\ owed \in Nat /\ others \in 0..MaxOthers
    /\ latest \in Row \cup {None}
    /\ cache \in Row \cup {None}
    /\ cpc \in [Calculator -> Stage]
    /\ cjob \in [Worker -> JobId \cup {None}]
    /\ crow \in [Calculator -> Row]
    /\ dropped \in Loss \cup {None}

NoFacts == [commits |-> 0, reviews |-> 0]
Facts == [commits |-> commits, reviews |-> reviews]

Init ==
    /\ QueueInit
    /\ commits = 0 /\ reviews = 0 /\ owed = 0 /\ others = 0
    /\ latest = None /\ cache = None
    /\ cpc = [c \in Calculator |-> "idle"]
    /\ cjob = [w \in Worker |-> None]
    /\ crow = [c \in Calculator |-> NoFacts]
    /\ dropped = None

-----------------------------------------------------------------------------
\* The producers.

\* Its recalculation will be enqueued, or never is: the statement was executed but its
\* answer is lost.
OweOrForget ==
    \/ owed' = owed + 1 /\ UNCHANGED dropped
    \/ "database" \in Faults /\ dropped' = "answer lost" /\ UNCHANGED owed

\* The commit worker inserts a commit and, later, runs triggerScoreRecalculation.  When the
\* attempt fails for the lost answer, the next one finds the commit and skips it.
StoreCommit ==
    /\ commits < MaxCommits
    /\ commits' = commits + 1
    /\ OweOrForget
    /\ UNCHANGED <<queueVars, reviews, others, scoreVars, calcVars>>

\* The review worker upserts a review and, later, runs triggerDQSRecalculation.  When the
\* answer is lost the next attempt does both again; the last attempt has no next one.
StoreReview ==
    /\ reviews < MaxReviews
    /\ reviews' = reviews + 1
    /\ OweOrForget
    /\ UNCHANGED <<queueVars, commits, others, scoreVars, calcVars>>

\* A commit stored without a developer is attributed to this one: by the re-attribution of
\* an organization, by the job of a new e-mail alias, or when an invitation is accepted.
\* None of them asks for a recalculation.
AttributeCommit ==
    /\ commits < MaxCommits
    /\ commits' = commits + 1
    /\ dropped' = "not asked for"
    /\ UNCHANGED <<queueVars, reviews, owed, others, scoreVars, calcVars>>

\* A fact leaves: its commit is unattributed, its repository deleted, or its thirty days
\* are over.  Nothing asks for a recalculation.
FactLeaves ==
    /\ others < MaxOthers
    /\ others' = others + 1
    /\ \/ commits > 0 /\ commits' = commits - 1 /\ UNCHANGED reviews
       \/ reviews > 0 /\ reviews' = reviews - 1 /\ UNCHANGED commits
    /\ dropped' = "not asked for"
    /\ UNCHANGED <<queueVars, owed, scoreVars, calcVars>>

\* enqueueScoreCalculation: the id holds the time of the call, so it is a new one.
AddNewJob == \E j \in JobId : jstate[j] = "absent" /\ AddJob(j)

\* Mutant: one job for the facts stored so far, of which the queue has at most one.
EnqueueOwed_Coalesces ==
    /\ owed > 0
    /\ owed' = owed - 1
    /\ \/ /\ \A j \in JobId : jstate[j] \notin {"waiting", "active"}
          /\ AddNewJob
       \/ /\ \E j \in JobId : jstate[j] \in {"waiting", "active"}
          /\ UNCHANGED queueVars
    /\ UNCHANGED <<commits, reviews, others, scoreVars, calcVars, dropped>>

\* The enqueueing after a stored fact.  Its errors are logged and swallowed.
EnqueueOwed ==
    /\ owed > 0
    /\ owed' = owed - 1
    /\ \/ /\ AddNewJob
          /\ UNCHANGED dropped
       \/ /\ "enqueue" \in Faults
          /\ dropped' = "enqueue failed"
          /\ UNCHANGED queueVars
    /\ UNCHANGED <<commits, reviews, others, scoreVars, calcVars>>

\* POST recalculate, and the dashboard for a member without a score.
TriggerRecalculation ==
    /\ others < MaxOthers
    /\ others' = others + 1
    /\ AddNewJob
    /\ UNCHANGED <<commits, reviews, owed, scoreVars, calcVars, dropped>>

-----------------------------------------------------------------------------
\* A calculation, by the score worker for a job or inline by a getDQS request.

Go(c, to) == cpc' = [cpc EXCEPT ![c] = to]

Take(w, j) ==
    /\ cpc[w] = "idle"
    /\ TakeJob(w, j)
    /\ Go(w, "commits")
    /\ cjob' = [cjob EXCEPT ![w] = j]
    /\ UNCHANGED <<factVars, scoreVars, crow, dropped>>

\* The job is completed and, with removeOnComplete, removed at once.  Without the lock the
\* result is discarded.
RemoveJob(w, j) ==
    \/ /\ jowner[j] = w
       /\ jstate' = [jstate EXCEPT ![j] = "absent"]
       /\ jowner' = [jowner EXCEPT ![j] = NoWorker]
       /\ UNCHANGED <<jtries, jstalls>>
    \/ /\ jowner[j] # w
       /\ UNCHANGED queueVars

\* calculateAndStoreDQS returns or throws, and ScoreProcessor.process returns either way:
\* the job completes.  An inline calculation ends the request instead.
Finish(c) ==
    /\ Go(c, "idle")
    /\ crow' = [crow EXCEPT ![c] = NoFacts]
    /\ \/ /\ c \in Worker
          /\ RemoveJob(c, cjob[c])
          /\ cjob' = [cjob EXCEPT ![c] = None]
       \/ /\ c \in Reader
          /\ UNCHANGED <<queueVars, cjob>>

\* A query of the calculation fails.  The worker's job completes all the same
\* (success: false), so the queue's attempts and back-off never apply.
Throw(c) ==
    /\ "database" \in Faults
    /\ Finish(c)
    /\ dropped' = IF c \in Worker THEN "error swallowed" ELSE dropped
    /\ UNCHANGED <<factVars, scoreVars>>

\* verifyEntityOwnership, the previous score and the commit query of extractDQSFeatures.
ExtractCommits(c) ==
    /\ cpc[c] = "commits"
    /\ \/ /\ crow' = [crow EXCEPT ![c] = [commits |-> commits, reviews |-> 0]]
          /\ Go(c, "reviews")
          /\ UNCHANGED <<queueVars, factVars, scoreVars, cjob, dropped>>
       \/ Throw(c)

\* extractReviewMetrics, and then the minimum of commits, over the commits read before.
ExtractReviews(c) ==
    /\ cpc[c] = "reviews"
    /\ \/ /\ crow[c].commits >= MinCommits
          /\ crow' = [crow EXCEPT ![c] = [commits |-> crow[c].commits, reviews |-> reviews]]
          /\ Go(c, "store")
          /\ UNCHANGED <<queueVars, factVars, scoreVars, cjob, dropped>>
       \/ /\ crow[c].commits < MinCommits
          /\ Finish(c)
          /\ UNCHANGED <<factVars, scoreVars, dropped>>
       \/ Throw(c)

\* The newest score was up to date and is replaced by one of other facts.
Overtaken(row) == row # Facts /\ latest = Facts

Losses(row) ==
    CASE row = Facts -> None
      [] Overtaken(row) -> "overtaken"
      [] OTHER -> dropped

\* The prediction, and the new row with calculatedAt = now: it is the newest one, however
\* old its features are by now.
StoreScore(c) ==
    /\ cpc[c] = "store"
    /\ \/ /\ latest' = crow[c]
          /\ Go(c, "invalidate")
          /\ dropped' = Losses(crow[c])
          /\ UNCHANGED <<queueVars, factVars, cache, cjob, crow>>
       \/ Throw(c)

\* invalidateDQS.  CacheService logs and swallows Redis errors.
Invalidate(c) ==
    /\ cpc[c] = "invalidate"
    /\ \/ cache' = None
       \/ "redis" \in Faults /\ UNCHANGED cache
    /\ Go(c, "publish")
    /\ UNCHANGED <<queueVars, factVars, latest, cjob, crow, dropped>>

\* Mutant: the event is published but the calculation never returns.
Publish_Hangs(c) ==
    /\ cpc[c] = "publish"
    /\ UNCHANGED vars

\* publishScoreCalculatedEvent, and the return.
Publish(c) ==
    /\ cpc[c] = "publish"
    /\ Finish(c)
    /\ UNCHANGED <<factVars, scoreVars, dropped>>

CalculationStep(c) ==
    \/ ExtractCommits(c) \/ ExtractReviews(c)
    \/ StoreScore(c) \/ Invalidate(c) \/ Publish(c)

-----------------------------------------------------------------------------
\* getDQS.

GetDQS(r) ==
    /\ cpc[r] = "idle"
    /\ Go(r, "lookup")
    /\ UNCHANGED <<queueVars, factVars, scoreVars, cjob, crow, dropped>>

\* Mutant: a hit renews the entry's time to live by writing it back.
LookUpCache_Renews(r) ==
    /\ cpc[r] = "lookup"
    /\ \/ /\ cache # None
          /\ crow' = [crow EXCEPT ![r] = cache]
          /\ Go(r, "fill")
       \/ /\ cache = None \/ "redis" \in Faults
          /\ Go(r, "read")
          /\ UNCHANGED crow
    /\ UNCHANGED <<queueVars, factVars, scoreVars, cjob, dropped>>

\* A hit is the answer.  An unreachable Redis is a miss.
LookUpCache(r) ==
    /\ cpc[r] = "lookup"
    /\ \/ cache # None /\ Go(r, "idle")
       \/ (cache = None \/ "redis" \in Faults) /\ Go(r, "read")
    /\ UNCHANGED <<queueVars, factVars, scoreVars, cjob, crow, dropped>>

\* Mutant: the missing row is not checked for.
ReadLatest_NoCheck(r) ==
    /\ cpc[r] = "read"
    /\ crow' = [crow EXCEPT ![r] = latest]
    /\ Go(r, "fill")
    /\ UNCHANGED <<queueVars, factVars, scoreVars, cjob, dropped>>

\* The newest row, or a calculation when there is none.
ReadLatest(r) ==
    /\ cpc[r] = "read"
    /\ \/ /\ latest # None
          /\ crow' = [crow EXCEPT ![r] = latest]
          /\ Go(r, "fill")
       \/ /\ latest = None
          /\ Go(r, "commits")
          /\ UNCHANGED crow
       \/ /\ "database" \in Faults
          /\ Go(r, "idle")
          /\ UNCHANGED crow
    /\ UNCHANGED <<queueVars, factVars, scoreVars, cjob, dropped>>

\* The row read is cached for an hour, and is the answer.
FillCache(r) ==
    /\ cpc[r] = "fill"
    /\ \/ cache' = crow[r]
       \/ "redis" \in Faults /\ UNCHANGED cache
    /\ Go(r, "idle")
    /\ crow' = [crow EXCEPT ![r] = NoFacts]
    /\ UNCHANGED <<queueVars, factVars, latest, cjob, dropped>>

ReadStep(r) == LookUpCache(r) \/ ReadLatest(r) \/ FillCache(r)

-----------------------------------------------------------------------------
\* The environment.

\* The entry's time to live is over.
Expire ==
    /\ cache # None
    /\ cache' = None
    /\ UNCHANGED <<queueVars, factVars, latest, calcVars, dropped>>

\* The process dies and starts again: requests end, stored facts are not enqueued, and
\* the jobs of its workers stay locked until the stalled-job check.
Crash ==
    /\ "crash" \in Faults
    /\ cpc' = [c \in Calculator |-> "idle"]
    /\ cjob' = [w \in Worker |-> None]
    /\ crow' = [c \in Calculator |-> NoFacts]
    /\ owed' = 0
    /\ dropped' = IF owed > 0 THEN "crashed" ELSE dropped
    /\ UNCHANGED <<queueVars, commits, reviews, others, scoreVars>>

\* Nobody runs the job its lock says is running.
Abandoned(j) == \A w \in Worker : jowner[j] = w => cjob[w] # j

\* The stalled-job check: after a crash, or when the event loop did not renew the lock.
Stall(j) ==
    /\ Abandoned(j) \/ "stall" \in Faults
    /\ StallJob(j)
    /\ dropped' = IF jstalls[j] = MaxStalled THEN "stalled" ELSE dropped
    /\ UNCHANGED <<factVars, scoreVars, calcVars>>

\* removeOnFail.  Ids are never used again, so that this only returns an id to the model's
\* finite set of them.
Evict(j) ==
    /\ EvictJob(j)
    /\ UNCHANGED <<factVars, scoreVars, calcVars, dropped>>

Next ==
    \/ StoreCommit \/ StoreReview \/ AttributeCommit \/ FactLeaves
    \/ EnqueueOwed \/ TriggerRecalculation
    \/ \E w \in Worker, j \in JobId : Take(w, j)
    \/ \E c \in Calculator : CalculationStep(c)
    \/ \E r \in Reader : GetDQS(r) \/ ReadStep(r)
    \/ Expire \/ Crash
    \/ \E j \in JobId : Stall(j) \/ Evict(j)

Spec == Init /\ [][Next]_vars

\* Async functions go on, the worker takes jobs, BullMQ checks for stalled jobs, Redis
\* expires entries.  New facts, requests and faults need not happen.
Fairness ==
    /\ WF_vars(EnqueueOwed)
    /\ \A w \in Worker : WF_vars(\E j \in JobId : Take(w, j))
    /\ \A c \in Calculator : WF_vars(CalculationStep(c))
    /\ \A r \in Reader : WF_vars(ReadStep(r))
    /\ \A j \in JobId : WF_vars(Abandoned(j) /\ Stall(j)) /\ WF_vars(Evict(j))
    /\ WF_vars(Expire)

FairSpec == Spec /\ Fairness

-----------------------------------------------------------------------------
\* Properties.

\* The newest score does not show all the facts stored, though there are enough of them.
Lagging == commits >= MinCommits /\ latest # Facts

\* The calculation of w will store, or has yet to read, the facts as they are now.
Fresh(w) ==
    \/ cpc[w] = "commits"
    \/ cpc[w] = "reviews" /\ crow[w].commits = commits
    \/ cpc[w] = "store" /\ crow[w] = Facts

\* Job j will show the facts as they are now.
UnderWay(j) ==
    \/ jstate[j] = "waiting"
    \/ /\ jstate[j] = "active"
       /\ \A w \in Worker : jowner[j] = w /\ cjob[w] = j => Fresh(w)

Pending == owed > 0 \/ \E j \in JobId : UnderWay(j)

\* New commits and reviews trigger a recalculation: while the newest score lags behind the
\* facts, one is under way that will show them, or, since the score was last up to date,
\* one was lost or not asked for in one of the ways listed in Loss: there are no others.
LagHasCause == Lagging => Pending \/ dropped # None

\* What LagHasCause rests on: a worker has a job as long as it calculates.
RunningHaveJobs == \A w \in Worker : cpc[w] = "idle" <=> cjob[w] = None

\* The inductive invariant.
IInv ==
    /\ TypeOK
    /\ JobsLive
    /\ RunningHaveJobs
    /\ LagHasCause

\* Lagging does not last: the facts are shown in the end, or a recalculation is lost.
LagEnds == Lagging ~> (~Lagging \/ dropped # None)

\* When facts and calculations come to rest, the cache stops serving an older score: an
\* entry put back by a late reader lasts for its hour and not longer.
CacheConverges == <>[](cache \in {None, latest})
=============================================================================
