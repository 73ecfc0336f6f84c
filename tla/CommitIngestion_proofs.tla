------------------------ MODULE CommitIngestion_proofs ------------------------
(***************************************************************************)
(* CommitIngestion for any number of commits, workers and polls, any       *)
(* number of attempts and stalls and any set of faults: the safety         *)
(* properties, and that it implements CommitLedger.  One lemma per action  *)
(* shows that it preserves IInv, with a step for each conjunct the action  *)
(* can disturb.                                                            *)
(***************************************************************************)
EXTENDS CommitIngestion, TLAPS

\* The operations of the queue keep it well-formed: what they leave waiting or active has an
\* attempt left.
LEMMA QueueKept ==
    ASSUME QueueTypeOK, JobsLive, NEW c \in JobId,
           \/ AddJob(c) \/ StallJob(c) \/ EvictJob(c) \/ UNCHANGED queueVars
           \/ \E w \in Worker : TakeJob(w, c) \/ CompleteJob(w, c) \/ FailJob(w, c)
    PROVE  QueueTypeOK' /\ JobsLive'
<1> USE QueueAssumption DEF QueueTypeOK, JobsLive, JobState, queueVars
<1>1. CASE AddJob(c)
  BY <1>1 DEF AddJob
<1>2. CASE \E w \in Worker : TakeJob(w, c)
  BY <1>2 DEF TakeJob
<1>3. CASE \E w \in Worker : CompleteJob(w, c)
  BY <1>3 DEF CompleteJob
<1>4. ASSUME NEW w \in Worker, FailJob(w, c) PROVE QueueTypeOK' /\ JobsLive'
  <2>1. CASE jowner[c] = w
    <3>1. jtries[c] \in 0..MaxAttempts /\ jtries[c] < MaxAttempts
      BY <2>1
    <3>2. QED
      BY <1>4, <2>1, <3>1 DEF FailJob
  <2>2. CASE jowner[c] # w
    BY <1>4, <2>2 DEF FailJob
  <2>3. QED
    BY <2>1, <2>2
<1>5. CASE StallJob(c)
  BY <1>5 DEF StallJob
<1>6. CASE EvictJob(c)
  BY <1>6 DEF EvictJob
<1>7. CASE UNCHANGED queueVars
  BY <1>7
<1>8. QED
  BY <1>1, <1>2, <1>3, <1>4, <1>5, <1>6, <1>7

\* A worker goes on with its job or lets go of it.
LEMMA WorkersKept ==
    ASSUME TypeOK, WorkersHaveJobs, NEW w \in Worker,
           \/ FreeWorker(w)
           \/ wjob[w] \in Commit /\ \E to \in WorkerStage : GoWorker(w, to)
    PROVE  /\ wpc' \in [Worker -> WorkerStage]
           /\ wjob' \in [Worker -> Commit \cup {None}]
           /\ WorkersHaveJobs'
<1>1. CASE FreeWorker(w)
  BY <1>1 DEF FreeWorker, TypeOK, WorkersHaveJobs, WorkerStage
<1>2. CASE wjob[w] \in Commit /\ \E to \in WorkerStage : GoWorker(w, to)
  BY <1>2 DEF GoWorker, TypeOK, WorkersHaveJobs
<1>3. QED
  BY <1>1, <1>2

\* A poll ends with nothing in its hands.
LEMMA PollEnded ==
    ASSUME TypeOK, NEW p \in Poller, EndPoll(p)
    PROVE  /\ ppc' \in [Poller -> PollStage] /\ pkind' \in [Poller -> PollKind]
           /\ psince' \in [Poller -> (0..MaxTime) \cup {None}]
           /\ pfound' \in [Poller -> SUBSET Commit] /\ unseen' \in [Poller -> SUBSET Commit]
           /\ pstamp' \in [Poller -> 0..MaxTime]
           /\ isPolling' \in BOOLEAN
<1> USE IngestionAssumption DEF TypeOK, EndPoll
<1>1. ppc' \in [Poller -> PollStage] /\ pkind' \in [Poller -> PollKind]
  BY DEF PollStage, PollKind
<1>2. psince' \in [Poller -> (0..MaxTime) \cup {None}] /\ pstamp' \in [Poller -> 0..MaxTime]
  OBVIOUS
<1>3. pfound' \in [Poller -> SUBSET Commit] /\ unseen' \in [Poller -> SUBSET Commit]
  OBVIOUS
<1>4. QED
  BY <1>1, <1>2, <1>3

\* A commit gets a reason only if it has none, and the ones that are due one get it.
LEMMA MissKeeps ==
    ASSUME TypeOK, NEW cs \in SUBSET Commit, NEW cause \in MissCause
    PROVE  /\ Miss(cs, cause) \in [Commit -> MissCause \cup {None}]
           /\ \A c \in Commit : missed[c] # None => Miss(cs, cause)[c] = missed[c]
           /\ \A c \in cs : c \in stored \/ Miss(cs, cause)[c] # None
<1> DEFINE M(c) == IF c \in cs \ stored /\ missed[c] = None THEN cause ELSE missed[c]
<1>1. None \notin MissCause
  BY IngestionAssumption
<1>2. \A c \in Commit : M(c) \in MissCause \cup {None}
  BY DEF TypeOK
<1>3. Miss(cs, cause) = [c \in Commit |-> M(c)]
  BY DEF Miss
<1>4. \A c \in Commit : (missed[c] # None => M(c) = missed[c]) /\ (c \in cs \ stored => M(c) # None)
  BY <1>1
<1> HIDE DEF M
<1>5. QED
  BY <1>2, <1>3, <1>4

\* Ranks are numbers, and no two follow-ups have the same one.
LEMMA Ranks ==
    /\ \A k \in FollowUp : Rank[k] \in 1..5
    /\ \A j, k \in FollowUp : Rank[j] = Rank[k] => j = k
    /\ Rank["create"] = 0
BY IngestionAssumption DEF FollowUpKind, Rank

\* After a follow-up come those ranked above it, and it is not among them; after the insert
\* come all of them.
LEMMA ComesAfter ==
    ASSUME NEW stage \in FollowUp \cup {"create"}
    PROVE  /\ After(stage) \in FollowUp \cup {"finish"}
           /\ ToCome(After(stage)) = {k \in FollowUp : Rank[stage] < Rank[k]}
           /\ stage \in FollowUp =>
                /\ ToCome(stage) = ToCome(After(stage)) \cup {stage}
                /\ stage \notin ToCome(After(stage))
           /\ stage = "create" => ToCome(After(stage)) = FollowUp
<1> DEFINE later == {k \in FollowUp : Rank[stage] < Rank[k]}
<1>1. Rank[stage] \in 0..5 /\ \A k \in FollowUp : Rank[k] \in 1..5
  BY Ranks
<1>2. ToCome("finish") = {}
  BY IngestionAssumption DEF ToCome, FollowUpKind
<1>3. CASE later = {}
  <2>1. After(stage) = "finish"
    BY <1>3 DEF After
  <2>2. QED
    BY <1>1, <1>2, <1>3, <2>1, Ranks DEF ToCome
<1>4. CASE later # {}
  <2>1. \E k \in later : \A j \in later : Rank[k] <= Rank[j]
    <3>1. DEFINE In(n) == \E k \in later : Rank[k] = n
    <3>2. In(1) \/ In(2) \/ In(3) \/ In(4) \/ In(5)
      BY <1>1, <1>4
    <3>3. \E n \in 1..5 : In(n) /\ \A m \in 1..5 : In(m) => n <= m
      <4> HIDE DEF In
      <4> QED
        BY <3>2
    <3>4. PICK n \in 1..5 : In(n) /\ \A m \in 1..5 : In(m) => n <= m
      BY <3>3
    <3>5. PICK k \in later : Rank[k] = n
      BY <3>4
    <3>6. \A j \in later : In(Rank[j]) /\ Rank[j] \in 1..5
      BY <1>1
    <3>7. QED
      BY <3>4, <3>5, <3>6
  <2>2. /\ After(stage) \in later
        /\ \A j \in later : Rank[After(stage)] <= Rank[j]
    BY <1>4, <2>1 DEF After
  <2>3. ToCome(After(stage)) = later
    BY <1>1, <2>2 DEF ToCome
  <2>4. QED
    BY <1>1, <2>2, <2>3, Ranks DEF ToCome
<1>5. QED
  BY <1>3, <1>4

\* Elsewhere a worker has no follow-up before it.
LEMMA NothingToCome ==
    \A stage \in {"idle", "check", "fetch", "create", "finish"} : ToCome(stage) = {}
BY IngestionAssumption DEF ToCome, FollowUpKind

\* Nothing is pushed, queued or running at the start.
LEMMA InitEstablishes == Init => IInv
<1> SUFFICES ASSUME Init PROVE IInv
  OBVIOUS
<1> USE QueueAssumption, IngestionAssumption DEF Init, QueueInit
<1>1. TypeOK
  <2>1. QueueTypeOK
    BY DEF QueueTypeOK, JobState
  <2>2. pfound \in [Poller -> SUBSET Commit] /\ unseen \in [Poller -> SUBSET Commit]
    OBVIOUS
  <2>3. now \in 0..MaxTime /\ dated \in [Commit -> 0..MaxTime]
    OBVIOUS
  <2>4. followUps \in [Commit -> [FollowUp -> Nat]] /\ missed \in [Commit -> MissCause \cup {None}]
    OBVIOUS
  <2>5. wpc \in [Worker -> WorkerStage] /\ wjob \in [Worker -> Commit \cup {None}]
    BY DEF WorkerStage
  <2>6. /\ ppc \in [Poller -> PollStage]
        /\ pkind \in [Poller -> PollKind]
        /\ psince \in [Poller -> (0..MaxTime) \cup {None}]
        /\ pstamp \in [Poller -> 0..MaxTime]
    BY DEF PollStage, PollKind
  <2>7. QED
    BY <2>1, <2>2, <2>3, <2>4, <2>5, <2>6 DEF TypeOK
<1>2. JobsLive /\ WorkersHaveJobs /\ OnlyPushed
  BY DEF JobsLive, WorkersHaveJobs, OnlyPushed
<1>3. \A w \in Worker : ~Following(w) /\ ToCome(wpc[w]) = {}
  BY NothingToCome DEF Following, FollowUpKind
<1>4. FollowersIInv
  BY <1>3 DEF FollowersIInv, FollowUpsOfStored, FollowUpsAtMostOnce, FollowerIsFirst,
              SwallowedRan, OneFollower, UnfollowedHasCause
<1>5. CompletedIsStored /\ CronPollsExclusive
  BY DEF CompletedIsStored, CronPollsExclusive
<1>6. QED
  BY <1>1, <1>2, <1>4, <1>5 DEF IInv

\* A step that runs no follow-up, and after which those that had some before them, or had
\* run them, are where they were or idle with none left.
LEMMA FollowersKept ==
    ASSUME FollowersIInv, UNCHANGED <<stored, followVars>>,
           \A v \in Worker : Following(v)' => wpc'[v] = wpc[v] /\ wjob'[v] = wjob[v],
           \A v \in Worker : ToCome(wpc[v]) # {} => wpc'[v] = wpc[v] /\ wjob'[v] = wjob[v]
    PROVE  FollowersIInv'
<1> USE DEF FollowersIInv, followVars
<1>1. \A v \in Worker : Following(v)' => Following(v) /\ wpc'[v] = wpc[v] /\ wjob'[v] = wjob[v]
  BY DEF Following
<1>2. \A v \in Worker : ToCome(wpc'[v]) # {} => wpc'[v] = wpc[v] /\ wjob'[v] = wjob[v]
  BY <1>1 DEF Following, ToCome
<1>3. FollowUpsOfStored' /\ FollowUpsAtMostOnce' /\ SwallowedRan'
  BY DEF FollowUpsOfStored, FollowUpsAtMostOnce, SwallowedRan
<1>4. FollowerIsFirst'
  BY <1>1, <1>2 DEF FollowerIsFirst
<1>5. OneFollower'
  BY <1>1 DEF OneFollower
<1>6. \A c \in Commit, k \in FollowUp : Coming(c, k)' <=> Coming(c, k)
  BY <1>2 DEF Coming
<1>7. UnfollowedHasCause'
  BY <1>6 DEF UnfollowedHasCause, Followed
<1>8. QED
  BY <1>3, <1>4, <1>5, <1>7

\* Time passes.
LEMMA TickPreserves ==
    ASSUME IInv, Tick
    PROVE  IInv'
<1> USE QueueAssumption, IngestionAssumption DEF IInv, TypeOK, QueueTypeOK, queueVars,
           workerVars, pollVars, gitVars, dbVars, followVars
<1>1. TypeOK'
  BY DEF JobState, WorkerStage, PollStage, PollKind, Tick
<1>2. JobsLive' /\ WorkersHaveJobs'
  BY DEF JobsLive, WorkersHaveJobs, Tick
<1>3. OnlyPushed'
  BY DEF OnlyPushed, JobsLive, WorkersHaveJobs, Tick
<1>4. FollowersIInv'
  BY FollowersKept DEF Tick
<1>5. CompletedIsStored'
  BY DEF CompletedIsStored, Tick
<1>6. CronPollsExclusive'
  BY DEF CronPollsExclusive, Tick
<1>7. QED
  BY <1>1, <1>2, <1>3, <1>4, <1>5, <1>6

\* More commits are pushed, none fewer.
LEMMA PushToGitHubPreserves ==
    ASSUME IInv, NEW c \in Commit, NEW d \in 0..MaxTime, PushToGitHub(c, d)
    PROVE  IInv'
<1> USE QueueAssumption, IngestionAssumption DEF IInv, TypeOK, QueueTypeOK, queueVars,
           workerVars, pollVars, gitVars, dbVars, followVars
<1>1. TypeOK'
  <2>1. pushed' \subseteq Commit /\ onDefault' \subseteq pushed' /\ dated' \in [Commit -> 0..MaxTime]
    BY DEF PushToGitHub, ReachDefault
  <2>2. missed' \in [Commit -> MissCause \cup {None}]
    BY MissKeeps DEF MissCause, PushToGitHub, ReachDefault
  <2>3. unseen' \in [Poller -> SUBSET Commit]
    <3>1. CASE ReachDefault(c, d)
      BY <3>1 DEF ReachDefault
    <3>2. CASE UNCHANGED pollVars
      BY <3>2
    <3>3. QED
      BY <3>1, <3>2 DEF PushToGitHub
  <2>4. QED
    BY <2>1, <2>2, <2>3 DEF PushToGitHub, ReachDefault
<1>2. JobsLive' /\ WorkersHaveJobs'
  BY DEF JobsLive, WorkersHaveJobs, PushToGitHub, ReachDefault, Miss
<1>3. OnlyPushed'
  BY DEF OnlyPushed, JobsLive, WorkersHaveJobs, PushToGitHub, ReachDefault, Miss
<1>4. FollowersIInv'
  BY FollowersKept DEF PushToGitHub, ReachDefault, Miss
<1>5. CompletedIsStored'
  BY DEF CompletedIsStored, PushToGitHub, ReachDefault, Miss
<1>6. CronPollsExclusive'
  BY DEF CronPollsExclusive, PushToGitHub, ReachDefault, Miss
<1>7. QED
  BY <1>1, <1>2, <1>3, <1>4, <1>5, <1>6

\* A commit of another branch gets on the default branch.
LEMMA MergeBranchPreserves ==
    ASSUME IInv, NEW c \in Commit, MergeBranch(c)
    PROVE  IInv'
<1> USE QueueAssumption, IngestionAssumption DEF IInv, TypeOK, QueueTypeOK, queueVars,
           workerVars, pollVars, gitVars, dbVars, followVars
<1>1. TypeOK'
  BY DEF JobState, WorkerStage, PollStage, PollKind, MissCause, MergeBranch, ReachDefault, Miss
<1>2. JobsLive' /\ WorkersHaveJobs'
  BY DEF JobsLive, WorkersHaveJobs, MergeBranch, ReachDefault, Miss
<1>3. OnlyPushed'
  BY DEF OnlyPushed, JobsLive, WorkersHaveJobs, MergeBranch, ReachDefault, Miss
<1>4. FollowersIInv'
  BY FollowersKept DEF MergeBranch, ReachDefault, Miss
<1>5. CompletedIsStored'
  BY DEF CompletedIsStored, MergeBranch, ReachDefault, Miss
<1>6. CronPollsExclusive'
  BY DEF CronPollsExclusive, MergeBranch, ReachDefault, Miss
<1>7. QED
  BY <1>1, <1>2, <1>3, <1>4, <1>5, <1>6

\* Or leaves it.
LEMMA ForcePushPreserves ==
    ASSUME IInv, NEW c \in Commit, ForcePush(c)
    PROVE  IInv'
<1> USE QueueAssumption, IngestionAssumption DEF IInv, TypeOK, QueueTypeOK, queueVars,
           workerVars, pollVars, gitVars, dbVars, followVars
<1>1. TypeOK'
  BY DEF JobState, WorkerStage, PollStage, PollKind, ForcePush
<1>2. JobsLive' /\ WorkersHaveJobs'
  BY DEF JobsLive, WorkersHaveJobs, ForcePush
<1>3. OnlyPushed'
  BY DEF OnlyPushed, JobsLive, WorkersHaveJobs, ForcePush
<1>4. FollowersIInv'
  BY FollowersKept DEF ForcePush
<1>5. CompletedIsStored'
  BY DEF CompletedIsStored, ForcePush
<1>6. CronPollsExclusive'
  BY DEF CronPollsExclusive, ForcePush
<1>7. QED
  BY <1>1, <1>2, <1>3, <1>4, <1>5, <1>6

\* The commit of the job was pushed.
LEMMA WebhookQueuesPreserves ==
    ASSUME IInv, NEW c \in Commit, WebhookQueues(c)
    PROVE  IInv'
<1> USE QueueAssumption, IngestionAssumption DEF IInv, TypeOK, QueueTypeOK, queueVars,
           workerVars, pollVars, gitVars, dbVars, followVars
<1>0. QueueTypeOK' /\ JobsLive'
  BY QueueKept DEF WebhookQueues
<1>1. TypeOK'
  BY <1>0 DEF WebhookQueues
<1>2. JobsLive' /\ WorkersHaveJobs'
  BY <1>0 DEF WorkersHaveJobs, WebhookQueues
<1>3. OnlyPushed'
  BY DEF OnlyPushed, JobsLive, WorkersHaveJobs, WebhookQueues, AddJob
<1>4. FollowersIInv'
  BY FollowersKept DEF WebhookQueues, AddJob
<1>5. CompletedIsStored'
  BY DEF CompletedIsStored, WebhookQueues, AddJob
<1>6. CronPollsExclusive'
  BY DEF CronPollsExclusive, WebhookQueues, AddJob
<1>7. QED
  BY <1>1, <1>2, <1>3, <1>4, <1>5, <1>6

\* A waiting job has an attempt left, and its commit was pushed.
LEMMA TakePreserves ==
    ASSUME IInv, NEW w \in Worker, NEW c \in Commit, Take(w, c)
    PROVE  IInv'
<1> USE QueueAssumption, IngestionAssumption DEF IInv, TypeOK, QueueTypeOK, queueVars,
           workerVars, pollVars, gitVars, dbVars, followVars
<1>1. QueueTypeOK'
  BY DEF JobState, JobsLive, Take, TakeJob
<1>2. TypeOK'
  BY <1>1 DEF WorkerStage, Take, TakeJob
<1>3. JobsLive' /\ WorkersHaveJobs'
  BY DEF JobsLive, WorkersHaveJobs, Take, TakeJob
<1>4. OnlyPushed'
  BY DEF OnlyPushed, JobsLive, Take, TakeJob
<1>5. FollowersIInv'
  BY FollowersKept, NothingToCome DEF Following, FollowUpKind, Take, TakeJob
<1>6. CompletedIsStored'
  BY DEF CompletedIsStored, OnlyPushed, Take, TakeJob
<1>7. CronPollsExclusive'
  BY DEF CronPollsExclusive, Take
<1>8. QED
  BY <1>1, <1>2, <1>3, <1>4, <1>5, <1>6, <1>7

\* A job completed here has its row.
LEMMA CheckExistingPreserves ==
    ASSUME IInv, NEW w \in Worker, CheckExisting(w)
    PROVE  IInv'
<1> USE QueueAssumption, IngestionAssumption DEF IInv, TypeOK, QueueTypeOK, queueVars,
           workerVars, pollVars, gitVars, dbVars, followVars
<1>1. wjob[w] \in Commit
  BY DEF WorkersHaveJobs, FollowUpKind, CheckExisting, Throw
<1>2. QueueTypeOK' /\ JobsLive'
  BY <1>1, QueueKept DEF CheckExisting, Throw
<1>3. /\ wpc' \in [Worker -> WorkerStage]
      /\ wjob' \in [Worker -> Commit \cup {None}]
      /\ WorkersHaveJobs'
  BY <1>1, WorkersKept DEF CheckExisting, Throw, WorkerStage
<1>4. TypeOK'
  BY <1>2, <1>3 DEF CheckExisting, Throw
<1>5. OnlyPushed'
  <2>1. UNCHANGED <<stored, pushed, pfound>>
    BY DEF CheckExisting, Throw
  <2>2. \A v \in Worker : wjob'[v] \in {wjob[v], None}
    BY DEF CheckExisting, Throw, GoWorker, FreeWorker
  <2>3. wjob[w] \in pushed
    BY <1>1 DEF OnlyPushed
  <2>4. \A c \in Commit : jstate'[c] # "absent" => c = wjob[w] \/ jstate[c] # "absent"
    BY <1>1 DEF CheckExisting, Throw, CompleteJob, FailJob
  <2>5. QED
    BY <2>1, <2>2, <2>3, <2>4 DEF OnlyPushed
<1>6. FollowersIInv'
  <2>1. ToCome(wpc[w]) = {} /\ ~Following(w)' /\ UNCHANGED <<stored, followVars>>
    BY <1>1, NothingToCome DEF Following, FollowUpKind, CheckExisting, Throw, GoWorker, FreeWorker
  <2>2. \A v \in Worker \ {w} : wpc'[v] = wpc[v] /\ wjob'[v] = wjob[v]
    BY <1>1 DEF CheckExisting, Throw, GoWorker, FreeWorker
  <2>3. QED
    BY <2>1, <2>2, FollowersKept
<1>7. CompletedIsStored'
  BY <1>1 DEF CompletedIsStored, OnlyPushed, CheckExisting, Throw, CompleteJob, FailJob, GoWorker, FreeWorker
<1>8. CronPollsExclusive'
  BY DEF CronPollsExclusive, CheckExisting, Throw
<1>9. QED
  BY <1>1, <1>2, <1>3, <1>4, <1>5, <1>6, <1>7, <1>8

\* A failed attempt had an attempt left to use.
LEMMA FetchDetailPreserves ==
    ASSUME IInv, NEW w \in Worker, FetchDetail(w)
    PROVE  IInv'
<1> USE QueueAssumption, IngestionAssumption DEF IInv, TypeOK, QueueTypeOK, queueVars,
           workerVars, pollVars, gitVars, dbVars, followVars
<1>1. wjob[w] \in Commit
  BY DEF WorkersHaveJobs, FollowUpKind, FetchDetail, Throw
<1>2. QueueTypeOK' /\ JobsLive'
  BY <1>1, QueueKept DEF FetchDetail, Throw
<1>3. /\ wpc' \in [Worker -> WorkerStage]
      /\ wjob' \in [Worker -> Commit \cup {None}]
      /\ WorkersHaveJobs'
  BY <1>1, WorkersKept DEF FetchDetail, Throw, WorkerStage
<1>4. TypeOK'
  BY <1>2, <1>3 DEF FetchDetail, Throw
<1>5. OnlyPushed'
  <2>1. UNCHANGED <<stored, pushed, pfound>>
    BY DEF FetchDetail, Throw
  <2>2. \A v \in Worker : wjob'[v] \in {wjob[v], None}
    BY DEF FetchDetail, Throw, GoWorker, FreeWorker
  <2>3. wjob[w] \in pushed
    BY <1>1 DEF OnlyPushed
  <2>4. \A c \in Commit : jstate'[c] # "absent" => c = wjob[w] \/ jstate[c] # "absent"
    BY <1>1 DEF FetchDetail, Throw, CompleteJob, FailJob
  <2>5. QED
    BY <2>1, <2>2, <2>3, <2>4 DEF OnlyPushed
<1>6. FollowersIInv'
  <2>1. ToCome(wpc[w]) = {} /\ ~Following(w)' /\ UNCHANGED <<stored, followVars>>
    BY <1>1, NothingToCome DEF Following, FollowUpKind, FetchDetail, Throw, GoWorker, FreeWorker
  <2>2. \A v \in Worker \ {w} : wpc'[v] = wpc[v] /\ wjob'[v] = wjob[v]
    BY <1>1 DEF FetchDetail, Throw, GoWorker, FreeWorker
  <2>3. QED
    BY <2>1, <2>2, FollowersKept
<1>7. CompletedIsStored'
  BY <1>1 DEF CompletedIsStored, OnlyPushed, FetchDetail, Throw, FailJob, GoWorker, FreeWorker
<1>8. CronPollsExclusive'
  BY DEF CronPollsExclusive, FetchDetail, Throw
<1>9. QED
  BY <1>1, <1>2, <1>3, <1>4, <1>5, <1>6, <1>7, <1>8

\* Only the inserter goes on to the follow-ups, all of them, and nobody ran them for a commit
\* that had no row.
LEMMA CreateCommitPreserves ==
    ASSUME IInv, NEW w \in Worker, CreateCommit(w)
    PROVE  IInv'
<1> USE QueueAssumption, IngestionAssumption DEF IInv, TypeOK, QueueTypeOK, queueVars,
           workerVars, pollVars, gitVars, dbVars, followVars
<1>1. wjob[w] \in Commit /\ wpc[w] = "create"
  BY DEF WorkersHaveJobs, CreateCommit
<1>2. QueueTypeOK' /\ JobsLive'
  BY <1>1, QueueKept DEF CreateCommit, Throw
<1>3. After("create") \in FollowUp \cup {"finish"} /\ ToCome(After("create")) = FollowUp
  BY ComesAfter
<1>4. TypeOK'
  <2>1. /\ wpc' \in [Worker -> WorkerStage]
        /\ wjob' \in [Worker -> Commit \cup {None}]
        /\ WorkersHaveJobs'
    BY <1>1, <1>3, WorkersKept DEF WorkerStage, CreateCommit, Throw
  <2>2. stored' \subseteq Commit /\ cutShort' \subseteq Commit \X FollowUp
    BY <1>1 DEF CreateCommit, Throw
  <2>3. QED
    BY <1>2, <2>1, <2>2 DEF CreateCommit, Throw
<1>5. JobsLive' /\ WorkersHaveJobs'
  BY <1>1, <1>2, <1>3, WorkersKept DEF WorkerStage, CreateCommit, Throw
<1>6. OnlyPushed'
  <2>1. wjob[w] \in pushed /\ UNCHANGED <<pushed, pollVars>>
    BY <1>1 DEF OnlyPushed, CreateCommit, Throw
  <2>2. stored' \subseteq pushed /\ \A v \in Worker : wjob'[v] \in {wjob[v], None}
    BY <2>1 DEF OnlyPushed, CreateCommit, Throw, GoWorker, FreeWorker
  <2>3. \A c \in Commit : jstate'[c] # "absent" => c = wjob[w] \/ jstate[c] # "absent"
    BY <1>1 DEF CreateCommit, Throw, FailJob
  <2>4. QED
    BY <2>1, <2>2, <2>3 DEF OnlyPushed
<1>7. CompletedIsStored' /\ CronPollsExclusive'
  BY <1>1 DEF CompletedIsStored, CronPollsExclusive, JobsLive, CreateCommit, Throw, FailJob
<1>8. ASSUME wjob[w] \notin stored
      PROVE  /\ \A k \in FollowUp : followUps[wjob[w]][k] = 0
             /\ \A k \in FollowUp : <<wjob[w], k>> \notin cutShort \cup swallowed
             /\ \A v \in Worker : Following(v) => wjob[v] # wjob[w]
  BY <1>1, <1>8 DEF FollowersIInv, FollowUpsOfStored, UnfollowedHasCause, FollowerIsFirst
<1>9. CASE Throw(w)
  <2>1. FollowersIInv'
    <3>1. ToCome(wpc[w]) = {} /\ ~Following(w)' /\ UNCHANGED <<stored, followVars>>
      BY <1>1, <1>9, NothingToCome DEF Following, FollowUpKind, Throw, FreeWorker
    <3>2. \A v \in Worker \ {w} : wpc'[v] = wpc[v] /\ wjob'[v] = wjob[v]
      BY <1>1, <1>9 DEF Throw, FreeWorker
    <3>3. QED
      BY <3>1, <3>2, FollowersKept
  <2>2. QED
    BY <1>4, <1>5, <1>6, <1>7, <2>1
<1>10. CASE /\ wjob[w] \notin stored
            /\ stored' = stored \cup {wjob[w]}
            /\ GoWorker(w, After("create"))
            /\ UNCHANGED followVars
  <2>1. /\ wpc'[w] = After("create") /\ wjob' = wjob
        /\ \A v \in Worker \ {w} : wpc'[v] = wpc[v]
    BY <1>10 DEF GoWorker
  <2>2. FollowUpsOfStored' /\ FollowUpsAtMostOnce' /\ SwallowedRan'
    BY <1>10 DEF FollowersIInv, FollowUpsOfStored, FollowUpsAtMostOnce, SwallowedRan
  <2>3. FollowerIsFirst'
    <3> SUFFICES ASSUME NEW v \in Worker
                 PROVE  /\ Following(v)' => wjob[v] \in stored'
                        /\ \A k \in ToCome(wpc'[v]) : followUps[wjob[v]][k] = 0
      BY <1>10, <2>1 DEF FollowerIsFirst
    <3>1. CASE v = w
      BY <1>3, <1>8, <1>10, <2>1, <3>1
    <3>2. CASE v # w
      BY <1>10, <2>1, <3>2 DEF FollowersIInv, FollowerIsFirst, Following
    <3>3. QED
      BY <3>1, <3>2
  <2>4. OneFollower'
    BY <1>8, <1>10, <2>1 DEF FollowersIInv, OneFollower, Following
  <2>5. UnfollowedHasCause'
    <3> SUFFICES ASSUME NEW c \in Commit, NEW k \in FollowUp
                 PROVE  <<c, k>> \in cutShort \cup swallowed <=>
                            c \in stored' /\ ~Followed(c, k)' /\ ~Coming(c, k)'
      BY <1>10 DEF UnfollowedHasCause
    <3>1. CASE c = wjob[w]
      BY <1>3, <1>8, <1>10, <2>1, <3>1 DEF Coming
    <3>2. CASE c # wjob[w]
      <4>1. Coming(c, k)' <=> Coming(c, k)
        BY <2>1, <3>2 DEF Coming
      <4>2. QED
        BY <1>10, <3>2, <4>1 DEF FollowersIInv, UnfollowedHasCause, Followed
    <3>3. QED
      BY <3>1, <3>2
  <2>6. QED
    BY <1>4, <1>5, <1>6, <1>7, <2>2, <2>3, <2>4, <2>5 DEF FollowersIInv
<1>11. CASE /\ wjob[w] \notin stored
            /\ stored' = stored \cup {wjob[w]}
            /\ cutShort' = cutShort \cup ({wjob[w]} \X FollowUp)
            /\ FreeWorker(w)
            /\ UNCHANGED <<followUps, swallowed>>
  <2>1. /\ wpc'[w] = "idle"
        /\ \A v \in Worker \ {w} : wpc'[v] = wpc[v] /\ wjob'[v] = wjob[v]
    BY <1>11 DEF FreeWorker
  <2>2. ToCome("idle") = {} /\ ToCome("create") = {} /\ ~Following(w)'
    BY <2>1, NothingToCome DEF Following, FollowUpKind
  <2>3. FollowUpsOfStored' /\ FollowUpsAtMostOnce' /\ SwallowedRan'
    BY <1>11 DEF FollowersIInv, FollowUpsOfStored, FollowUpsAtMostOnce, SwallowedRan
  <2>4. FollowerIsFirst' /\ OneFollower'
    <3>1. \A v \in Worker : Following(v)' \/ ToCome(wpc'[v]) # {} => v # w
      BY <2>1, <2>2
    <3>2. \A v \in Worker : v # w => (Following(v)' <=> Following(v))
      BY <2>1 DEF Following
    <3>3. FollowerIsFirst'
      <4> SUFFICES ASSUME NEW v \in Worker
                   PROVE  /\ Following(v)' => wjob'[v] \in stored'
                          /\ \A k \in ToCome(wpc'[v]) : followUps'[wjob'[v]][k] = 0
        BY DEF FollowerIsFirst
      <4>1. CASE v = w
        BY <3>1, <4>1
      <4>2. CASE v # w
        BY <1>11, <2>1, <3>2, <4>2 DEF FollowersIInv, FollowerIsFirst
      <4>3. QED
        BY <4>1, <4>2
    <3>4. OneFollower'
      BY <2>1, <3>1, <3>2 DEF FollowersIInv, OneFollower
    <3>5. QED
      BY <3>3, <3>4
  <2>5. UnfollowedHasCause'
    <3> SUFFICES ASSUME NEW c \in Commit, NEW k \in FollowUp
                 PROVE  <<c, k>> \in cutShort' \cup swallowed' <=>
                            c \in stored' /\ ~Followed(c, k)' /\ ~Coming(c, k)'
      BY DEF UnfollowedHasCause
    <3>1. Coming(c, k)' <=> Coming(c, k)
      BY <1>1, <2>1, <2>2 DEF Coming
    <3>2. CASE c = wjob[w]
      <4>1. \A v \in Worker : k \in ToCome(wpc[v]) => Following(v)
        BY DEF ToCome, Following
      <4>2. QED
        BY <1>8, <1>11, <3>1, <3>2, <4>1 DEF Coming, Followed
    <3>3. CASE c # wjob[w]
      BY <1>11, <3>1, <3>3 DEF FollowersIInv, UnfollowedHasCause, Followed
    <3>4. QED
      BY <3>2, <3>3
  <2>6. QED
    BY <1>4, <1>5, <1>6, <1>7, <2>3, <2>4, <2>5 DEF FollowersIInv
<1>12. QED
  BY <1>9, <1>10, <1>11 DEF CreateCommit

\* The follower is the only one, and the first; the run is done with, whether it failed or
\* not, and the others are still to come.
LEMMA RunFollowUpPreserves ==
    ASSUME IInv, NEW w \in Worker, RunFollowUp(w)
    PROVE  IInv'
<1> USE QueueAssumption, IngestionAssumption DEF IInv, TypeOK, QueueTypeOK, queueVars,
           workerVars, pollVars, gitVars, dbVars, followVars
<1>1. PICK c \in Commit, k \in FollowUp : wjob[w] = c /\ wpc[w] = k
  BY DEF RunFollowUp, WorkersHaveJobs, FollowUpKind
<1>2. /\ After(k) \in FollowUp \cup {"finish"}
      /\ ToCome(k) = ToCome(After(k)) \cup {k}
      /\ k \notin ToCome(After(k))
  BY <1>1, ComesAfter
<1>3. /\ wpc'[w] = After(k) /\ wjob' = wjob
      /\ \A v \in Worker \ {w} : wpc'[v] = wpc[v]
      /\ wpc' \in [Worker -> WorkerStage]
  BY <1>1, <1>2 DEF RunFollowUp, GoWorker, WorkerStage
<1>4. /\ followUps' \in [Commit -> [FollowUp -> Nat]]
      /\ followUps'[c][k] = followUps[c][k] + 1
      /\ \A d \in Commit, j \in FollowUp :
            <<d, j>> # <<c, k>> => followUps'[d][j] = followUps[d][j]
  BY <1>1 DEF RunFollowUp
<1>5. /\ swallowed \subseteq swallowed' /\ swallowed' \subseteq swallowed \cup {<<c, k>>}
      /\ UNCHANGED <<queueVars, pollVars, gitVars, stored, cutShort, lastSync, missed>>
  BY <1>1 DEF RunFollowUp
<1>6. TypeOK'
  BY <1>1, <1>3, <1>4, <1>5
<1>7. JobsLive' /\ WorkersHaveJobs' /\ OnlyPushed' /\ CompletedIsStored' /\ CronPollsExclusive'
  BY <1>1, <1>3, <1>5
     DEF FollowUpKind, JobsLive, WorkersHaveJobs, OnlyPushed, CompletedIsStored, CronPollsExclusive
<1>8. Following(w) /\ c \in stored /\ \A j \in ToCome(k) : followUps[c][j] = 0
  BY <1>1 DEF FollowersIInv, FollowerIsFirst, Following
<1>9. \A v \in Worker : Following(v) /\ wjob[v] = c => v = w
  BY <1>1, <1>8 DEF FollowersIInv, OneFollower
<1>10. \A v \in Worker : Following(v)' <=> Following(v)
  BY <1>1, <1>2, <1>3 DEF Following
<1>11. FollowUpsOfStored' /\ FollowUpsAtMostOnce' /\ SwallowedRan'
  <2>1. followUps'[c][k] = 1
    BY <1>2, <1>4, <1>8
  <2>2. \A d \in Commit, j \in FollowUp :
            \/ d = c /\ j = k
            \/ followUps'[d][j] = followUps[d][j] /\ <<d, j>> # <<c, k>>
    BY <1>4
  <2>3. FollowUpsOfStored'
    BY <1>5, <1>8, <2>2 DEF FollowersIInv, FollowUpsOfStored
  <2>4. FollowUpsAtMostOnce'
    <3> SUFFICES ASSUME NEW d \in Commit, NEW j \in FollowUp PROVE followUps'[d][j] <= 1
      BY DEF FollowUpsAtMostOnce
    <3>1. CASE d = c /\ j = k
      BY <2>1, <3>1
    <3>2. CASE followUps'[d][j] = followUps[d][j]
      BY <3>2 DEF FollowersIInv, FollowUpsAtMostOnce
    <3>3. QED
      BY <2>2, <3>1, <3>2
  <2>5. SwallowedRan'
    <3> SUFFICES ASSUME NEW d \in Commit, NEW j \in FollowUp, <<d, j>> \in swallowed'
                 PROVE  followUps'[d][j] > 0
      BY DEF SwallowedRan
    <3>1. CASE d = c /\ j = k
      BY <2>1, <3>1
    <3>2. CASE followUps'[d][j] = followUps[d][j] /\ <<d, j>> # <<c, k>>
      BY <1>5, <3>2 DEF FollowersIInv, SwallowedRan
    <3>3. QED
      BY <2>2, <3>1, <3>2
  <2>6. QED
    BY <2>3, <2>4, <2>5
<1>12. FollowerIsFirst'
  <2> SUFFICES ASSUME NEW v \in Worker
               PROVE  /\ Following(v)' => wjob[v] \in stored
                      /\ \A j \in ToCome(wpc'[v]) : followUps'[wjob[v]][j] = 0
    BY <1>3, <1>5 DEF FollowerIsFirst
  <2>1. Following(v)' => wjob[v] \in stored
    BY <1>10 DEF FollowersIInv, FollowerIsFirst
  <2>2. ASSUME NEW j \in ToCome(wpc'[v]) PROVE followUps'[wjob[v]][j] = 0
    <3>1. j \in FollowUp /\ j \in ToCome(wpc[v]) /\ <<wjob[v], j>> # <<c, k>>
      <4>1. CASE v = w
        BY <1>1, <1>2, <1>3, <2>2, <4>1 DEF ToCome
      <4>2. CASE v # w
        BY <1>1, <1>3, <1>9, <2>2, <4>2 DEF ToCome, Following
      <4>3. QED
        BY <4>1, <4>2
    <3>2. wjob[v] \in Commit
      BY <3>1, NothingToCome DEF WorkersHaveJobs
    <3>3. QED
      BY <1>4, <3>1, <3>2 DEF FollowersIInv, FollowerIsFirst
  <2>3. QED
    BY <2>1, <2>2
<1>13. OneFollower'
  BY <1>3, <1>10 DEF FollowersIInv, OneFollower
<1>14. UnfollowedHasCause'
  <2> SUFFICES ASSUME NEW d \in Commit, NEW j \in FollowUp
               PROVE  <<d, j>> \in cutShort' \cup swallowed' <=>
                          d \in stored' /\ ~Followed(d, j)' /\ ~Coming(d, j)'
    BY DEF UnfollowedHasCause
  <2>1. CASE d = c /\ j = k
    <3>1. Coming(c, k) /\ ~Coming(c, k)'
      <4>1. \A v \in Worker \ {w} : k \in ToCome(wpc[v]) => wjob[v] # c
        BY <1>9 DEF ToCome, Following
      <4>2. Coming(c, k)
        BY <1>1, <1>2 DEF Coming
      <4>3. ~Coming(c, k)'
        BY <1>1, <1>2, <1>3, <4>1 DEF Coming
      <4>4. QED
        BY <4>2, <4>3
    <3>2. <<c, k>> \notin cutShort \cup swallowed
      BY <1>1, <3>1 DEF FollowersIInv, UnfollowedHasCause
    <3>3. followUps'[c][k] > 0
      BY <1>1, <1>4
    <3>4. QED
      <4>1. <<c, k>> \in cutShort' \cup swallowed' <=> <<c, k>> \in swallowed'
        BY <1>5, <3>2
      <4>2. c \in stored' /\ (Followed(c, k)' <=> <<c, k>> \notin swallowed')
        BY <1>5, <1>8, <3>3 DEF Followed
      <4>3. QED
        BY <2>1, <3>1, <4>1, <4>2
  <2>2. CASE ~(d = c /\ j = k)
    <3>1. Coming(d, j)' <=> Coming(d, j)
      BY <1>1, <1>2, <1>3, <2>2 DEF Coming
    <3>2. Followed(d, j)' <=> Followed(d, j)
      BY <1>4, <1>5, <2>2 DEF Followed
    <3>3. <<d, j>> \in swallowed' <=> <<d, j>> \in swallowed
      BY <1>5, <2>2
    <3>4. QED
      BY <1>5, <3>1, <3>2, <3>3 DEF FollowersIInv, UnfollowedHasCause
  <2>3. QED
    BY <2>1, <2>2
<1>15. QED
  BY <1>6, <1>7, <1>11, <1>12, <1>13, <1>14 DEF FollowersIInv

\* A worker that has followed a commit up inserted it.
LEMMA FinishPreserves ==
    ASSUME IInv, NEW w \in Worker, Finish(w)
    PROVE  IInv'
<1> USE QueueAssumption, IngestionAssumption DEF IInv, TypeOK, QueueTypeOK, queueVars,
           workerVars, pollVars, gitVars, dbVars, followVars
<1>1. wjob[w] \in Commit
  BY DEF WorkersHaveJobs, FollowUpKind, Finish
<1>2. QueueTypeOK' /\ JobsLive'
  BY <1>1, QueueKept DEF Finish
<1>3. /\ wpc' \in [Worker -> WorkerStage]
      /\ wjob' \in [Worker -> Commit \cup {None}]
      /\ WorkersHaveJobs'
  BY WorkersKept DEF Finish
<1>4. TypeOK'
  BY <1>2, <1>3 DEF Finish
<1>5. OnlyPushed'
  BY <1>1 DEF OnlyPushed, JobsLive, Finish, CompleteJob, FreeWorker
<1>6. FollowersIInv'
  <2>1. ToCome(wpc[w]) = {} /\ ~Following(w)' /\ UNCHANGED <<stored, followVars>>
    BY <1>1, NothingToCome DEF Following, FollowUpKind, Finish, FreeWorker
  <2>2. \A v \in Worker \ {w} : wpc'[v] = wpc[v] /\ wjob'[v] = wjob[v]
    BY <1>1 DEF Finish, FreeWorker
  <2>3. QED
    BY <2>1, <2>2, FollowersKept
<1>7. CompletedIsStored'
  BY <1>1 DEF CompletedIsStored, FollowersIInv, FollowerIsFirst, Following, Finish, CompleteJob, FreeWorker
<1>8. CronPollsExclusive'
  BY DEF CronPollsExclusive, Finish
<1>9. QED
  BY <1>1, <1>2, <1>3, <1>4, <1>5, <1>6, <1>7, <1>8

\* What a worker that dies had before it is cut short, and nothing else is.
LEMMA CrashWorkerPreserves ==
    ASSUME IInv, NEW w \in Worker, CrashWorker(w)
    PROVE  IInv'
<1> USE QueueAssumption, IngestionAssumption DEF IInv, TypeOK, QueueTypeOK, queueVars,
           workerVars, pollVars, gitVars, dbVars, followVars
<1>1. /\ wjob[w] \in Commit
      /\ wpc'[w] = "idle" /\ \A v \in Worker \ {w} : wpc'[v] = wpc[v] /\ wjob'[v] = wjob[v]
      /\ cutShort' = cutShort \cup ({wjob[w]} \X ToCome(wpc[w]))
      /\ UNCHANGED <<queueVars, pollVars, gitVars, stored, followUps, swallowed, lastSync, missed>>
  BY DEF CrashWorker, FreeWorker, WorkersHaveJobs
<1>2. ToCome(wpc[w]) \subseteq FollowUp
  BY DEF ToCome
<1>3. TypeOK'
  BY <1>1, <1>2 DEF CrashWorker, FreeWorker, WorkerStage
<1>4. JobsLive' /\ WorkersHaveJobs' /\ OnlyPushed'
  BY <1>1 DEF JobsLive, WorkersHaveJobs, OnlyPushed, CrashWorker, FreeWorker
<1>5. CompletedIsStored' /\ CronPollsExclusive'
  BY <1>1 DEF CompletedIsStored, CronPollsExclusive
<1>6. ToCome("idle") = {} /\ ~Following(w)'
  BY <1>1, NothingToCome DEF Following, FollowUpKind
<1>7. FollowUpsOfStored' /\ FollowUpsAtMostOnce' /\ SwallowedRan'
  BY <1>1 DEF FollowersIInv, FollowUpsOfStored, FollowUpsAtMostOnce, SwallowedRan
<1>8. FollowerIsFirst' /\ OneFollower'
  <2>1. \A v \in Worker : Following(v)' \/ ToCome(wpc'[v]) # {} => v # w
    BY <1>1, <1>6
  <2>2. \A v \in Worker : v # w => (Following(v)' <=> Following(v))
    BY <1>1 DEF Following
  <2>3. FollowerIsFirst'
    <3> SUFFICES ASSUME NEW v \in Worker
                 PROVE  /\ Following(v)' => wjob'[v] \in stored'
                        /\ \A k \in ToCome(wpc'[v]) : followUps'[wjob'[v]][k] = 0
      BY DEF FollowerIsFirst
    <3>1. CASE v = w
      BY <2>1, <3>1
    <3>2. CASE v # w
      BY <1>1, <2>2, <3>2 DEF FollowersIInv, FollowerIsFirst
    <3>3. QED
      BY <3>1, <3>2
  <2>4. OneFollower'
    BY <1>1, <2>1, <2>2 DEF FollowersIInv, OneFollower
  <2>5. QED
    BY <2>3, <2>4
<1>9. UnfollowedHasCause'
  <2> SUFFICES ASSUME NEW c \in Commit, NEW k \in FollowUp
               PROVE  <<c, k>> \in cutShort' \cup swallowed' <=>
                          c \in stored' /\ ~Followed(c, k)' /\ ~Coming(c, k)'
    BY DEF UnfollowedHasCause
  <2>1. CASE c = wjob[w] /\ k \in ToCome(wpc[w])
    <3>1. Following(w)
      BY <2>1 DEF ToCome, Following
    <3>2. \A v \in Worker \ {w} : k \in ToCome(wpc[v]) => wjob[v] # c
      BY <2>1, <3>1 DEF FollowersIInv, OneFollower, ToCome, Following
    <3>3. c \in stored /\ followUps[c][k] = 0
      BY <2>1, <3>1 DEF FollowersIInv, FollowerIsFirst
    <3>4. QED
      BY <1>1, <1>6, <2>1, <3>2, <3>3 DEF Coming, Followed
  <2>2. CASE ~(c = wjob[w] /\ k \in ToCome(wpc[w]))
    <3>1. Coming(c, k)' <=> Coming(c, k)
      BY <1>1, <1>6, <2>2 DEF Coming
    <3>2. QED
      BY <1>1, <2>2, <3>1 DEF FollowersIInv, UnfollowedHasCause, Followed
  <2>3. QED
    BY <2>1, <2>2
<1>10. QED
  BY <1>3, <1>4, <1>5, <1>7, <1>8, <1>9 DEF FollowersIInv

\* A crash ends the polls.
LEMMA CrashPollsPreserves ==
    ASSUME IInv, CrashPolls
    PROVE  IInv'
<1> USE QueueAssumption, IngestionAssumption DEF IInv, TypeOK, QueueTypeOK, queueVars,
           workerVars, pollVars, gitVars, dbVars, followVars
<1>1. TypeOK'
  <2>1. ppc' \in [Poller -> PollStage] /\ pkind' \in [Poller -> PollKind]
    BY DEF PollStage, PollKind, CrashPolls
  <2>2. psince' \in [Poller -> (0..MaxTime) \cup {None}] /\ pstamp' \in [Poller -> 0..MaxTime]
    BY DEF CrashPolls
  <2>3. pfound' \in [Poller -> SUBSET Commit] /\ unseen' \in [Poller -> SUBSET Commit]
    BY DEF CrashPolls
  <2>4. QED
    BY <2>1, <2>2, <2>3 DEF CrashPolls
<1>2. JobsLive' /\ WorkersHaveJobs'
  BY DEF JobsLive, WorkersHaveJobs, CrashPolls
<1>3. OnlyPushed'
  BY DEF OnlyPushed, JobsLive, WorkersHaveJobs, CrashPolls
<1>4. FollowersIInv'
  BY FollowersKept DEF CrashPolls
<1>5. CompletedIsStored'
  BY DEF CompletedIsStored, CrashPolls
<1>6. CronPollsExclusive'
  BY DEF CronPollsExclusive, CrashPolls
<1>7. QED
  BY <1>1, <1>2, <1>3, <1>4, <1>5, <1>6

\* A stalled job has an attempt left.
LEMMA StallPreserves ==
    ASSUME IInv, NEW c \in Commit, Stall(c)
    PROVE  IInv'
<1> USE QueueAssumption, IngestionAssumption DEF IInv, TypeOK, QueueTypeOK, queueVars,
           workerVars, pollVars, gitVars, dbVars, followVars
<1>0. QueueTypeOK' /\ JobsLive'
  BY QueueKept DEF Stall
<1>1. TypeOK'
  BY <1>0 DEF Stall
<1>2. JobsLive' /\ WorkersHaveJobs'
  BY <1>0 DEF WorkersHaveJobs, Stall
<1>3. OnlyPushed'
  BY DEF OnlyPushed, JobsLive, WorkersHaveJobs, Stall, StallJob
<1>4. FollowersIInv'
  BY FollowersKept DEF Stall, StallJob
<1>5. CompletedIsStored'
  BY DEF CompletedIsStored, Stall, StallJob
<1>6. CronPollsExclusive'
  BY DEF CronPollsExclusive, Stall, StallJob
<1>7. QED
  BY <1>1, <1>2, <1>3, <1>4, <1>5, <1>6

\* A finished job is not locked.
LEMMA EvictPreserves ==
    ASSUME IInv, NEW c \in Commit, Evict(c)
    PROVE  IInv'
<1> USE QueueAssumption, IngestionAssumption DEF IInv, TypeOK, QueueTypeOK, queueVars,
           workerVars, pollVars, gitVars, dbVars, followVars
<1>1. TypeOK'
  BY DEF JobState, WorkerStage, PollStage, PollKind, MissCause, Evict, EvictJob, Miss
<1>2. JobsLive' /\ WorkersHaveJobs'
  BY DEF JobsLive, WorkersHaveJobs, Evict, EvictJob, Miss
<1>3. OnlyPushed'
  BY DEF OnlyPushed, JobsLive, WorkersHaveJobs, Evict, EvictJob, Miss
<1>4. FollowersIInv'
  BY FollowersKept DEF Evict, EvictJob, Miss
<1>5. CompletedIsStored'
  BY DEF CompletedIsStored, Evict, EvictJob, Miss
<1>6. CronPollsExclusive'
  BY DEF CronPollsExclusive, Evict, EvictJob, Miss
<1>7. QED
  BY <1>1, <1>2, <1>3, <1>4, <1>5, <1>6

\* A cron poll starts only when the flag is down.
LEMMA StartPollPreserves ==
    ASSUME IInv, NEW p \in Poller, NEW k \in PollKind, StartPoll(p, k)
    PROVE  IInv'
<1> USE QueueAssumption, IngestionAssumption DEF IInv, TypeOK, QueueTypeOK, queueVars,
           workerVars, pollVars, gitVars, dbVars, followVars
<1>1. TypeOK'
  BY DEF JobState, WorkerStage, PollStage, PollKind, StartPoll
<1>2. JobsLive' /\ WorkersHaveJobs'
  BY DEF JobsLive, WorkersHaveJobs, StartPoll
<1>3. OnlyPushed'
  BY DEF OnlyPushed, JobsLive, WorkersHaveJobs, StartPoll
<1>4. FollowersIInv'
  BY FollowersKept DEF StartPoll
<1>5. CompletedIsStored'
  BY DEF CompletedIsStored, StartPoll
<1>6. CronPollsExclusive'
  BY DEF CronPollsExclusive, StartPoll
<1>7. QED
  BY <1>1, <1>2, <1>3, <1>4, <1>5, <1>6

\* Only pushed commits are listed.
LEMMA ListCommitsPreserves ==
    ASSUME IInv, NEW p \in Poller, ListCommits(p)
    PROVE  IInv'
<1> USE QueueAssumption, IngestionAssumption DEF IInv, TypeOK, QueueTypeOK, queueVars,
           workerVars, pollVars, gitVars, dbVars, followVars
<1>1. TypeOK'
  <2>1. CASE EndPoll(p)
    BY <2>1, PollEnded DEF ListCommits
  <2>2. CASE ~EndPoll(p)
    <3>1. pfound' \in [Poller -> SUBSET Commit] /\ unseen' \in [Poller -> SUBSET Commit]
      <4>1. PICK list \in SUBSET onDefault :
                /\ pfound' = [pfound EXCEPT ![p] = list]
                /\ unseen' = [unseen EXCEPT ![p] = onDefault \ list]
        BY <2>2 DEF ListCommits
      <4>2. QED
        BY <4>1
    <3>2. ppc' \in [Poller -> PollStage]
      BY <2>2 DEF PollStage, ListCommits
    <3>3. QED
      BY <2>2, <3>1, <3>2 DEF ListCommits
  <2>3. QED
    BY <2>1, <2>2
<1>2. JobsLive' /\ WorkersHaveJobs'
  BY DEF JobsLive, WorkersHaveJobs, ListCommits, EndPoll
<1>3. OnlyPushed'
  BY DEF OnlyPushed, ListCommits, EndPoll
<1>4. FollowersIInv'
  BY FollowersKept DEF ListCommits, EndPoll
<1>5. CompletedIsStored'
  BY DEF CompletedIsStored, ListCommits, EndPoll
<1>6. CronPollsExclusive'
  BY DEF CronPollsExclusive, ListCommits, EndPoll
<1>7. QED
  BY <1>1, <1>2, <1>3, <1>4, <1>5, <1>6

\* The list shrinks.
LEMMA FilterExistingPreserves ==
    ASSUME IInv, NEW p \in Poller, FilterExisting(p)
    PROVE  IInv'
<1> USE QueueAssumption, IngestionAssumption DEF IInv, TypeOK, QueueTypeOK, queueVars,
           workerVars, pollVars, gitVars, dbVars, followVars
<1>1. TypeOK'
  <2>1. CASE EndPoll(p)
    BY <2>1, PollEnded DEF FilterExisting
  <2>2. CASE ~EndPoll(p)
    <3>1. pfound' \in [Poller -> SUBSET Commit] /\ unseen' \in [Poller -> SUBSET Commit]
      <4>1. pfound' = [pfound EXCEPT ![p] = @ \ stored] /\ UNCHANGED unseen
        BY <2>2 DEF FilterExisting
      <4>2. QED
        BY <4>1
    <3>2. ppc' \in [Poller -> PollStage]
      BY <2>2 DEF PollStage, FilterExisting
    <3>3. QED
      BY <2>2, <3>1, <3>2 DEF FilterExisting
  <2>3. QED
    BY <2>1, <2>2
<1>2. JobsLive' /\ WorkersHaveJobs'
  BY DEF JobsLive, WorkersHaveJobs, FilterExisting, EndPoll
<1>3. OnlyPushed'
  BY DEF OnlyPushed, FilterExisting, EndPoll
<1>4. FollowersIInv'
  BY FollowersKept DEF FilterExisting, EndPoll
<1>5. CompletedIsStored'
  BY DEF CompletedIsStored, FilterExisting, EndPoll
<1>6. CronPollsExclusive'
  BY DEF CronPollsExclusive, FilterExisting, EndPoll
<1>7. QED
  BY <1>1, <1>2, <1>3, <1>4, <1>5, <1>6

\* A listed commit was pushed.
LEMMA QueueFoundPreserves ==
    ASSUME IInv, NEW p \in Poller, NEW c \in Commit, QueueFound(p, c)
    PROVE  IInv'
<1> USE QueueAssumption, IngestionAssumption DEF IInv, TypeOK, QueueTypeOK, queueVars,
           workerVars, pollVars, gitVars, dbVars, followVars
<1>1. TypeOK'
  <2>1. pfound' \in [Poller -> SUBSET Commit] /\ unseen' \in [Poller -> SUBSET Commit]
    BY DEF QueueFound
  <2>2. ppc' \in [Poller -> PollStage] /\ pkind' \in [Poller -> PollKind]
    BY DEF PollStage, PollKind, QueueFound
  <2>3. psince' \in [Poller -> (0..MaxTime) \cup {None}] /\ pstamp' \in [Poller -> 0..MaxTime]
    BY DEF QueueFound
  <2>4. isPolling' \in BOOLEAN
    BY DEF QueueFound
  <2>5. QueueTypeOK'
    BY QueueKept DEF QueueFound
  <2>6. missed' \in [Commit -> MissCause \cup {None}]
    BY MissKeeps DEF MissCause, QueueFound
  <2>7. QED
    BY <2>1, <2>2, <2>3, <2>4, <2>5, <2>6 DEF QueueFound
<1>2. JobsLive' /\ WorkersHaveJobs'
  BY DEF JobsLive, WorkersHaveJobs, QueueFound, AddJob
<1>3. OnlyPushed'
  BY DEF OnlyPushed, QueueFound, AddJob
<1>4. FollowersIInv'
  BY FollowersKept DEF QueueFound, AddJob
<1>5. CompletedIsStored'
  BY DEF CompletedIsStored, QueueFound, AddJob
<1>6. CronPollsExclusive'
  BY DEF CronPollsExclusive, QueueFound, AddJob
<1>7. QED
  BY <1>1, <1>2, <1>3, <1>4, <1>5, <1>6

\* A poll reads the clock.
LEMMA StampSyncPreserves ==
    ASSUME IInv, NEW p \in Poller, StampSync(p)
    PROVE  IInv'
<1> USE QueueAssumption, IngestionAssumption DEF IInv, TypeOK, QueueTypeOK, queueVars,
           workerVars, pollVars, gitVars, dbVars, followVars
<1>1. TypeOK'
  <2>1. pfound' \in [Poller -> SUBSET Commit] /\ unseen' \in [Poller -> SUBSET Commit]
    BY DEF StampSync
  <2>2. ppc' \in [Poller -> PollStage] /\ pkind' \in [Poller -> PollKind]
    BY DEF PollStage, PollKind, StampSync
  <2>3. psince' \in [Poller -> (0..MaxTime) \cup {None}] /\ pstamp' \in [Poller -> 0..MaxTime]
    BY DEF StampSync
  <2>4. isPolling' \in BOOLEAN
    BY DEF StampSync
  <2>5. QED
    BY <2>1, <2>2, <2>3, <2>4 DEF StampSync
<1>2. JobsLive' /\ WorkersHaveJobs'
  BY DEF JobsLive, WorkersHaveJobs, StampSync
<1>3. OnlyPushed'
  BY DEF OnlyPushed, StampSync
<1>4. FollowersIInv'
  BY FollowersKept DEF StampSync
<1>5. CompletedIsStored'
  BY DEF CompletedIsStored, StampSync
<1>6. CronPollsExclusive'
  BY DEF CronPollsExclusive, StampSync
<1>7. QED
  BY <1>1, <1>2, <1>3, <1>4, <1>5, <1>6

\* A poll ends.
LEMMA WriteSyncPreserves ==
    ASSUME IInv, NEW p \in Poller, WriteSync(p)
    PROVE  IInv'
<1> USE QueueAssumption, IngestionAssumption DEF IInv, TypeOK, QueueTypeOK, queueVars,
           workerVars, pollVars, gitVars, dbVars, followVars
<1>1. TypeOK'
  <2>1. lastSync' \in (0..MaxTime) \cup {None}
    BY DEF WriteSync
  <2>2. missed' \in [Commit -> MissCause \cup {None}]
    <3>1. SkippedBy(p) \in SUBSET Commit
      BY DEF SkippedBy
    <3>2. QED
      BY <3>1, MissKeeps DEF MissCause, WriteSync
  <2>3. QED
    BY <2>1, <2>2, PollEnded DEF WriteSync
<1>2. JobsLive' /\ WorkersHaveJobs'
  BY DEF JobsLive, WorkersHaveJobs, WriteSync, EndPoll
<1>3. OnlyPushed'
  BY DEF OnlyPushed, WriteSync, EndPoll
<1>4. FollowersIInv'
  BY FollowersKept DEF WriteSync, EndPoll
<1>5. CompletedIsStored'
  BY DEF CompletedIsStored, WriteSync, EndPoll
<1>6. CronPollsExclusive'
  BY DEF CronPollsExclusive, WriteSync, EndPoll
<1>7. QED
  BY <1>1, <1>2, <1>3, <1>4, <1>5, <1>6

\* A step that changes nothing preserves everything.
LEMMA StutterPreserves ==
    ASSUME IInv, UNCHANGED vars
    PROVE  IInv'
<1> USE QueueAssumption, IngestionAssumption DEF IInv, TypeOK, QueueTypeOK, queueVars,
           workerVars, pollVars, gitVars, dbVars, followVars
<1> USE DEF vars
<1>1. TypeOK' /\ JobsLive' /\ WorkersHaveJobs' /\ OnlyPushed'
  BY DEF JobsLive, WorkersHaveJobs, OnlyPushed
<1>2. FollowersIInv'
  BY FollowersKept
<1>3. CompletedIsStored' /\ CronPollsExclusive'
  BY DEF CompletedIsStored, CronPollsExclusive
<1>4. QED
  BY <1>1, <1>2, <1>3

\* Every step preserves the inductive invariant.
LEMMA NextPreserves == IInv /\ [Next]_vars => IInv'
<1> SUFFICES ASSUME IInv, [Next]_vars PROVE IInv'
  OBVIOUS
<1>1. CASE Tick \/ CrashPolls
  BY <1>1, TickPreserves, CrashPollsPreserves
<1>2. CASE \E c \in Commit, d \in 0..MaxTime : PushToGitHub(c, d)
  BY <1>2, PushToGitHubPreserves
<1>3. CASE \E c \in Commit : MergeBranch(c) \/ ForcePush(c)
  BY <1>3, MergeBranchPreserves, ForcePushPreserves
<1>4. CASE \E c \in Commit : WebhookQueues(c) \/ Stall(c) \/ Evict(c)
  BY <1>4, WebhookQueuesPreserves, StallPreserves, EvictPreserves
<1>5. CASE \E w \in Worker : WorkerStep(w) \/ CrashWorker(w)
  BY <1>5, TakePreserves, CheckExistingPreserves, FetchDetailPreserves,
     CreateCommitPreserves, RunFollowUpPreserves, FinishPreserves, CrashWorkerPreserves
     DEF WorkerStep
<1>6. CASE \E p \in Poller, k \in PollKind : StartPoll(p, k)
  BY <1>6, StartPollPreserves
<1>7. CASE \E p \in Poller : PollStep(p)
  BY <1>7, ListCommitsPreserves, FilterExistingPreserves, QueueFoundPreserves,
     StampSyncPreserves, WriteSyncPreserves DEF PollStep
<1>8. CASE UNCHANGED vars
  BY <1>8, StutterPreserves
<1>9. QED
  BY <1>1, <1>2, <1>3, <1>4, <1>5, <1>6, <1>7, <1>8 DEF Next

\* The inductive invariant holds throughout every behaviour.
THEOREM Invariance == Spec => []IInv
BY InitEstablishes, NextPreserves, PTL DEF Spec

\* Type correctness.
THEOREM TypeCorrect == Spec => []TypeOK
<1>1. IInv => TypeOK
  BY DEF IInv
<1>2. QED
  BY <1>1, Invariance, PTL

\* However often a job is taken, stalled, retried, evicted and added again, each follow-up
\* of its commit runs at most once.
THEOREM FollowedUpOnce == Spec => []FollowUpsAtMostOnce
<1>1. IInv => FollowUpsAtMostOnce
  BY DEF IInv, FollowersIInv
<1>2. QED
  BY <1>1, Invariance, PTL

\* Two workers are never between the insert of one commit and the end of their attempts,
\* though both may run its job.
THEOREM SingleFollower == Spec => []OneFollower
<1>1. IInv => OneFollower
  BY DEF IInv, FollowersIInv
<1>2. QED
  BY <1>1, Invariance, PTL

\* Of the follow-ups of commits in the table, exactly those are missing that the inserting
\* attempt did not get to, because it died or lost the answer of the insert, and those that
\* failed themselves and were dropped.
THEOREM UnfollowedExplained == Spec => []UnfollowedHasCause
<1>1. IInv => UnfollowedHasCause
  BY DEF IInv, FollowersIInv
<1>2. QED
  BY <1>1, Invariance, PTL

\* A completed job has its commit in the table.
THEOREM CompletedStored == Spec => []CompletedIsStored
<1>1. IInv => CompletedIsStored
  BY DEF IInv
<1>2. QED
  BY <1>1, Invariance, PTL

\* Cron polls of one process never overlap.
THEOREM CronExclusive == Spec => []CronPollsExclusive
<1>1. IInv => CronPollsExclusive
  BY DEF IInv
<1>2. QED
  BY <1>1, Invariance, PTL

-----------------------------------------------------------------------------
\* The polls' window: MissedHasCause, by the invariant WindowIInv.

\* What is stored stays, and no reason is taken back.
LEMMA RecordsStay ==
    ASSUME IInv, Next, NEW c \in Commit
    PROVE  (c \in stored => c \in stored') /\ (missed[c] # None => missed'[c] # None)
<1> USE DEF IInv, TypeOK
<1>1. CASE \E w \in Worker : WorkerStep(w) \/ CrashWorker(w)
  BY <1>1 DEF WorkerStep, CrashWorker, Take, CheckExisting, FetchDetail, CreateCommit,
              RunFollowUp, Finish, Throw, dbVars
<1>2. ASSUME NEW d \in Commit, NEW e \in 0..MaxTime,
             PushToGitHub(d, e) \/ MergeBranch(d) \/ ForcePush(d)
      PROVE  stored' = stored /\ (missed[c] # None => missed'[c] # None)
  BY <1>2 DEF PushToGitHub, MergeBranch, ForcePush, ReachDefault, Miss, dbVars
<1>3. ASSUME NEW d \in Commit, WebhookQueues(d) \/ Stall(d) \/ Evict(d)
      PROVE  stored' = stored /\ (missed[c] # None => missed'[c] # None)
  BY <1>3 DEF WebhookQueues, Stall, Evict, Miss, dbVars
<1>4. ASSUME NEW p \in Poller, PollStep(p)
      PROVE  stored' = stored /\ (missed[c] # None => missed'[c] # None)
  BY <1>4 DEF PollStep, ListCommits, FilterExisting, QueueFound, StampSync, WriteSync, Miss,
              dbVars
<1>5. CASE Tick \/ CrashPolls \/ \E p \in Poller, k \in PollKind : StartPoll(p, k)
  BY <1>5 DEF Tick, CrashPolls, StartPoll, dbVars
<1>6. 0 \in 0..MaxTime
  BY IngestionAssumption
<1>7. QED
  BY <1>1, <1>2, <1>3, <1>4, <1>5, <1>6 DEF Next

\* Nor does a job leave the queue but completed, hence its commit stored, or failed for good.
LEMMA HandledStays ==
    ASSUME IInv, Next, NEW c \in Commit, Handled(c)
    PROVE  Handled(c)'
<1> USE QueueAssumption, IngestionAssumption DEF IInv, TypeOK, QueueTypeOK
<1>1. CASE jstate[c] # "absent"
  <2>1. ASSUME NEW w \in Worker, WorkerStep(w) \/ CrashWorker(w) PROVE jstate'[c] # "absent"
    <3>1. ASSUME NEW d \in Commit, Take(w, d) PROVE jstate'[c] # "absent"
      BY <1>1, <3>1 DEF Take, TakeJob
    <3>2. CASE CheckExisting(w) \/ FetchDetail(w) \/ Finish(w)
      BY <1>1, <3>2 DEF CheckExisting, FetchDetail, Finish, Throw, CompleteJob, FailJob, queueVars
    <3>3. CASE CreateCommit(w) \/ RunFollowUp(w) \/ CrashWorker(w)
      BY <1>1, <3>3 DEF CreateCommit, RunFollowUp, CrashWorker, Throw, FailJob, queueVars
    <3>4. QED
      BY <2>1, <3>1, <3>2, <3>3 DEF WorkerStep
  <2>2. ASSUME NEW d \in Commit, WebhookQueues(d) \/ Stall(d) PROVE jstate'[c] # "absent"
    BY <1>1, <2>2 DEF WebhookQueues, Stall, AddJob, StallJob, queueVars
  <2>3. ASSUME NEW d \in Commit, Evict(d) PROVE Handled(c)'
    <3>1. CASE c = d /\ jstate[c] = "failed"
      <4>1. missed' = Miss({c}, "failed") /\ stored' = stored
        BY <2>3, <3>1 DEF Evict
      <4>2. QED
        BY <4>1, MissKeeps DEF MissCause, Handled
    <3>2. CASE c = d /\ jstate[c] = "completed"
      BY <2>3, <3>2 DEF Evict, CompletedIsStored, Handled
    <3>3. CASE c # d
      BY <1>1, <2>3, <3>3 DEF Evict, EvictJob, Handled
    <3>4. QED
      BY <2>3, <3>1, <3>2, <3>3 DEF Evict, EvictJob
  <2>4. ASSUME NEW p \in Poller, PollStep(p) PROVE jstate'[c] # "absent"
    <3>1. CASE UNCHANGED queueVars
      BY <1>1, <3>1 DEF queueVars
    <3>2. ASSUME NEW d \in Commit, AddJob(d) PROVE jstate'[c] # "absent"
      BY <1>1, <3>2 DEF AddJob, queueVars
    <3>3. QED
      BY <2>4, <3>1, <3>2
         DEF PollStep, ListCommits, FilterExisting, QueueFound, StampSync, WriteSync
  <2>5. ASSUME NEW d \in Commit, NEW e \in 0..MaxTime,
               PushToGitHub(d, e) \/ MergeBranch(d) \/ ForcePush(d)
        PROVE  jstate'[c] # "absent"
    BY <1>1, <2>5 DEF PushToGitHub, MergeBranch, ForcePush, ReachDefault, queueVars
  <2>6. CASE Tick \/ CrashPolls \/ \E p \in Poller, k \in PollKind : StartPoll(p, k)
    BY <1>1, <2>6 DEF Tick, CrashPolls, StartPoll, queueVars, Handled
  <2>7. 0 \in 0..MaxTime
    OBVIOUS
  <2>8. QED
    BY <2>1, <2>2, <2>3, <2>4, <2>5, <2>6, <2>7 DEF Next, Handled
<1>2. QED
  BY <1>1, RecordsStay DEF Handled

\* A step that leaves the branch, the polls and lastSyncAt alone.
LEMMA OthersKeepWindow ==
    ASSUME IInv, WindowIInv, Next, UNCHANGED <<pollVars, pushed, onDefault, dated, lastSync>>
    PROVE  WindowIInv'
<1> USE IngestionAssumption DEF IInv, TypeOK, WindowIInv, pollVars
<1>1. ListAccounts'
  BY HandledStays DEF ListAccounts, Listed
<1>2. BehindIsHandled' /\ SyncsEmptyHanded'
  BY HandledStays DEF BehindIsHandled, SyncsEmptyHanded
<1>3. MissedHasCause'
  BY HandledStays DEF MissedHasCause
<1>4. QED
  BY <1>1, <1>2, <1>3

\* A commit that gets on the branch behind a window has a cause; one that gets there during a
\* poll is one its list did not have.
LEMMA ReachKeepsWindow ==
    ASSUME IInv, WindowIInv, Next, NEW c \in Commit, NEW d \in 0..MaxTime, ReachDefault(c, d),
           dated' = [dated EXCEPT ![c] = d], pushed' = pushed \cup {c}
    PROVE  WindowIInv'
<1> USE IngestionAssumption DEF IInv, TypeOK, WindowIInv, ReachDefault
<1>1. Behind(d) => Handled(c)'
  <2> SUFFICES ASSUME Behind(d) PROVE Handled(c)'
    OBVIOUS
  <2>1. missed' = Miss({c}, "late") /\ stored' = stored
    OBVIOUS
  <2>2. QED
    BY <2>1, MissKeeps DEF MissCause, Handled
<1>2. ListAccounts'
  BY HandledStays DEF ListAccounts, Listed
<1>3. SyncsEmptyHanded'
  BY DEF SyncsEmptyHanded
<1>4. BehindIsHandled'
  <2> SUFFICES ASSUME NEW p \in Poller, ppc[p] # "idle", psince[p] # None,
                      NEW e \in onDefault', dated'[e] < psince[p]
               PROVE  Handled(e)'
    BY DEF BehindIsHandled
  <2>1. CASE e = c
    BY <1>1, <2>1 DEF Behind
  <2>2. CASE e # c
    BY <2>2, HandledStays DEF BehindIsHandled
  <2>3. QED
    BY <2>1, <2>2
<1>5. MissedHasCause'
  <2> SUFFICES ASSUME NEW e \in onDefault', lastSync # None, dated'[e] < lastSync
               PROVE  Handled(e)'
    BY DEF MissedHasCause
  <2>1. CASE e = c
    BY <1>1, <2>1 DEF Behind
  <2>2. CASE e # c
    BY <2>2, HandledStays DEF MissedHasCause
  <2>3. QED
    BY <2>1, <2>2
<1>6. QED
  BY <1>2, <1>3, <1>4, <1>5

\* A push to another branch, and a forced push, give the polls nothing to find.
LEMMA PushKeepsWindow ==
    ASSUME IInv, WindowIInv, Next, NEW c \in Commit, NEW d \in 0..MaxTime, PushToGitHub(c, d)
    PROVE  WindowIInv'
<1>1. CASE ReachDefault(c, d)
  BY <1>1, ReachKeepsWindow DEF PushToGitHub
<1>2. CASE UNCHANGED <<now, onDefault, queueVars, workerVars, pollVars, dbVars>>
  <2> USE IngestionAssumption DEF IInv, TypeOK, WindowIInv, PushToGitHub, pollVars, dbVars
  <2>1. \A e \in onDefault : dated'[e] = dated[e]
    OBVIOUS
  <2>2. ListAccounts' /\ SyncsEmptyHanded'
    BY <1>2, HandledStays DEF ListAccounts, Listed, SyncsEmptyHanded
  <2>3. BehindIsHandled'
    BY <1>2, <2>1, HandledStays DEF BehindIsHandled
  <2>4. MissedHasCause'
    BY <1>2, <2>1, HandledStays DEF MissedHasCause
  <2>5. QED
    BY <2>2, <2>3, <2>4
<1>3. QED
  BY <1>1, <1>2 DEF PushToGitHub

LEMMA MergeKeepsWindow ==
    ASSUME IInv, WindowIInv, Next, NEW c \in Commit, MergeBranch(c)
    PROVE  WindowIInv'
<1>1. dated[c] \in 0..MaxTime /\ dated' = [dated EXCEPT ![c] = dated[c]]
  BY DEF MergeBranch, IInv, TypeOK
<1>2. pushed' = pushed \cup {c} /\ ReachDefault(c, dated[c])
  BY DEF MergeBranch
<1>3. QED
  BY <1>1, <1>2, ReachKeepsWindow

LEMMA ForceKeepsWindow ==
    ASSUME IInv, WindowIInv, Next, NEW c \in Commit, ForcePush(c)
    PROVE  WindowIInv'
<1> USE IngestionAssumption DEF IInv, TypeOK, WindowIInv, ForcePush, pollVars, dbVars
<1>1. ListAccounts' /\ SyncsEmptyHanded'
  BY HandledStays DEF ListAccounts, Listed, SyncsEmptyHanded
<1>2. BehindIsHandled'
  BY HandledStays DEF BehindIsHandled
<1>3. MissedHasCause'
  BY HandledStays DEF MissedHasCause
<1>4. QED
  BY <1>1, <1>2, <1>3

\* Polls: what a step does to the poll that takes it, and that it leaves the others alone.
\* A poll starts with the window of the row, behind which everything is handled.
LEMMA StartKeepsWindow ==
    ASSUME IInv, WindowIInv, Next, NEW p \in Poller, NEW k \in PollKind, StartPoll(p, k)
    PROVE  WindowIInv'
<1> USE IngestionAssumption DEF IInv, TypeOK, WindowIInv, StartPoll, gitVars, dbVars
<1>1. SyncsEmptyHanded'
  BY DEF SyncsEmptyHanded
<1>2. BehindIsHandled'
  <2> SUFFICES ASSUME NEW q \in Poller, ppc'[q] # "idle", psince'[q] # None,
                      NEW c \in onDefault, dated[c] < psince'[q]
               PROVE  Handled(c)
    BY HandledStays DEF BehindIsHandled
  <2>1. CASE q = p
    BY <2>1 DEF MissedHasCause
  <2>2. CASE q # p
    BY <2>2 DEF BehindIsHandled
  <2>3. QED
    BY <2>1, <2>2
<1>3. ListAccounts'
  BY HandledStays DEF ListAccounts, Listed
<1>4. MissedHasCause'
  BY HandledStays DEF MissedHasCause
<1>5. QED
  BY <1>1, <1>2, <1>3, <1>4

\* The commits of the branch are those the list has and those it has not.
LEMMA ListKeepsWindow ==
    ASSUME IInv, WindowIInv, Next, NEW p \in Poller, ListCommits(p)
    PROVE  WindowIInv'
<1> USE IngestionAssumption DEF IInv, TypeOK, WindowIInv, ListCommits, EndPoll, gitVars, dbVars
<1>1. SyncsEmptyHanded'
  BY DEF SyncsEmptyHanded
<1>2. BehindIsHandled'
  BY HandledStays DEF BehindIsHandled
<1>3. ListAccounts'
  <2> SUFFICES ASSUME NEW q \in Poller, Listed(q)', NEW c \in onDefault
               PROVE  c \in unseen'[q] \/ c \in pfound'[q] \/ Handled(c)'
    BY DEF ListAccounts
  <2>1. CASE q = p
    BY <2>1 DEF Listed
  <2>2. CASE q # p
    BY <2>2, HandledStays DEF Listed, ListAccounts
  <2>3. QED
    BY <2>1, <2>2
<1>4. MissedHasCause'
  BY HandledStays DEF MissedHasCause
<1>5. QED
  BY <1>1, <1>2, <1>3, <1>4

\* What the filter drops is stored.
LEMMA FilterKeepsWindow ==
    ASSUME IInv, WindowIInv, Next, NEW p \in Poller, FilterExisting(p)
    PROVE  WindowIInv'
<1> USE IngestionAssumption DEF IInv, TypeOK, WindowIInv, FilterExisting, EndPoll, gitVars, dbVars
<1>1. SyncsEmptyHanded'
  BY DEF SyncsEmptyHanded
<1>2. BehindIsHandled'
  BY HandledStays DEF BehindIsHandled
<1>3. ListAccounts'
  <2> SUFFICES ASSUME NEW q \in Poller, Listed(q)', NEW c \in onDefault
               PROVE  c \in unseen'[q] \/ c \in pfound'[q] \/ Handled(c)'
    BY DEF ListAccounts
  <2>1. Listed(q) /\ (c \in unseen[q] \/ c \in pfound[q] \/ Handled(c))
    BY DEF Listed, ListAccounts
  <2>2. CASE q = p
    BY <2>1, <2>2, HandledStays DEF Listed, Handled
  <2>3. CASE q # p
    BY <2>1, <2>3, HandledStays
  <2>4. QED
    BY <2>2, <2>3
<1>4. MissedHasCause'
  BY HandledStays DEF MissedHasCause
<1>5. QED
  BY <1>1, <1>2, <1>3, <1>4

\* A listed commit is queued, or there is a reason why not.
LEMMA QueueKeepsWindow ==
    ASSUME IInv, WindowIInv, Next, NEW p \in Poller, NEW c \in Commit, QueueFound(p, c)
    PROVE  WindowIInv'
<1> USE IngestionAssumption DEF IInv, TypeOK, QueueTypeOK, WindowIInv, QueueFound, gitVars
<1>1. SyncsEmptyHanded'
  BY DEF SyncsEmptyHanded
<1>2. Handled(c)'
  <2>1. CASE AddJob(c)
    BY <2>1 DEF Handled, AddJob, queueVars
  <2>2. CASE missed' = Miss({c}, "details") \/ missed' = Miss({c}, "queue")
    <3>1. c \in stored \/ missed'[c] # None
      <4>1. PICK cause \in MissCause : missed' = Miss({c}, cause)
        BY <2>2 DEF MissCause
      <4>2. {c} \in SUBSET Commit
        OBVIOUS
      <4>3. \A e \in {c} : e \in stored \/ Miss({c}, cause)[e] # None
        BY <4>2, MissKeeps
      <4>4. QED
        BY <4>1, <4>3
    <3>2. QED
      BY <3>1 DEF Handled
  <2>3. QED
    BY <2>1, <2>2
<1>3. ListAccounts'
  <2> SUFFICES ASSUME NEW q \in Poller, Listed(q)', NEW e \in onDefault
               PROVE  e \in unseen'[q] \/ e \in pfound'[q] \/ Handled(e)'
    BY DEF ListAccounts
  <2>1. e \in unseen[q] \/ e \in pfound[q] \/ Handled(e)
    BY DEF Listed, ListAccounts
  <2>2. QED
    BY <1>2, <2>1, HandledStays
<1>4. BehindIsHandled'
  BY HandledStays DEF BehindIsHandled
<1>5. MissedHasCause'
  BY HandledStays DEF MissedHasCause
<1>6. QED
  BY <1>1, <1>3, <1>4, <1>5

\* The clock is read with the list done.
LEMMA StampKeepsWindow ==
    ASSUME IInv, WindowIInv, Next, NEW p \in Poller, StampSync(p)
    PROVE  WindowIInv'
<1> USE IngestionAssumption DEF IInv, TypeOK, WindowIInv, StampSync, gitVars, dbVars
<1>1. SyncsEmptyHanded'
  BY DEF SyncsEmptyHanded
<1>2. ListAccounts'
  BY HandledStays DEF ListAccounts, Listed
<1>3. BehindIsHandled'
  BY HandledStays DEF BehindIsHandled
<1>4. MissedHasCause'
  BY HandledStays DEF MissedHasCause
<1>5. QED
  BY <1>1, <1>2, <1>3, <1>4

\* The window moves, forward or back: every commit behind it now was listed by this poll and
\* is handled, or was behind the window this poll started with, or is skipped for a reason.
LEMMA WriteKeepsWindow ==
    ASSUME IInv, WindowIInv, Next, NEW p \in Poller, WriteSync(p)
    PROVE  WindowIInv'
<1> USE IngestionAssumption DEF IInv, TypeOK, WindowIInv, WriteSync, EndPoll, gitVars
<1>1. SyncsEmptyHanded'
  BY DEF SyncsEmptyHanded
<1>2. ListAccounts'
  BY HandledStays DEF ListAccounts, Listed
<1>3. BehindIsHandled'
  BY HandledStays DEF BehindIsHandled
<1>4. MissedHasCause'
  <2> SUFFICES ASSUME NEW c \in onDefault, lastSync' # None, dated[c] < lastSync'
               PROVE  Handled(c)'
    BY DEF MissedHasCause
  <2>1. CASE UNCHANGED <<lastSync, missed>>
    BY <2>1, HandledStays DEF MissedHasCause
  <2>2. CASE lastSync' = pstamp[p] /\ missed' = Miss(SkippedBy(p), "unlisted")
    <3>1. Listed(p) /\ pfound[p] = {}
      BY DEF Listed, SyncsEmptyHanded
    <3>2. CASE Handled(c)
      BY <3>2, HandledStays
    <3>3. CASE c \in unseen[p] /\ (psince[p] = None \/ psince[p] <= dated[c])
      <4>1. c \in SkippedBy(p) /\ SkippedBy(p) \subseteq Commit
        BY <2>2, <3>3 DEF SkippedBy
      <4>2. QED
        BY <2>2, <4>1, MissKeeps DEF MissCause, Handled
    <3>4. CASE psince[p] # None /\ ~(psince[p] <= dated[c])
      <4>1. Handled(c)
        BY <3>4 DEF BehindIsHandled
      <4>2. QED
        BY <4>1, HandledStays
    <3>5. QED
      BY <3>1, <3>2, <3>3, <3>4 DEF ListAccounts
  <2>3. QED
    BY <2>1, <2>2
<1>5. QED
  BY <1>1, <1>2, <1>3, <1>4

\* Polls that die leave the window where it is.
LEMMA CrashKeepsWindow ==
    ASSUME IInv, WindowIInv, Next, CrashPolls
    PROVE  WindowIInv'
<1> USE IngestionAssumption DEF IInv, TypeOK, WindowIInv, CrashPolls, gitVars, dbVars
<1>1. SyncsEmptyHanded' /\ BehindIsHandled'
  BY DEF SyncsEmptyHanded, BehindIsHandled
<1>2. ListAccounts'
  BY DEF ListAccounts, Listed
<1>3. MissedHasCause'
  BY HandledStays DEF MissedHasCause
<1>4. QED
  BY <1>1, <1>2, <1>3

\* Every step preserves the invariant of the window.
LEMMA WindowPreserved == IInv /\ WindowIInv /\ [Next]_vars => WindowIInv'
<1> SUFFICES ASSUME IInv, WindowIInv, [Next]_vars PROVE WindowIInv'
  OBVIOUS
<1>1. CASE UNCHANGED vars
  BY <1>1 DEF vars, queueVars, gitVars, dbVars, pollVars, WindowIInv, ListAccounts, Listed,
              Handled, BehindIsHandled, SyncsEmptyHanded, MissedHasCause
<1> SUFFICES ASSUME Next PROVE WindowIInv'
  BY <1>1
<1>2. CASE Tick
  BY <1>2, OthersKeepWindow DEF Tick, dbVars
<1>3. ASSUME NEW c \in Commit, WebhookQueues(c) \/ Stall(c) \/ Evict(c) PROVE WindowIInv'
  BY <1>3, OthersKeepWindow DEF WebhookQueues, Stall, Evict, gitVars, dbVars
<1>4. ASSUME NEW w \in Worker, WorkerStep(w) \/ CrashWorker(w) PROVE WindowIInv'
  <2>1. UNCHANGED <<pollVars, pushed, onDefault, dated, lastSync>>
    BY <1>4 DEF WorkerStep, CrashWorker, Take, CheckExisting, FetchDetail, CreateCommit,
                RunFollowUp, Finish, Throw, gitVars, dbVars
  <2>2. QED
    BY <2>1, OthersKeepWindow
<1>5. ASSUME NEW p \in Poller, PollStep(p) PROVE WindowIInv'
  BY <1>5, ListKeepsWindow, FilterKeepsWindow, QueueKeepsWindow, StampKeepsWindow,
     WriteKeepsWindow DEF PollStep
<1>6. QED
  BY <1>2, <1>3, <1>4, <1>5, PushKeepsWindow, MergeKeepsWindow, ForceKeepsWindow,
     StartKeepsWindow, CrashKeepsWindow DEF Next

\* Of the default branch's commits that lastSyncAt has moved past, none is neither stored nor
\* in the queue but for one of the five recorded reasons, though polls of every kind overlap
\* and may set lastSyncAt back.
THEOREM MissedExplained == Spec => []MissedHasCause
<1>1. Init => WindowIInv
  BY DEF Init, WindowIInv, ListAccounts, Listed, BehindIsHandled, SyncsEmptyHanded,
         MissedHasCause
<1>2. WindowIInv => MissedHasCause
  BY DEF WindowIInv
<1>3. QED
  BY <1>1, <1>2, WindowPreserved, Invariance, PTL DEF Spec

-----------------------------------------------------------------------------
\* Refinement of the ledger: pushing, inserting and following up are the ledger's
\* steps, every other step leaves its variables alone.
LEMMA StepRefines ==
    ASSUME IInv, Next
    PROVE  Ledger!Next \/ UNCHANGED Ledger!ledger
<1> USE DEF Ledger!Next, Ledger!ledger, IInv, TypeOK
<1>1. CASE \E c \in Commit, d \in 0..MaxTime : PushToGitHub(c, d)
  BY <1>1 DEF PushToGitHub, ReachDefault, dbVars, followVars, Ledger!Push
<1>2. ASSUME NEW w \in Worker, CreateCommit(w) PROVE Ledger!Next \/ UNCHANGED Ledger!ledger
  <2>1. wjob[w] \in Commit
    BY <1>2 DEF CreateCommit, WorkersHaveJobs
  <2>2. wjob[w] \in pushed
    BY <2>1, IngestionAssumption DEF OnlyPushed
  <2>3. Ledger!Store(wjob[w]) \/ UNCHANGED Ledger!ledger
    BY <1>2, <2>2 DEF CreateCommit, Throw, gitVars, dbVars, followVars, Ledger!Store
  <2>4. QED
    BY <2>1, <2>3
<1>3. ASSUME NEW w \in Worker, RunFollowUp(w) PROVE Ledger!Next \/ UNCHANGED Ledger!ledger
  <2>1. PICK c \in Commit, k \in FollowUp : wjob[w] = c /\ wpc[w] = k
    BY <1>3, IngestionAssumption DEF RunFollowUp, WorkersHaveJobs, FollowUpKind
  <2>2. k \in ToCome(k)
    <3>1. Rank[k] \in 1..5
      BY Ranks
    <3>2. QED
      BY <3>1 DEF ToCome
  <2>3. c \in stored /\ followUps[c][k] = 0
    BY <2>1, <2>2 DEF FollowersIInv, FollowerIsFirst, Following
  <2>4. Ledger!Run(c, k)
    BY <1>3, <2>1, <2>3 DEF RunFollowUp, gitVars, Ledger!Run
  <2>5. QED
    BY <2>1, <2>4
<1>4. ASSUME NEW w \in Worker, WorkerStep(w) \/ CrashWorker(w)
      PROVE  Ledger!Next \/ UNCHANGED Ledger!ledger
  BY <1>4, <1>2, <1>3
     DEF WorkerStep, CrashWorker, Take, CheckExisting, FetchDetail, Finish, Throw, gitVars,
         dbVars, followVars
<1>5. CASE Tick \/ CrashPolls
  BY <1>5 DEF Tick, CrashPolls, gitVars, dbVars, followVars
<1>6. CASE \E c \in Commit : MergeBranch(c) \/ ForcePush(c)
  BY <1>6 DEF MergeBranch, ForcePush, ReachDefault, dbVars, followVars
<1>7. CASE \E c \in Commit : WebhookQueues(c) \/ Stall(c) \/ Evict(c)
  BY <1>7 DEF WebhookQueues, Stall, Evict, gitVars, dbVars, followVars
<1>8. CASE \E p \in Poller, k \in PollKind : StartPoll(p, k)
  BY <1>8 DEF StartPoll, gitVars, dbVars, followVars
<1>9. CASE \E p \in Poller : PollStep(p)
  BY <1>9 DEF PollStep, ListCommits, FilterExisting, QueueFound, StampSync, WriteSync, gitVars,
              dbVars, followVars
<1>10. QED
  BY <1>1, <1>4, <1>5, <1>6, <1>7, <1>8, <1>9 DEF Next

\* The ingestion implements the ledger: however a commit arrives, it is stored at most
\* once, after its push, and each of its follow-ups runs at most once, after that.
THEOREM ImplementsLedger == Spec => LedgerSpec
<1>1. Init => Ledger!Init
  BY DEF Init, Ledger!Init
<1>2. IInv /\ [Next]_vars => [Ledger!Next]_(Ledger!ledger)
  <2>1. ASSUME UNCHANGED vars PROVE UNCHANGED Ledger!ledger
    BY <2>1 DEF vars, gitVars, dbVars, followVars, Ledger!ledger
  <2>2. QED
    BY <2>1, StepRefines
<1>3. QED
  BY <1>1, <1>2, Invariance, PTL DEF Spec, LedgerSpec, Ledger!Spec
===============================================================================
