----------------------- MODULE ScoreCalculation_proofs -----------------------
(***************************************************************************)
(* ScoreCalculation for any number of facts, jobs, workers and requests    *)
(* and any set of faults: type correctness, and that a score only lags     *)
(* behind the facts while a recalculation is under way or after one was    *)
(* lost, or not asked for, in a way the module lists.  One lemma per       *)
(* action shows that it preserves IInv, with a step for each conjunct the  *)
(* action can disturb.                                                     *)
(***************************************************************************)
EXTENDS ScoreCalculation, TLAPS

\* The parts of the rows and features of a correctly typed state.
LEMMA RowParts ==
    ASSUME TypeOK
    PROVE  /\ commits \in Nat /\ reviews \in Nat /\ Facts \in Row
           /\ \A c \in Calculator : crow[c] \in Row
           /\ \A c \in Calculator : crow[c].commits \in Nat /\ crow[c].reviews \in Nat
           /\ latest # None =>
                 latest \in Row /\ latest.commits \in Nat /\ latest.reviews \in Nat
<1>1. commits \in Nat /\ reviews \in Nat
  BY ScoreAssumption DEF TypeOK
<1>2. Facts \in Row
  BY <1>1 DEF Facts, Row
<1>3. \A c \in Calculator : crow[c] \in Row
  BY DEF TypeOK
<1>4. \A row \in Row : row.commits \in Nat /\ row.reviews \in Nat
  BY DEF Row
<1>5. latest # None => latest \in Row
  BY DEF TypeOK
<1>6. QED
  BY <1>1, <1>2, <1>3, <1>4, <1>5

\* Rows with the same parts are the same row.
LEMMA SameRow ==
    ASSUME NEW x \in Row, NEW y \in Row, x.commits = y.commits, x.reviews = y.reviews
    PROVE  x = y
BY DEF Row

\* A counter stays within its bounds.
LEMMA WithinBounds ==
    ASSUME NEW max \in Nat, NEW n \in 0..max
    PROVE  /\ n < max => n + 1 \in 0..max
           /\ n > 0 => n - 1 \in 0..max
OBVIOUS

\* A new job waits.
LEMMA AddJobEffect ==
    ASSUME QueueTypeOK, JobsLive, NEW k \in JobId, jstate[k] = "absent", AddJob(k)
    PROVE  QueueTypeOK' /\ JobsLive' /\ jstate'[k] = "waiting"
BY QueueAssumption DEF AddJob, QueueTypeOK, JobsLive, JobState

\* What the end of a calculation does to the job, the worker and the features.
LEMMA FinishEffect ==
    ASSUME IInv, NEW c \in Calculator, cpc[c] # "idle", Finish(c)
    PROVE  /\ QueueTypeOK' /\ JobsLive' /\ RunningHaveJobs'
           /\ cpc' = [cpc EXCEPT ![c] = "idle"] /\ cpc' \in [Calculator -> Stage]
           /\ cjob' \in [Worker -> JobId \cup {None}]
           /\ crow' \in [Calculator -> Row]
           /\ \A x \in Calculator : crow'[x] = crow[x] \/ crow'[x] = NoFacts
<1> USE QueueAssumption, ScoreAssumption DEF IInv, TypeOK, Finish, Go
<1>1. NoFacts \in Row /\ "idle" \in Stage
  BY DEF NoFacts, Row, Stage
<1>2. /\ cpc' = [cpc EXCEPT ![c] = "idle"] /\ cpc' \in [Calculator -> Stage]
      /\ crow' \in [Calculator -> Row]
      /\ \A x \in Calculator : crow'[x] = crow[x] \/ crow'[x] = NoFacts
  BY <1>1
<1>3. CASE c \in Worker
  <2>1. cjob[c] \in JobId
    BY <1>3 DEF RunningHaveJobs
  <2>2. RemoveJob(c, cjob[c]) /\ cjob' = [cjob EXCEPT ![c] = None]
    BY <1>3
  <2>3. QueueTypeOK' /\ JobsLive'
    BY <2>1, <2>2 DEF RemoveJob, QueueTypeOK, JobsLive, JobState, queueVars
  <2>4. RunningHaveJobs'
    BY <2>2 DEF RunningHaveJobs, Calculator
  <2>5. QED
    BY <1>2, <2>2, <2>3, <2>4
<1>4. CASE c \in Reader
  <2>1. UNCHANGED <<queueVars, cjob>> /\ c \notin Worker
    BY <1>4
  <2>2. QueueTypeOK' /\ JobsLive'
    BY <2>1 DEF QueueTypeOK, JobsLive, queueVars
  <2>3. RunningHaveJobs'
    BY <2>1 DEF RunningHaveJobs, Calculator
  <2>4. QED
    BY <1>2, <2>1, <2>2, <2>3
<1>5. QED
  BY <1>3, <1>4 DEF Calculator

\* The end of a calculation that was not fresh leaves alone what is under way.
LEMMA FinishKeeps ==
    ASSUME IInv, NEW c \in Calculator, Finish(c), UNCHANGED <<commits, reviews>>,
           c \in Worker => ~ Fresh(c),
           NEW j \in JobId, UnderWay(j)
    PROVE  UnderWay(j)'
<1> USE QueueAssumption, ScoreAssumption DEF IInv, TypeOK, QueueTypeOK, queueVars, Finish, Go
<1>1. \A w \in Worker \ {c} : Fresh(w) => Fresh(w)'
  BY DEF Fresh, Facts, Calculator
<1>2. CASE c \in Worker
  <2>1. RemoveJob(c, cjob[c]) /\ cjob' = [cjob EXCEPT ![c] = None]
    BY <1>2
  <2>2. ~ (j = cjob[c] /\ jowner[j] = c)
    BY <1>2 DEF UnderWay, JobsLive
  <2>3. jstate'[j] = jstate[j] /\ jowner'[j] = jowner[j]
    BY <2>1, <2>2 DEF RemoveJob
  <2>4. \A w \in Worker : cjob'[w] = j => w # c /\ cjob[w] = j
    BY <2>1, <1>2
  <2>5. QED
    BY <1>1, <2>3, <2>4 DEF UnderWay
<1>3. CASE c \in Reader
  <2>1. UNCHANGED <<queueVars, cjob>> /\ c \notin Worker
    BY <1>3
  <2>2. QED
    BY <1>1, <2>1 DEF UnderWay
<1>4. QED
  BY <1>2, <1>3 DEF Calculator

\* Neither does a step that leaves the jobs alone and keeps fresh calculations fresh.
LEMMA FreshKeeps ==
    ASSUME UNCHANGED <<queueVars, cjob>>, \A w \in Worker : Fresh(w) => Fresh(w)',
           NEW j \in JobId, UnderWay(j)
    PROVE  UnderWay(j)'
BY DEF UnderWay, queueVars

\* A swallowed error is a loss, and ends the calculation.
LEMMA ThrowPreserves ==
    ASSUME IInv, NEW c \in Calculator, cpc[c] # "idle", Throw(c)
    PROVE  IInv'
<1> USE ScoreAssumption DEF IInv, Throw, factVars, scoreVars
<1>1. dropped' = dropped \/ dropped' = "error swallowed"
  OBVIOUS
<1>2. TypeOK'
  BY <1>1, FinishEffect DEF TypeOK, Loss
<1>3. JobsLive' /\ RunningHaveJobs'
  BY FinishEffect
<1>4. LagHasCause'
  <2> SUFFICES ASSUME Lagging, dropped' = None PROVE Pending'
    BY DEF LagHasCause, Lagging, Facts
  <2>1. c \notin Worker /\ dropped = None
    BY DEF Loss, TypeOK
  <2>2. CASE owed > 0
    BY <2>2 DEF Pending
  <2>3. CASE \E j \in JobId : UnderWay(j)
    BY <2>1, <2>3, FinishKeeps DEF Pending
  <2>4. QED
    BY <2>1, <2>2, <2>3 DEF LagHasCause, Pending
<1>5. QED
  BY <1>2, <1>3, <1>4

\* There are no facts at the start.
LEMMA InitEstablishes == Init => IInv
<1> SUFFICES ASSUME Init PROVE IInv
  OBVIOUS
<1> USE QueueAssumption, ScoreAssumption DEF Init, QueueInit
<1>1. TypeOK
  <2>1. NoFacts \in Row
    BY DEF Row, NoFacts
  <2>2. "idle" \in Stage /\ "absent" \in JobState
    BY DEF Stage, JobState
  <2>3. QueueTypeOK
    BY <2>2 DEF QueueTypeOK
  <2>4. commits \in 0..MaxCommits /\ reviews \in 0..MaxReviews /\ others \in 0..MaxOthers
    OBVIOUS
  <2>5. QED
    BY <2>1, <2>2, <2>3, <2>4 DEF TypeOK
<1>2. RunningHaveJobs /\ JobsLive
  BY DEF RunningHaveJobs, JobsLive, Calculator
<1>3. LagHasCause
  <2> SUFFICES ASSUME Lagging PROVE FALSE
    BY DEF LagHasCause
  <2>1. commits >= MinCommits
    BY DEF Lagging
  <2>2. QED
    BY <2>1
<1>4. QED
  BY <1>1, <1>2, <1>3 DEF IInv

\* The recalculation of a new fact is owed, or its loss is on record.
LEMMA OweOrForgetEffect ==
    ASSUME TypeOK, OweOrForget
    PROVE  /\ owed' \in Nat /\ dropped' \in Loss \cup {None}
           /\ owed' > 0 \/ dropped' # None
<1>1. CASE owed' = owed + 1 /\ UNCHANGED dropped
  <2>1. owed \in Nat /\ dropped \in Loss \cup {None}
    BY DEF TypeOK
  <2>2. QED
    BY <1>1, <2>1
<1>2. CASE dropped' = "answer lost" /\ UNCHANGED owed
  <2>1. dropped' \in Loss /\ dropped' # None
    BY <1>2, ScoreAssumption DEF Loss
  <2>2. owed \in Nat
    BY DEF TypeOK
  <2>3. QED
    BY <1>2, <2>1, <2>2
<1>3. QED
  BY <1>1, <1>2 DEF OweOrForget

\* The new commit's recalculation is owed, or its loss is on record.
LEMMA StoreCommitPreserves ==
    ASSUME IInv, StoreCommit
    PROVE  IInv'
<1> USE QueueAssumption, ScoreAssumption DEF IInv, scoreVars, calcVars
<1>1. /\ owed' \in Nat /\ dropped' \in Loss \cup {None}
      /\ owed' > 0 \/ dropped' # None
  BY OweOrForgetEffect DEF StoreCommit
<1>2. TypeOK'
  BY <1>1 DEF StoreCommit, TypeOK, QueueTypeOK, queueVars
<1>3. LagHasCause'
  BY <1>1 DEF LagHasCause, Pending
<1>4. JobsLive' /\ RunningHaveJobs'
  BY DEF JobsLive, StoreCommit, RunningHaveJobs, queueVars
<1>5. QED
  BY <1>2, <1>3, <1>4

\* The new review's recalculation is owed, or its loss is on record.
LEMMA StoreReviewPreserves ==
    ASSUME IInv, StoreReview
    PROVE  IInv'
<1> USE QueueAssumption, ScoreAssumption DEF IInv, scoreVars, calcVars
<1>1. /\ owed' \in Nat /\ dropped' \in Loss \cup {None}
      /\ owed' > 0 \/ dropped' # None
  BY OweOrForgetEffect DEF StoreReview
<1>2. TypeOK'
  BY <1>1 DEF StoreReview, TypeOK, QueueTypeOK, queueVars
<1>3. LagHasCause'
  BY <1>1 DEF LagHasCause, Pending
<1>4. JobsLive' /\ RunningHaveJobs'
  BY DEF JobsLive, StoreReview, RunningHaveJobs, queueVars
<1>5. QED
  BY <1>2, <1>3, <1>4

\* Nothing asks for the recalculation, and that is on record.
LEMMA AttributeCommitPreserves ==
    ASSUME IInv, AttributeCommit
    PROVE  IInv'
<1> USE QueueAssumption, ScoreAssumption DEF IInv, AttributeCommit, scoreVars, calcVars
<1>1. dropped' \in Loss /\ dropped' # None
  BY DEF Loss
<1>2. commits' \in 0..MaxCommits
  <2>1. commits \in 0..MaxCommits /\ MaxCommits \in Nat
    BY DEF TypeOK
  <2>2. QED
    BY <2>1, WithinBounds
<1>3. TypeOK'
  BY <1>1, <1>2 DEF TypeOK, QueueTypeOK, queueVars
<1>4. LagHasCause'
  BY <1>1 DEF LagHasCause
<1>5. JobsLive' /\ RunningHaveJobs'
  BY DEF JobsLive, RunningHaveJobs, queueVars
<1>6. QED
  BY <1>3, <1>4, <1>5

\* Nothing asks for the recalculation, and that is on record.
LEMMA FactLeavesPreserves ==
    ASSUME IInv, FactLeaves
    PROVE  IInv'
<1> USE QueueAssumption, ScoreAssumption DEF IInv, FactLeaves, scoreVars, calcVars
<1>1. dropped' \in Loss /\ dropped' # None
  BY DEF Loss
<1>2. others' \in 0..MaxOthers
  <2>1. others \in 0..MaxOthers /\ MaxOthers \in Nat
    BY DEF TypeOK
  <2>2. QED
    BY <2>1, WithinBounds
<1>3. commits' \in 0..MaxCommits /\ reviews' \in 0..MaxReviews
  <2>1. /\ commits \in 0..MaxCommits /\ MaxCommits \in Nat
        /\ reviews \in 0..MaxReviews /\ MaxReviews \in Nat
    BY DEF TypeOK
  <2>2. CASE commits > 0 /\ commits' = commits - 1 /\ UNCHANGED reviews
    BY <2>1, <2>2, WithinBounds
  <2>3. CASE reviews > 0 /\ reviews' = reviews - 1 /\ UNCHANGED commits
    BY <2>1, <2>3, WithinBounds
  <2>4. QED
    BY <2>2, <2>3
<1>4. TypeOK'
  BY <1>1, <1>2, <1>3 DEF TypeOK, QueueTypeOK, queueVars
<1>5. LagHasCause'
  BY <1>1 DEF LagHasCause
<1>6. JobsLive' /\ RunningHaveJobs'
  BY DEF JobsLive, RunningHaveJobs, queueVars
<1>7. QED
  BY <1>4, <1>5, <1>6

\* What was owed is now a waiting job, or lost.
LEMMA EnqueueOwedPreserves ==
    ASSUME IInv, EnqueueOwed
    PROVE  IInv'
<1> USE DEF IInv
<1>1. /\ owed \in Nat /\ owed > 0 /\ owed' = owed - 1
      /\ UNCHANGED <<commits, reviews, others, latest, cache, cpc, cjob, crow>>
  BY DEF EnqueueOwed, TypeOK, scoreVars, calcVars
<1>2. owed' \in Nat
  BY <1>1
<1>3. RunningHaveJobs'
  BY <1>1 DEF RunningHaveJobs
<1>4. CASE AddNewJob /\ UNCHANGED dropped
  <2>1. PICK k \in JobId : jstate[k] = "absent" /\ AddJob(k)
    BY <1>4 DEF AddNewJob
  <2>2. QueueTypeOK' /\ JobsLive' /\ jstate'[k] = "waiting"
    BY <2>1, AddJobEffect DEF TypeOK
  <2>3. TypeOK'
    BY <1>1, <1>2, <1>4, <2>2 DEF TypeOK
  <2>4. LagHasCause'
    BY <2>2 DEF LagHasCause, Pending, UnderWay
  <2>5. QED
    BY <1>3, <2>2, <2>3, <2>4
<1>5. CASE dropped' = "enqueue failed" /\ UNCHANGED queueVars
  <2>1. dropped' \in Loss /\ dropped' # None
    BY <1>5, ScoreAssumption DEF Loss
  <2>2. QueueTypeOK' /\ JobsLive'
    BY <1>5 DEF TypeOK, QueueTypeOK, JobsLive, queueVars
  <2>3. TypeOK'
    BY <1>1, <1>2, <2>1, <2>2 DEF TypeOK
  <2>4. LagHasCause'
    BY <2>1 DEF LagHasCause
  <2>5. QED
    BY <1>3, <2>2, <2>3, <2>4
<1>6. QED
  BY <1>4, <1>5 DEF EnqueueOwed

\* One more waiting job.
LEMMA TriggerRecalculationPreserves ==
    ASSUME IInv, TriggerRecalculation
    PROVE  IInv'
<1> USE QueueAssumption, ScoreAssumption DEF IInv, TypeOK, TriggerRecalculation, scoreVars, calcVars
<1>1. PICK k \in JobId : jstate[k] = "absent" /\ AddJob(k)
  BY DEF AddNewJob
<1>2. QueueTypeOK' /\ JobsLive' /\ jstate'[k] = "waiting"
  BY <1>1, AddJobEffect
<1>3. TypeOK' /\ RunningHaveJobs'
  BY <1>2 DEF RunningHaveJobs
<1>4. LagHasCause'
  BY <1>2 DEF LagHasCause, Pending, UnderWay
<1>5. QED
  BY <1>2, <1>3, <1>4

\* The calculation of a job just taken has yet to read everything.
LEMMA TakePreserves ==
    ASSUME IInv, NEW w \in Worker, NEW j \in JobId, Take(w, j)
    PROVE  IInv'
<1> USE QueueAssumption, ScoreAssumption
    DEF IInv, TypeOK, Take, TakeJob, Go, factVars, scoreVars
<1>1. w \in Calculator /\ cjob[w] = None /\ cpc[w] = "idle"
  BY DEF Calculator, RunningHaveJobs
<1>2. QueueTypeOK' /\ JobsLive'
  BY DEF QueueTypeOK, JobsLive, JobState
<1>3. TypeOK'
  BY <1>1, <1>2 DEF Stage
<1>4. RunningHaveJobs'
  <2>1. \A x \in Worker \ {w} : cpc'[x] = cpc[x] /\ cjob'[x] = cjob[x]
    BY DEF Calculator
  <2>2. cpc'[w] = "commits" /\ cjob'[w] = j
    BY <1>1
  <2>3. QED
    BY <2>1, <2>2 DEF RunningHaveJobs
<1>5. LagHasCause'
  <2>1. \A x \in Worker : cjob'[x] = j /\ x = w => Fresh(x)'
    BY <1>1 DEF Fresh
  <2>2. jstate'[j] = "active" /\ jowner'[j] = w
    BY DEF QueueTypeOK
  <2>3. UnderWay(j)'
    BY <2>1, <2>2 DEF UnderWay
  <2>4. QED
    BY <2>3 DEF LagHasCause, Pending
<1>6. QED
  BY <1>2, <1>3, <1>4, <1>5

\* The commits read are all there are.
LEMMA ExtractCommitsPreserves ==
    ASSUME IInv, NEW c \in Calculator, ExtractCommits(c)
    PROVE  IInv'
<1> USE QueueAssumption, ScoreAssumption DEF IInv, TypeOK, ExtractCommits
<1> DEFINE read == [commits |-> commits, reviews |-> 0]
<1>1. CASE /\ crow' = [crow EXCEPT ![c] = read]
           /\ Go(c, "reviews")
           /\ UNCHANGED <<queueVars, factVars, scoreVars, cjob, dropped>>
  <2> USE <1>1 DEF Go, factVars, scoreVars
  <2>1. read \in Row /\ read.commits = commits /\ read.reviews = 0
    BY RowParts DEF Row
  <2>2. /\ cpc' = [cpc EXCEPT ![c] = "reviews"] /\ cpc' \in [Calculator -> Stage]
        /\ crow' \in [Calculator -> Row]
    BY <2>1 DEF Stage
  <2>3. TypeOK' /\ JobsLive'
    BY <2>2 DEF QueueTypeOK, JobsLive, queueVars
  <2>4. RunningHaveJobs'
    BY DEF RunningHaveJobs, Calculator
  <2>5. \A w \in Worker : Fresh(w) => Fresh(w)'
    BY <2>1 DEF Fresh, Facts, Calculator
  <2>6. LagHasCause'
    BY <2>5, FreshKeeps DEF LagHasCause, Pending, Lagging, Facts
  <2>7. QED
    BY <2>3, <2>4, <2>6
<1>2. CASE Throw(c)
  BY <1>2, ThrowPreserves
<1>3. QED
  BY <1>1, <1>2

\* The reviews read are all there are; too few commits were read only of an outdated count.
LEMMA ExtractReviewsPreserves ==
    ASSUME IInv, NEW c \in Calculator, ExtractReviews(c)
    PROVE  IInv'
<1> USE QueueAssumption, ScoreAssumption DEF IInv, TypeOK, ExtractReviews
<1> DEFINE read == [commits |-> crow[c].commits, reviews |-> reviews]
<1>1. CASE /\ crow' = [crow EXCEPT ![c] = read]
           /\ Go(c, "store")
           /\ UNCHANGED <<queueVars, factVars, scoreVars, cjob, dropped>>
  <2> USE <1>1 DEF Go, factVars, scoreVars
  <2>1. read \in Row /\ read.commits = crow[c].commits /\ read.reviews = reviews
    BY RowParts DEF Row
  <2>2. /\ cpc' = [cpc EXCEPT ![c] = "store"] /\ cpc' \in [Calculator -> Stage]
        /\ crow' \in [Calculator -> Row]
    BY <2>1 DEF Stage
  <2>3. TypeOK' /\ JobsLive'
    BY <2>2 DEF QueueTypeOK, JobsLive, queueVars
  <2>4. RunningHaveJobs'
    BY DEF RunningHaveJobs, Calculator
  <2>5. \A w \in Worker : Fresh(w) => Fresh(w)'
    BY <2>1 DEF Fresh, Facts, Calculator
  <2>6. LagHasCause'
    BY <2>5, FreshKeeps DEF LagHasCause, Pending, Lagging, Facts
  <2>7. QED
    BY <2>3, <2>4, <2>6
<1>2. CASE /\ crow[c].commits < MinCommits
           /\ Finish(c)
           /\ UNCHANGED <<factVars, scoreVars, dropped>>
  <2> USE <1>2 DEF factVars, scoreVars
  <2>1. TypeOK' /\ JobsLive' /\ RunningHaveJobs'
    BY FinishEffect
  <2>2. LagHasCause'
    <3> SUFFICES ASSUME Lagging, dropped = None PROVE Pending'
      BY DEF LagHasCause, Lagging, Facts
    <3>1. ~ Fresh(c)
      BY RowParts DEF Fresh, Lagging
    <3>2. QED
      BY <3>1, FinishKeeps DEF LagHasCause, Pending
  <2>3. QED
    BY <2>1, <2>2
<1>3. CASE Throw(c)
  BY <1>3, ThrowPreserves
<1>4. QED
  BY <1>1, <1>2, <1>3

\* A fresh calculation brings the score up to date; another one overtakes, or changes nothing.
LEMMA StoreScorePreserves ==
    ASSUME IInv, NEW c \in Calculator, StoreScore(c)
    PROVE  IInv'
<1> USE QueueAssumption, ScoreAssumption DEF IInv, TypeOK, StoreScore
<1>1. CASE /\ latest' = crow[c]
           /\ Go(c, "invalidate")
           /\ dropped' = Losses(crow[c])
           /\ UNCHANGED <<queueVars, factVars, cache, cjob, crow>>
  <2> USE <1>1 DEF Go, factVars
  <2>1. /\ cpc' = [cpc EXCEPT ![c] = "invalidate"] /\ cpc' \in [Calculator -> Stage]
        /\ latest' \in Row
    BY RowParts DEF Stage
  <2>2. dropped' \in Loss \cup {None}
    BY DEF Losses, Loss
  <2>3. TypeOK' /\ JobsLive'
    BY <2>1, <2>2 DEF QueueTypeOK, JobsLive, queueVars
  <2>4. RunningHaveJobs'
    BY DEF RunningHaveJobs, Calculator
  <2>5. LagHasCause'
    <3> SUFFICES ASSUME Lagging', dropped' = None PROVE Pending'
      BY DEF LagHasCause
    <3>1. crow[c] # Facts /\ commits >= MinCommits
      BY DEF Lagging, Facts
    <3>2. ~ Overtaken(crow[c]) /\ dropped = None
      BY <3>1 DEF Losses, Loss
    <3>3. latest # Facts
      BY <3>1, <3>2 DEF Overtaken
    <3>4. Pending
      BY <3>1, <3>2, <3>3 DEF LagHasCause, Lagging
    <3>5. \A w \in Worker : Fresh(w) => Fresh(w)'
      BY <3>1 DEF Fresh, Facts, Calculator
    <3>6. QED
      BY <3>4, <3>5, FreshKeeps DEF Pending
  <2>6. QED
    BY <2>3, <2>4, <2>5
<1>2. CASE Throw(c)
  BY <1>2, ThrowPreserves
<1>3. QED
  BY <1>1, <1>2

\* The cache does not matter.
LEMMA InvalidatePreserves ==
    ASSUME IInv, NEW c \in Calculator, Invalidate(c)
    PROVE  IInv'
<1> USE QueueAssumption, ScoreAssumption DEF IInv, TypeOK, Invalidate, Go, factVars
<1>1. cpc' = [cpc EXCEPT ![c] = "publish"] /\ cpc' \in [Calculator -> Stage]
  BY DEF Stage
<1>2. TypeOK' /\ JobsLive'
  BY <1>1 DEF QueueTypeOK, JobsLive, queueVars
<1>3. RunningHaveJobs'
  BY DEF RunningHaveJobs, Calculator
<1>4. \A w \in Worker : Fresh(w) => Fresh(w)'
  BY DEF Fresh, Facts, Calculator
<1>5. LagHasCause'
  BY <1>4, FreshKeeps DEF LagHasCause, Pending, Lagging, Facts
<1>6. QED
  BY <1>2, <1>3, <1>5

\* A calculation that has stored its row is not what the invariant counts on.
LEMMA PublishPreserves ==
    ASSUME IInv, NEW c \in Calculator, Publish(c)
    PROVE  IInv'
<1> USE QueueAssumption, ScoreAssumption DEF IInv, TypeOK, Publish, factVars, scoreVars
<1>1. TypeOK' /\ JobsLive' /\ RunningHaveJobs'
  BY FinishEffect
<1>2. LagHasCause'
  <2> SUFFICES ASSUME Lagging, dropped = None PROVE Pending'
    BY DEF LagHasCause, Lagging, Facts
  <2>1. ~ Fresh(c)
    BY DEF Fresh
  <2>2. QED
    BY <2>1, FinishKeeps DEF LagHasCause, Pending
<1>3. QED
  BY <1>1, <1>2

\* A request begins.
LEMMA GetDQSPreserves ==
    ASSUME IInv, NEW r \in Reader, GetDQS(r)
    PROVE  IInv'
<1> USE QueueAssumption, ScoreAssumption DEF IInv, TypeOK, GetDQS, Go, factVars, scoreVars
<1>1. r \in Calculator /\ r \notin Worker
  BY DEF Calculator
<1>2. \A w \in Worker : cpc'[w] = cpc[w] /\ crow'[w] = crow[w]
  BY <1>1 DEF Calculator
<1>3. cpc' \in [Calculator -> Stage] /\ crow' \in [Calculator -> Row]
  BY <1>1 DEF Stage
<1>4. TypeOK' /\ JobsLive'
  BY <1>3, RowParts DEF QueueTypeOK, JobsLive, queueVars
<1>5. RunningHaveJobs'
  BY <1>2 DEF RunningHaveJobs
<1>6. \A w \in Worker : Fresh(w) => Fresh(w)'
  BY <1>2 DEF Fresh, Facts
<1>7. LagHasCause'
  BY <1>6, FreshKeeps DEF LagHasCause, Pending, Lagging, Facts
<1>8. QED
  BY <1>4, <1>5, <1>7

\* A request reads the cache.
LEMMA LookUpCachePreserves ==
    ASSUME IInv, NEW r \in Reader, LookUpCache(r)
    PROVE  IInv'
<1> USE QueueAssumption, ScoreAssumption DEF IInv, TypeOK, LookUpCache, Go, factVars, scoreVars
<1>1. r \in Calculator /\ r \notin Worker
  BY DEF Calculator
<1>2. \A w \in Worker : cpc'[w] = cpc[w] /\ crow'[w] = crow[w]
  BY <1>1 DEF Calculator
<1>3. cpc' \in [Calculator -> Stage] /\ crow' \in [Calculator -> Row]
  BY <1>1 DEF Stage
<1>4. TypeOK' /\ JobsLive'
  BY <1>3, RowParts DEF QueueTypeOK, JobsLive, queueVars
<1>5. RunningHaveJobs'
  BY <1>2 DEF RunningHaveJobs
<1>6. \A w \in Worker : Fresh(w) => Fresh(w)'
  BY <1>2 DEF Fresh, Facts
<1>7. LagHasCause'
  BY <1>6, FreshKeeps DEF LagHasCause, Pending, Lagging, Facts
<1>8. QED
  BY <1>4, <1>5, <1>7

\* A request reads the newest row.
LEMMA ReadLatestPreserves ==
    ASSUME IInv, NEW r \in Reader, ReadLatest(r)
    PROVE  IInv'
<1> USE QueueAssumption, ScoreAssumption DEF IInv, TypeOK, ReadLatest, Go, factVars, scoreVars
<1>1. r \in Calculator /\ r \notin Worker
  BY DEF Calculator
<1>2. \A w \in Worker : cpc'[w] = cpc[w] /\ crow'[w] = crow[w]
  BY <1>1 DEF Calculator
<1>3. cpc' \in [Calculator -> Stage] /\ crow' \in [Calculator -> Row]
  BY RowParts, <1>1 DEF Stage
<1>4. TypeOK' /\ JobsLive'
  BY <1>3, RowParts DEF QueueTypeOK, JobsLive, queueVars
<1>5. RunningHaveJobs'
  BY <1>2 DEF RunningHaveJobs
<1>6. \A w \in Worker : Fresh(w) => Fresh(w)'
  BY <1>2 DEF Fresh, Facts
<1>7. LagHasCause'
  BY <1>6, FreshKeeps DEF LagHasCause, Pending, Lagging, Facts
<1>8. QED
  BY <1>4, <1>5, <1>7

\* A request ends.
LEMMA FillCachePreserves ==
    ASSUME IInv, NEW r \in Reader, FillCache(r)
    PROVE  IInv'
<1> USE QueueAssumption, ScoreAssumption DEF IInv, TypeOK, FillCache, Go, factVars, scoreVars
<1>1. r \in Calculator /\ r \notin Worker
  BY DEF Calculator
<1>2. \A w \in Worker : cpc'[w] = cpc[w] /\ crow'[w] = crow[w]
  BY <1>1 DEF Calculator
<1>3. cpc' \in [Calculator -> Stage] /\ crow' \in [Calculator -> Row]
  BY RowParts, <1>1 DEF Stage, NoFacts, Row
<1>4. TypeOK' /\ JobsLive'
  BY <1>3 DEF QueueTypeOK, JobsLive, queueVars
<1>5. RunningHaveJobs'
  BY <1>2 DEF RunningHaveJobs
<1>6. \A w \in Worker : Fresh(w) => Fresh(w)'
  BY <1>2 DEF Fresh, Facts
<1>7. LagHasCause'
  BY <1>6, FreshKeeps DEF LagHasCause, Pending, Lagging, Facts
<1>8. QED
  BY <1>4, <1>5, <1>7

\* The cache does not matter.
LEMMA ExpirePreserves ==
    ASSUME IInv, Expire
    PROVE  IInv'
<1> USE QueueAssumption, ScoreAssumption DEF IInv, TypeOK, QueueTypeOK, queueVars,
           factVars, scoreVars, calcVars
<1>1. TypeOK'
  BY DEF Expire
<1>2. JobsLive' /\ RunningHaveJobs' /\ LagHasCause'
  BY RowParts DEF JobsLive, Facts, Expire, Lagging, Fresh, UnderWay, Pending, LagHasCause,
         RunningHaveJobs
<1>3. QED
  BY <1>1, <1>2

\* What was owed is lost; the jobs stay in the queue, and nobody runs them.
LEMMA CrashPreserves ==
    ASSUME IInv, Crash
    PROVE  IInv'
<1> USE QueueAssumption, ScoreAssumption DEF IInv, TypeOK, Crash, scoreVars
<1>1. "idle" \in Stage /\ NoFacts \in Row
  BY DEF Stage, NoFacts, Row
<1>2. dropped' \in Loss \cup {None}
  BY DEF Loss
<1>3. TypeOK' /\ JobsLive'
  BY <1>1, <1>2 DEF QueueTypeOK, JobsLive, queueVars
<1>4. RunningHaveJobs'
  BY DEF RunningHaveJobs, Calculator
<1>5. LagHasCause'
  <2> SUFFICES ASSUME Lagging, dropped' = None PROVE Pending'
    BY DEF LagHasCause, Lagging, Facts
  <2>1. ~ (owed > 0) /\ dropped = None
    BY DEF Loss
  <2>2. PICK j \in JobId : UnderWay(j)
    BY <2>1 DEF LagHasCause, Pending
  <2>3. UnderWay(j)'
    BY <2>2 DEF UnderWay, queueVars
  <2>4. QED
    BY <2>3 DEF Pending
<1>6. QED
  BY <1>3, <1>4, <1>5

\* A stalled job waits again, or is lost.
LEMMA StallPreserves ==
    ASSUME IInv, NEW j \in JobId, Stall(j)
    PROVE  IInv'
<1> USE QueueAssumption, ScoreAssumption
    DEF IInv, TypeOK, Stall, StallJob, factVars, scoreVars, calcVars
<1>1. QueueTypeOK' /\ JobsLive'
  BY DEF QueueTypeOK, JobsLive, JobState
<1>2. TypeOK' /\ RunningHaveJobs'
  BY <1>1 DEF Loss, RunningHaveJobs
<1>3. LagHasCause'
  <2> SUFFICES ASSUME Lagging, dropped' = None PROVE Pending'
    BY DEF LagHasCause, Lagging, Facts
  <2>1. jstate'[j] = "waiting" /\ dropped = None
    BY DEF Loss, QueueTypeOK
  <2>2. QED
    BY <2>1 DEF Pending, UnderWay
<1>4. QED
  BY <1>1, <1>2, <1>3

\* An evicted job had failed.
LEMMA EvictPreserves ==
    ASSUME IInv, NEW j \in JobId, Evict(j)
    PROVE  IInv'
<1> USE QueueAssumption, ScoreAssumption
    DEF IInv, TypeOK, Evict, EvictJob, factVars, scoreVars, calcVars
<1>1. QueueTypeOK' /\ JobsLive'
  BY DEF QueueTypeOK, JobsLive, JobState
<1>2. TypeOK' /\ RunningHaveJobs'
  BY <1>1 DEF RunningHaveJobs
<1>3. \A k \in JobId : UnderWay(k) => UnderWay(k)'
  BY DEF UnderWay, Fresh, Facts, QueueTypeOK
<1>4. LagHasCause'
  BY <1>3 DEF LagHasCause, Pending, Lagging, Facts
<1>5. QED
  BY <1>1, <1>2, <1>4

\* A step that changes nothing preserves everything.
LEMMA StutterPreserves ==
    ASSUME IInv, UNCHANGED vars
    PROVE  IInv'
<1> USE DEF vars, queueVars, factVars, scoreVars, calcVars
<1>1. TypeOK' /\ JobsLive' /\ RunningHaveJobs'
  BY DEF IInv, TypeOK, QueueTypeOK, JobsLive, RunningHaveJobs
<1>2. LagHasCause'
  BY DEF IInv, LagHasCause, Lagging, Pending, UnderWay, Fresh, Facts
<1>3. QED
  BY <1>1, <1>2 DEF IInv

\* Every step preserves the inductive invariant.
LEMMA NextPreserves == IInv /\ [Next]_vars => IInv'
<1> SUFFICES ASSUME IInv, [Next]_vars PROVE IInv'
  OBVIOUS
<1>1. CASE \/ StoreCommit \/ StoreReview \/ AttributeCommit \/ FactLeaves
           \/ EnqueueOwed \/ TriggerRecalculation
  BY <1>1, StoreCommitPreserves, StoreReviewPreserves, AttributeCommitPreserves,
     FactLeavesPreserves, EnqueueOwedPreserves, TriggerRecalculationPreserves
<1>2. CASE \E w \in Worker, j \in JobId : Take(w, j)
  BY <1>2, TakePreserves
<1>3. CASE \E c \in Calculator : CalculationStep(c)
  BY <1>3, ExtractCommitsPreserves, ExtractReviewsPreserves, StoreScorePreserves,
     InvalidatePreserves, PublishPreserves DEF CalculationStep
<1>4. CASE \E r \in Reader : GetDQS(r) \/ ReadStep(r)
  BY <1>4, GetDQSPreserves, LookUpCachePreserves, ReadLatestPreserves, FillCachePreserves
     DEF ReadStep
<1>5. CASE Expire \/ Crash
  BY <1>5, ExpirePreserves, CrashPreserves
<1>6. CASE \E j \in JobId : Stall(j) \/ Evict(j)
  BY <1>6, StallPreserves, EvictPreserves
<1>7. CASE UNCHANGED vars
  BY <1>7, StutterPreserves
<1>8. QED
  BY <1>1, <1>2, <1>3, <1>4, <1>5, <1>6, <1>7 DEF Next

\* The inductive invariant holds throughout every behaviour.
THEOREM Invariance == Spec => []IInv
BY InitEstablishes, NextPreserves, PTL DEF Spec

\* Type correctness.
THEOREM TypeCorrect == Spec => []TypeOK
<1>1. IInv => TypeOK
  BY DEF IInv
<1>2. QED
  BY <1>1, Invariance, PTL

\* While the newest score lags behind the facts, a recalculation that will show them is
\* under way, or one was lost in one of the ways listed in Loss.
THEOREM NothingForgotten == Spec => []LagHasCause
<1>1. IInv => LagHasCause
  BY DEF IInv
<1>2. QED
  BY <1>1, Invariance, PTL
===============================================================================
