------------------------ MODULE PullRequestSync_proofs ------------------------
(***************************************************************************)
(* PullRequestSync for any number of events, workers, requests, attempts   *)
(* and comments: the row in order, the merge that is only undone late, and *)
(* the causes of a head without a gate and of a second comment.  One lemma *)
(* per action shows that it preserves IInv.                                *)
(***************************************************************************)
EXTENDS PullRequestSync, FiniteSetTheorems, TLAPS

\* GitHub has sent nothing yet.
LEMMA InitEstablishes == Init => IInv
<1> SUFFICES ASSUME Init PROVE IInv
  OBVIOUS
<1> USE QueueAssumption, PullRequestAssumption DEF Init, QueueInit
<1>1. TypeOK
  <2>1. QueueTypeOK
    BY DEF QueueTypeOK, JobState
  <2>2. /\ hist \in Seq(Event) /\ Len(hist) <= MaxEvents
        /\ comments \in Seq({"bot", "human"}) /\ Len(comments) <= MaxComments
        /\ at \in [Process -> Stage]
    BY DEF Stage
  <2>3. 0 \in 0..MaxEvents /\ 0 \in 0..MaxComments /\ 0 \in 0..MaxRequests
    OBVIOUS
  <2>4. /\ jdata \in [JobId -> 0..MaxEvents] /\ ev \in [Process -> 0..MaxEvents]
        /\ head \in [Process -> 0..MaxEvents] /\ found \in [Process -> 0..MaxComments]
    BY <2>3
  <2>5. /\ inflight \subseteq DOMAIN hist /\ gates \subseteq 0..MaxEvents
        /\ applied \subseteq DOMAIN hist /\ dropped \subseteq DOMAIN hist
        /\ failed \subseteq DOMAIN hist /\ collided \subseteq DOMAIN hist
    OBVIOUS
  <2>6. /\ real \in Row \cup {None} /\ phantom \in 0..MaxEvents \cup {None}
        /\ asked \in 0..MaxRequests /\ newest \in 0..MaxEvents
        /\ late \in BOOLEAN /\ overlap \in BOOLEAN
    BY <2>3
  <2>7. QED
    BY <2>1, <2>2, <2>4, <2>5, <2>6 DEF TypeOK
<1>2. JobsLive /\ Chronicle /\ JobsCarryEvents /\ WorkersHoldEvents
  BY DEF JobsLive, Chronicle, JobsCarryEvents, WorkersHoldEvents, Process
<1>3. RowHistory /\ InOrderIsExact /\ UnevaluatedHasCause /\ PostersAlone
  BY DEF RowHistory, InOrderIsExact, UnevaluatedHasCause, PostersAlone, BotComments
<1>4. QED
  BY <1>1, <1>2, <1>3 DEF IInv

\* An operation of the queue keeps its types, and keeps waiting jobs alive.
LEMMA QueueSteps ==
    ASSUME QueueTypeOK, JobsLive, NEW j \in JobId,
           \/ AddJob(j) \/ StallJob(j) \/ EvictJob(j)
           \/ \E w \in Worker : TakeJob(w, j) \/ CompleteJob(w, j) \/ FailJob(w, j)
    PROVE  QueueTypeOK' /\ JobsLive'
<1> USE QueueAssumption DEF QueueTypeOK
<1>1. CASE AddJob(j)
  BY <1>1 DEF AddJob, JobsLive, JobState, queueVars
<1>2. CASE \E w \in Worker : TakeJob(w, j)
  BY <1>2 DEF TakeJob, JobsLive, JobState
<1>3. CASE \E w \in Worker : CompleteJob(w, j)
  BY <1>3 DEF CompleteJob, JobsLive, JobState, queueVars
<1>4. CASE \E w \in Worker : FailJob(w, j)
  BY <1>4 DEF FailJob, JobsLive, JobState, queueVars
<1>5. CASE StallJob(j)
  BY <1>5 DEF StallJob, JobsLive, JobState
<1>6. CASE EvictJob(j)
  BY <1>6 DEF EvictJob, JobsLive, JobState
<1>7. QED
  BY <1>1, <1>2, <1>3, <1>4, <1>5, <1>6

\* So does a step that leaves it alone.
LEMMA QueueIdle ==
    ASSUME QueueTypeOK, JobsLive, UNCHANGED queueVars
    PROVE  QueueTypeOK' /\ JobsLive'
BY DEF QueueTypeOK, JobsLive, queueVars


\* What an event is.
LEMMA EventTyped ==
    ASSUME TypeOK, NEW i \in DOMAIN hist
    PROVE  /\ i \in 1..Len(hist) /\ i \in 1..MaxEvents /\ Len(hist) \in Nat
           /\ hist[i] \in Event
           /\ hist[i].action \in Actions /\ hist[i].action \in JobId
           /\ hist[i].state \in States /\ hist[i].head \in 1..MaxEvents
<1> USE PullRequestAssumption DEF TypeOK
<1>1. i \in 1..Len(hist) /\ Len(hist) \in Nat /\ Len(hist) <= MaxEvents
  OBVIOUS
<1>2. hist[i] \in Event
  OBVIOUS
<1>3. QED
  BY <1>1, <1>2 DEF Event

\* A worker that lets go of a job leaves the others as they are.
LEMMA LetsGo ==
    ASSUME QueueTypeOK, JobsLive, NEW w \in Worker, NEW a \in JobId,
           FailJob(w, a) \/ CompleteJob(w, a)
    PROVE  /\ \A b \in JobId : jstate'[b] = "absent" <=> jstate[b] = "absent"
           /\ \A b \in JobId, v \in Worker : jowner'[b] = v => jowner[b] = v
           /\ \A b \in JobId \ {a} : jstate'[b] = jstate[b]
           /\ jstate'[a] # jstate[a] => jowner[a] = w
           /\ FailJob(w, a) => jstate'[a] \in {jstate[a], "waiting", "failed"}
<1> USE QueueAssumption DEF QueueTypeOK, JobsLive
<1>1. CASE FailJob(w, a)
  BY <1>1 DEF FailJob, queueVars
<1>2. CASE CompleteJob(w, a) /\ jowner[a] = w
  BY <1>2 DEF CompleteJob, FailJob
<1>3. CASE CompleteJob(w, a) /\ jowner[a] # w
  BY <1>3 DEF CompleteJob, FailJob, queueVars
<1>4. QED
  BY <1>1, <1>2, <1>3

\* A process that rests or leaves its evaluation.
LEMMA LeavesTyped ==
    ASSUME TypeOK, NEW p \in Process, Rest(p) \/ Leave(p)
    PROVE  /\ at' \in [Process -> Stage] /\ ev' \in [Process -> 0..MaxEvents]
           /\ head' \in [Process -> 0..MaxEvents]
           /\ \A q \in Process \ {p} : at'[q] = at[q] /\ ev'[q] = ev[q] /\ head'[q] = head[q]
           /\ at'[p] \in {"idle", "finish"}
           /\ at'[p] = "finish" => p \in Worker /\ ev'[p] = ev[p] /\ head'[p] = head[p]
<1> USE PullRequestAssumption DEF TypeOK
<1>1. 0 \in 0..MaxEvents /\ {"idle", "finish"} \subseteq Stage
  BY DEF Stage
<1>2. CASE Rest(p)
  BY <1>1, <1>2 DEF Rest
<1>3. CASE p \in Worker /\ at' = [at EXCEPT ![p] = "finish"] /\ UNCHANGED <<ev, head>>
  BY <1>1, <1>3
<1>4. QED
  BY <1>2, <1>3 DEF Leave

\* One process moves: what the other workers hold is kept.
LEMMA OthersHold ==
    ASSUME IInv, NEW p \in Process, hist' = hist,
           gates \subseteq gates', failed \subseteq failed', collided \subseteq collided',
           \A v \in Process \ {p} : at'[v] = at[v] /\ ev'[v] = ev[v] /\ head'[v] = head[v],
           \A b \in JobId, v \in Worker : jowner'[b] = v /\ v # p =>
               jowner[b] = v /\ jdata'[b] = jdata[b],
           p \in Worker /\ at'[p] # "idle" => Holding(p)'
    PROVE  WorkersHoldEvents'
<1> USE DEF IInv
<1> SUFFICES ASSUME NEW w \in Worker, at'[w] # "idle", w # p PROVE Holding(w)'
  BY DEF WorkersHoldEvents
<1>1. w \in Process /\ at'[w] = at[w] /\ ev'[w] = ev[w] /\ head'[w] = head[w]
  BY DEF Process
<1>2. Holding(w)
  BY <1>1 DEF WorkersHoldEvents
<1>3. hist[ev[w]].action \in JobId
  BY <1>2, EventTyped DEF Holding, NeedsRow
<1>4. QED
  BY <1>1, <1>2, <1>3 DEF Holding, NeedsRow

\* What a worker at work holds.
LEMMA WorkerFacts ==
    ASSUME IInv, NEW w \in Worker, at[w] # "idle"
    PROVE  /\ w \in Process /\ ev[w] \in DOMAIN hist /\ Holding(w)
           /\ hist[ev[w]].action \in JobId
BY EventTyped DEF IInv, WorkersHoldEvents, Holding, NeedsRow, Process

\* A cause stays a cause, unless the head has a gate.
LEMMA CausesKept ==
    ASSUME IInv, hist' = hist, gates \subseteq gates',
           \A i \in DOMAIN hist : i \in inflight \cup dropped \cup failed \cup collided =>
               i \in inflight' \cup dropped' \cup failed' \cup collided' \/ Pending(i)',
           \A i \in DOMAIN hist : Pending(i) =>
               \/ Pending(i)' \/ i \in inflight' \cup dropped' \cup failed' \cup collided'
               \/ hist[i].head \in gates' \/ hist[i].action \notin Gated
    PROVE  UnevaluatedHasCause'
BY DEF IInv, UnevaluatedHasCause

\* Nobody comes to post, and the comments stay.
LEMMA PostersStay ==
    ASSUME IInv, UNCHANGED <<comments, found, overlap>>,
           \A q \in Process : at'[q] = "post" => at[q] = "post"
    PROVE  PostersAlone'
BY DEF IInv, PostersAlone, BotComments

\* What writing an event does to the row.
LEMMA Recorded ==
    ASSUME IInv, NEW i \in DOMAIN hist, Record(i), NeedsRow(i) => real # None, hist' = hist
    PROVE  /\ real' \in Row /\ applied' \subseteq DOMAIN hist /\ newest' \in 0..MaxEvents
           /\ late' \in BOOLEAN /\ RowHistory' /\ InOrderIsExact'
<1> USE PullRequestAssumption DEF IInv
<1>1. /\ hist[i].action \in Actions /\ hist[i].state \in States /\ hist[i].head \in 1..MaxEvents
      /\ i \in 1..MaxEvents /\ newest \in 0..MaxEvents /\ applied \subseteq DOMAIN hist
      /\ real \in Row \cup {None}
  BY EventTyped DEF TypeOK
<1> /\ i \in Nat /\ newest \in Nat /\ i > 0 /\ \A j \in applied : j \in Nat /\ j > 0
  <2>1. \A j \in applied : j \in 1..MaxEvents
    BY <1>1, EventTyped
  <2>2. QED
    BY <1>1, <2>1
<1>2. /\ real' = Written(i) /\ applied' = applied \cup {i}
      /\ newest' = (IF i > newest THEN i ELSE newest) /\ late' = (late \/ i < newest)
  BY DEF Record
<1>3. /\ real' \in Row
      /\ (real'.state = "MERGED") =>
             (hist[i].state = "MERGED" \/ (real # None /\ real.state = "MERGED"))
  <2>1. CASE hist[i].action \in {"opened", "closed", "review_requested"}
    BY <1>1, <1>2, <2>1 DEF Written, Snapshot, Row
  <2>2. CASE hist[i].action \in {"reopened", "synchronize"}
    <3>1. real \in Row /\ "OPEN" \in States
      BY <1>1, <2>2 DEF NeedsRow, States
    <3>2. QED
      BY <1>1, <1>2, <2>2, <3>1 DEF Written, Row
  <2>3. QED
    BY <1>1, <2>1, <2>2 DEF Actions
<1>4. applied' \subseteq DOMAIN hist /\ newest' \in 0..MaxEvents /\ newest' # 0 /\ i <= newest'
     /\ newest <= newest'
  BY <1>1, <1>2
<1>5. late' \in BOOLEAN
  BY <1>2, Zenon
<1>6. RowHistory'
  <2>1. newest' \in applied' /\ \A j \in applied' : j <= newest'
    <3>1. newest \in {0} \cup applied /\ \A j \in applied : j <= newest
      BY DEF RowHistory
    <3>2. CASE i > newest
      BY <1>2, <3>1, <3>2
    <3>3. CASE i <= newest
      <4>1. newest' = newest /\ newest \in applied
        BY <1>2, <3>1, <3>3
      <4>2. QED
        BY <1>2, <3>1, <3>3, <4>1
    <3>4. QED
      BY <3>2, <3>3
  <2>2. ASSUME real'.state = "MERGED"
        PROVE  \E k \in DOMAIN hist : k <= newest' /\ hist[k].state = "MERGED"
    <3>1. CASE hist[i].state = "MERGED"
      BY <1>4, <3>1
    <3>2. CASE real # None /\ real.state = "MERGED"
      <4>1. PICK k \in DOMAIN hist : k <= newest /\ hist[k].state = "MERGED"
        BY <3>2 DEF RowHistory
      <4>2. k <= newest'
        BY <1>1, <1>4, <4>1, EventTyped
      <4>3. QED
        BY <4>1, <4>2
    <3>3. hist[i].state = "MERGED" \/ (real # None /\ real.state = "MERGED")
      BY <1>3, <2>2, Zenon
    <3>4. QED
      BY <3>1, <3>2, <3>3
  <2>3. QED
    BY <1>4, <2>1, <2>2 DEF RowHistory
<1>7. InOrderIsExact'
  <2> SUFFICES ASSUME ~late', applied' = 1..newest'
               PROVE  real' = Snapshot(newest')
    BY <1>4 DEF InOrderIsExact, Snapshot
  <2>0. ~late /\ ~(i < newest)
    BY <1>2, Zenon
  <2>1. ~late /\ newest <= i /\ newest' = i
    BY <1>2, <2>0
  <2>2. CASE newest = i
    <3>0. newest \in applied
      BY <2>2 DEF RowHistory
    <3>1. applied = 1..newest /\ newest > 0
      BY <1>2, <2>1, <2>2, <3>0
    <3>2. real = Snapshot(i)
      BY <2>1, <2>2, <3>1 DEF InOrderIsExact
    <3>3. hist[i].action = "reopened" => hist[i].state = "OPEN"
      BY <1>1 DEF Chronicle, Follows
    <3>4. Snapshot(i) \in Row /\ Snapshot(i) # None
      BY <1>1 DEF Snapshot, Row
    <3>5. QED
      BY <1>1, <1>2, <2>1, <3>2, <3>3, <3>4 DEF Written, Snapshot, Actions
  <2>3. CASE newest < i /\ i = 1
    BY <1>2, <2>1, <2>3 DEF Chronicle, Written
  <2>4. CASE newest < i /\ i > 1
    <3>1. i - 1 \in applied /\ newest = i - 1 /\ applied = 1..newest
      <4>1. applied' = 1..i /\ i - 1 \in 1..i /\ i - 1 # i
        BY <2>1, <2>4
      <4>2. i - 1 \in applied
        BY <1>2, <4>1
      <4>3. newest = i - 1
        BY <2>4, <4>2 DEF RowHistory
      <4>4. i \notin applied
        BY <2>4 DEF RowHistory
      <4>5. applied = 1..(i - 1)
        <5>1. applied = (1..i) \ {i}
          BY <1>2, <4>1, <4>4
        <5>2. QED
          BY <2>4, <5>1
      <4>6. QED
        BY <4>2, <4>3, <4>5
    <3>2. real = Snapshot(i - 1) /\ i - 1 \in DOMAIN hist
      BY <1>1, <2>1, <2>4, <3>1 DEF InOrderIsExact
    <3>3. Follows(hist[i - 1], hist[i])
      BY <2>4 DEF Chronicle
    <3>4. Snapshot(i - 1) \in Row /\ Snapshot(i - 1) # None
      BY <3>2, EventTyped DEF Snapshot, Row
    <3>5. QED
      BY <1>1, <1>2, <2>1, <3>2, <3>3, <3>4 DEF Written, Snapshot, Actions, Follows
  <2>5. QED
    BY <1>1, <2>1, <2>2, <2>3, <2>4
<1>8. QED
  BY <1>3, <1>4, <1>5, <1>6, <1>7

\* What the next event may be.
LEMMA NextEventFollows ==
    ASSUME IInv, Len(hist) < MaxEvents, NEW e \in NextEvent
    PROVE  /\ e \in Event /\ e.head <= Len(hist) + 1
           /\ hist = <<>> => e.action = "opened" /\ e.state = "OPEN"
           /\ hist # <<>> => /\ Len(hist) \in DOMAIN hist
                             /\ Follows(hist[Len(hist)], e)
                             /\ hist[Len(hist)].state = "MERGED" => e.state = "MERGED"
<1> USE PullRequestAssumption DEF IInv
<1>1. hist \in Seq(Event) /\ Len(hist) \in Nat
  BY DEF TypeOK
<1>2. CASE hist = <<>>
  <2>1. e = [action |-> "opened", state |-> "OPEN", head |-> 1] /\ Len(hist) = 0
    BY <1>2 DEF NextEvent
  <2>2. e \in Event
    BY <2>1 DEF Event, Actions, States
  <2>3. QED
    BY <1>2, <2>1, <2>2
<1>3. CASE hist # <<>>
  <2> DEFINE now == hist[Len(hist)]
  <2>1. Len(hist) \in DOMAIN hist
    BY <1>1, <1>3
  <2>2. now.head \in 1..MaxEvents /\ now.state \in States /\ now.head <= Len(hist)
    BY <2>1, EventTyped DEF Chronicle
  <2>3. \/ e = [action |-> "review_requested", state |-> now.state, head |-> now.head]
        \/ /\ now.state = "OPEN"
           /\ e = [action |-> "synchronize", state |-> "OPEN", head |-> now.head + 1]
        \/ /\ now.state = "OPEN"
           /\ \E s \in {"CLOSED", "MERGED"} :
                  e = [action |-> "closed", state |-> s, head |-> now.head]
        \/ /\ now.state = "CLOSED"
           /\ e = [action |-> "reopened", state |-> "OPEN", head |-> now.head]
    BY <1>3 DEF NextEvent, Now
  <2> HIDE DEF now
  <2>4. e \in Event /\ e.head <= Len(hist) + 1
    BY <1>1, <2>2, <2>3 DEF Event, Actions, States
  <2>5. Follows(now, e) /\ (now.state = "MERGED" => e.state = "MERGED")
    BY <2>3 DEF Follows
  <2>6. QED
    BY <1>3, <2>1, <2>4, <2>5 DEF now
<1>4. QED
  BY <1>2, <1>3

\* An event follows the one before it.
LEMMA GitHubEventPreserves ==
    ASSUME IInv, GitHubEvent
    PROVE  IInv'
<1> USE QueueAssumption, PullRequestAssumption DEF IInv
<1>1. QueueTypeOK' /\ JobsLive'
  BY QueueIdle
     DEF GitHubEvent, TypeOK, queueVars
<1>2. TypeOK'
  <2>1. /\ hist' \in Seq(Event) /\ Len(hist)' <= MaxEvents
        /\ inflight' \subseteq DOMAIN hist' /\ jdata' \in [JobId -> 0..MaxEvents]
    <3>1. PICK e \in NextEvent : hist' = Append(hist, e)
      BY DEF GitHubEvent
    <3>2. /\ hist \in Seq(Event) /\ Len(hist) \in Nat /\ e \in Event
          /\ e.head <= Len(hist) + 1 /\ Len(hist) < MaxEvents
      BY NextEventFollows DEF TypeOK, GitHubEvent
    <3>3. /\ DOMAIN hist' = 1..(Len(hist) + 1) /\ hist'[Len(hist) + 1] = e
          /\ \A i \in DOMAIN hist : i \in DOMAIN hist' /\ hist'[i] = hist[i]
          /\ DOMAIN hist = 1..Len(hist)
      BY <3>1, <3>2
    <3>4. Len(hist') = Len(hist) + 1 /\ hist' \in Seq(Event)
      BY <3>1, <3>2
    <3>5. QED
      BY <3>2, <3>3, <3>4 DEF GitHubEvent, TypeOK
  <2>2. /\ real' \in Row \cup {None} /\ phantom' \in 0..MaxEvents \cup {None}
        /\ comments' \in Seq({"bot", "human"}) /\ Len(comments)' <= MaxComments
        /\ gates' \subseteq 0..MaxEvents
    BY DEF GitHubEvent, TypeOK, gateVars, rowVars, runVars
  <2>3. at' \in [Process -> Stage] /\ ev' \in [Process -> 0..MaxEvents]
    BY DEF GitHubEvent, TypeOK, gateVars, rowVars, runVars, Stage, Process
  <2>4. head' \in [Process -> 0..MaxEvents] /\ found' \in [Process -> 0..MaxComments]
    BY DEF GitHubEvent, TypeOK, gateVars, rowVars, runVars, Process
  <2>5. /\ applied' \subseteq DOMAIN hist' /\ newest' \in 0..MaxEvents /\ late' \in BOOLEAN
        /\ asked' \in 0..MaxRequests /\ overlap' \in BOOLEAN
    BY DEF GitHubEvent, TypeOK, gateVars, rowVars, runVars
  <2>6. dropped' \subseteq DOMAIN hist' /\ failed' \subseteq DOMAIN hist'
        /\ collided' \subseteq DOMAIN hist'
    BY DEF GitHubEvent, TypeOK, gateVars, rowVars, runVars
  <2>7. QED
    BY <1>1, <2>1, <2>2, <2>3, <2>4, <2>5, <2>6 DEF TypeOK
<1>3. Chronicle'
  <2>1. PICK e \in NextEvent : hist' = Append(hist, e)
    BY DEF GitHubEvent
  <2>2. /\ hist \in Seq(Event) /\ Len(hist) \in Nat /\ e \in Event
        /\ e.head <= Len(hist) + 1 /\ Len(hist) < MaxEvents
    BY NextEventFollows DEF TypeOK, GitHubEvent
  <2>3. /\ DOMAIN hist' = 1..(Len(hist) + 1) /\ hist'[Len(hist) + 1] = e
        /\ \A i \in DOMAIN hist : i \in DOMAIN hist' /\ hist'[i] = hist[i]
        /\ DOMAIN hist = 1..Len(hist)
    BY <2>1, <2>2
  <2>4. /\ hist = <<>> => e.action = "opened" /\ e.state = "OPEN"
        /\ hist # <<>> => /\ Len(hist) \in DOMAIN hist
                          /\ Follows(hist[Len(hist)], e)
                          /\ hist[Len(hist)].state = "MERGED" => e.state = "MERGED"
    BY <2>2, NextEventFollows
  <2>5. \A i \in DOMAIN hist' :
            /\ hist'[i].head <= i
            /\ i = 1 => hist'[i].action = "opened" /\ hist'[i].state = "OPEN"
            /\ i > 1 => Follows(hist'[i - 1], hist'[i])
    <3>1. ASSUME NEW i \in DOMAIN hist
          PROVE  /\ hist'[i].head <= i
                 /\ i = 1 => hist'[i].action = "opened" /\ hist'[i].state = "OPEN"
                 /\ i > 1 => Follows(hist'[i - 1], hist'[i])
      BY <2>2, <2>3 DEF Chronicle
    <3>2. CASE hist = <<>>
      BY <2>2, <2>3, <2>4, <3>1, <3>2
    <3>3. CASE hist # <<>>
      BY <2>2, <2>3, <2>4, <3>1, <3>3
    <3>4. QED
      BY <3>2, <3>3
  <2>6. \A i, k \in DOMAIN hist' :
            k <= i /\ hist'[k].state = "MERGED" => hist'[i].state = "MERGED"
    <3>1. ASSUME NEW k \in DOMAIN hist, hist[k].state = "MERGED"
          PROVE  e.state = "MERGED"
      <4>1. k <= Len(hist) /\ hist # <<>>
        BY <2>2, <2>3
      <4>2. hist[Len(hist)].state = "MERGED"
        BY <2>4, <3>1, <4>1 DEF Chronicle
      <4>3. QED
        BY <2>4, <4>1, <4>2
    <3>2. QED
      BY <2>2, <2>3, <3>1 DEF Chronicle
  <2>7. QED
    BY <2>5, <2>6 DEF Chronicle
<1>4. JobsCarryEvents'
  BY DEF GitHubEvent, queueVars, TypeOK, QueueTypeOK, gateVars, rowVars, runVars,
     JobsCarryEvents, JobsLive
<1>5. WorkersHoldEvents'
  BY DEF GitHubEvent, queueVars, TypeOK, QueueTypeOK, gateVars, rowVars, runVars,
     WorkersHoldEvents, Holding, NeedsRow, JobsLive, JobsCarryEvents, Process, Stage
<1>6. RowHistory'
  <2>1. PICK e \in NextEvent : hist' = Append(hist, e)
    BY DEF GitHubEvent
  <2>2. /\ hist \in Seq(Event) /\ Len(hist) \in Nat /\ e \in Event
        /\ e.head <= Len(hist) + 1 /\ Len(hist) < MaxEvents
    BY NextEventFollows DEF TypeOK, GitHubEvent
  <2>3. /\ DOMAIN hist' = 1..(Len(hist) + 1) /\ hist'[Len(hist) + 1] = e
        /\ \A i \in DOMAIN hist : i \in DOMAIN hist' /\ hist'[i] = hist[i]
        /\ DOMAIN hist = 1..Len(hist)
    BY <2>1, <2>2
  <2>4. UNCHANGED <<real, applied, newest>>
    BY DEF GitHubEvent, rowVars
  <2>5. QED
    BY <2>3, <2>4 DEF RowHistory
<1>7. InOrderIsExact'
  BY DEF GitHubEvent, TypeOK, gateVars, rowVars, runVars, InOrderIsExact, RowHistory,
     Snapshot
<1>8. UnevaluatedHasCause'
  BY DEF GitHubEvent, queueVars, TypeOK, QueueTypeOK, gateVars, rowVars, runVars,
     UnevaluatedHasCause, Pending, Holding, NeedsRow, JobsCarryEvents, WorkersHoldEvents
<1>9. PostersAlone'
  BY DEF GitHubEvent, TypeOK, gateVars, rowVars, runVars, PostersAlone, BotComments, Process,
     Stage
<1>10. QED
  BY <1>1, <1>2, <1>3, <1>4, <1>5, <1>6, <1>7, <1>8, <1>9
     DEF IInv

\* A lost delivery is on record.
LEMMA LosePreserves ==
    ASSUME IInv, NEW i \in inflight, Lose(i)
    PROVE  IInv'
<1> USE QueueAssumption, PullRequestAssumption DEF IInv
<1>1. QueueTypeOK' /\ JobsLive'
  BY QueueIdle
     DEF Lose, TypeOK, queueVars
<1>2. TypeOK'
  <2>1. /\ hist' \in Seq(Event) /\ Len(hist)' <= MaxEvents
        /\ inflight' \subseteq DOMAIN hist' /\ jdata' \in [JobId -> 0..MaxEvents]
    BY DEF Lose, TypeOK, gateVars, rowVars, runVars
  <2>2. /\ real' \in Row \cup {None} /\ phantom' \in 0..MaxEvents \cup {None}
        /\ comments' \in Seq({"bot", "human"}) /\ Len(comments)' <= MaxComments
        /\ gates' \subseteq 0..MaxEvents
    BY DEF Lose, TypeOK, gateVars, rowVars, runVars
  <2>3. at' \in [Process -> Stage] /\ ev' \in [Process -> 0..MaxEvents]
    BY DEF Lose, TypeOK, gateVars, rowVars, runVars, Stage, Process
  <2>4. head' \in [Process -> 0..MaxEvents] /\ found' \in [Process -> 0..MaxComments]
    BY DEF Lose, TypeOK, gateVars, rowVars, runVars, Process
  <2>5. /\ applied' \subseteq DOMAIN hist' /\ newest' \in 0..MaxEvents /\ late' \in BOOLEAN
        /\ asked' \in 0..MaxRequests /\ overlap' \in BOOLEAN
    BY DEF Lose, TypeOK, gateVars, rowVars, runVars
  <2>6. dropped' \subseteq DOMAIN hist' /\ failed' \subseteq DOMAIN hist'
        /\ collided' \subseteq DOMAIN hist'
    BY DEF Lose, TypeOK, gateVars, rowVars, runVars
  <2>7. QED
    BY <1>1, <2>1, <2>2, <2>3, <2>4, <2>5, <2>6 DEF TypeOK
<1>3. Chronicle'
  BY DEF Lose, TypeOK, gateVars, rowVars, runVars, Chronicle
<1>4. JobsCarryEvents'
  BY DEF Lose, queueVars, TypeOK, QueueTypeOK, gateVars, rowVars, runVars, JobsCarryEvents,
     JobsLive
<1>5. WorkersHoldEvents'
  BY DEF Lose, queueVars, TypeOK, QueueTypeOK, gateVars, rowVars, runVars, WorkersHoldEvents,
     Holding, NeedsRow, JobsLive, JobsCarryEvents, Process, Stage
<1>6. RowHistory'
  BY DEF Lose, TypeOK, gateVars, rowVars, runVars, RowHistory, WorkersHoldEvents
<1>7. InOrderIsExact'
  BY DEF Lose, TypeOK, gateVars, rowVars, runVars, InOrderIsExact, RowHistory, Snapshot
<1>8. UnevaluatedHasCause'
  BY DEF Lose, queueVars, TypeOK, QueueTypeOK, gateVars, rowVars, runVars,
     UnevaluatedHasCause, Pending, Holding, NeedsRow, JobsCarryEvents, WorkersHoldEvents
<1>9. PostersAlone'
  BY DEF Lose, TypeOK, gateVars, rowVars, runVars, PostersAlone, BotComments, Process, Stage
<1>10. QED
  BY <1>1, <1>2, <1>3, <1>4, <1>5, <1>6, <1>7, <1>8, <1>9
     DEF IInv

\* The page only loses room.
LEMMA CommentPreserves ==
    ASSUME IInv, Comment
    PROVE  IInv'
<1> USE QueueAssumption, PullRequestAssumption DEF IInv
<1>1. QueueTypeOK' /\ JobsLive'
  BY QueueIdle
     DEF Comment, TypeOK, queueVars
<1>2. TypeOK'
  <2>1. /\ hist' \in Seq(Event) /\ Len(hist)' <= MaxEvents
        /\ inflight' \subseteq DOMAIN hist' /\ jdata' \in [JobId -> 0..MaxEvents]
    BY DEF Comment, TypeOK, gateVars, rowVars, runVars
  <2>2. /\ real' \in Row \cup {None} /\ phantom' \in 0..MaxEvents \cup {None}
        /\ comments' \in Seq({"bot", "human"}) /\ Len(comments)' <= MaxComments
        /\ gates' \subseteq 0..MaxEvents
    BY DEF Comment, TypeOK, gateVars, rowVars, runVars
  <2>3. at' \in [Process -> Stage] /\ ev' \in [Process -> 0..MaxEvents]
    BY DEF Comment, TypeOK, gateVars, rowVars, runVars, Stage, Process
  <2>4. head' \in [Process -> 0..MaxEvents] /\ found' \in [Process -> 0..MaxComments]
    BY DEF Comment, TypeOK, gateVars, rowVars, runVars, Process
  <2>5. /\ applied' \subseteq DOMAIN hist' /\ newest' \in 0..MaxEvents /\ late' \in BOOLEAN
        /\ asked' \in 0..MaxRequests /\ overlap' \in BOOLEAN
    BY DEF Comment, TypeOK, gateVars, rowVars, runVars
  <2>6. dropped' \subseteq DOMAIN hist' /\ failed' \subseteq DOMAIN hist'
        /\ collided' \subseteq DOMAIN hist'
    BY DEF Comment, TypeOK, gateVars, rowVars, runVars
  <2>7. QED
    BY <1>1, <2>1, <2>2, <2>3, <2>4, <2>5, <2>6 DEF TypeOK
<1>3. Chronicle'
  BY DEF Comment, TypeOK, gateVars, rowVars, runVars, Chronicle
<1>4. JobsCarryEvents'
  BY DEF Comment, queueVars, TypeOK, QueueTypeOK, gateVars, rowVars, runVars,
     JobsCarryEvents, JobsLive
<1>5. WorkersHoldEvents'
  BY DEF Comment, queueVars, TypeOK, QueueTypeOK, gateVars, rowVars, runVars,
     WorkersHoldEvents, Holding, NeedsRow, JobsLive, JobsCarryEvents, Process, Stage
<1>6. RowHistory'
  BY DEF Comment, TypeOK, gateVars, rowVars, runVars, RowHistory, WorkersHoldEvents
<1>7. InOrderIsExact'
  BY DEF Comment, TypeOK, gateVars, rowVars, runVars, InOrderIsExact, RowHistory, Snapshot
<1>8. UnevaluatedHasCause'
  BY DEF Comment, queueVars, TypeOK, QueueTypeOK, gateVars, rowVars, runVars,
     UnevaluatedHasCause, Pending, Holding, NeedsRow, JobsCarryEvents, WorkersHoldEvents
<1>9. PostersAlone'
  BY DEF Comment, TypeOK, gateVars, rowVars, runVars, PostersAlone, BotComments, Process,
     Stage
<1>10. QED
  BY <1>1, <1>2, <1>3, <1>4, <1>5, <1>6, <1>7, <1>8, <1>9
     DEF IInv

\* The job carries the event, or the event is dropped.
LEMMA HandlePreserves ==
    ASSUME IInv, NEW i \in inflight, Handle(i)
    PROVE  IInv'
<1> USE QueueAssumption, PullRequestAssumption DEF IInv
<1>1. QueueTypeOK' /\ JobsLive'
  <2>1. i \in DOMAIN hist /\ hist[i].action \in JobId /\ i \in 1..MaxEvents
    BY EventTyped DEF TypeOK
  <2>2. QED
    BY <2>1, QueueSteps DEF Handle, TypeOK
<1>2. TypeOK'
  <2>1. /\ hist' \in Seq(Event) /\ Len(hist)' <= MaxEvents
        /\ inflight' \subseteq DOMAIN hist' /\ jdata' \in [JobId -> 0..MaxEvents]
    <3>1. i \in DOMAIN hist /\ hist[i].action \in JobId /\ i \in 1..MaxEvents
      BY EventTyped DEF TypeOK
    <3>2. QED
      BY <3>1 DEF Handle, TypeOK
  <2>2. /\ real' \in Row \cup {None} /\ phantom' \in 0..MaxEvents \cup {None}
        /\ comments' \in Seq({"bot", "human"}) /\ Len(comments)' <= MaxComments
        /\ gates' \subseteq 0..MaxEvents
    BY DEF Handle, TypeOK, gateVars, rowVars, runVars
  <2>3. at' \in [Process -> Stage] /\ ev' \in [Process -> 0..MaxEvents]
    BY DEF Handle, TypeOK, gateVars, rowVars, runVars, Stage, Process
  <2>4. head' \in [Process -> 0..MaxEvents] /\ found' \in [Process -> 0..MaxComments]
    BY DEF Handle, TypeOK, gateVars, rowVars, runVars, Process
  <2>5. /\ applied' \subseteq DOMAIN hist' /\ newest' \in 0..MaxEvents /\ late' \in BOOLEAN
        /\ asked' \in 0..MaxRequests /\ overlap' \in BOOLEAN
    BY DEF Handle, TypeOK, gateVars, rowVars, runVars
  <2>6. dropped' \subseteq DOMAIN hist' /\ failed' \subseteq DOMAIN hist'
        /\ collided' \subseteq DOMAIN hist'
    BY DEF Handle, TypeOK, gateVars, rowVars, runVars
  <2>7. QED
    BY <1>1, <2>1, <2>2, <2>3, <2>4, <2>5, <2>6 DEF TypeOK
<1>3. Chronicle'
  BY DEF Handle, TypeOK, gateVars, rowVars, runVars, Chronicle
<1>4. JobsCarryEvents'
  BY DEF Handle, AddJob, queueVars, TypeOK, QueueTypeOK, gateVars, rowVars, runVars,
     JobsCarryEvents, JobsLive
<1>5. WorkersHoldEvents'
  <2>1. i \in DOMAIN hist /\ hist[i].action \in JobId /\ i \in 1..MaxEvents
    BY EventTyped DEF TypeOK
  <2>2. hist' = hist /\ UNCHANGED <<runVars, gates, failed, collided>>
    BY DEF Handle, gateVars, rowVars
  <2>3. \/ /\ jstate[hist[i].action] = "absent"
           /\ jdata' = [jdata EXCEPT ![hist[i].action] = i]
           /\ jstate' = [jstate EXCEPT ![hist[i].action] = "waiting"]
        \/ /\ jstate[hist[i].action] # "absent"
           /\ UNCHANGED <<jdata, jstate>> /\ dropped' = dropped \cup {i}
    BY DEF Handle, AddJob, queueVars
  <2>4. UNCHANGED jowner
    BY DEF Handle, AddJob, queueVars
  <2>5. ASSUME NEW b \in JobId, NEW v \in Worker, jowner'[b] = v
        PROVE  jowner[b] = v /\ jdata'[b] = jdata[b]
    BY <2>1, <2>3, <2>4, <2>5 DEF JobsLive, TypeOK
  <2>6. ASSUME NEW v \in Worker, at'[v] # "idle" PROVE Holding(v)'
    <3>1. at[v] # "idle"
      BY <2>2, <2>6 DEF runVars
    <3>2. Holding(v) /\ hist[ev[v]].action \in JobId
      BY <3>1, WorkerFacts
    <3>3. QED
      BY <2>2, <2>5, <3>2 DEF Holding, NeedsRow, runVars
  <2>7. QED
    BY <2>6 DEF WorkersHoldEvents
<1>6. RowHistory'
  BY DEF Handle, TypeOK, gateVars, rowVars, runVars, RowHistory, WorkersHoldEvents
<1>7. InOrderIsExact'
  BY DEF Handle, TypeOK, gateVars, rowVars, runVars, InOrderIsExact, RowHistory, Snapshot
<1>8. UnevaluatedHasCause'
  <2>1. i \in DOMAIN hist /\ hist[i].action \in JobId /\ i \in 1..MaxEvents
    BY EventTyped DEF TypeOK
  <2>2. hist' = hist /\ UNCHANGED <<runVars, gates, failed, collided>>
    BY DEF Handle, gateVars, rowVars
  <2>3. \/ /\ jstate[hist[i].action] = "absent"
           /\ jdata' = [jdata EXCEPT ![hist[i].action] = i]
           /\ jstate' = [jstate EXCEPT ![hist[i].action] = "waiting"]
        \/ /\ jstate[hist[i].action] # "absent"
           /\ UNCHANGED <<jdata, jstate>> /\ dropped' = dropped \cup {i}
    BY DEF Handle, AddJob, queueVars
  <2>4. UNCHANGED jowner
    BY DEF Handle, AddJob, queueVars
  <2>5. inflight' = inflight \ {i} /\ dropped \subseteq dropped'
    BY DEF Handle
  <2>6. Pending(i)' \/ i \in dropped'
    BY <2>1, <2>2, <2>3 DEF Pending, TypeOK, QueueTypeOK
  <2>7. ASSUME NEW k \in DOMAIN hist, Pending(k) PROVE Pending(k)'
    <3>1. hist[k].action \in JobId
      BY EventTyped
    <3>2. QED
      BY <2>1, <2>2, <2>3, <2>7, <3>1 DEF Pending, TypeOK, QueueTypeOK
  <2>8. QED
    BY <2>2, <2>5, <2>6, <2>7, CausesKept DEF rowVars
<1>9. PostersAlone'
  BY DEF Handle, TypeOK, gateVars, rowVars, runVars, PostersAlone, BotComments, Process,
     Stage
<1>10. QED
  BY <1>1, <1>2, <1>3, <1>4, <1>5, <1>6, <1>7, <1>8, <1>9
     DEF IInv

\* A job that stalls for good takes its event with it.
LEMMA StallPreserves ==
    ASSUME IInv, NEW a \in JobId, Stall(a)
    PROVE  IInv'
<1> USE QueueAssumption, PullRequestAssumption DEF IInv
<1>1. QueueTypeOK' /\ JobsLive'
  BY QueueSteps
     DEF Stall, GivenUp, TypeOK
<1>2. TypeOK'
  <2>1. /\ hist' \in Seq(Event) /\ Len(hist)' <= MaxEvents
        /\ inflight' \subseteq DOMAIN hist' /\ jdata' \in [JobId -> 0..MaxEvents]
    BY DEF Stall, GivenUp, TypeOK, gateVars, rowVars, runVars
  <2>2. /\ real' \in Row \cup {None} /\ phantom' \in 0..MaxEvents \cup {None}
        /\ comments' \in Seq({"bot", "human"}) /\ Len(comments)' <= MaxComments
        /\ gates' \subseteq 0..MaxEvents
    BY DEF Stall, GivenUp, TypeOK, gateVars, rowVars, runVars
  <2>3. at' \in [Process -> Stage] /\ ev' \in [Process -> 0..MaxEvents]
    BY DEF Stall, GivenUp, TypeOK, gateVars, rowVars, runVars, Stage, Process
  <2>4. head' \in [Process -> 0..MaxEvents] /\ found' \in [Process -> 0..MaxComments]
    BY DEF Stall, GivenUp, TypeOK, gateVars, rowVars, runVars, Process
  <2>5. /\ applied' \subseteq DOMAIN hist' /\ newest' \in 0..MaxEvents /\ late' \in BOOLEAN
        /\ asked' \in 0..MaxRequests /\ overlap' \in BOOLEAN
    BY DEF Stall, GivenUp, TypeOK, gateVars, rowVars, runVars
  <2>6. dropped' \subseteq DOMAIN hist' /\ failed' \subseteq DOMAIN hist'
        /\ collided' \subseteq DOMAIN hist'
    <3>1. jstate'[a] = "failed" => jdata[a] \in DOMAIN hist
      BY DEF Stall, StallJob, JobsCarryEvents
    <3>2. QED
      BY <3>1 DEF Stall, GivenUp, TypeOK, rowVars
  <2>7. QED
    BY <1>1, <2>1, <2>2, <2>3, <2>4, <2>5, <2>6 DEF TypeOK
<1>3. Chronicle'
  BY DEF Stall, GivenUp, TypeOK, gateVars, rowVars, runVars, Chronicle
<1>4. JobsCarryEvents'
  BY DEF Stall, GivenUp, StallJob, TypeOK, QueueTypeOK, gateVars, rowVars, runVars,
     JobsCarryEvents, JobsLive
<1>5. WorkersHoldEvents'
  <2>1. UNCHANGED <<hist, jdata, at, ev, head, gates, collided>> /\ failed \subseteq failed'
    BY DEF Stall, gateVars, rowVars, runVars
  <2>2. \A b \in JobId, v \in Worker : jowner'[b] = v => jowner[b] = v
    BY DEF Stall, StallJob, TypeOK, QueueTypeOK
  <2>3. SUFFICES ASSUME NEW v \in Worker, at[v] # "idle" PROVE Holding(v)'
    BY <2>1 DEF WorkersHoldEvents
  <2>4. Holding(v) /\ hist[ev[v]].action \in JobId
    BY <2>3, WorkerFacts
  <2>5. QED
    BY <2>1, <2>2, <2>4 DEF Holding, NeedsRow
<1>6. RowHistory'
  BY DEF Stall, GivenUp, TypeOK, gateVars, rowVars, runVars, RowHistory, WorkersHoldEvents
<1>7. InOrderIsExact'
  BY DEF Stall, GivenUp, TypeOK, gateVars, rowVars, runVars, InOrderIsExact, RowHistory,
     Snapshot
<1>8. UnevaluatedHasCause'
  <2>1. /\ hist' = hist /\ gates' = gates /\ UNCHANGED <<inflight, dropped, jdata, collided>>
        /\ failed' = failed \cup GivenUp(a)
    BY DEF Stall, gateVars, rowVars
  <2>2. /\ \A b \in JobId \ {a} : jstate'[b] = jstate[b]
        /\ jstate'[a] \in {"waiting", "failed"}
    BY DEF Stall, StallJob, TypeOK, QueueTypeOK
  <2>3. ASSUME NEW k \in DOMAIN hist, Pending(k) PROVE Pending(k)' \/ k \in failed'
    <3>1. hist[k].action \in JobId
      BY EventTyped
    <3>2. QED
      BY <2>1, <2>2, <2>3, <3>1 DEF Pending, GivenUp
  <2>4. QED
    BY <2>1, <2>3, CausesKept DEF rowVars
<1>9. PostersAlone'
  BY DEF Stall, GivenUp, TypeOK, gateVars, rowVars, runVars, PostersAlone, BotComments,
     Process, Stage
<1>10. QED
  BY <1>1, <1>2, <1>3, <1>4, <1>5, <1>6, <1>7, <1>8, <1>9
     DEF IInv

\* A job that is evicted was finished.
LEMMA EvictPreserves ==
    ASSUME IInv, NEW a \in JobId, Evict(a)
    PROVE  IInv'
<1> USE QueueAssumption, PullRequestAssumption DEF IInv
<1>1. QueueTypeOK' /\ JobsLive'
  BY QueueSteps
     DEF Evict, TypeOK
<1>2. TypeOK'
  <2>1. /\ hist' \in Seq(Event) /\ Len(hist)' <= MaxEvents
        /\ inflight' \subseteq DOMAIN hist' /\ jdata' \in [JobId -> 0..MaxEvents]
    BY DEF Evict, prVars, TypeOK, gateVars, rowVars, runVars
  <2>2. /\ real' \in Row \cup {None} /\ phantom' \in 0..MaxEvents \cup {None}
        /\ comments' \in Seq({"bot", "human"}) /\ Len(comments)' <= MaxComments
        /\ gates' \subseteq 0..MaxEvents
    BY DEF Evict, prVars, TypeOK, gateVars, rowVars, runVars
  <2>3. at' \in [Process -> Stage] /\ ev' \in [Process -> 0..MaxEvents]
    BY DEF Evict, prVars, TypeOK, gateVars, rowVars, runVars, Stage, Process
  <2>4. head' \in [Process -> 0..MaxEvents] /\ found' \in [Process -> 0..MaxComments]
    BY DEF Evict, prVars, TypeOK, gateVars, rowVars, runVars, Process
  <2>5. /\ applied' \subseteq DOMAIN hist' /\ newest' \in 0..MaxEvents /\ late' \in BOOLEAN
        /\ asked' \in 0..MaxRequests /\ overlap' \in BOOLEAN
    BY DEF Evict, prVars, TypeOK, gateVars, rowVars, runVars
  <2>6. dropped' \subseteq DOMAIN hist' /\ failed' \subseteq DOMAIN hist'
        /\ collided' \subseteq DOMAIN hist'
    BY DEF Evict, prVars, TypeOK, gateVars, rowVars, runVars
  <2>7. QED
    BY <1>1, <2>1, <2>2, <2>3, <2>4, <2>5, <2>6 DEF TypeOK
<1>3. Chronicle'
  BY DEF Evict, prVars, TypeOK, gateVars, rowVars, runVars, Chronicle
<1>4. JobsCarryEvents'
  BY DEF Evict, prVars, EvictJob, TypeOK, QueueTypeOK, gateVars, rowVars, runVars,
     JobsCarryEvents, JobsLive
<1>5. WorkersHoldEvents'
  BY DEF Evict, prVars, EvictJob, TypeOK, QueueTypeOK, gateVars, rowVars, runVars,
     WorkersHoldEvents, Holding, NeedsRow, JobsLive, JobsCarryEvents, Process, Stage
<1>6. RowHistory'
  BY DEF Evict, prVars, TypeOK, gateVars, rowVars, runVars, RowHistory, WorkersHoldEvents
<1>7. InOrderIsExact'
  BY DEF Evict, prVars, TypeOK, gateVars, rowVars, runVars, InOrderIsExact, RowHistory,
     Snapshot
<1>8. UnevaluatedHasCause'
  <2>1. UNCHANGED <<hist, gates, inflight, dropped, failed, collided, jdata>>
    BY DEF Evict, prVars, gateVars, rowVars
  <2>2. /\ \A b \in JobId \ {a} : jstate'[b] = jstate[b]
        /\ jstate[a] \in {"completed", "failed"}
    BY DEF Evict, EvictJob, TypeOK, QueueTypeOK
  <2>3. ASSUME NEW k \in DOMAIN hist, Pending(k) PROVE Pending(k)'
    <3>1. hist[k].action \in JobId
      BY EventTyped
    <3>2. QED
      BY <2>1, <2>2, <2>3, <3>1 DEF Pending
  <2>4. QED
    BY <2>1, <2>3, CausesKept DEF rowVars
<1>9. PostersAlone'
  BY DEF Evict, prVars, TypeOK, gateVars, rowVars, runVars, PostersAlone, BotComments,
     Process, Stage
<1>10. QED
  BY <1>1, <1>2, <1>3, <1>4, <1>5, <1>6, <1>7, <1>8, <1>9
     DEF IInv

\* The worker has the event of its job.
LEMMA TakePreserves ==
    ASSUME IInv, NEW w \in Worker, NEW a \in JobId, Take(w, a)
    PROVE  IInv'
<1> USE QueueAssumption, PullRequestAssumption DEF IInv
<1>1. QueueTypeOK' /\ JobsLive'
  BY QueueSteps
     DEF Take, TypeOK
<1>2. TypeOK'
  <2>1. /\ hist' \in Seq(Event) /\ Len(hist)' <= MaxEvents
        /\ inflight' \subseteq DOMAIN hist' /\ jdata' \in [JobId -> 0..MaxEvents]
    BY DEF Take, TypeOK, gateVars, rowVars, runVars
  <2>2. /\ real' \in Row \cup {None} /\ phantom' \in 0..MaxEvents \cup {None}
        /\ comments' \in Seq({"bot", "human"}) /\ Len(comments)' <= MaxComments
        /\ gates' \subseteq 0..MaxEvents
    BY DEF Take, TypeOK, gateVars, rowVars, runVars
  <2>3. at' \in [Process -> Stage] /\ ev' \in [Process -> 0..MaxEvents]
    BY DEF Take, TypeOK, gateVars, rowVars, runVars, Stage, Process
  <2>4. head' \in [Process -> 0..MaxEvents] /\ found' \in [Process -> 0..MaxComments]
    <3>1. /\ jdata[a] \in DOMAIN hist /\ hist[jdata[a]].action = a
          /\ hist[jdata[a]].head \in 1..MaxEvents /\ w \in Process
      <4>1. jdata[a] \in DOMAIN hist /\ hist[jdata[a]].action = a
        BY DEF Take, TakeJob, JobsCarryEvents
      <4>2. QED
        BY <4>1, EventTyped DEF Process
    <3>2. QED
      BY <3>1 DEF Take, TypeOK, gateVars
  <2>5. /\ applied' \subseteq DOMAIN hist' /\ newest' \in 0..MaxEvents /\ late' \in BOOLEAN
        /\ asked' \in 0..MaxRequests /\ overlap' \in BOOLEAN
    BY DEF Take, TypeOK, gateVars, rowVars, runVars
  <2>6. dropped' \subseteq DOMAIN hist' /\ failed' \subseteq DOMAIN hist'
        /\ collided' \subseteq DOMAIN hist'
    BY DEF Take, TypeOK, gateVars, rowVars, runVars
  <2>7. QED
    BY <1>1, <2>1, <2>2, <2>3, <2>4, <2>5, <2>6 DEF TypeOK
<1>3. Chronicle'
  BY DEF Take, TypeOK, gateVars, rowVars, runVars, Chronicle
<1>4. JobsCarryEvents'
  BY DEF Take, TakeJob, TypeOK, QueueTypeOK, gateVars, rowVars, runVars, JobsCarryEvents,
     JobsLive
<1>5. WorkersHoldEvents'
  <2>1. /\ jdata[a] \in DOMAIN hist /\ hist[jdata[a]].action = a
        /\ hist[jdata[a]].head \in 1..MaxEvents /\ w \in Process
    <3>1. jdata[a] \in DOMAIN hist /\ hist[jdata[a]].action = a
      BY DEF Take, TakeJob, JobsCarryEvents
    <3>2. QED
      BY <3>1, EventTyped DEF Process
  <2>2. /\ at' = [at EXCEPT ![w] = "apply"] /\ ev' = [ev EXCEPT ![w] = jdata[a]]
        /\ head' = [head EXCEPT ![w] = hist[jdata[a]].head]
        /\ UNCHANGED <<hist, jdata, failed, collided, gates>>
    BY DEF Take, gateVars, rowVars
  <2>3. Holding(w)'
    BY <2>1, <2>2 DEF Holding, NeedsRow, TypeOK
  <2>4. \A b \in JobId, v \in Worker : jowner'[b] = v /\ v # w => jowner[b] = v
    BY DEF Take, TakeJob, TypeOK, QueueTypeOK
  <2>5. \A v \in Process \ {w} : at'[v] = at[v] /\ ev'[v] = ev[v] /\ head'[v] = head[v]
    BY <2>2 DEF TypeOK
  <2>6. QED
    BY <2>1, <2>2, <2>3, <2>4, <2>5, OthersHold DEF rowVars
<1>6. RowHistory'
  BY DEF Take, TypeOK, gateVars, rowVars, runVars, RowHistory, WorkersHoldEvents
<1>7. InOrderIsExact'
  BY DEF Take, TypeOK, gateVars, rowVars, runVars, InOrderIsExact, RowHistory, Snapshot
<1>8. UnevaluatedHasCause'
  <2>1. UNCHANGED <<hist, inflight, jdata, dropped, failed, collided, gates>>
    BY DEF Take, gateVars, rowVars
  <2>2. \A b \in JobId : jstate[b] \in {"waiting", "active"} => jstate'[b] \in {"waiting", "active"}
    BY DEF Take, TakeJob, TypeOK, QueueTypeOK
  <2>3. ASSUME NEW i \in DOMAIN hist, Pending(i) PROVE Pending(i)'
    <3>1. hist[i].action \in JobId
      BY EventTyped
    <3>2. QED
      BY <2>1, <2>2, <2>3, <3>1 DEF Pending
  <2>4. QED
    BY <2>1, <2>3, CausesKept DEF rowVars
<1>9. PostersAlone'
  BY DEF Take, TypeOK, gateVars, rowVars, runVars, PostersAlone, BotComments, Process, Stage
<1>10. QED
  BY <1>1, <1>2, <1>3, <1>4, <1>5, <1>6, <1>7, <1>8, <1>9
     DEF IInv

\* The row follows the event, or the event is late.
LEMMA ApplyPreserves ==
    ASSUME IInv, NEW w \in Worker, Apply(w)
    PROVE  IInv'
<1> USE QueueAssumption, PullRequestAssumption DEF IInv
<1>1. ev[w] \in DOMAIN hist /\ hist[ev[w]].action \in JobId /\ w \in Process /\ Holding(w)
  BY WorkerFacts DEF Apply
<1>2. /\ UNCHANGED <<hist, inflight, jdata, phantom, asked, dropped, collided, gateVars>>
      /\ Record(ev[w]) /\ at[w] \in {"apply", "insert"}
      /\ NeedsRow(ev[w]) => real # None
  BY <1>1 DEF Apply, Holding, NeedsRow
<1>3. /\ real' \in Row /\ applied' \subseteq DOMAIN hist /\ newest' \in 0..MaxEvents
      /\ late' \in BOOLEAN /\ RowHistory' /\ InOrderIsExact'
  BY <1>1, <1>2, Recorded
<1>4. QueueTypeOK' /\ JobsLive'
  BY <1>1, QueueSteps, QueueIdle DEF Apply, TypeOK
<1>5. ASSUME \E s \in {"look", "finish"} :
                 /\ at' = [at EXCEPT ![w] = s]
                 /\ s = "finish" => hist[ev[w]].action \notin Gated,
             UNCHANGED <<queueVars, failed, ev, head>>
      PROVE  TypeOK' /\ JobsCarryEvents' /\ WorkersHoldEvents' /\ UnevaluatedHasCause'
  <2>1. TypeOK'
    <3>1. at' \in [Process -> Stage] /\ UNCHANGED <<ev, head, failed>>
      BY <1>1, <1>5 DEF TypeOK, Stage
    <3>2. QED
      BY <1>2, <1>3, <1>4, <3>1 DEF TypeOK, gateVars
  <2>2. JobsCarryEvents'
    BY <1>2, <1>5 DEF JobsCarryEvents, queueVars
  <2>3. WorkersHoldEvents'
    <3>1. Holding(w)' /\ \A v \in Process \ {w} : at'[v] = at[v]
      BY <1>1, <1>2, <1>5 DEF Holding, NeedsRow, queueVars, gateVars, TypeOK
    <3>2. QED
      BY <1>1, <1>2, <1>5, <3>1, OthersHold DEF queueVars, gateVars, rowVars
  <2>4. UnevaluatedHasCause'
    BY <1>2, <1>5, CausesKept DEF Pending, queueVars, gateVars, rowVars
  <2>5. QED
    BY <2>1, <2>2, <2>3, <2>4
<1>6. ASSUME FailJob(w, hist[ev[w]].action), Rest(w),
             failed' = failed \cup GivenUp(hist[ev[w]].action)
      PROVE  TypeOK' /\ JobsCarryEvents' /\ WorkersHoldEvents' /\ UnevaluatedHasCause'
  <2>1. /\ \A b \in JobId : jstate'[b] = "absent" <=> jstate[b] = "absent"
        /\ \A b \in JobId, v \in Worker : jowner'[b] = v => jowner[b] = v
        /\ \A b \in JobId \ {hist[ev[w]].action} : jstate'[b] = jstate[b]
        /\ jstate'[hist[ev[w]].action] \in {jstate[hist[ev[w]].action], "waiting", "failed"}
    BY <1>1, <1>6, LetsGo DEF TypeOK
  <2>2. TypeOK'
    <3>1. failed' \subseteq DOMAIN hist
      BY <1>1, <1>6, <2>1 DEF GivenUp, JobsCarryEvents, TypeOK
    <3>2. /\ at' \in [Process -> Stage] /\ ev' \in [Process -> 0..MaxEvents]
          /\ head' \in [Process -> 0..MaxEvents]
      BY <1>1, <1>6, LeavesTyped
    <3>3. QED
      BY <1>2, <1>3, <1>4, <3>1, <3>2 DEF TypeOK, gateVars
  <2>3. JobsCarryEvents'
    BY <1>2, <2>1 DEF JobsCarryEvents
  <2>4. WorkersHoldEvents'
    <3>1. /\ \A v \in Process \ {w} : at'[v] = at[v] /\ ev'[v] = ev[v] /\ head'[v] = head[v]
          /\ at'[w] = "idle"
      BY <1>1, <1>6 DEF Rest, TypeOK
    <3>2. QED
      BY <1>1, <1>2, <1>6, <2>1, <3>1, OthersHold DEF gateVars, rowVars
  <2>5. UnevaluatedHasCause'
    <3>1. ASSUME NEW k \in DOMAIN hist, Pending(k) PROVE Pending(k)' \/ k \in failed'
      <4>1. hist[k].action \in JobId
        BY EventTyped
      <4>2. QED
        BY <1>2, <1>6, <2>1, <3>1, <4>1 DEF Pending, GivenUp
    <3>2. QED
      BY <1>2, <1>6, <3>1, CausesKept DEF gateVars, rowVars
  <2>6. QED
    BY <2>2, <2>3, <2>4, <2>5
<1>7. TypeOK' /\ JobsCarryEvents' /\ WorkersHoldEvents' /\ UnevaluatedHasCause'
  BY <1>5, <1>6 DEF Apply
<1>8. Chronicle'
  BY <1>2 DEF Chronicle
<1>9. PostersAlone'
  <2>1. UNCHANGED <<comments, found, overlap>>
    BY DEF Apply, gateVars
  <2>2. \A q \in Process : at'[q] = "post" => at[q] = "post"
    BY DEF Apply, Rest, TypeOK, gateVars, Process
  <2>3. QED
    BY <2>1, <2>2, PostersStay
<1>10. QED
  BY <1>3, <1>4, <1>7, <1>8, <1>9 DEF IInv

\* A handler about to insert leaves the row alone.
LEMMA UpsertPreserves ==
    ASSUME IInv, NEW w \in Worker, Upsert(w)
    PROVE  IInv'
<1> USE QueueAssumption, PullRequestAssumption DEF IInv
<1>1. ev[w] \in DOMAIN hist /\ w \in Process /\ Holding(w)
  BY WorkerFacts DEF Upsert
<1>2. /\ UNCHANGED <<queueVars, hist, inflight, jdata, phantom, asked, dropped, failed,
                     gateVars, rowVars,
                     ev, head>>
      /\ at' = [at EXCEPT ![w] = "insert"] /\ ~NeedsRow(ev[w])
  BY DEF Upsert
<1>3. QueueTypeOK' /\ JobsLive'
  BY <1>2, QueueIdle DEF TypeOK
<1>4. TypeOK'
  <2>1. at' \in [Process -> Stage]
    BY <1>1, <1>2 DEF TypeOK, Stage
  <2>2. QED
    BY <1>2, <1>3, <2>1 DEF TypeOK, gateVars, rowVars
<1>5. Chronicle' /\ JobsCarryEvents'
  BY <1>2 DEF Chronicle, JobsCarryEvents, queueVars
<1>6. WorkersHoldEvents'
  <2>1. Holding(w)' /\ \A v \in Process \ {w} : at'[v] = at[v]
    BY <1>1, <1>2 DEF Holding, NeedsRow, queueVars, gateVars, rowVars, TypeOK
  <2>2. QED
    BY <1>1, <1>2, <2>1, OthersHold DEF queueVars, gateVars, rowVars
<1>7. RowHistory' /\ InOrderIsExact'
  BY <1>2 DEF RowHistory, InOrderIsExact, Snapshot, rowVars
<1>8. UnevaluatedHasCause'
  BY <1>2, CausesKept DEF Pending, queueVars, gateVars, rowVars
<1>9. PostersAlone'
  BY <1>1, <1>2, PostersStay DEF gateVars, TypeOK
<1>10. QED
  BY <1>3, <1>4, <1>5, <1>6, <1>7, <1>8, <1>9

\* A collision is on record.
LEMMA CollidePreserves ==
    ASSUME IInv, NEW w \in Worker, Collide(w)
    PROVE  IInv'
<1> USE QueueAssumption, PullRequestAssumption DEF IInv
<1>1. ev[w] \in DOMAIN hist /\ w \in Process /\ Holding(w)
  BY WorkerFacts DEF Collide
<1>2. /\ UNCHANGED <<queueVars, hist, inflight, jdata, phantom, asked, dropped, failed,
                     gateVars, real, applied, newest, late, ev, head>>
      /\ at' = [at EXCEPT ![w] = "finish"] /\ collided' = collided \cup {ev[w]}
  BY DEF Collide
<1>3. QueueTypeOK' /\ JobsLive'
  BY <1>2, QueueIdle DEF TypeOK
<1>4. TypeOK'
  <2>1. at' \in [Process -> Stage]
    BY <1>1, <1>2 DEF TypeOK, Stage
  <2>2. QED
    BY <1>1, <1>2, <1>3, <2>1 DEF TypeOK, gateVars
<1>5. Chronicle' /\ JobsCarryEvents'
  BY <1>2 DEF Chronicle, JobsCarryEvents, queueVars
<1>6. WorkersHoldEvents'
  <2>1. Holding(w)' /\ \A v \in Process \ {w} : at'[v] = at[v]
    BY <1>1, <1>2 DEF Holding, NeedsRow, queueVars, gateVars, TypeOK
  <2>2. QED
    BY <1>1, <1>2, <2>1, OthersHold DEF queueVars, gateVars, rowVars
<1>7. RowHistory' /\ InOrderIsExact'
  BY <1>2 DEF RowHistory, InOrderIsExact, Snapshot
<1>8. UnevaluatedHasCause'
  BY <1>2, CausesKept DEF Pending, queueVars, gateVars, rowVars
<1>9. PostersAlone'
  BY <1>1, <1>2, PostersStay DEF gateVars, TypeOK
<1>10. QED
  BY <1>3, <1>4, <1>5, <1>6, <1>7, <1>8, <1>9

\* A job given up takes its event with it.
LEMMA ApplyFailsPreserves ==
    ASSUME IInv, NEW w \in Worker, ApplyFails(w)
    PROVE  IInv'
<1> USE QueueAssumption, PullRequestAssumption DEF IInv
<1>1. QueueTypeOK' /\ JobsLive'
  <2>1. hist[ev[w]].action \in JobId
    BY WorkerFacts DEF ApplyFails
  <2>2. QED
    BY <2>1, QueueSteps DEF ApplyFails, TypeOK
<1>2. TypeOK'
  <2>1. /\ hist' \in Seq(Event) /\ Len(hist)' <= MaxEvents
        /\ inflight' \subseteq DOMAIN hist' /\ jdata' \in [JobId -> 0..MaxEvents]
    BY DEF ApplyFails, Rest, GivenUp, TypeOK, gateVars, rowVars, runVars
  <2>2. /\ real' \in Row \cup {None} /\ phantom' \in 0..MaxEvents \cup {None}
        /\ comments' \in Seq({"bot", "human"}) /\ Len(comments)' <= MaxComments
        /\ gates' \subseteq 0..MaxEvents
    BY DEF ApplyFails, Rest, GivenUp, TypeOK, gateVars, rowVars, runVars
  <2>3. at' \in [Process -> Stage] /\ ev' \in [Process -> 0..MaxEvents]
    BY DEF ApplyFails, Rest, GivenUp, TypeOK, gateVars, rowVars, runVars, Stage, Process
  <2>4. head' \in [Process -> 0..MaxEvents] /\ found' \in [Process -> 0..MaxComments]
    BY DEF ApplyFails, Rest, GivenUp, TypeOK, gateVars, rowVars, runVars, Process
  <2>5. /\ applied' \subseteq DOMAIN hist' /\ newest' \in 0..MaxEvents /\ late' \in BOOLEAN
        /\ asked' \in 0..MaxRequests /\ overlap' \in BOOLEAN
    BY DEF ApplyFails, Rest, GivenUp, TypeOK, gateVars, rowVars, runVars
  <2>6. dropped' \subseteq DOMAIN hist' /\ failed' \subseteq DOMAIN hist'
        /\ collided' \subseteq DOMAIN hist'
    <3>1. ev[w] \in DOMAIN hist /\ hist[ev[w]].action \in JobId /\ w \in Process /\ Holding(w)
      BY WorkerFacts DEF ApplyFails
    <3>2. jstate'[hist[ev[w]].action] = "failed" => jdata[hist[ev[w]].action] \in DOMAIN hist
      <4>1. QueueTypeOK /\ FailJob(w, hist[ev[w]].action)
        BY DEF ApplyFails, TypeOK
      <4>2. jstate'[hist[ev[w]].action] = "absent" <=> jstate[hist[ev[w]].action] = "absent"
        BY <3>1, <4>1, LetsGo
      <4>3. QED
        BY <3>1, <4>2 DEF JobsCarryEvents
    <3>3. QED
      BY <3>2 DEF ApplyFails, GivenUp, TypeOK, rowVars
  <2>7. QED
    BY <1>1, <2>1, <2>2, <2>3, <2>4, <2>5, <2>6 DEF TypeOK
<1>3. Chronicle'
  BY DEF ApplyFails, Rest, GivenUp, TypeOK, gateVars, rowVars, runVars, Chronicle
<1>4. JobsCarryEvents'
  <2>1. ev[w] \in DOMAIN hist /\ hist[ev[w]].action \in JobId /\ w \in Process /\ Holding(w)
    BY WorkerFacts DEF ApplyFails
  <2>2. FailJob(w, hist[ev[w]].action)
    BY DEF ApplyFails
  <2>3. /\ \A b \in JobId : jstate'[b] = "absent" <=> jstate[b] = "absent"
        /\ \A b \in JobId, v \in Worker : jowner'[b] = v => jowner[b] = v
        /\ \A b \in JobId \ {hist[ev[w]].action} : jstate'[b] = jstate[b]
        /\ jstate'[hist[ev[w]].action] # jstate[hist[ev[w]].action] =>
               jowner[hist[ev[w]].action] = w
    <3>1. QueueTypeOK /\ JobsLive
      BY DEF TypeOK
    <3>2. QED
      BY <2>1, <2>2, <3>1, LetsGo
  <2>4. UNCHANGED <<hist, jdata, inflight, dropped, collided, gates>>
        /\ failed \subseteq failed' /\ Rest(w)
    BY DEF ApplyFails, gateVars, rowVars
  <2>5. QED
    BY <2>3, <2>4 DEF JobsCarryEvents
<1>5. WorkersHoldEvents'
  <2>1. ev[w] \in DOMAIN hist /\ hist[ev[w]].action \in JobId /\ w \in Process /\ Holding(w)
    BY WorkerFacts DEF ApplyFails
  <2>2. FailJob(w, hist[ev[w]].action)
    BY DEF ApplyFails
  <2>3. /\ \A b \in JobId : jstate'[b] = "absent" <=> jstate[b] = "absent"
        /\ \A b \in JobId, v \in Worker : jowner'[b] = v => jowner[b] = v
        /\ \A b \in JobId \ {hist[ev[w]].action} : jstate'[b] = jstate[b]
        /\ jstate'[hist[ev[w]].action] # jstate[hist[ev[w]].action] =>
               jowner[hist[ev[w]].action] = w
    <3>1. QueueTypeOK /\ JobsLive
      BY DEF TypeOK
    <3>2. QED
      BY <2>1, <2>2, <3>1, LetsGo
  <2>4. UNCHANGED <<hist, jdata, inflight, dropped, collided, gates>>
        /\ failed \subseteq failed' /\ Rest(w)
    BY DEF ApplyFails, gateVars, rowVars
  <2>5. /\ \A v \in Process \ {w} : at'[v] = at[v] /\ ev'[v] = ev[v] /\ head'[v] = head[v]
        /\ at'[w] = "idle"
    BY <2>1, <2>4 DEF Rest, TypeOK
  <2>6. QED
    BY <2>1, <2>3, <2>4, <2>5, OthersHold DEF rowVars
<1>6. RowHistory'
  BY DEF ApplyFails, Rest, GivenUp, TypeOK, gateVars, rowVars, runVars, RowHistory,
     WorkersHoldEvents
<1>7. InOrderIsExact'
  BY DEF ApplyFails, Rest, GivenUp, TypeOK, gateVars, rowVars, runVars, InOrderIsExact,
     RowHistory, Snapshot
<1>8. UnevaluatedHasCause'
  <2>1. ev[w] \in DOMAIN hist /\ hist[ev[w]].action \in JobId /\ w \in Process /\ Holding(w)
    BY WorkerFacts DEF ApplyFails
  <2>2. FailJob(w, hist[ev[w]].action)
    BY DEF ApplyFails
  <2>3. /\ \A b \in JobId : jstate'[b] = "absent" <=> jstate[b] = "absent"
        /\ \A b \in JobId, v \in Worker : jowner'[b] = v => jowner[b] = v
        /\ \A b \in JobId \ {hist[ev[w]].action} : jstate'[b] = jstate[b]
        /\ jstate'[hist[ev[w]].action] # jstate[hist[ev[w]].action] =>
               jowner[hist[ev[w]].action] = w
    <3>1. QueueTypeOK /\ JobsLive
      BY DEF TypeOK
    <3>2. QED
      BY <2>1, <2>2, <3>1, LetsGo
  <2>4. UNCHANGED <<hist, jdata, inflight, dropped, collided, gates>>
        /\ failed \subseteq failed' /\ Rest(w)
    BY DEF ApplyFails, gateVars, rowVars
  <2>5. jstate'[hist[ev[w]].action] \in {jstate[hist[ev[w]].action], "waiting", "failed"}
    BY <2>1, <2>2, LetsGo DEF TypeOK
  <2>6. failed' = failed \cup GivenUp(hist[ev[w]].action)
    BY DEF ApplyFails
  <2>7. ASSUME NEW k \in DOMAIN hist, Pending(k) PROVE Pending(k)' \/ k \in failed'
    <3>1. hist[k].action \in JobId
      BY EventTyped
    <3>2. QED
      BY <2>3, <2>4, <2>5, <2>6, <2>7, <3>1 DEF Pending, GivenUp
  <2>8. QED
    BY <2>4, <2>7, CausesKept DEF rowVars
<1>9. PostersAlone'
  BY DEF ApplyFails, Rest, GivenUp, TypeOK, gateVars, rowVars, runVars, PostersAlone,
     BotComments, Process, Stage
<1>10. QED
  BY <1>1, <1>2, <1>3, <1>4, <1>5, <1>6, <1>7, <1>8, <1>9
     DEF IInv

\* A finished event was evaluated, or failed.
LEMMA FinishPreserves ==
    ASSUME IInv, NEW w \in Worker, Finish(w)
    PROVE  IInv'
<1> USE QueueAssumption, PullRequestAssumption DEF IInv
<1>1. QueueTypeOK' /\ JobsLive'
  <2>1. hist[ev[w]].action \in JobId
    BY WorkerFacts DEF Finish
  <2>2. QED
    BY <2>1, QueueSteps DEF Finish, TypeOK
<1>2. TypeOK'
  <2>1. /\ hist' \in Seq(Event) /\ Len(hist)' <= MaxEvents
        /\ inflight' \subseteq DOMAIN hist' /\ jdata' \in [JobId -> 0..MaxEvents]
    BY DEF Finish, Rest, TypeOK, gateVars, rowVars, runVars
  <2>2. /\ real' \in Row \cup {None} /\ phantom' \in 0..MaxEvents \cup {None}
        /\ comments' \in Seq({"bot", "human"}) /\ Len(comments)' <= MaxComments
        /\ gates' \subseteq 0..MaxEvents
    BY DEF Finish, Rest, TypeOK, gateVars, rowVars, runVars
  <2>3. at' \in [Process -> Stage] /\ ev' \in [Process -> 0..MaxEvents]
    BY DEF Finish, Rest, TypeOK, gateVars, rowVars, runVars, Stage, Process
  <2>4. head' \in [Process -> 0..MaxEvents] /\ found' \in [Process -> 0..MaxComments]
    BY DEF Finish, Rest, TypeOK, gateVars, rowVars, runVars, Process
  <2>5. /\ applied' \subseteq DOMAIN hist' /\ newest' \in 0..MaxEvents /\ late' \in BOOLEAN
        /\ asked' \in 0..MaxRequests /\ overlap' \in BOOLEAN
    BY DEF Finish, Rest, TypeOK, gateVars, rowVars, runVars
  <2>6. dropped' \subseteq DOMAIN hist' /\ failed' \subseteq DOMAIN hist'
        /\ collided' \subseteq DOMAIN hist'
    BY DEF Finish, Rest, TypeOK, gateVars, rowVars, runVars
  <2>7. QED
    BY <1>1, <2>1, <2>2, <2>3, <2>4, <2>5, <2>6 DEF TypeOK
<1>3. Chronicle'
  BY DEF Finish, Rest, TypeOK, gateVars, rowVars, runVars, Chronicle
<1>4. JobsCarryEvents'
  <2>1. ev[w] \in DOMAIN hist /\ hist[ev[w]].action \in JobId /\ w \in Process /\ Holding(w)
    BY WorkerFacts DEF Finish
  <2>2. CompleteJob(w, hist[ev[w]].action)
    BY DEF Finish
  <2>3. /\ \A b \in JobId : jstate'[b] = "absent" <=> jstate[b] = "absent"
        /\ \A b \in JobId, v \in Worker : jowner'[b] = v => jowner[b] = v
        /\ \A b \in JobId \ {hist[ev[w]].action} : jstate'[b] = jstate[b]
        /\ jstate'[hist[ev[w]].action] # jstate[hist[ev[w]].action] =>
               jowner[hist[ev[w]].action] = w
    <3>1. QueueTypeOK /\ JobsLive
      BY DEF TypeOK
    <3>2. QED
      BY <2>1, <2>2, <3>1, LetsGo
  <2>4. UNCHANGED <<hist, jdata, inflight, dropped, collided, gates>>
        /\ failed \subseteq failed' /\ Rest(w)
    BY DEF Finish, gateVars, rowVars
  <2>5. QED
    BY <2>3, <2>4 DEF JobsCarryEvents
<1>5. WorkersHoldEvents'
  <2>1. ev[w] \in DOMAIN hist /\ hist[ev[w]].action \in JobId /\ w \in Process /\ Holding(w)
    BY WorkerFacts DEF Finish
  <2>2. CompleteJob(w, hist[ev[w]].action)
    BY DEF Finish
  <2>3. /\ \A b \in JobId : jstate'[b] = "absent" <=> jstate[b] = "absent"
        /\ \A b \in JobId, v \in Worker : jowner'[b] = v => jowner[b] = v
        /\ \A b \in JobId \ {hist[ev[w]].action} : jstate'[b] = jstate[b]
        /\ jstate'[hist[ev[w]].action] # jstate[hist[ev[w]].action] =>
               jowner[hist[ev[w]].action] = w
    <3>1. QueueTypeOK /\ JobsLive
      BY DEF TypeOK
    <3>2. QED
      BY <2>1, <2>2, <3>1, LetsGo
  <2>4. UNCHANGED <<hist, jdata, inflight, dropped, collided, gates>>
        /\ failed \subseteq failed' /\ Rest(w)
    BY DEF Finish, gateVars, rowVars
  <2>5. /\ \A v \in Process \ {w} : at'[v] = at[v] /\ ev'[v] = ev[v] /\ head'[v] = head[v]
        /\ at'[w] = "idle"
    BY <2>1, <2>4 DEF Rest, TypeOK
  <2>6. QED
    BY <2>1, <2>3, <2>4, <2>5, OthersHold DEF rowVars
<1>6. RowHistory'
  BY DEF Finish, Rest, TypeOK, gateVars, rowVars, runVars, RowHistory, WorkersHoldEvents
<1>7. InOrderIsExact'
  BY DEF Finish, Rest, TypeOK, gateVars, rowVars, runVars, InOrderIsExact, RowHistory,
     Snapshot
<1>8. UnevaluatedHasCause'
  <2>1. ev[w] \in DOMAIN hist /\ hist[ev[w]].action \in JobId /\ w \in Process /\ Holding(w)
    BY WorkerFacts DEF Finish
  <2>2. CompleteJob(w, hist[ev[w]].action)
    BY DEF Finish
  <2>3. /\ \A b \in JobId : jstate'[b] = "absent" <=> jstate[b] = "absent"
        /\ \A b \in JobId, v \in Worker : jowner'[b] = v => jowner[b] = v
        /\ \A b \in JobId \ {hist[ev[w]].action} : jstate'[b] = jstate[b]
        /\ jstate'[hist[ev[w]].action] # jstate[hist[ev[w]].action] =>
               jowner[hist[ev[w]].action] = w
    <3>1. QueueTypeOK /\ JobsLive
      BY DEF TypeOK
    <3>2. QED
      BY <2>1, <2>2, <3>1, LetsGo
  <2>4. UNCHANGED <<hist, jdata, inflight, dropped, collided, gates>>
        /\ failed \subseteq failed' /\ Rest(w)
    BY DEF Finish, gateVars, rowVars
  <2>5. at[w] = "finish" /\ failed' = failed /\ ev[w] \in DOMAIN hist
    BY <2>1 DEF Finish
  <2>6. ASSUME NEW k \in DOMAIN hist, Pending(k)
        PROVE  \/ Pending(k)' \/ k \in failed' \cup collided'
               \/ hist[k].head \in gates' \/ hist[k].action \notin Gated
    <3>1. hist[k].action \in JobId
      BY EventTyped
    <3>2. CASE jstate'[hist[k].action] = jstate[hist[k].action]
      BY <2>4, <2>6, <3>2 DEF Pending
    <3>3. CASE jstate'[hist[k].action] # jstate[hist[k].action]
      <4>1. hist[k].action = hist[ev[w]].action /\ jowner[hist[k].action] = w
        BY <2>3, <3>1, <3>3
      <4>2. k = ev[w]
        BY <2>1, <2>6, <4>1 DEF Pending, Holding, NeedsRow
      <4>3. QED
        BY <2>1, <2>4, <2>5, <4>2 DEF Holding, NeedsRow
    <3>4. QED
      BY <3>2, <3>3
  <2>7. QED
    BY <2>4, <2>6, CausesKept DEF rowVars
<1>9. PostersAlone'
  BY DEF Finish, Rest, TypeOK, gateVars, rowVars, runVars, PostersAlone, BotComments,
     Process, Stage
<1>10. QED
  BY <1>1, <1>2, <1>3, <1>4, <1>5, <1>6, <1>7, <1>8, <1>9
     DEF IInv

\* A request starts.
LEMMA AskEvaluationPreserves ==
    ASSUME IInv, NEW r \in Request, AskEvaluation(r)
    PROVE  IInv'
<1> USE QueueAssumption, PullRequestAssumption DEF IInv
<1>1. QueueTypeOK' /\ JobsLive'
  BY QueueIdle
     DEF AskEvaluation, TypeOK, queueVars
<1>2. TypeOK'
  <2>1. /\ hist' \in Seq(Event) /\ Len(hist)' <= MaxEvents
        /\ inflight' \subseteq DOMAIN hist' /\ jdata' \in [JobId -> 0..MaxEvents]
    BY DEF AskEvaluation, TypeOK, gateVars, rowVars, runVars
  <2>2. /\ real' \in Row \cup {None} /\ phantom' \in 0..MaxEvents \cup {None}
        /\ comments' \in Seq({"bot", "human"}) /\ Len(comments)' <= MaxComments
        /\ gates' \subseteq 0..MaxEvents
    BY DEF AskEvaluation, TypeOK, gateVars, rowVars, runVars
  <2>3. at' \in [Process -> Stage] /\ ev' \in [Process -> 0..MaxEvents]
    BY DEF AskEvaluation, TypeOK, gateVars, rowVars, runVars, Stage, Process
  <2>4. head' \in [Process -> 0..MaxEvents] /\ found' \in [Process -> 0..MaxComments]
    <3>1. \A i \in DOMAIN hist : hist[i].head \in 0..MaxEvents
      BY EventTyped
    <3>2. PICK h \in {0} \cup {hist[i].head : i \in DOMAIN hist} : head' = [head EXCEPT ![r] = h]
      BY DEF AskEvaluation
    <3>3. h \in 0..MaxEvents
      BY <3>1
    <3>4. QED
      BY <3>2, <3>3 DEF AskEvaluation, TypeOK, gateVars
  <2>5. /\ applied' \subseteq DOMAIN hist' /\ newest' \in 0..MaxEvents /\ late' \in BOOLEAN
        /\ asked' \in 0..MaxRequests /\ overlap' \in BOOLEAN
    BY DEF AskEvaluation, TypeOK, gateVars, rowVars, runVars
  <2>6. dropped' \subseteq DOMAIN hist' /\ failed' \subseteq DOMAIN hist'
        /\ collided' \subseteq DOMAIN hist'
    BY DEF AskEvaluation, TypeOK, gateVars, rowVars, runVars
  <2>7. QED
    BY <1>1, <2>1, <2>2, <2>3, <2>4, <2>5, <2>6 DEF TypeOK
<1>3. Chronicle'
  BY DEF AskEvaluation, TypeOK, gateVars, rowVars, runVars, Chronicle
<1>4. JobsCarryEvents'
  BY DEF AskEvaluation, queueVars, TypeOK, QueueTypeOK, gateVars, rowVars, runVars,
     JobsCarryEvents, JobsLive
<1>5. WorkersHoldEvents'
  <2>1. r \in Process /\ r \notin Worker
    BY DEF Process
  <2>2. UNCHANGED <<queueVars, hist, jdata, gates, failed, collided, ev>>
    BY DEF AskEvaluation, gateVars, rowVars
  <2>3. \A q \in Process \ {r} : at'[q] = at[q] /\ head'[q] = head[q]
    BY DEF AskEvaluation, TypeOK
  <2>4. QED
    BY <2>1, <2>2, <2>3, OthersHold DEF queueVars, rowVars
<1>6. RowHistory'
  BY DEF AskEvaluation, TypeOK, gateVars, rowVars, runVars, RowHistory, WorkersHoldEvents
<1>7. InOrderIsExact'
  BY DEF AskEvaluation, TypeOK, gateVars, rowVars, runVars, InOrderIsExact, RowHistory,
     Snapshot
<1>8. UnevaluatedHasCause'
  BY DEF AskEvaluation, queueVars, TypeOK, QueueTypeOK, gateVars, rowVars, runVars,
     UnevaluatedHasCause, Pending, Holding, NeedsRow, JobsCarryEvents, WorkersHoldEvents
<1>9. PostersAlone'
  BY DEF AskEvaluation, TypeOK, gateVars, rowVars, runVars, PostersAlone, BotComments,
     Process, Stage
<1>10. QED
  BY <1>1, <1>2, <1>3, <1>4, <1>5, <1>6, <1>7, <1>8, <1>9
     DEF IInv

\* A worker keeps its head.
LEMMA FindRowPreserves ==
    ASSUME IInv, NEW p \in Process, FindRow(p)
    PROVE  IInv'
<1> USE QueueAssumption, PullRequestAssumption DEF IInv
<1>1. QueueTypeOK' /\ JobsLive'
  BY QueueIdle
     DEF FindRow, Analysed, RowHeads, TypeOK, queueVars
<1>2. TypeOK'
  <2>1. /\ hist' \in Seq(Event) /\ Len(hist)' <= MaxEvents
        /\ inflight' \subseteq DOMAIN hist' /\ jdata' \in [JobId -> 0..MaxEvents]
    BY DEF FindRow, Analysed, RowHeads, TypeOK, gateVars, rowVars, runVars
  <2>2. /\ real' \in Row \cup {None} /\ phantom' \in 0..MaxEvents \cup {None}
        /\ comments' \in Seq({"bot", "human"}) /\ Len(comments)' <= MaxComments
        /\ gates' \subseteq 0..MaxEvents
    BY DEF FindRow, Analysed, RowHeads, TypeOK, gateVars, rowVars, runVars
  <2>3. at' \in [Process -> Stage] /\ ev' \in [Process -> 0..MaxEvents]
    BY DEF FindRow, Analysed, RowHeads, TypeOK, gateVars, rowVars, runVars, Stage, Process
  <2>4. head' \in [Process -> 0..MaxEvents] /\ found' \in [Process -> 0..MaxComments]
    <3>1. RowHeads \subseteq 0..MaxEvents
      BY DEF RowHeads, TypeOK, Row
    <3>2. head' = head \/ \E h \in RowHeads :
              head' = [head EXCEPT ![p] = IF head[p] = 0 THEN h ELSE head[p]]
      BY DEF FindRow, Analysed
    <3>3. QED
      BY <3>1, <3>2 DEF FindRow, Analysed, TypeOK, gateVars
  <2>5. /\ applied' \subseteq DOMAIN hist' /\ newest' \in 0..MaxEvents /\ late' \in BOOLEAN
        /\ asked' \in 0..MaxRequests /\ overlap' \in BOOLEAN
    BY DEF FindRow, Analysed, RowHeads, TypeOK, gateVars, rowVars, runVars
  <2>6. dropped' \subseteq DOMAIN hist' /\ failed' \subseteq DOMAIN hist'
        /\ collided' \subseteq DOMAIN hist'
    BY DEF FindRow, Analysed, RowHeads, TypeOK, gateVars, rowVars, runVars
  <2>7. QED
    BY <1>1, <2>1, <2>2, <2>3, <2>4, <2>5, <2>6 DEF TypeOK
<1>3. Chronicle'
  BY DEF FindRow, Analysed, RowHeads, TypeOK, gateVars, rowVars, runVars, Chronicle
<1>4. JobsCarryEvents'
  BY DEF FindRow, Analysed, RowHeads, queueVars, TypeOK, QueueTypeOK, gateVars, rowVars,
     runVars,
     JobsCarryEvents, JobsLive
<1>5. WorkersHoldEvents'
  <2>1. /\ UNCHANGED <<queueVars, hist, jdata, failed, collided, gates, ev>>
        /\ at[p] = "look"
        /\ \E s \in {"create", "list", "persist"} : at' = [at EXCEPT ![p] = s]
        /\ head' = head \/ \E h \in RowHeads :
               head' = [head EXCEPT ![p] = IF head[p] = 0 THEN h ELSE head[p]]
    BY DEF FindRow, Analysed, gateVars, rowVars
  <2>2. \A v \in Process \ {p} : at'[v] = at[v] /\ head'[v] = head[v]
    BY <2>1 DEF TypeOK
  <2>3. ASSUME p \in Worker PROVE Holding(p)'
    <3>1. Holding(p) /\ ev[p] \in DOMAIN hist
      BY <2>1, <2>3, WorkerFacts
    <3>2. head[p] # 0
      BY <3>1, EventTyped DEF Holding, NeedsRow
    <3>3. head'[p] = head[p] /\ at'[p] \notin {"finish", "insert"}
      BY <2>1, <3>2 DEF TypeOK
    <3>4. QED
      BY <2>1, <3>1, <3>3 DEF Holding, NeedsRow, queueVars
  <2>4. QED
    BY <2>1, <2>2, <2>3, OthersHold DEF queueVars, rowVars
<1>6. RowHistory'
  BY DEF FindRow, Analysed, RowHeads, TypeOK, gateVars, rowVars, runVars, RowHistory,
     WorkersHoldEvents
<1>7. InOrderIsExact'
  BY DEF FindRow, Analysed, RowHeads, TypeOK, gateVars, rowVars, runVars, InOrderIsExact,
     RowHistory,
     Snapshot
<1>8. UnevaluatedHasCause'
  BY DEF FindRow, Analysed, RowHeads, queueVars, TypeOK, QueueTypeOK, gateVars, rowVars,
     runVars,
     UnevaluatedHasCause, Pending, Holding, NeedsRow, JobsCarryEvents, WorkersHoldEvents
<1>9. PostersAlone'
  <2>1. UNCHANGED <<comments, found, overlap>>
    BY DEF FindRow, Analysed, gateVars
  <2>2. \A q \in Process : at'[q] = "post" => at[q] = "post"
    BY DEF FindRow, Analysed, TypeOK, gateVars
  <2>3. QED
    BY <2>1, <2>2, PostersStay
<1>10. QED
  BY <1>1, <1>2, <1>3, <1>4, <1>5, <1>6, <1>7, <1>8, <1>9
     DEF IInv

\* Only the made-up row changes.
LEMMA CreatePhantomPreserves ==
    ASSUME IInv, NEW p \in Process, CreatePhantom(p)
    PROVE  IInv'
<1> USE QueueAssumption, PullRequestAssumption DEF IInv
<1>1. QueueTypeOK' /\ JobsLive'
  BY QueueIdle
     DEF CreatePhantom, Analysed, TypeOK, queueVars
<1>2. TypeOK'
  <2>1. /\ hist' \in Seq(Event) /\ Len(hist)' <= MaxEvents
        /\ inflight' \subseteq DOMAIN hist' /\ jdata' \in [JobId -> 0..MaxEvents]
    BY DEF CreatePhantom, Analysed, TypeOK, gateVars, rowVars, runVars
  <2>2. /\ real' \in Row \cup {None} /\ phantom' \in 0..MaxEvents \cup {None}
        /\ comments' \in Seq({"bot", "human"}) /\ Len(comments)' <= MaxComments
        /\ gates' \subseteq 0..MaxEvents
    BY DEF CreatePhantom, Analysed, TypeOK, gateVars, rowVars, runVars
  <2>3. at' \in [Process -> Stage] /\ ev' \in [Process -> 0..MaxEvents]
    BY DEF CreatePhantom, Analysed, TypeOK, gateVars, rowVars, runVars, Stage, Process
  <2>4. head' \in [Process -> 0..MaxEvents] /\ found' \in [Process -> 0..MaxComments]
    BY DEF CreatePhantom, Analysed, TypeOK, gateVars, rowVars, runVars, Process
  <2>5. /\ applied' \subseteq DOMAIN hist' /\ newest' \in 0..MaxEvents /\ late' \in BOOLEAN
        /\ asked' \in 0..MaxRequests /\ overlap' \in BOOLEAN
    BY DEF CreatePhantom, Analysed, TypeOK, gateVars, rowVars, runVars
  <2>6. dropped' \subseteq DOMAIN hist' /\ failed' \subseteq DOMAIN hist'
        /\ collided' \subseteq DOMAIN hist'
    BY DEF CreatePhantom, Analysed, TypeOK, gateVars, rowVars, runVars
  <2>7. QED
    BY <1>1, <2>1, <2>2, <2>3, <2>4, <2>5, <2>6 DEF TypeOK
<1>3. Chronicle'
  BY DEF CreatePhantom, Analysed, TypeOK, gateVars, rowVars, runVars, Chronicle
<1>4. JobsCarryEvents'
  BY DEF CreatePhantom, Analysed, queueVars, TypeOK, QueueTypeOK, gateVars, rowVars, runVars,
     JobsCarryEvents, JobsLive
<1>5. WorkersHoldEvents'
  BY DEF CreatePhantom, Analysed, queueVars, TypeOK, QueueTypeOK, gateVars, rowVars, runVars,
     WorkersHoldEvents, Holding, NeedsRow, JobsLive, JobsCarryEvents, Process, Stage
<1>6. RowHistory'
  BY DEF CreatePhantom, Analysed, TypeOK, gateVars, rowVars, runVars, RowHistory,
     WorkersHoldEvents
<1>7. InOrderIsExact'
  BY DEF CreatePhantom, Analysed, TypeOK, gateVars, rowVars, runVars, InOrderIsExact,
     RowHistory,
     Snapshot
<1>8. UnevaluatedHasCause'
  BY DEF CreatePhantom, Analysed, queueVars, TypeOK, QueueTypeOK, gateVars, rowVars, runVars,
     UnevaluatedHasCause, Pending, Holding, NeedsRow, JobsCarryEvents, WorkersHoldEvents
<1>9. PostersAlone'
  BY DEF CreatePhantom, Analysed, TypeOK, gateVars, rowVars, runVars, PostersAlone, BotComments,
     Process, Stage
<1>10. QED
  BY <1>1, <1>2, <1>3, <1>4, <1>5, <1>6, <1>7, <1>8, <1>9
     DEF IInv

\* Whoever lists while another is about to post overlaps.
LEMMA ListCommentsPreserves ==
    ASSUME IInv, NEW p \in Process, ListComments(p)
    PROVE  IInv'
<1> USE QueueAssumption, PullRequestAssumption DEF IInv
<1>1. QueueTypeOK' /\ JobsLive'
  BY QueueIdle
     DEF ListComments, FirstFound, TypeOK, queueVars
<1>2. TypeOK'
  <2>1. /\ hist' \in Seq(Event) /\ Len(hist)' <= MaxEvents
        /\ inflight' \subseteq DOMAIN hist' /\ jdata' \in [JobId -> 0..MaxEvents]
    BY DEF ListComments, FirstFound, TypeOK, gateVars, rowVars, runVars
  <2>2. /\ real' \in Row \cup {None} /\ phantom' \in 0..MaxEvents \cup {None}
        /\ comments' \in Seq({"bot", "human"}) /\ Len(comments)' <= MaxComments
        /\ gates' \subseteq 0..MaxEvents
    BY DEF ListComments, FirstFound, TypeOK, gateVars, rowVars, runVars
  <2>3. at' \in [Process -> Stage] /\ ev' \in [Process -> 0..MaxEvents]
    BY DEF ListComments, FirstFound, TypeOK, gateVars, rowVars, runVars, Stage, Process
  <2>4. head' \in [Process -> 0..MaxEvents] /\ found' \in [Process -> 0..MaxComments]
    <3>1. FirstFound \in 0..MaxComments
      BY DEF FirstFound, BotComments, TypeOK
    <3>2. QED
      BY <3>1 DEF ListComments, TypeOK
  <2>5. /\ applied' \subseteq DOMAIN hist' /\ newest' \in 0..MaxEvents /\ late' \in BOOLEAN
        /\ asked' \in 0..MaxRequests /\ overlap' \in BOOLEAN
    BY DEF ListComments, FirstFound, TypeOK, gateVars, rowVars, runVars
  <2>6. dropped' \subseteq DOMAIN hist' /\ failed' \subseteq DOMAIN hist'
        /\ collided' \subseteq DOMAIN hist'
    BY DEF ListComments, FirstFound, TypeOK, gateVars, rowVars, runVars
  <2>7. QED
    BY <1>1, <2>1, <2>2, <2>3, <2>4, <2>5, <2>6 DEF TypeOK
<1>3. Chronicle'
  BY DEF ListComments, FirstFound, TypeOK, gateVars, rowVars, runVars, Chronicle
<1>4. JobsCarryEvents'
  BY DEF ListComments, FirstFound, queueVars, TypeOK, QueueTypeOK, gateVars, rowVars,
     runVars, JobsCarryEvents, JobsLive
<1>5. WorkersHoldEvents'
  <2>1. /\ UNCHANGED <<queueVars, hist, jdata, failed, collided, gates, ev, head>>
        /\ at[p] = "list"
        /\ \E s \in {"post", "persist"} : at' = [at EXCEPT ![p] = s]
    BY DEF ListComments, rowVars
  <2>2. \A v \in Process \ {p} : at'[v] = at[v]
    BY <2>1 DEF TypeOK
  <2>3. ASSUME p \in Worker PROVE Holding(p)'
    <3>1. Holding(p) /\ at'[p] \notin {"finish", "insert"}
      BY <2>1, <2>3, WorkerFacts DEF TypeOK
    <3>2. QED
      BY <2>1, <3>1 DEF Holding, NeedsRow, queueVars
  <2>4. QED
    BY <2>1, <2>2, <2>3, OthersHold DEF queueVars, rowVars
<1>6. RowHistory'
  BY DEF ListComments, FirstFound, TypeOK, gateVars, rowVars, runVars, RowHistory,
     WorkersHoldEvents
<1>7. InOrderIsExact'
  BY DEF ListComments, FirstFound, TypeOK, gateVars, rowVars, runVars, InOrderIsExact,
     RowHistory, Snapshot
<1>8. UnevaluatedHasCause'
  BY DEF ListComments, FirstFound, queueVars, TypeOK, QueueTypeOK, gateVars, rowVars,
     runVars, UnevaluatedHasCause, Pending, Holding, NeedsRow, JobsCarryEvents,
     WorkersHoldEvents
<1>9. PostersAlone'
  <2> SUFFICES ASSUME ~overlap' PROVE PostersAlone'
    BY DEF PostersAlone
  <2>1. comments' = comments
    BY DEF ListComments
  <2>2. CASE /\ found' = [found EXCEPT ![p] = FirstFound]
             /\ overlap' = (overlap \/ \E q \in Process \ {p} : at[q] = "post")
             /\ at' = [at EXCEPT ![p] = "post"]
    <3>1. ~overlap /\ \A q \in Process \ {p} : at[q] # "post"
      BY <2>2
    <3>2. FirstFound = 0 => \A i \in BotComments : i > Page
      <4>1. \A i, k \in BotComments : i <= Page => k = i
        BY <3>1 DEF PostersAlone
      <4>2. BotComments \subseteq 1..MaxComments
        BY DEF BotComments, TypeOK
      <4>3. ASSUME NEW i \in BotComments, i <= Page PROVE FirstFound # 0
        <5>1. {k \in BotComments : k <= Page} = {i}
          BY <4>1, <4>3
        <5>2. FirstFound = i
          BY <4>2, <5>1 DEF FirstFound
        <5>3. QED
          BY <4>2, <5>2
      <4>4. QED
        BY <4>2, <4>3
    <3>3. /\ \A q \in Process \ {p} : at'[q] # "post"
          /\ found'[p] = FirstFound
      BY <2>2, <3>1 DEF TypeOK
    <3>4. BotComments' = BotComments
      BY <2>1 DEF BotComments
    <3>5. QED
      BY <3>1, <3>2, <3>3, <3>4 DEF PostersAlone
  <2>3. CASE at' = [at EXCEPT ![p] = "persist"] /\ UNCHANGED <<found, overlap>>
    BY <2>1, <2>3 DEF PostersAlone, BotComments, TypeOK
  <2>4. QED
    BY <2>2, <2>3 DEF ListComments
<1>10. QED
  BY <1>1, <1>2, <1>3, <1>4, <1>5, <1>6, <1>7, <1>8, <1>9
     DEF IInv

\* A new comment is the only one on the page, or beyond it.
LEMMA PostCommentPreserves ==
    ASSUME IInv, NEW p \in Process, PostComment(p)
    PROVE  IInv'
<1> USE QueueAssumption, PullRequestAssumption DEF IInv
<1>1. QueueTypeOK' /\ JobsLive'
  BY QueueIdle
     DEF PostComment, TypeOK, queueVars
<1>2. TypeOK'
  <2>1. /\ hist' \in Seq(Event) /\ Len(hist)' <= MaxEvents
        /\ inflight' \subseteq DOMAIN hist' /\ jdata' \in [JobId -> 0..MaxEvents]
    BY DEF PostComment, TypeOK, gateVars, rowVars, runVars
  <2>2. /\ real' \in Row \cup {None} /\ phantom' \in 0..MaxEvents \cup {None}
        /\ comments' \in Seq({"bot", "human"}) /\ Len(comments)' <= MaxComments
        /\ gates' \subseteq 0..MaxEvents
    <3>1. comments' \in Seq({"bot", "human"}) /\ Len(comments') <= MaxComments
      <4>1. CASE comments' = Append(comments, "bot") /\ Len(comments) < MaxComments
        <5>1. comments \in Seq({"bot", "human"}) /\ Len(comments) \in Nat
          BY DEF TypeOK
        <5>2. comments' \in Seq({"bot", "human"}) /\ Len(comments') = Len(comments) + 1
          BY <4>1, <5>1
        <5>3. QED
          BY <4>1, <5>1, <5>2
      <4>2. CASE comments' = comments
        BY <4>2 DEF TypeOK
      <4>3. QED
        BY <4>1, <4>2 DEF PostComment
    <3>2. QED
      BY <3>1 DEF PostComment, TypeOK, rowVars
  <2>3. at' \in [Process -> Stage] /\ ev' \in [Process -> 0..MaxEvents]
    BY DEF PostComment, TypeOK, gateVars, rowVars, runVars, Stage, Process
  <2>4. head' \in [Process -> 0..MaxEvents] /\ found' \in [Process -> 0..MaxComments]
    BY DEF PostComment, TypeOK, gateVars, rowVars, runVars, Process
  <2>5. /\ applied' \subseteq DOMAIN hist' /\ newest' \in 0..MaxEvents /\ late' \in BOOLEAN
        /\ asked' \in 0..MaxRequests /\ overlap' \in BOOLEAN
    BY DEF PostComment, TypeOK, gateVars, rowVars, runVars
  <2>6. dropped' \subseteq DOMAIN hist' /\ failed' \subseteq DOMAIN hist'
        /\ collided' \subseteq DOMAIN hist'
    BY DEF PostComment, TypeOK, gateVars, rowVars, runVars
  <2>7. QED
    BY <1>1, <2>1, <2>2, <2>3, <2>4, <2>5, <2>6 DEF TypeOK
<1>3. Chronicle'
  BY DEF PostComment, TypeOK, gateVars, rowVars, runVars, Chronicle
<1>4. JobsCarryEvents'
  BY DEF PostComment, queueVars, TypeOK, QueueTypeOK, gateVars, rowVars, runVars,
     JobsCarryEvents, JobsLive
<1>5. WorkersHoldEvents'
  BY DEF PostComment, queueVars, TypeOK, QueueTypeOK, gateVars, rowVars, runVars,
     WorkersHoldEvents, Holding, NeedsRow, JobsLive, JobsCarryEvents, Process, Stage
<1>6. RowHistory'
  BY DEF PostComment, TypeOK, gateVars, rowVars, runVars, RowHistory, WorkersHoldEvents
<1>7. InOrderIsExact'
  BY DEF PostComment, TypeOK, gateVars, rowVars, runVars, InOrderIsExact, RowHistory,
     Snapshot
<1>8. UnevaluatedHasCause'
  BY DEF PostComment, queueVars, TypeOK, QueueTypeOK, gateVars, rowVars, runVars,
     UnevaluatedHasCause, Pending, Holding, NeedsRow, JobsCarryEvents, WorkersHoldEvents
<1>9. PostersAlone'
  <2> SUFFICES ASSUME ~overlap' PROVE PostersAlone'
    BY DEF PostersAlone
  <2>1. /\ at[p] = "post" /\ ~overlap
        /\ at' = [at EXCEPT ![p] = "persist"] /\ found' = [found EXCEPT ![p] = 0]
        /\ \/ found[p] = 0 /\ comments' = Append(comments, "bot")
           \/ UNCHANGED comments
    BY DEF PostComment
  <2>2. \A q \in Process : at'[q] # "post"
    BY <2>1 DEF PostersAlone, TypeOK
  <2>3. \A i, k \in BotComments' : i <= Page => k = i
    <3>1. CASE found[p] = 0 /\ comments' = Append(comments, "bot")
      <4>1. \A i \in BotComments : i > Page
        BY <2>1, <3>1 DEF PostersAlone
      <4>2. /\ Len(comments) \in Nat /\ BotComments \subseteq 1..Len(comments)
            /\ BotComments' = BotComments \cup {Len(comments) + 1}
        BY <3>1 DEF BotComments, TypeOK
      <4>3. QED
        BY <4>1, <4>2
    <3>2. CASE UNCHANGED comments
      BY <2>1, <3>2 DEF PostersAlone, BotComments
    <3>3. QED
      BY <2>1, <3>1, <3>2
  <2>4. QED
    BY <2>2, <2>3 DEF PostersAlone
<1>10. QED
  BY <1>1, <1>2, <1>3, <1>4, <1>5, <1>6, <1>7, <1>8, <1>9
     DEF IInv

\* The head is on record.
LEMMA PersistGatePreserves ==
    ASSUME IInv, NEW p \in Process, PersistGate(p)
    PROVE  IInv'
<1> USE QueueAssumption, PullRequestAssumption DEF IInv
<1>1. QueueTypeOK' /\ JobsLive'
  BY QueueIdle
     DEF PersistGate, Leave, Rest, TypeOK, queueVars
<1>2. TypeOK'
  <2>1. /\ hist' \in Seq(Event) /\ Len(hist)' <= MaxEvents
        /\ inflight' \subseteq DOMAIN hist' /\ jdata' \in [JobId -> 0..MaxEvents]
    BY DEF PersistGate, Leave, Rest, TypeOK, gateVars, rowVars, runVars
  <2>2. /\ real' \in Row \cup {None} /\ phantom' \in 0..MaxEvents \cup {None}
        /\ comments' \in Seq({"bot", "human"}) /\ Len(comments)' <= MaxComments
        /\ gates' \subseteq 0..MaxEvents
    <3>1. head[p] \in 0..MaxEvents
      BY DEF TypeOK
    <3>2. QED
      BY <3>1 DEF PersistGate, TypeOK, rowVars
  <2>3. at' \in [Process -> Stage] /\ ev' \in [Process -> 0..MaxEvents]
    <3>1. /\ at' \in [Process -> Stage] /\ ev' \in [Process -> 0..MaxEvents]
          /\ head' \in [Process -> 0..MaxEvents]
      BY LeavesTyped DEF PersistGate
    <3>2. QED
      BY <3>1 DEF PersistGate, TypeOK, gateVars
  <2>4. head' \in [Process -> 0..MaxEvents] /\ found' \in [Process -> 0..MaxComments]
    <3>1. /\ at' \in [Process -> Stage] /\ ev' \in [Process -> 0..MaxEvents]
          /\ head' \in [Process -> 0..MaxEvents]
      BY LeavesTyped DEF PersistGate
    <3>2. QED
      BY <3>1 DEF PersistGate, TypeOK, gateVars
  <2>5. /\ applied' \subseteq DOMAIN hist' /\ newest' \in 0..MaxEvents /\ late' \in BOOLEAN
        /\ asked' \in 0..MaxRequests /\ overlap' \in BOOLEAN
    BY DEF PersistGate, Leave, Rest, TypeOK, gateVars, rowVars, runVars
  <2>6. dropped' \subseteq DOMAIN hist' /\ failed' \subseteq DOMAIN hist'
        /\ collided' \subseteq DOMAIN hist'
    BY DEF PersistGate, Leave, Rest, TypeOK, gateVars, rowVars, runVars
  <2>7. QED
    BY <1>1, <2>1, <2>2, <2>3, <2>4, <2>5, <2>6 DEF TypeOK
<1>3. Chronicle'
  BY DEF PersistGate, Leave, Rest, TypeOK, gateVars, rowVars, runVars, Chronicle
<1>4. JobsCarryEvents'
  BY DEF PersistGate, Leave, Rest, queueVars, TypeOK, QueueTypeOK, gateVars, rowVars,
     runVars, JobsCarryEvents, JobsLive
<1>5. WorkersHoldEvents'
  <2>1. /\ UNCHANGED <<queueVars, hist, jdata>> /\ Leave(p) /\ at[p] # "idle"
        /\ gates' = gates \cup {head[p]} /\ UNCHANGED <<failed, collided>>
    BY DEF PersistGate, gateVars, rowVars
  <2>2. /\ \A q \in Process \ {p} : at'[q] = at[q] /\ ev'[q] = ev[q] /\ head'[q] = head[q]
        /\ at'[p] \in {"idle", "finish"}
        /\ at'[p] = "finish" => p \in Worker /\ ev'[p] = ev[p] /\ head'[p] = head[p]
    BY <2>1, LeavesTyped
  <2>3. ASSUME p \in Worker, at'[p] # "idle" PROVE Holding(p)'
    <3>1. /\ Holding(p) /\ ev'[p] = ev[p] /\ head'[p] = head[p]
          /\ at'[p] = "finish"
      BY <2>1, <2>2, <2>3, WorkerFacts
    <3>2. QED
      BY <2>1, <2>3, <3>1 DEF Holding, NeedsRow, queueVars, EvaluationOf
  <2>4. QED
    BY <2>1, <2>2, <2>3, OthersHold DEF queueVars, rowVars
<1>6. RowHistory'
  BY DEF PersistGate, Leave, Rest, TypeOK, gateVars, rowVars, runVars, RowHistory,
     WorkersHoldEvents
<1>7. InOrderIsExact'
  BY DEF PersistGate, Leave, Rest, TypeOK, gateVars, rowVars, runVars, InOrderIsExact,
     RowHistory, Snapshot
<1>8. UnevaluatedHasCause'
  BY DEF PersistGate, Leave, Rest, queueVars, TypeOK, QueueTypeOK, gateVars, rowVars,
     runVars, UnevaluatedHasCause, Pending, Holding, NeedsRow, JobsCarryEvents,
     WorkersHoldEvents
<1>9. PostersAlone'
  <2>1. UNCHANGED <<comments, found, overlap>> /\ Leave(p)
    BY DEF PersistGate
  <2>2. \A q \in Process : at'[q] = "post" => at[q] = "post"
    BY <2>1, LeavesTyped
  <2>3. QED
    BY <2>1, <2>2, PostersStay
<1>10. QED
  BY <1>1, <1>2, <1>3, <1>4, <1>5, <1>6, <1>7, <1>8, <1>9
     DEF IInv

\* The failure is on record.
LEMMA GateFailsPreserves ==
    ASSUME IInv, NEW p \in Process, GateFails(p)
    PROVE  IInv'
<1> USE QueueAssumption, PullRequestAssumption DEF IInv
<1>1. QueueTypeOK' /\ JobsLive'
  BY QueueIdle
     DEF GateFails, Leave, Rest, EvaluationOf, TypeOK, queueVars
<1>2. TypeOK'
  <2>1. /\ hist' \in Seq(Event) /\ Len(hist)' <= MaxEvents
        /\ inflight' \subseteq DOMAIN hist' /\ jdata' \in [JobId -> 0..MaxEvents]
    BY DEF GateFails, Leave, Rest, EvaluationOf, TypeOK, gateVars, rowVars, runVars
  <2>2. /\ real' \in Row \cup {None} /\ phantom' \in 0..MaxEvents \cup {None}
        /\ comments' \in Seq({"bot", "human"}) /\ Len(comments)' <= MaxComments
        /\ gates' \subseteq 0..MaxEvents
    BY DEF GateFails, Leave, Rest, EvaluationOf, TypeOK, gateVars, rowVars, runVars
  <2>3. at' \in [Process -> Stage] /\ ev' \in [Process -> 0..MaxEvents]
    <3>1. /\ at' \in [Process -> Stage] /\ ev' \in [Process -> 0..MaxEvents]
          /\ head' \in [Process -> 0..MaxEvents]
      BY LeavesTyped DEF GateFails
    <3>2. QED
      BY <3>1 DEF GateFails, TypeOK, gateVars
  <2>4. head' \in [Process -> 0..MaxEvents] /\ found' \in [Process -> 0..MaxComments]
    <3>1. /\ at' \in [Process -> Stage] /\ ev' \in [Process -> 0..MaxEvents]
          /\ head' \in [Process -> 0..MaxEvents]
      BY LeavesTyped DEF GateFails
    <3>2. QED
      BY <3>1 DEF GateFails, TypeOK, gateVars
  <2>5. /\ applied' \subseteq DOMAIN hist' /\ newest' \in 0..MaxEvents /\ late' \in BOOLEAN
        /\ asked' \in 0..MaxRequests /\ overlap' \in BOOLEAN
    BY DEF GateFails, Leave, Rest, EvaluationOf, TypeOK, gateVars, rowVars, runVars
  <2>6. dropped' \subseteq DOMAIN hist' /\ failed' \subseteq DOMAIN hist'
        /\ collided' \subseteq DOMAIN hist'
    <3>1. EvaluationOf(p) \subseteq DOMAIN hist
      BY WorkerFacts DEF EvaluationOf, GateFails
    <3>2. QED
      BY <3>1 DEF GateFails, TypeOK, rowVars
  <2>7. QED
    BY <1>1, <2>1, <2>2, <2>3, <2>4, <2>5, <2>6 DEF TypeOK
<1>3. Chronicle'
  BY DEF GateFails, Leave, Rest, EvaluationOf, TypeOK, gateVars, rowVars, runVars, Chronicle
<1>4. JobsCarryEvents'
  BY DEF GateFails, Leave, Rest, EvaluationOf, queueVars, TypeOK, QueueTypeOK, gateVars,
     rowVars, runVars, JobsCarryEvents, JobsLive
<1>5. WorkersHoldEvents'
  <2>1. /\ UNCHANGED <<queueVars, hist, jdata>> /\ Leave(p) /\ at[p] # "idle"
        /\ UNCHANGED <<gates, collided>> /\ failed' = failed \cup EvaluationOf(p)
    BY DEF GateFails, gateVars, rowVars
  <2>2. /\ \A q \in Process \ {p} : at'[q] = at[q] /\ ev'[q] = ev[q] /\ head'[q] = head[q]
        /\ at'[p] \in {"idle", "finish"}
        /\ at'[p] = "finish" => p \in Worker /\ ev'[p] = ev[p] /\ head'[p] = head[p]
    BY <2>1, LeavesTyped
  <2>3. ASSUME p \in Worker, at'[p] # "idle" PROVE Holding(p)'
    <3>1. /\ Holding(p) /\ ev'[p] = ev[p] /\ head'[p] = head[p]
          /\ at'[p] = "finish"
      BY <2>1, <2>2, <2>3, WorkerFacts
    <3>2. QED
      BY <2>1, <2>3, <3>1 DEF Holding, NeedsRow, queueVars, EvaluationOf
  <2>4. QED
    BY <2>1, <2>2, <2>3, OthersHold DEF queueVars, rowVars
<1>6. RowHistory'
  BY DEF GateFails, Leave, Rest, EvaluationOf, TypeOK, gateVars, rowVars, runVars,
     RowHistory, WorkersHoldEvents
<1>7. InOrderIsExact'
  BY DEF GateFails, Leave, Rest, EvaluationOf, TypeOK, gateVars, rowVars, runVars,
     InOrderIsExact, RowHistory, Snapshot
<1>8. UnevaluatedHasCause'
  BY DEF GateFails, Leave, Rest, EvaluationOf, queueVars, TypeOK, QueueTypeOK, gateVars,
     rowVars, runVars, UnevaluatedHasCause, Pending, Holding, NeedsRow, JobsCarryEvents,
     WorkersHoldEvents
<1>9. PostersAlone'
  BY DEF GateFails, Leave, Rest, EvaluationOf, TypeOK, gateVars, rowVars, runVars,
     PostersAlone, BotComments, Process, Stage
<1>10. QED
  BY <1>1, <1>2, <1>3, <1>4, <1>5, <1>6, <1>7, <1>8, <1>9
     DEF IInv

\* Only the run ends.
LEMMA DiePreserves ==
    ASSUME IInv, NEW p \in Process, Die(p)
    PROVE  IInv'
<1> USE QueueAssumption, PullRequestAssumption DEF IInv
<1>1. QueueTypeOK' /\ JobsLive'
  BY QueueIdle
     DEF Die, Rest, TypeOK, queueVars
<1>2. TypeOK'
  <2>1. /\ hist' \in Seq(Event) /\ Len(hist)' <= MaxEvents
        /\ inflight' \subseteq DOMAIN hist' /\ jdata' \in [JobId -> 0..MaxEvents]
    BY DEF Die, Rest, TypeOK, gateVars, rowVars, runVars
  <2>2. /\ real' \in Row \cup {None} /\ phantom' \in 0..MaxEvents \cup {None}
        /\ comments' \in Seq({"bot", "human"}) /\ Len(comments)' <= MaxComments
        /\ gates' \subseteq 0..MaxEvents
    BY DEF Die, Rest, TypeOK, gateVars, rowVars, runVars
  <2>3. at' \in [Process -> Stage] /\ ev' \in [Process -> 0..MaxEvents]
    BY DEF Die, Rest, TypeOK, gateVars, rowVars, runVars, Stage, Process
  <2>4. head' \in [Process -> 0..MaxEvents] /\ found' \in [Process -> 0..MaxComments]
    BY DEF Die, Rest, TypeOK, gateVars, rowVars, runVars, Process
  <2>5. /\ applied' \subseteq DOMAIN hist' /\ newest' \in 0..MaxEvents /\ late' \in BOOLEAN
        /\ asked' \in 0..MaxRequests /\ overlap' \in BOOLEAN
    BY DEF Die, Rest, TypeOK, gateVars, rowVars, runVars
  <2>6. dropped' \subseteq DOMAIN hist' /\ failed' \subseteq DOMAIN hist'
        /\ collided' \subseteq DOMAIN hist'
    BY DEF Die, Rest, TypeOK, gateVars, rowVars, runVars
  <2>7. QED
    BY <1>1, <2>1, <2>2, <2>3, <2>4, <2>5, <2>6 DEF TypeOK
<1>3. Chronicle'
  BY DEF Die, Rest, TypeOK, gateVars, rowVars, runVars, Chronicle
<1>4. JobsCarryEvents'
  BY DEF Die, Rest, queueVars, TypeOK, QueueTypeOK, gateVars, rowVars, runVars,
     JobsCarryEvents, JobsLive
<1>5. WorkersHoldEvents'
  BY DEF Die, Rest, queueVars, TypeOK, QueueTypeOK, gateVars, rowVars, runVars,
     WorkersHoldEvents, Holding, NeedsRow, JobsLive, JobsCarryEvents, Process, Stage
<1>6. RowHistory'
  BY DEF Die, Rest, TypeOK, gateVars, rowVars, runVars, RowHistory, WorkersHoldEvents
<1>7. InOrderIsExact'
  BY DEF Die, Rest, TypeOK, gateVars, rowVars, runVars, InOrderIsExact, RowHistory, Snapshot
<1>8. UnevaluatedHasCause'
  BY DEF Die, Rest, queueVars, TypeOK, QueueTypeOK, gateVars, rowVars, runVars,
     UnevaluatedHasCause, Pending, Holding, NeedsRow, JobsCarryEvents, WorkersHoldEvents
<1>9. PostersAlone'
  BY DEF Die, Rest, TypeOK, gateVars, rowVars, runVars, PostersAlone, BotComments, Process,
     Stage
<1>10. QED
  BY <1>1, <1>2, <1>3, <1>4, <1>5, <1>6, <1>7, <1>8, <1>9
     DEF IInv

\* A step that changes nothing preserves everything.
LEMMA StutterPreserves ==
    ASSUME IInv, UNCHANGED vars
    PROVE  IInv'
<1> USE DEF vars, prVars, gateVars, rowVars, runVars, queueVars, IInv
<1>1. TypeOK' /\ JobsLive' /\ Chronicle' /\ JobsCarryEvents'
  BY DEF TypeOK, QueueTypeOK, JobsLive, Chronicle, JobsCarryEvents
<1>2. WorkersHoldEvents' /\ UnevaluatedHasCause'
  BY DEF WorkersHoldEvents, UnevaluatedHasCause, Holding, NeedsRow, Pending
<1>3. RowHistory' /\ InOrderIsExact' /\ PostersAlone'
  BY DEF RowHistory, InOrderIsExact, Snapshot, PostersAlone, BotComments
<1>4. QED
  BY <1>1, <1>2, <1>3

\* Every step preserves the inductive invariant.
LEMMA NextPreserves == IInv /\ [Next]_vars => IInv'
<1> SUFFICES ASSUME IInv, [Next]_vars PROVE IInv'
  OBVIOUS
<1>1. CASE GitHubEvent \/ Comment \/ \E i \in inflight : Lose(i) \/ Handle(i)
  BY <1>1, GitHubEventPreserves, CommentPreserves, LosePreserves, HandlePreserves
<1>2. CASE \E a \in JobId : Stall(a) \/ Evict(a)
  BY <1>2, StallPreserves, EvictPreserves
<1>3. ASSUME NEW w \in Worker,
             \/ \E a \in JobId : Take(w, a)
             \/ Upsert(w) \/ Apply(w) \/ Collide(w) \/ ApplyFails(w) \/ Finish(w)
      PROVE  IInv'
  BY <1>3, TakePreserves, UpsertPreserves, ApplyPreserves, CollidePreserves,
     ApplyFailsPreserves, FinishPreserves
<1>4. CASE \E r \in Request : AskEvaluation(r)
  BY <1>4, AskEvaluationPreserves
<1>5. ASSUME NEW p \in Process,
             \/ FindRow(p) \/ CreatePhantom(p) \/ ListComments(p) \/ PostComment(p)
             \/ PersistGate(p) \/ GateFails(p) \/ Die(p)
      PROVE  IInv'
  BY <1>5, FindRowPreserves, CreatePhantomPreserves, ListCommentsPreserves,
     PostCommentPreserves, PersistGatePreserves, GateFailsPreserves, DiePreserves
<1>6. CASE UNCHANGED vars
  BY <1>6, StutterPreserves
<1>7. QED
  BY <1>1, <1>2, <1>3, <1>4, <1>5, <1>6 DEF Next

\* The inductive invariant holds throughout every behaviour.
THEOREM Invariance == Spec => []IInv
BY InitEstablishes, NextPreserves, PTL DEF Spec

\* Type correctness.
THEOREM TypeCorrect == Spec => []TypeOK
<1>1. IInv => TypeOK
  BY DEF IInv
<1>2. QED
  BY <1>1, Invariance, PTL

\* While no event was skipped and none written after a later one, the row is the pull
\* request as the newest written event shows it.
THEOREM InOrderExact == Spec => []InOrderIsExact
<1>1. IInv => InOrderIsExact
  BY DEF IInv
<1>2. QED
  BY <1>1, Invariance, PTL

\* A head of an opened, synchronized or reopened pull request without a gate record is
\* being worked on, or its event is on record as lost, dropped at a taken job id, failed, or
\* completed by the worker after its insert collided.
THEOREM UnevaluatedExplained == Spec => []UnevaluatedHasCause
<1>1. IInv => UnevaluatedHasCause
  BY DEF IInv
<1>2. QED
  BY <1>1, Invariance, PTL

\* A second comment of the bot has one of its two causes.
THEOREM SecondCommentExplained == Spec => []SecondCommentHasCause
<1>1. ASSUME IInv PROVE SecondCommentHasCause
  <2>1. SUFFICES ASSUME ~overlap, NEW i \in BotComments, ~(i > Page)
                 PROVE  Cardinality(BotComments) = 1
    BY DEF SecondCommentHasCause
  <2>2. i <= Page
    BY <1>1, <2>1, PullRequestAssumption DEF IInv, TypeOK, BotComments
  <2>3. \A k \in BotComments : k = i
    BY <1>1, <2>1, <2>2 DEF IInv, PostersAlone
  <2>4. BotComments = {i}
    BY <2>3
  <2>5. Cardinality({i}) = 1
    BY FS_Singleton, Zenon
  <2>6. QED
    BY <2>4, <2>5
<1>2. QED
  BY <1>1, Invariance, PTL

\* A merge is only undone by an event written late.
LEMMA MergeStep ==
    ASSUME IInv, [Next]_vars, real # None, real.state = "MERGED", real'.state # real.state
    PROVE  late'
<1> USE DEF IInv
<1>1. PICK w \in Worker : Apply(w)
  BY DEF Next, vars, prVars, rowVars, GitHubEvent, Lose, Comment, Handle, Stall, Evict, Take,
     Upsert, Collide, ApplyFails, Finish, AskEvaluation, FindRow, CreatePhantom, ListComments,
     PostComment,
     PersistGate, GateFails, Die
<1>2. ev[w] \in DOMAIN hist
  BY <1>1, WorkerFacts DEF Apply
<1>3. PICK k \in DOMAIN hist : k <= newest /\ hist[k].state = "MERGED"
  BY DEF RowHistory
<1>4. hist[ev[w]].state # "MERGED"
  <2> SUFFICES ASSUME hist[ev[w]].state = "MERGED" PROVE FALSE
    OBVIOUS
  <2>1. hist[ev[w]].action # "opened" /\ hist[ev[w]].action # "reopened"
    BY <1>2 DEF Chronicle, Follows, TypeOK
  <2>2. real' = Written(ev[w])
    BY <1>1 DEF Apply, Record
  <2>3. hist[ev[w]].action \in Actions /\ real \in Row
    BY <1>2, EventTyped DEF TypeOK
  <2>4. QED
    BY <2>1, <2>2, <2>3 DEF Written, Actions, Row
<1>5. ev[w] < k
  BY <1>2, <1>3, <1>4, EventTyped DEF Chronicle
<1>6. late' = (late \/ ev[w] < newest)
  BY <1>1 DEF Apply, Record
<1>7. ev[w] \in Nat /\ k \in Nat /\ newest \in Nat
  <2>1. ev[w] \in 1..MaxEvents /\ k \in 1..MaxEvents
    BY <1>2, <1>3, EventTyped
  <2>2. newest \in 0..MaxEvents
    BY DEF TypeOK
  <2>3. QED
    BY <2>1, <2>2, PullRequestAssumption
<1>8. ev[w] < newest
  BY <1>3, <1>5, <1>7
<1>9. QED
  BY <1>6, <1>8, Zenon

\* So a merged row stays merged while events are written in order.
THEOREM MergeStays == Spec => MergedUndoneOnlyLate
<1>1. IInv /\ [Next]_vars =>
        [(real # None /\ real'.state # real.state /\ real.state = "MERGED") => late']_vars
  BY MergeStep
<1>2. QED
  BY <1>1, Invariance, PTL DEF Spec, MergedUndoneOnlyLate
===============================================================================
