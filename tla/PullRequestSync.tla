-------------------------- MODULE PullRequestSync --------------------------
(***************************************************************************)
(* One pull request, from GitHub's events to its row, its quality gate and *)
(* the bot's comment.                                                      *)
(*                                                                         *)
(*   GitHub --events--> pull-request-handler --jobs--> PullRequestWorker   *)
(*        \                                                 | apply        *)
(*         comments <-- PrQualityGateBotService.evaluateAndReport          *)
(*                                        ^ a request may also ask for it  *)
(*                                                                         *)
(* Event i carries the pull request as it was when the event arose.  A     *)
(* delivery reaches the handler once (WebhookDelivery), in any order, or   *)
(* never.  The id of a job names the pull request and the action only.     *)
(***************************************************************************)
EXTENDS JobQueue, Sequences

CONSTANTS
    Request,     \* slots for requests to evaluate the gate on demand
    None,
    Commenting,  \* whether the bot has credentials and its comments are switched on
    Page,        \* comments one call of listComments returns (50 in the code)
    MaxEvents,   \* bound: events GitHub sends
    MaxComments, \* bound: comments on the pull request
    MaxRequests  \* bound: evaluations on demand

Actions == {"opened", "closed", "reopened", "synchronize", "review_requested"}
Gated == {"opened", "synchronize", "reopened"}
States == {"OPEN", "CLOSED", "MERGED"}
Process == Worker \cup Request
Event == [action : Actions, state : States, head : 1..MaxEvents]
Row == [state : States, head : 1..MaxEvents]

ASSUME PullRequestAssumption ==
    /\ JobId = Actions
    /\ Worker \cap Request = {}
    /\ Commenting \in BOOLEAN
    /\ Page \in Nat \ {0}
    /\ MaxEvents \in Nat /\ MaxComments \in Nat /\ MaxRequests \in Nat
    /\ None \notin Row \cup 0..MaxEvents

VARIABLES
    hist,      \* GitHub: the events, each with the state and head it reports
    inflight,  \* deliveries on their way
    jdata,     \* [JobId -> event of the job]
    real,      \* row with GitHub's id: [state, head], or None
    phantom,   \* row evaluateAndReport made up (githubPrId = prNumber): its head, or None
    comments,  \* GitHub: the comments on the pull request, in order
    gates,     \* heads pull_request_quality_gates has a record for
    at,        \* [Process -> Stage]
    ev,        \* [Process -> event of the worker's job]
    head,      \* [Process -> head it evaluates; 0 is the placeholder 'HEAD']
    found,     \* [Process -> position of the bot comment it found, or 0]
    asked,     \* evaluations on demand so far
    applied,   \* history: events written to the row
    newest,    \* history: the latest of them
    late,      \* history: an event was written after a later one
    collided,  \* history: events whose insert found the row inserted meanwhile
    dropped,   \* history: events whose job id was taken
    failed,    \* history: events lost, given up, or whose evaluation failed
    overlap    \* history: comments were listed while another evaluation was about to post

gateVars == <<comments, gates, found, overlap>>
rowVars == <<real, applied, newest, late, collided>>
runVars == <<at, ev, head>>
prVars == <<hist, inflight, jdata, phantom, asked, dropped, failed, gateVars, rowVars, runVars>>
vars == <<queueVars, prVars>>

Stage == {"idle", "apply", "insert", "look", "create", "list", "post", "persist", "finish"}

TypeOK ==
    /\ QueueTypeOK
    /\ hist \in Seq(Event) /\ Len(hist) <= MaxEvents
    /\ inflight \subseteq DOMAIN hist
    /\ jdata \in [JobId -> 0..MaxEvents]
    /\ real \in Row \cup {None}
    /\ phantom \in 0..MaxEvents \cup {None}
    /\ comments \in Seq({"bot", "human"}) /\ Len(comments) <= MaxComments
    /\ gates \subseteq 0..MaxEvents
    /\ at \in [Process -> Stage]
    /\ ev \in [Process -> 0..MaxEvents]
    /\ head \in [Process -> 0..MaxEvents]
    /\ found \in [Process -> 0..MaxComments]
    /\ asked \in 0..MaxRequests
    /\ applied \subseteq DOMAIN hist
    /\ newest \in 0..MaxEvents
    /\ late \in BOOLEAN
    /\ collided \subseteq DOMAIN hist
    /\ dropped \subseteq DOMAIN hist
    /\ failed \subseteq DOMAIN hist
    /\ overlap \in BOOLEAN

Init ==
    /\ QueueInit
    /\ hist = <<>>
    /\ inflight = {}
    /\ jdata = [j \in JobId |-> 0]
    /\ real = None
    /\ phantom = None
    /\ comments = <<>>
    /\ gates = {}
    /\ at = [p \in Process |-> "idle"]
    /\ ev = [p \in Process |-> 0]
    /\ head = [p \in Process |-> 0]
    /\ found = [p \in Process |-> 0]
    /\ asked = 0
    /\ applied = {}
    /\ newest = 0
    /\ late = FALSE
    /\ collided = {}
    /\ dropped = {}
    /\ failed = {}
    /\ overlap = FALSE

-----------------------------------------------------------------------------
\* GitHub.

Now == hist[Len(hist)]

\* What may happen next to the pull request.  A push to a closed one moves no head, and
\* a merged one is never reopened.
NextEvent ==
    IF hist = <<>> THEN {[action |-> "opened", state |-> "OPEN", head |-> 1]}
    ELSE {[action |-> "review_requested", state |-> Now.state, head |-> Now.head]}
         \cup (IF Now.state = "OPEN"
               THEN {[action |-> "synchronize", state |-> "OPEN", head |-> Now.head + 1]}
                    \cup {[action |-> "closed", state |-> s, head |-> Now.head] :
                              s \in {"CLOSED", "MERGED"}}
               ELSE {})
         \cup (IF Now.state = "CLOSED"
               THEN {[action |-> "reopened", state |-> "OPEN", head |-> Now.head]}
               ELSE {})

GitHubEvent ==
    /\ Len(hist) < MaxEvents
    /\ \E e \in NextEvent : hist' = Append(hist, e)
    /\ inflight' = inflight \cup {Len(hist) + 1}
    /\ UNCHANGED <<queueVars, jdata, phantom, asked, dropped, failed, gateVars, rowVars, runVars>>

\* The delivery never arrives, or its request fails and is not sent again.
Lose(i) ==
    /\ i \in inflight
    /\ inflight' = inflight \ {i}
    /\ failed' = failed \cup {i}
    /\ UNCHANGED <<queueVars, hist, jdata, phantom, asked, dropped, gateVars, rowVars, runVars>>

\* Somebody comments.
Comment ==
    /\ Len(comments) < MaxComments
    /\ comments' = Append(comments, "human")
    /\ UNCHANGED <<queueVars, hist, inflight, jdata, phantom, asked, dropped, failed, gates,
                   found, overlap, rowVars, runVars>>

-----------------------------------------------------------------------------
\* The handler and the queue.

\* Mutant: a later event replaces the data of the job that holds its id.
Handle_Replaces(i) ==
    LET a == hist[i].action IN
    /\ i \in inflight
    /\ inflight' = inflight \ {i}
    /\ AddJob(a)
    /\ jdata' = [jdata EXCEPT ![a] = i]
    /\ UNCHANGED <<hist, phantom, asked, dropped, failed, gateVars, rowVars, runVars>>

\* handle: parsePayload takes the snapshot, addPullRequestJob the id pr-<id>-<repository>-<action>.
Handle(i) ==
    LET a == hist[i].action IN
    /\ i \in inflight
    /\ inflight' = inflight \ {i}
    /\ AddJob(a)
    /\ jdata' = IF jstate[a] = "absent" THEN [jdata EXCEPT ![a] = i] ELSE jdata
    /\ dropped' = IF jstate[a] = "absent" THEN dropped ELSE dropped \cup {i}
    /\ UNCHANGED <<hist, phantom, asked, failed, gateVars, rowVars, runVars>>

\* A job that fails for good takes its event with it.
GivenUp(a) == IF jstate'[a] = "failed" THEN {jdata[a]} ELSE {}

Stall(a) ==
    /\ StallJob(a)
    /\ failed' = failed \cup GivenUp(a)
    /\ UNCHANGED <<hist, inflight, jdata, phantom, asked, dropped, gateVars, rowVars, runVars>>

Evict(a) == EvictJob(a) /\ UNCHANGED prVars

-----------------------------------------------------------------------------
\* The worker.

Take(w, a) ==
    /\ at[w] = "idle"
    /\ TakeJob(w, a)
    /\ at' = [at EXCEPT ![w] = "apply"]
    /\ ev' = [ev EXCEPT ![w] = jdata[a]]
    /\ head' = [head EXCEPT ![w] = hist[jdata[a]].head]
    /\ UNCHANGED <<hist, inflight, jdata, phantom, asked, dropped, failed, gateVars, rowVars>>

Rest(p) ==
    /\ at' = [at EXCEPT ![p] = "idle"]
    /\ ev' = [ev EXCEPT ![p] = 0]
    /\ head' = [head EXCEPT ![p] = 0]

Snapshot(i) == [state |-> hist[i].state, head |-> hist[i].head]

\* Mutant: closing a row that exists leaves merged pull requests CLOSED.
Written_ForgetsMerge(i) ==
    CASE hist[i].action = "opened" -> Snapshot(i)
      [] hist[i].action = "closed" ->
             IF real = None THEN Snapshot(i) ELSE [real EXCEPT !.state = "CLOSED"]
      [] hist[i].action = "reopened" -> [real EXCEPT !.state = "OPEN"]
      [] hist[i].action = "synchronize" -> [real EXCEPT !.head = hist[i].head]
      [] hist[i].action = "review_requested" -> IF real = None THEN Snapshot(i) ELSE real

\* Mutant: a review is only requested of an open pull request.
Written_ReviewOpens(i) ==
    CASE hist[i].action = "opened" -> Snapshot(i)
      [] hist[i].action = "closed" ->
             IF real = None THEN Snapshot(i) ELSE [real EXCEPT !.state = hist[i].state]
      [] hist[i].action = "reopened" -> [real EXCEPT !.state = "OPEN"]
      [] hist[i].action = "synchronize" -> [real EXCEPT !.head = hist[i].head]
      [] hist[i].action = "review_requested" ->
             IF real = None THEN Snapshot(i) ELSE [real EXCEPT !.state = "OPEN"]

\* What each action writes: handleOpened the whole snapshot, the others their columns.
Written(i) ==
    CASE hist[i].action = "opened" -> Snapshot(i)
      [] hist[i].action = "closed" ->
             IF real = None THEN Snapshot(i) ELSE [real EXCEPT !.state = hist[i].state]
      [] hist[i].action = "reopened" -> [real EXCEPT !.state = "OPEN"]
      [] hist[i].action = "synchronize" -> [real EXCEPT !.head = hist[i].head]
      [] hist[i].action = "review_requested" -> IF real = None THEN Snapshot(i) ELSE real

\* handleReopened and handleSynchronize update a row and throw when there is none.
NeedsRow(i) == hist[i].action \in {"reopened", "synchronize"}

\* The other handlers upsert: with no row there, one is about to be inserted.
Upsert(w) ==
    /\ at[w] = "apply"
    /\ real = None
    /\ ~NeedsRow(ev[w])
    /\ at' = [at EXCEPT ![w] = "insert"]
    /\ UNCHANGED <<queueVars, hist, inflight, jdata, phantom, asked, dropped, failed, gateVars,
                   rowVars, ev, head>>

Record(i) ==
    /\ real' = Written(i)
    /\ applied' = applied \cup {i}
    /\ newest' = IF i > newest THEN i ELSE newest
    /\ late' = (late \/ i < newest)

\* The statement of the handler.  Its answer may be lost after it committed.
Apply(w) ==
    LET i == ev[w]  a == hist[i].action IN
    /\ at[w] = "insert" \/ (at[w] = "apply" /\ real # None)
    /\ Record(i)
    /\ \/ /\ at' = [at EXCEPT ![w] = IF a \in Gated THEN "look" ELSE "finish"]
          /\ UNCHANGED <<queueVars, failed, ev, head>>
       \/ FailJob(w, a) /\ failed' = failed \cup GivenUp(a) /\ Rest(w)
    /\ UNCHANGED <<hist, inflight, jdata, phantom, asked, dropped, collided, gateVars>>

\* Another worker has inserted the row meanwhile and, where the database does not resolve
\* the conflict itself (Apply), the unique index refuses a second one.  That is taken for
\* idempotent success: the job completes, the event neither written nor evaluated.
Collide(w) ==
    /\ at[w] = "insert"
    /\ real # None
    /\ collided' = collided \cup {ev[w]}
    /\ at' = [at EXCEPT ![w] = "finish"]
    /\ UNCHANGED <<queueVars, hist, inflight, jdata, phantom, asked, dropped, failed, gateVars,
                   real, applied, newest, late, ev, head>>

\* No row to update, or the database is away: the attempt fails.
ApplyFails(w) ==
    LET a == hist[ev[w]].action IN
    /\ at[w] \in {"apply", "insert"}
    /\ FailJob(w, a)
    /\ failed' = failed \cup GivenUp(a)
    /\ Rest(w)
    /\ UNCHANGED <<hist, inflight, jdata, phantom, asked, dropped, gateVars, rowVars>>

Finish(w) ==
    /\ at[w] = "finish"
    /\ CompleteJob(w, hist[ev[w]].action)
    /\ Rest(w)
    /\ UNCHANGED <<hist, inflight, jdata, phantom, asked, dropped, failed, gateVars, rowVars>>

-----------------------------------------------------------------------------
\* evaluateAndReport, run by the worker and by requests.

\* evaluatePrQualityGate: the head is optional in the request.
AskEvaluation(r) ==
    /\ at[r] = "idle"
    /\ asked < MaxRequests
    /\ asked' = asked + 1
    /\ at' = [at EXCEPT ![r] = "look"]
    /\ \E h \in {0} \cup {hist[i].head : i \in DOMAIN hist} : head' = [head EXCEPT ![r] = h]
    /\ UNCHANGED <<queueVars, hist, inflight, jdata, phantom, dropped, failed, gateVars, rowVars, ev>>

\* Without credentials or with the comment switched off no comment is looked for.
Analysed == IF Commenting THEN "list" ELSE "persist"

\* Heads of the rows with this number; findFirst returns either.
RowHeads == (IF real = None THEN {} ELSE {real.head}) \cup ({phantom} \ {None})

FindRow(p) ==
    /\ at[p] = "look"
    /\ \/ /\ RowHeads = {}
          /\ at' = [at EXCEPT ![p] = "create"]
          /\ UNCHANGED head
       \/ \E h \in RowHeads :
              /\ at' = [at EXCEPT ![p] = Analysed]
              /\ head' = [head EXCEPT ![p] = IF @ = 0 THEN h ELSE @]
    /\ UNCHANGED <<queueVars, hist, inflight, jdata, phantom, asked, dropped, failed, gateVars,
                   rowVars, ev>>

\* No row: one is made up, under the number in place of GitHub's id.
CreatePhantom(p) ==
    /\ at[p] = "create"
    /\ phantom = None
    /\ phantom' = head[p]
    /\ at' = [at EXCEPT ![p] = Analysed]
    /\ UNCHANGED <<queueVars, hist, inflight, jdata, asked, dropped, failed, gateVars, rowVars,
                   ev, head>>

BotComments == {i \in DOMAIN comments : comments[i] = "bot"}

\* Mutant: the marker is looked for in the latest comment only.
FirstFound_Latest ==
    IF Len(comments) \in BotComments THEN Len(comments) ELSE 0

\* The first comment with the marker on the page, or 0.
FirstFound ==
    LET onPage == {i \in BotComments : i <= Page}
        first == {i \in onPage : \A k \in onPage : i <= k}
    IN  IF first = {} THEN 0 ELSE CHOOSE i \in first : TRUE

\* A listing that fails is logged, and there is no comment.
ListComments(p) ==
    /\ at[p] = "list"
    /\ \/ /\ found' = [found EXCEPT ![p] = FirstFound]
          /\ overlap' = (overlap \/ \E q \in Process \ {p} : at[q] = "post")
          /\ at' = [at EXCEPT ![p] = "post"]
       \/ at' = [at EXCEPT ![p] = "persist"] /\ UNCHANGED <<found, overlap>>
    /\ UNCHANGED <<queueVars, hist, inflight, jdata, phantom, asked, dropped, failed, comments,
                   gates, rowVars, ev, head>>

\* updateComment or createComment; a refused call is only logged.
PostComment(p) ==
    /\ at[p] = "post"
    /\ \/ /\ found[p] = 0
          /\ Len(comments) < MaxComments
          /\ comments' = Append(comments, "bot")
       \/ UNCHANGED comments
    /\ at' = [at EXCEPT ![p] = "persist"]
    /\ found' = [found EXCEPT ![p] = 0]
    /\ UNCHANGED <<queueVars, hist, inflight, jdata, phantom, asked, dropped, failed, gates,
                   overlap, rowVars, ev, head>>

Leave(p) ==
    IF p \in Worker
    THEN at' = [at EXCEPT ![p] = "finish"] /\ UNCHANGED <<ev, head>>
    ELSE Rest(p)

PersistGate(p) ==
    /\ at[p] = "persist"
    /\ gates' = gates \cup {head[p]}
    /\ Leave(p)
    /\ UNCHANGED <<queueVars, hist, inflight, jdata, phantom, asked, dropped, failed, comments,
                   found, overlap, rowVars>>

\* The event a process evaluates.
EvaluationOf(p) == IF p \in Worker THEN {ev[p]} ELSE {}

\* A statement or the analysis throws (so does a second made-up row).  The worker only
\* logs it and completes the job; a request answers with the error.
GateFails(p) ==
    /\ at[p] \in {"look", "create", "list", "persist"}
    /\ failed' = failed \cup EvaluationOf(p)
    /\ Leave(p)
    /\ UNCHANGED <<queueVars, hist, inflight, jdata, phantom, asked, dropped, gateVars, rowVars>>

\* The server dies; the lock of a worker's job expires later (Stall).
Die(p) ==
    /\ at[p] # "idle"
    /\ Rest(p)
    /\ found' = [found EXCEPT ![p] = 0]
    /\ UNCHANGED <<queueVars, hist, inflight, jdata, phantom, asked, dropped, failed, comments,
                   gates, overlap, rowVars>>

-----------------------------------------------------------------------------
Next ==
    \/ GitHubEvent
    \/ Comment
    \/ \E i \in inflight : Lose(i) \/ Handle(i)
    \/ \E a \in JobId : Stall(a) \/ Evict(a)
    \/ \E w \in Worker : \/ \E a \in JobId : Take(w, a)
                        \/ Upsert(w) \/ Apply(w) \/ Collide(w) \/ ApplyFails(w) \/ Finish(w)
    \/ \E r \in Request : AskEvaluation(r)
    \/ \E p \in Process : \/ FindRow(p) \/ CreatePhantom(p) \/ ListComments(p) \/ PostComment(p)
                         \/ PersistGate(p) \/ GateFails(p) \/ Die(p)

Spec == Init /\ [][Next]_vars

-----------------------------------------------------------------------------
\* Properties.

\* While no event was skipped and none written after a later one, the row is the pull
\* request as the newest written event shows it, whatever columns each action writes and
\* however often its statement ran (PullRequestWorker's handlers write different columns).
InOrderIsExact ==
    (newest > 0 /\ ~late /\ applied = 1..newest) => real = Snapshot(newest)

\* A merged row is only ever taken back by an event written after a later one: the upserts
\* write what the event carries and compare no updatedAt.
MergedUndoneOnlyLate ==
    [][(real # None /\ real'.state # real.state /\ real.state = "MERGED") => late']_vars

\* A job that is still to be run, or running, carries event i.
Pending(i) ==
    LET a == hist[i].action IN jdata[a] = i /\ jstate[a] \in {"waiting", "active"}

\* The head of an opened, synchronized or reopened pull request without a gate record is
\* still being worked on, or its delivery was lost, or its evaluation failed or its job was
\* given up, or the job id was taken (pull request and action, not the delivery), or its
\* insert collided with another worker's.
UnevaluatedHasCause ==
    \A i \in DOMAIN hist :
        hist[i].action \in Gated /\ hist[i].head \notin gates =>
            i \in inflight \cup dropped \cup failed \cup collided \/ Pending(i)

\* What the README says, "evaluates pull requests on open, synchronize, and reopen events",
\* of the events that arrived and of which no step failed.  (Violated: see the findings.)
GatedIsEvaluated ==
    \A i \in DOMAIN hist :
        hist[i].action \in Gated /\ i \notin inflight \cup failed \cup collided /\ ~Pending(i) =>
            hist[i].head \in gates

\* A second comment of the bot appears only after two evaluations overlapped, or when the
\* first one is beyond the page listComments returns.
SecondCommentHasCause ==
    Cardinality(BotComments) > 1 => overlap \/ \A i \in BotComments : i > Page

-----------------------------------------------------------------------------
\* The inductive invariant behind the properties (proved in PullRequestSync_proofs).

\* How one event follows another: each action changes what its handler writes, and no more.
Follows(b, e) ==
    /\ e.action # "opened"
    /\ e.action = "review_requested" => e.state = b.state /\ e.head = b.head
    /\ e.action = "synchronize" => e.state = "OPEN" /\ b.state = "OPEN"
    /\ e.action = "closed" => e.head = b.head
    /\ e.action = "reopened" => e.state = "OPEN" /\ e.head = b.head

Chronicle ==
    /\ \A i \in DOMAIN hist :
           /\ hist[i].head <= i
           /\ i = 1 => hist[i].action = "opened" /\ hist[i].state = "OPEN"
           /\ i > 1 => Follows(hist[i - 1], hist[i])
    /\ \A i, k \in DOMAIN hist : k <= i /\ hist[k].state = "MERGED" => hist[i].state = "MERGED"

\* A job carries an event of its action.
JobsCarryEvents ==
    \A a \in JobId : jstate[a] # "absent" =>
        jdata[a] \in DOMAIN hist /\ hist[jdata[a]].action = a

\* A worker at work has an event and its head; while it has the lock, it is the job's
\* event; it inserts no row for an event that needs one, and when it is done the event was
\* evaluated, or is known to have failed or collided.
Holding(w) ==
    LET i == ev[w]  a == hist[i].action IN
    /\ i \in DOMAIN hist
    /\ head[w] = hist[i].head
    /\ jowner[a] = w => jdata[a] = i
    /\ at[w] = "insert" => ~NeedsRow(i)
    /\ at[w] = "finish" /\ a \in Gated => hist[i].head \in gates \/ i \in failed \cup collided

WorkersHoldEvents == \A w \in Worker : at[w] # "idle" => Holding(w)

\* What the history variables say of the row.
RowHistory ==
    /\ newest \in {0} \cup applied
    /\ \A i \in applied : i <= newest
    /\ newest = 0 => real = None
    /\ (real # None /\ real.state = "MERGED") =>
           \E k \in DOMAIN hist : k <= newest /\ hist[k].state = "MERGED"

\* Without overlap one process at a time is about to post, a new comment is only about to
\* be posted when the page has none, and the page has one at most.
PostersAlone ==
    ~overlap =>
        /\ \A p, q \in Process : at[p] = "post" /\ at[q] = "post" => p = q
        /\ \A p \in Process : at[p] = "post" /\ found[p] = 0 => \A i \in BotComments : i > Page
        /\ \A i, k \in BotComments : i <= Page => k = i

IInv ==
    /\ TypeOK
    /\ JobsLive
    /\ Chronicle
    /\ JobsCarryEvents
    /\ WorkersHoldEvents
    /\ RowHistory
    /\ InOrderIsExact
    /\ UnevaluatedHasCause
    /\ PostersAlone
=============================================================================
