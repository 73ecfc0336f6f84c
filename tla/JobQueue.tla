------------------------------ MODULE JobQueue ------------------------------
(***************************************************************************)
(* A BullMQ queue as SQDIS configures and uses it.  A job has an id chosen *)
(* by the producer; adding an id the queue still holds, in any state, does *)
(* nothing.  A worker that takes a job holds its lock; a worker that stops *)
(* renewing the lock (it died, or its event loop was blocked) loses the    *)
(* job to the stalled-job check, and may go on running it without knowing. *)
(* A failed attempt is retried until `attempts` are used up; finished jobs *)
(* stay in the queue until removeOnComplete or removeOnFail evicts them.   *)
(*                                                                         *)
(* The module gives the queue's variables and its operations as actions on *)
(* them; the modules of the producers and workers EXTEND it.               *)
(***************************************************************************)
EXTENDS Naturals, FiniteSets

CONSTANTS
    JobId,       \* job ids
    Worker,      \* worker slots of the queue
    NoWorker,    \* nobody holds the lock
    MaxAttempts, \* defaultJobOptions.attempts
    MaxStalled   \* how often a job may stall before it fails (BullMQ's default is 1)

ASSUME QueueAssumption ==
    /\ NoWorker \notin Worker
    /\ MaxAttempts \in Nat \ {0}
    /\ MaxStalled \in Nat

VARIABLES
    jstate,  \* [JobId -> JobState]
    jowner,  \* [JobId -> the worker holding the lock]
    jtries,  \* [JobId -> attempts made]
    jstalls  \* [JobId -> times stalled]

queueVars == <<jstate, jowner, jtries, jstalls>>

JobState == {"absent", "waiting", "active", "completed", "failed"}

QueueTypeOK ==
    /\ jstate \in [JobId -> JobState]
    /\ jowner \in [JobId -> Worker \cup {NoWorker}]
    /\ jtries \in [JobId -> 0..MaxAttempts]
    /\ jstalls \in [JobId -> 0..MaxStalled]

QueueInit ==
    /\ jstate = [j \in JobId |-> "absent"]
    /\ jowner = [j \in JobId |-> NoWorker]
    /\ jtries = [j \in JobId |-> 0]
    /\ jstalls = [j \in JobId |-> 0]

\* queue.add(name, data, { jobId }).
AddJob(j) ==
    \/ /\ jstate[j] = "absent"
       /\ jstate' = [jstate EXCEPT ![j] = "waiting"]
       /\ jtries' = [jtries EXCEPT ![j] = 0]
       /\ jstalls' = [jstalls EXCEPT ![j] = 0]
       /\ UNCHANGED jowner
    \/ /\ jstate[j] # "absent"
       /\ UNCHANGED queueVars

\* A worker takes a waiting job and locks it.
TakeJob(w, j) ==
    /\ jstate[j] = "waiting"
    /\ jstate' = [jstate EXCEPT ![j] = "active"]
    /\ jowner' = [jowner EXCEPT ![j] = w]
    /\ UNCHANGED <<jtries, jstalls>>

\* The processor function returned.  Without the lock the result is discarded.
CompleteJob(w, j) ==
    \/ /\ jowner[j] = w
       /\ jstate' = [jstate EXCEPT ![j] = "completed"]
       /\ jowner' = [jowner EXCEPT ![j] = NoWorker]
       /\ UNCHANGED <<jtries, jstalls>>
    \/ /\ jowner[j] # w
       /\ UNCHANGED queueVars

\* Mutant: one attempt too many.
FailJob_OffByOne(w, j) ==
    \/ /\ jowner[j] = w
       /\ jtries' = [jtries EXCEPT ![j] = @ + 1]
       /\ jstate' = [jstate EXCEPT ![j] =
                        IF jtries[j] < MaxAttempts THEN "waiting" ELSE "failed"]
       /\ jowner' = [jowner EXCEPT ![j] = NoWorker]
       /\ UNCHANGED jstalls
    \/ /\ jowner[j] # w
       /\ UNCHANGED queueVars

\* The processor function threw: back to waiting (after the back-off), or failed for
\* good when that was the last attempt.
FailJob(w, j) ==
    \/ /\ jowner[j] = w
       /\ jtries' = [jtries EXCEPT ![j] = @ + 1]
       /\ jstate' = [jstate EXCEPT ![j] =
                        IF jtries[j] + 1 < MaxAttempts THEN "waiting" ELSE "failed"]
       /\ jowner' = [jowner EXCEPT ![j] = NoWorker]
       /\ UNCHANGED jstalls
    \/ /\ jowner[j] # w
       /\ UNCHANGED queueVars

\* The stalled-job check finds an active job whose lock has expired.
StallJob(j) ==
    /\ jstate[j] = "active"
    /\ jowner' = [jowner EXCEPT ![j] = NoWorker]
    /\ \/ /\ jstalls[j] < MaxStalled
          /\ jstate' = [jstate EXCEPT ![j] = "waiting"]
          /\ jstalls' = [jstalls EXCEPT ![j] = @ + 1]
       \/ /\ jstalls[j] = MaxStalled
          /\ jstate' = [jstate EXCEPT ![j] = "failed"]
          /\ UNCHANGED jstalls
    /\ UNCHANGED jtries

\* removeOnComplete / removeOnFail.
EvictJob(j) ==
    /\ jstate[j] \in {"completed", "failed"}
    /\ jstate' = [jstate EXCEPT ![j] = "absent"]
    /\ UNCHANGED <<jowner, jtries, jstalls>>

\* Only an active job is locked, and a job still to be run has an attempt left.
JobsLive ==
    \A j \in JobId :
        /\ jowner[j] # NoWorker => jstate[j] = "active"
        /\ jstate[j] \in {"waiting", "active"} => jtries[j] < MaxAttempts
=============================================================================
