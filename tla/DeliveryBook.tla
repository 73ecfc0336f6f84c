---------------------------- MODULE DeliveryBook ----------------------------
(***************************************************************************)
(* What the webhook endpoint promises about every delivery, however many   *)
(* requests carry it and whatever fails: it is handled by one execution at *)
(* a time and never while it is on record; only its handler queues its     *)
(* jobs and settles its log row, and an outcome changes only before the    *)
(* handler ends; it is put on record when all its jobs are queued and not  *)
(* before.                                                                 *)
(***************************************************************************)
CONSTANTS Delivery, RetryId, Job, None

VARIABLES
    work,     \* [Delivery -> the jobs its payload asks for]
    running,  \* the deliveries being handled
    row,      \* [Delivery -> status of its log row, or None]
    onRecord, \* the deliveries on record as processed
    queued    \* the jobs handed to the queue

book == <<work, running, row, onRecord, queued>>

Fresh(d) == d \notin running /\ row[d] = None /\ d \notin onRecord

\* An unused retry id gets the payload of a delivery that has a row.
Mint(x, d) ==
    /\ Fresh(x)
    /\ row[d] # None
    /\ work' = [work EXCEPT ![x] = work[d]]
    /\ UNCHANGED <<running, row, onRecord, queued>>

\* A row begins the handling of a delivery, or stands for one that never starts.
Begin(d) ==
    /\ Fresh(d)
    /\ running' \in {running \cup {d}, running}
    /\ row' = [row EXCEPT ![d] = "PENDING"]
    /\ UNCHANGED <<work, onRecord, queued>>

Queue(d, j) ==
    /\ d \in running /\ d \notin onRecord
    /\ j \in work[d]
    /\ queued' = queued \cup {j}
    /\ UNCHANGED <<work, running, row, onRecord>>

\* By its handler; a delivery that asks for nothing is put on record without one.
Record(d) ==
    /\ d \notin onRecord
    /\ d \in running \/ work[d] = {}
    /\ work[d] \subseteq queued
    /\ onRecord' = onRecord \cup {d}
    /\ UNCHANGED <<work, running, row, queued>>

\* The handling ends with the outcome, unless the handler does not learn that it is noted.
Succeed(d) ==
    /\ d \in running /\ d \in onRecord /\ row[d] = "PENDING"
    /\ running' \in {running \ {d}, running}
    /\ row' = [row EXCEPT ![d] = "SUCCESS"]
    /\ UNCHANGED <<work, onRecord, queued>>

\* The handling ends otherwise; its row may be left PENDING for good.
GiveUp(d) ==
    /\ d \in running
    /\ running' = running \ {d}
    /\ \/ row[d] # None /\ row' = [row EXCEPT ![d] = "FAILED"]
       \/ UNCHANGED row
    /\ UNCHANGED <<work, onRecord, queued>>

\* Retention takes nothing from a delivery being handled.
DropRows(D) ==
    /\ D \cap running = {}
    /\ row' = [d \in Delivery |-> IF d \in D THEN None ELSE row[d]]
    /\ UNCHANGED <<work, running, onRecord, queued>>

DropRecords(D) ==
    /\ D \cap running = {}
    /\ onRecord' = onRecord \ D
    /\ UNCHANGED <<work, running, row, queued>>

\* The repository goes, and every row with it.
LoseRows ==
    /\ row' = [d \in Delivery |-> None]
    /\ UNCHANGED <<work, running, onRecord, queued>>

Init ==
    /\ work \in [Delivery -> SUBSET Job]
    /\ running = {} /\ onRecord = {} /\ queued = {}
    /\ row = [d \in Delivery |-> None]

Next ==
    \/ \E x \in RetryId, d \in Delivery : Mint(x, d)
    \/ \E d \in Delivery :
          Begin(d) \/ Record(d) \/ Succeed(d) \/ GiveUp(d) \/ \E j \in Job : Queue(d, j)
    \/ \E D \in SUBSET Delivery : DropRows(D) \/ DropRecords(D)
    \/ LoseRows

Spec == Init /\ [][Next]_book
=============================================================================
