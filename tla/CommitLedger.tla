---------------------------- MODULE CommitLedger ----------------------------
(***************************************************************************)
(* What the ingestion of commits promises, whatever path a commit takes    *)
(* (webhook, polling, backfill, a retried or stalled job): a commit that   *)
(* was pushed is stored at most once, and each thing that follows from     *)
(* storing it (alert, debt scan, score recalculation, milestones, the      *)
(* commit.processed event) is done at most once, and only when it is       *)
(* stored.  It may never be done: a ledger makes no promise to get to it.  *)
(***************************************************************************)
EXTENDS Naturals

CONSTANTS Commit, FollowUp

VARIABLES
    pushed,    \* commits GitHub has
    stored,    \* rows of the commits table
    followUps  \* [Commit -> [FollowUp -> how often it was run]]

ledger == <<pushed, stored, followUps>>

Init ==
    /\ pushed = {}
    /\ stored = {}
    /\ followUps = [c \in Commit |-> [k \in FollowUp |-> 0]]

Push(c) ==
    /\ c \notin pushed
    /\ pushed' = pushed \cup {c}
    /\ UNCHANGED <<stored, followUps>>

Store(c) ==
    /\ c \in pushed \ stored
    /\ stored' = stored \cup {c}
    /\ UNCHANGED <<pushed, followUps>>

Run(c, k) ==
    /\ c \in stored
    /\ followUps[c][k] = 0
    /\ followUps' = [followUps EXCEPT ![c][k] = 1]
    /\ UNCHANGED <<pushed, stored>>

Next ==
    \/ \E c \in Commit : Push(c) \/ Store(c)
    \/ \E c \in Commit, k \in FollowUp : Run(c, k)

Spec == Init /\ [][Next]_ledger
=============================================================================
