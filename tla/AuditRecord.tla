---------------------------- MODULE AuditRecord ----------------------------
(***************************************************************************)
(* What the audit trail promises a reader of the log: a row once written   *)
(* stays, under the user who acted, until a right-to-be-forgotten request  *)
(* for that user shows it under the anonymous identifier instead.  Where   *)
(* the row is kept (the active table or the archive) is not visible.  It   *)
(* speaks of rows: that an entry has one row is not promised, for a write  *)
(* that is retried after a lost answer adds a second row of its entry.     *)
(***************************************************************************)
CONSTANTS Row, User, NoRow, Anonymous

VARIABLE record  \* [Row -> the user the row is shown under, or NoRow]

Init == record = [r \in Row |-> NoRow]

\* A row is written.
Append(r, u) ==
    /\ record[r] = NoRow
    /\ record' = [record EXCEPT ![r] = u]

\* Rows of one user are made anonymous.
Redact(u, S) ==
    /\ \A r \in S : record[r] = u
    /\ record' = [r \in Row |-> IF r \in S THEN Anonymous ELSE record[r]]

Next == \E u \in User :
    \/ \E r \in Row : Append(r, u)
    \/ \E S \in SUBSET Row : Redact(u, S)

Spec == Init /\ [][Next]_record
=============================================================================
