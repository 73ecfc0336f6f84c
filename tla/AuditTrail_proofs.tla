-------------------------- MODULE AuditTrail_proofs --------------------------
(***************************************************************************)
(* AuditTrail for any number of operations, archival runs, erasures, rows  *)
(* and workers: a row is kept once, what is forgotten stays forgotten, the *)
(* chain of hashes has no cycle, and the two tables together implement     *)
(* AuditRecord.  One lemma per action shows that it preserves IInv.        *)
(***************************************************************************)
EXTENDS AuditTrail, TLAPS

\* Nothing is logged at the start.
LEMMA InitEstablishes == Init => IInv
<1> SUFFICES ASSUME Init PROVE IInv
  OBVIOUS
<1> USE QueueAssumption, AuditAssumption DEF Init, QueueInit
<1>1. TypeOK
  <2>1. QueueTypeOK
    BY DEF QueueTypeOK, JobState
  <2>2. /\ phase \in [Entry -> Phase] /\ asked \in Seq(Entry)
        /\ link \in [Entry -> Entry \cup {None}]
    BY DEF Phase
  <2>3. /\ wjob \in [Worker -> Entry \cup {None}] /\ wdone \in [Worker -> BOOLEAN]
        /\ picked \in [Archival -> SUBSET Row] /\ copies \in [Archival -> SUBSET RowRecord]
        /\ seen \in [Erasure -> SUBSET Row]
    OBVIOUS
  <2>4. QED
    BY <2>1, <2>2, <2>3 DEF TypeOK
<1>2. JobsLive /\ RowKeptOnce /\ CopiesCurrent
  BY DEF JobsLive, RowKeptOnce, CopiesCurrent, Ids
<1>3. ErasureHalfWay /\ ForgottenStaysForgotten
  BY DEF ErasureHalfWay, ForgottenStaysForgotten
<1>4. QED
  BY <1>1, <1>2, <1>3 DEF IInv

\* An operation of the queue keeps its types, and keeps waiting jobs alive.
LEMMA QueueSteps ==
    ASSUME QueueTypeOK, JobsLive, NEW j \in JobId,
           \/ AddJob(j) \/ StallJob(j)
           \/ \E w \in Worker : TakeJob(w, j) \/ CompleteJob(w, j) \/ FailJob(w, j)
    PROVE  QueueTypeOK' /\ JobsLive'
<1> USE QueueAssumption DEF QueueTypeOK
<1>1. CASE AddJob(j)
  BY <1>1 DEF AddJob, JobsLive, JobState, queueVars
<1>2. CASE \E w \in Worker : TakeJob(w, j)
  BY <1>2 DEF TakeJob, JobsLive, JobState
<1>3. CASE \E w \in Worker : CompleteJob(w, j)
  BY <1>3 DEF CompleteJob, JobsLive, JobState, queueVars
<1>4. CASE \E w \in Worker : FailJob(w, j)
  BY <1>4 DEF FailJob, JobsLive, JobState, queueVars
<1>5. CASE StallJob(j)
  BY <1>5 DEF StallJob, JobsLive, JobState
<1>6. QED
  BY <1>1, <1>2, <1>3, <1>4, <1>5

\* So does a step that leaves it alone.
LEMMA QueueIdle ==
    ASSUME QueueTypeOK, JobsLive, UNCHANGED queueVars
    PROVE  QueueTypeOK' /\ JobsLive'
BY DEF QueueTypeOK, JobsLive, queueVars

\* No run fetches, and no request is answered or comes half-way, in this step.
PhasesAgree ==
    /\ \A a \in Archival : phase'[a] = "fetched" <=> phase[a] = "fetched"
    /\ \A q \in Erasure : phase'[q] = "half" => phase[q] = "half"
    /\ \A q \in Erasure : Forgotten(q)' => Forgotten(q)

\* A step that leaves the rows and the copies alone preserves what is said of them.
LEMMA RowsUntouched ==
    ASSUME IInv, TypeOK', JobsLive', PhasesAgree,
           UNCHANGED <<active, archive, picked, copies, seen>>
    PROVE  IInv'
<1> USE DEF IInv
<1>1. RowKeptOnce'
  BY DEF RowKeptOnce, Ids
<1>2. CopiesCurrent'
  BY DEF CopiesCurrent, Ids, PhasesAgree
<1>3. ErasureHalfWay'
  BY DEF ErasureHalfWay, Ids, PhasesAgree
<1>4. ForgottenStaysForgotten'
  BY DEF ForgottenStaysForgotten, PhasesAgree
<1>5. QED
  BY <1>1, <1>2, <1>3, <1>4

\* A kept row is the row its id stands for, and unused ids stand for none.
LEMMA KeptUnique ==
    ASSUME RowKeptOnce
    PROVE  /\ \A x, y \in active \cup archive : x.id = y.id => x = y
           /\ \A r \in Unused : \A x \in active \cup archive : x.id # r
BY DEF RowKeptOnce, Ids, Unused


\* An operation is stamped.
LEMMA LogActionPreserves ==
    ASSUME IInv, NEW e \in Entry, LogAction(e)
    PROVE  IInv'
<1> USE QueueAssumption, AuditAssumption DEF IInv
<1>1. QueueTypeOK' /\ JobsLive'
  BY QueueSteps, QueueIdle
     DEF LogAction, Ask, TypeOK
<1>2. UNCHANGED <<active, archive, picked, copies, seen>>
  BY DEF LogAction, Ask
<1>3. /\ phase' \in [Entry -> Phase] /\ asked' \in Seq(Entry)
      /\ link' \in [Entry -> Entry \cup {None}]
  BY DEF LogAction, Ask, TypeOK, Phase
<1>4. wjob' \in [Worker -> Entry \cup {None}] /\ wdone' \in [Worker -> BOOLEAN]
  BY DEF LogAction, Ask, TypeOK
<1>5. TypeOK'
  BY <1>1, <1>2, <1>3, <1>4 DEF TypeOK
<1>6. PhasesAgree
  BY DEF LogAction, Ask, TypeOK, PhasesAgree, Forgotten
<1>7. QED
  BY <1>1, <1>2, <1>5, <1>6, RowsUntouched

\* The entry is linked to an entry or to none.
LEMMA GetLastEntryHashPreserves ==
    ASSUME IInv, NEW e \in Entry, GetLastEntryHash(e)
    PROVE  IInv'
<1> USE QueueAssumption, AuditAssumption DEF IInv
<1>1. QueueTypeOK' /\ JobsLive'
  BY QueueSteps, QueueIdle
     DEF GetLastEntryHash, LastEntry, TypeOK
<1>2. UNCHANGED <<active, archive, picked, copies, seen>>
  BY DEF GetLastEntryHash, LastEntry
<1>3. /\ phase' \in [Entry -> Phase] /\ asked' \in Seq(Entry)
      /\ link' \in [Entry -> Entry \cup {None}]
  <2>1. LastEntry \in Entry \cup {None}
    BY DEF LastEntry, TypeOK
  <2>2. QED
    BY <2>1 DEF GetLastEntryHash, TypeOK, Phase
<1>4. wjob' \in [Worker -> Entry \cup {None}] /\ wdone' \in [Worker -> BOOLEAN]
  BY DEF GetLastEntryHash, LastEntry, TypeOK
<1>5. TypeOK'
  BY <1>1, <1>2, <1>3, <1>4 DEF TypeOK
<1>6. PhasesAgree
  BY DEF GetLastEntryHash, LastEntry, TypeOK, PhasesAgree, Forgotten
<1>7. QED
  BY <1>1, <1>2, <1>5, <1>6, RowsUntouched

\* A new job has all its attempts.
LEMMA QueueAuditEntryPreserves ==
    ASSUME IInv, NEW e \in Entry, QueueAuditEntry(e)
    PROVE  IInv'
<1> USE QueueAssumption, AuditAssumption DEF IInv
<1>1. QueueTypeOK' /\ JobsLive'
  BY QueueSteps, QueueIdle
     DEF QueueAuditEntry, TypeOK
<1>2. UNCHANGED <<active, archive, picked, copies, seen>>
  BY DEF QueueAuditEntry
<1>3. /\ phase' \in [Entry -> Phase] /\ asked' \in Seq(Entry)
      /\ link' \in [Entry -> Entry \cup {None}]
  BY DEF QueueAuditEntry, TypeOK, Phase
<1>4. wjob' \in [Worker -> Entry \cup {None}] /\ wdone' \in [Worker -> BOOLEAN]
  BY DEF QueueAuditEntry, TypeOK
<1>5. TypeOK'
  BY <1>1, <1>2, <1>3, <1>4 DEF TypeOK
<1>6. PhasesAgree
  <2>1. phase[e] = "linked" /\ \E f \in {"queued", "lost"} : phase' = [phase EXCEPT ![e] = f]
    BY DEF QueueAuditEntry
  <2>2. QED
    BY <2>1 DEF TypeOK, PhasesAgree, Forgotten
<1>7. QED
  BY <1>1, <1>2, <1>5, <1>6, RowsUntouched

\* A stalled job is waiting again or has failed, and is not locked.
LEMMA StallPreserves ==
    ASSUME IInv, NEW e \in Entry, Stall(e)
    PROVE  IInv'
<1> USE QueueAssumption, AuditAssumption DEF IInv
<1>1. QueueTypeOK' /\ JobsLive'
  BY QueueSteps, QueueIdle
     DEF Stall, trailVars, TypeOK
<1>2. UNCHANGED <<active, archive, picked, copies, seen>>
  BY DEF Stall, trailVars
<1>3. /\ phase' \in [Entry -> Phase] /\ asked' \in Seq(Entry)
      /\ link' \in [Entry -> Entry \cup {None}]
  BY DEF Stall, trailVars, TypeOK, Phase
<1>4. wjob' \in [Worker -> Entry \cup {None}] /\ wdone' \in [Worker -> BOOLEAN]
  BY DEF Stall, trailVars, TypeOK
<1>5. TypeOK'
  BY <1>1, <1>2, <1>3, <1>4 DEF TypeOK
<1>6. PhasesAgree
  BY DEF Stall, trailVars, TypeOK, PhasesAgree, Forgotten
<1>7. QED
  BY <1>1, <1>2, <1>5, <1>6, RowsUntouched

\* A waiting job has an attempt left.
LEMMA WritePreserves ==
    ASSUME IInv, NEW e \in Entry, NEW w \in Worker, Write(w, e)
    PROVE  IInv'
<1> USE QueueAssumption, AuditAssumption DEF IInv
<1>1. QueueTypeOK' /\ JobsLive'
  BY QueueSteps, QueueIdle
     DEF Write, TypeOK
<1>2. UNCHANGED <<active, archive, picked, copies, seen>>
  BY DEF Write
<1>3. /\ phase' \in [Entry -> Phase] /\ asked' \in Seq(Entry)
      /\ link' \in [Entry -> Entry \cup {None}]
  BY DEF Write, TypeOK, Phase
<1>4. wjob' \in [Worker -> Entry \cup {None}] /\ wdone' \in [Worker -> BOOLEAN]
  BY DEF Write, TypeOK
<1>5. TypeOK'
  BY <1>1, <1>2, <1>3, <1>4 DEF TypeOK
<1>6. PhasesAgree
  BY DEF Write, TypeOK, PhasesAgree, Forgotten
<1>7. QED
  BY <1>1, <1>2, <1>5, <1>6, RowsUntouched

\* A failed attempt leaves the tables alone.
LEMMA InsertFailsPreserves ==
    ASSUME IInv, NEW w \in Worker, InsertFails(w)
    PROVE  IInv'
<1> USE QueueAssumption, AuditAssumption DEF IInv
<1>1. QueueTypeOK' /\ JobsLive'
  BY QueueSteps, QueueIdle
     DEF InsertFails, Leave, TypeOK
<1>2. UNCHANGED <<active, archive, picked, copies, seen>>
  BY DEF InsertFails, Leave
<1>3. /\ phase' \in [Entry -> Phase] /\ asked' \in Seq(Entry)
      /\ link' \in [Entry -> Entry \cup {None}]
  BY DEF InsertFails, Leave, TypeOK, Phase
<1>4. wjob' \in [Worker -> Entry \cup {None}] /\ wdone' \in [Worker -> BOOLEAN]
  BY DEF InsertFails, Leave, TypeOK
<1>5. TypeOK'
  BY <1>1, <1>2, <1>3, <1>4 DEF TypeOK
<1>6. PhasesAgree
  BY DEF InsertFails, Leave, TypeOK, PhasesAgree, Forgotten
<1>7. QED
  BY <1>1, <1>2, <1>5, <1>6, RowsUntouched

\* The row is written already.
LEMMA FinishWritePreserves ==
    ASSUME IInv, NEW w \in Worker, FinishWrite(w)
    PROVE  IInv'
<1> USE QueueAssumption, AuditAssumption DEF IInv
<1>1. QueueTypeOK' /\ JobsLive'
  BY QueueSteps, QueueIdle
     DEF FinishWrite, Leave, TypeOK
<1>2. UNCHANGED <<active, archive, picked, copies, seen>>
  BY DEF FinishWrite, Leave
<1>3. /\ phase' \in [Entry -> Phase] /\ asked' \in Seq(Entry)
      /\ link' \in [Entry -> Entry \cup {None}]
  BY DEF FinishWrite, Leave, TypeOK, Phase
<1>4. wjob' \in [Worker -> Entry \cup {None}] /\ wdone' \in [Worker -> BOOLEAN]
  BY DEF FinishWrite, Leave, TypeOK
<1>5. TypeOK'
  BY <1>1, <1>2, <1>3, <1>4 DEF TypeOK
<1>6. PhasesAgree
  BY DEF FinishWrite, Leave, TypeOK, PhasesAgree, Forgotten
<1>7. QED
  BY <1>1, <1>2, <1>5, <1>6, RowsUntouched

\* Only the run is forgotten.
LEMMA DropRunPreserves ==
    ASSUME IInv, NEW w \in Worker, DropRun(w)
    PROVE  IInv'
<1> USE QueueAssumption, AuditAssumption DEF IInv
<1>1. QueueTypeOK' /\ JobsLive'
  BY QueueSteps, QueueIdle
     DEF DropRun, Leave, TypeOK
<1>2. UNCHANGED <<active, archive, picked, copies, seen>>
  BY DEF DropRun, Leave
<1>3. /\ phase' \in [Entry -> Phase] /\ asked' \in Seq(Entry)
      /\ link' \in [Entry -> Entry \cup {None}]
  BY DEF DropRun, Leave, TypeOK, Phase
<1>4. wjob' \in [Worker -> Entry \cup {None}] /\ wdone' \in [Worker -> BOOLEAN]
  BY DEF DropRun, Leave, TypeOK
<1>5. TypeOK'
  BY <1>1, <1>2, <1>3, <1>4 DEF TypeOK
<1>6. PhasesAgree
  BY DEF DropRun, Leave, TypeOK, PhasesAgree, Forgotten
<1>7. QED
  BY <1>1, <1>2, <1>5, <1>6, RowsUntouched

\* The new row has an id that no row, copy or request knows.
LEMMA InsertRowPreserves ==
    ASSUME IInv, NEW w \in Worker, InsertRow(w)
    PROVE  IInv'
<1> USE QueueAssumption, AuditAssumption DEF IInv
<1> DEFINE e == wjob[w]
<1>1. e \in Entry /\ AuthorOf(e) \in User
  BY DEF InsertRow, TypeOK
<1>2. PICK r \in Unused : active' = active \cup {NewRow(e, r)}
  BY DEF InsertRow
<1>3. UNCHANGED <<phase, asked, link, archive, picked, copies, seen>>
  BY DEF InsertRow
<1>4. QueueTypeOK' /\ JobsLive'
  BY <1>1, QueueSteps, QueueIdle DEF InsertRow, TypeOK, queueVars
<1>5. NewRow(e, r) \in RowRecord /\ NewRow(e, r).id = r
  BY <1>1, <1>2 DEF NewRow, RowRecord, Unused, TypeOK
<1>6. wjob' \in [Worker -> Entry \cup {None}] /\ wdone' \in [Worker -> BOOLEAN]
  BY DEF InsertRow, Leave, TypeOK
<1>7. TypeOK'
  BY <1>2, <1>3, <1>4, <1>5, <1>6 DEF TypeOK
<1>8. r \notin Ids(active \cup archive) /\ Ids(active) \subseteq Ids(active)'
  BY <1>2 DEF Unused, Ids
<1>9. RowKeptOnce'
  BY <1>2, <1>3, <1>5, <1>8 DEF RowKeptOnce, Ids
<1>10. CopiesCurrent'
  BY <1>2, <1>3, <1>5, <1>8 DEF CopiesCurrent, Ids
<1>11. ErasureHalfWay'
  BY <1>2, <1>3, <1>5, <1>8 DEF ErasureHalfWay, Ids
<1>12. ForgottenStaysForgotten'
  BY <1>2, <1>3, <1>5, <1>8 DEF ForgottenStaysForgotten, ErasureHalfWay, Forgotten
<1>13. QED
  BY <1>4, <1>7, <1>9, <1>10, <1>11, <1>12

\* Only active rows are picked; nothing was copied before.
LEMMA IdentifyLogsPreserves ==
    ASSUME IInv, NEW a \in Archival, IdentifyLogs(a)
    PROVE  IInv'
<1> USE QueueAssumption, AuditAssumption DEF IInv
<1>1. PICK ids \in SUBSET Ids(active) :
          /\ picked' = [picked EXCEPT ![a] = ids]
          /\ phase' = [phase EXCEPT ![a] = IF ids = {} THEN "stopped" ELSE "picked"]
  <2>1. PICK D \in SUBSET {x.entry : x \in active} :
            LET ids == Ids({x \in active : x.entry \in D}) IN
            /\ picked' = [picked EXCEPT ![a] = ids]
            /\ phase' = [phase EXCEPT ![a] = IF ids = {} THEN "stopped" ELSE "picked"]
    BY DEF IdentifyLogs
  <2>2. Ids({x \in active : x.entry \in D}) \subseteq Ids(active)
    BY DEF Ids
  <2>3. QED
    BY <2>1, <2>2
<1>2. UNCHANGED <<queueVars, asked, link, active, archive, copies, wjob, wdone, seen>>
  BY DEF IdentifyLogs
<1>3. TypeOK' /\ JobsLive'
  BY <1>1, <1>2
     DEF TypeOK, QueueTypeOK, queueVars, JobsLive, Phase, Entry, Ids, RowRecord
<1>4. CopiesCurrent'
  <2>1. copies[a] = {}
    BY DEF IdentifyLogs, CopiesCurrent
  <2>2. QED
    BY <1>1, <1>2, <2>1 DEF CopiesCurrent, TypeOK, Ids, Entry
<1>5. RowKeptOnce' /\ ErasureHalfWay' /\ ForgottenStaysForgotten'
  BY <1>1, <1>2
     DEF RowKeptOnce, ErasureHalfWay, ForgottenStaysForgotten, Forgotten, TypeOK, Ids, Entry
<1>6. QED
  BY <1>3, <1>4, <1>5

\* The run has copied every active row it picked.
LEMMA FetchLogsPreserves ==
    ASSUME IInv, NEW a \in Archival, FetchLogs(a)
    PROVE  IInv'
<1> USE QueueAssumption, AuditAssumption DEF IInv
<1> DEFINE found == {x \in active : x.id \in picked[a]}
<1>1. /\ copies' = [copies EXCEPT ![a] = found]
      /\ phase' = [phase EXCEPT ![a] = IF found = {} THEN "stopped" ELSE "fetched"]
  BY DEF FetchLogs
<1>2. UNCHANGED <<queueVars, asked, link, active, archive, picked, wjob, wdone, seen>>
  BY DEF FetchLogs
<1>3. TypeOK' /\ JobsLive'
  <2>1. phase' \in [Entry -> Phase] /\ copies' \in [Archival -> SUBSET RowRecord]
    BY <1>1 DEF TypeOK, Phase, Entry
  <2>2. QED
    BY <1>2, <2>1 DEF TypeOK, QueueTypeOK, queueVars, JobsLive
<1>4. CopiesCurrent'
  <2>1. copies'[a] = found /\ (phase'[a] = "fetched" \/ copies'[a] = {})
    BY <1>1 DEF TypeOK, Entry
  <2>2. \A b \in Archival \ {a} : copies'[b] = copies[b] /\ phase'[b] = phase[b]
    BY <1>1 DEF TypeOK, Entry
  <2>3. QED
    BY <1>2, <2>1, <2>2 DEF CopiesCurrent, Ids
<1>5. RowKeptOnce' /\ ErasureHalfWay' /\ ForgottenStaysForgotten'
  BY <1>1, <1>2
     DEF RowKeptOnce, ErasureHalfWay, ForgottenStaysForgotten, Forgotten, TypeOK, Ids, Entry
<1>6. QED
  BY <1>3, <1>4, <1>5

\* What the transaction of moveToArchive does to the rows: nothing, or every row it
\* copied is moved as it is, and every row it picked is one of these.
Moved(a) ==
    /\ copies[a] \subseteq active
    /\ archive' = archive \cup copies[a]
    /\ active' = active \ copies[a]

LEMMA MovesCopies ==
    ASSUME IInv, NEW a \in Archival, MoveToArchive(a)
    PROVE  Moved(a) \/ UNCHANGED <<active, archive>>
<1> USE DEF IInv
<1> SUFFICES ASSUME ~UNCHANGED <<active, archive>> PROVE Moved(a)
  OBVIOUS
<1>1. /\ Ids(copies[a]) \cap Ids(archive) = {}
      /\ archive' = archive \cup copies[a]
      /\ active' = {x \in active : x.id \notin picked[a]}
      /\ phase[a] = "fetched"
  BY DEF MoveToArchive, Stop
<1>2. copies[a] \subseteq active
  BY <1>1 DEF CopiesCurrent, Ids
<1>3. \A x \in active : x.id \in picked[a] <=> x \in copies[a]
  BY <1>1 DEF CopiesCurrent
<1>4. QED
  BY <1>1, <1>2, <1>3 DEF Moved

LEMMA MoveToArchivePreserves ==
    ASSUME IInv, NEW a \in Archival, MoveToArchive(a)
    PROVE  IInv'
<1> USE QueueAssumption, AuditAssumption DEF IInv
<1>1. Moved(a) \/ UNCHANGED <<active, archive>>
  BY MovesCopies
<1>2. /\ copies' = [copies EXCEPT ![a] = {}] /\ picked' = [picked EXCEPT ![a] = {}]
      /\ UNCHANGED <<queueVars, link, wjob, wdone, seen>>
      /\ \/ phase' = [phase EXCEPT ![a] = "asked"] /\ asked' = Append(asked, a)
         \/ phase' = [phase EXCEPT ![a] = "stopped"] /\ UNCHANGED asked
  BY DEF MoveToArchive, Ask, Stop
<1>3. a \in Entry /\ a \notin Erasure
  BY DEF Entry
<1>4. TypeOK' /\ JobsLive'
  <2>1. active' \subseteq RowRecord /\ archive' \subseteq RowRecord
    BY <1>1 DEF Moved, TypeOK
  <2>2. phase' \in [Entry -> Phase] /\ asked' \in Seq(Entry)
    <3>1. Append(asked, a) \in Seq(Entry)
      BY <1>3 DEF TypeOK
    <3>2. QED
      BY <1>2, <1>3, <3>1 DEF TypeOK, Phase
  <2>3. picked' \in [Archival -> SUBSET Row] /\ copies' \in [Archival -> SUBSET RowRecord]
    BY <1>2 DEF TypeOK
  <2>4. QED
    BY <1>2, <2>1, <2>2, <2>3 DEF TypeOK, QueueTypeOK, queueVars, JobsLive
<1>5. active' \cup archive' = active \cup archive
  BY <1>1 DEF Moved
<1>6. RowKeptOnce'
  BY <1>1 DEF Moved, RowKeptOnce, Ids
<1>7. CopiesCurrent'
  <2>1. \A b \in Archival \ {a} :
            picked'[b] = picked[b] /\ copies'[b] = copies[b] /\ phase'[b] = phase[b]
    BY <1>2, <1>3 DEF TypeOK, Entry
  <2>2. picked'[a] = {} /\ copies'[a] = {} /\ phase'[a] # "fetched"
    BY <1>2, <1>3 DEF TypeOK, Phase
  <2>3. Ids(active \cup archive)' = Ids(active \cup archive)
    BY <1>5 DEF Ids
  <2>4. active' \subseteq active /\ \A x \in active : x \in active' \/ x.id \in Ids(archive)'
    BY <1>1 DEF Moved, Ids
  <2>5. Ids(archive) \subseteq Ids(archive)'
    BY <1>1 DEF Moved, Ids
  <2>6. QED
    BY <2>1, <2>2, <2>3, <2>4, <2>5 DEF CopiesCurrent
<1>8. \A q \in Erasure : phase'[q] = phase[q]
  BY <1>2, <1>3 DEF TypeOK, Entry
<1>9. ErasureHalfWay'
  <2>1. Ids(active \cup archive)' = Ids(active \cup archive) /\ active' \subseteq active
    BY <1>1, <1>5 DEF Ids, Moved
  <2>2. QED
    BY <1>2, <1>8, <2>1 DEF ErasureHalfWay
<1>10. ForgottenStaysForgotten'
  BY <1>2, <1>5, <1>8 DEF ForgottenStaysForgotten, Forgotten
<1>11. QED
  BY <1>4, <1>6, <1>7, <1>9, <1>10

\* The statement goes through only when no active row is the subject's.
LEMMA EraseActivePreserves ==
    ASSUME IInv, NEW q \in Erasure, EraseActive(q)
    PROVE  IInv'
<1> USE QueueAssumption, AuditAssumption DEF IInv
<1>1. /\ UNCHANGED <<queueVars, asked, link, active, archive, picked, copies, wjob, wdone>>
      /\ seen' = [seen EXCEPT ![q] = Ids(active \cup archive)]
      /\ phase' = [phase EXCEPT ![q] =
                      IF \E x \in active : x.user = Subject[q] THEN "stopped" ELSE "half"]
  BY DEF EraseActive
<1>2. q \in Entry /\ q \notin Archival
  BY DEF Entry
<1>3. TypeOK' /\ JobsLive'
  <2>1. Ids(active \cup archive) \subseteq Row
    BY DEF Ids, TypeOK, RowRecord
  <2>2. phase' \in [Entry -> Phase] /\ seen' \in [Erasure -> SUBSET Row]
    BY <1>1, <1>2, <2>1 DEF TypeOK, Phase
  <2>3. QED
    BY <1>1, <2>2 DEF TypeOK, QueueTypeOK, queueVars, JobsLive
<1>4. \A p \in Entry \ {q} : phase'[p] = phase[p]
  BY <1>1, <1>2 DEF TypeOK
<1>5. RowKeptOnce' /\ CopiesCurrent'
  BY <1>1, <1>2, <1>4 DEF RowKeptOnce, CopiesCurrent, Ids, Entry
<1>6. ErasureHalfWay'
  <2>1. seen'[q] = Ids(active \cup archive) /\ \A p \in Erasure \ {q} : seen'[p] = seen[p]
    BY <1>1 DEF TypeOK
  <2>2. phase'[q] = "half" => \A x \in active : x.user # Subject[q]
    BY <1>1, <1>2 DEF TypeOK
  <2>3. QED
    BY <1>1, <1>4, <2>1, <2>2 DEF ErasureHalfWay, Ids, Entry
<1>7. ForgottenStaysForgotten'
  <2>1. ~Forgotten(q)' /\ \A p \in Erasure \ {q} : seen'[p] = seen[p]
    BY <1>1, <1>2 DEF TypeOK, Forgotten
  <2>2. QED
    BY <1>1, <1>4, <2>1 DEF ForgottenStaysForgotten, Forgotten, Entry
<1>8. QED
  BY <1>3, <1>5, <1>6, <1>7

\* A row made anonymous is still the row, and shows nobody.
LEMMA AnonymizedRows ==
    ASSUME NEW S \in SUBSET RowRecord, NEW u \in User
    PROVE  /\ Anonymized(S, u) \subseteq RowRecord
           /\ Ids(Anonymized(S, u)) = Ids(S)
           /\ \A y \in Anonymized(S, u) : \E x \in S :
                  y.id = x.id /\ y.user = IF x.user = u THEN Anonymous ELSE x.user
           /\ (\A x, y \in S : x.id = y.id => x = y) =>
                  \A x, y \in Anonymized(S, u) : x.id = y.id => x = y
<1> DEFINE A(x) == [x EXCEPT !.user = IF x.user = u THEN Anonymous ELSE x.user]
<1>1. \A x \in S : /\ A(x) \in RowRecord
                   /\ A(x).id = x.id
                   /\ A(x).user = IF x.user = u THEN Anonymous ELSE x.user
  BY DEF RowRecord
<1>2. Anonymized(S, u) = {A(x) : x \in S}
  BY DEF Anonymized
<1> HIDE DEF A
<1>3. QED
  BY <1>1, <1>2 DEF Ids

\* No row the request has seen shows its subject any more, active or archived.
LEMMA EraseArchivedPreserves ==
    ASSUME IInv, NEW q \in Erasure, EraseArchived(q)
    PROVE  IInv'
<1> USE QueueAssumption, AuditAssumption DEF IInv
<1>1. /\ UNCHANGED <<queueVars, link, active, picked, copies, wjob, wdone, seen>>
      /\ phase[q] = "half"
      /\ archive' = Anonymized(archive, Subject[q]) \/ UNCHANGED archive
      /\ \/ phase' = [phase EXCEPT ![q] = "asked"] /\ asked' = Append(asked, q)
            /\ archive' = Anonymized(archive, Subject[q])
         \/ phase' = [phase EXCEPT ![q] = "stopped"] /\ UNCHANGED asked
  BY DEF EraseArchived, Ask, Stop
<1>2. q \in Entry /\ q \notin Archival /\ Subject[q] \in User
  BY DEF Entry
<1>3. \A p \in Entry \ {q} : phase'[p] = phase[p]
  BY <1>1, <1>2 DEF TypeOK
<1>4. /\ archive' \subseteq RowRecord
      /\ Ids(archive)' = Ids(archive)
      /\ \A y \in archive' : \E x \in archive :
             y.id = x.id /\ (y.user = x.user \/ y.user = Anonymous)
      /\ \A x, y \in archive' : x.id = y.id => x = y
  <2>1. CASE archive' = Anonymized(archive, Subject[q])
    <3>1. archive \in SUBSET RowRecord /\ \A x, y \in archive : x.id = y.id => x = y
      BY DEF TypeOK, RowKeptOnce
    <3>2. Ids(archive)' = Ids(archive')
      BY DEF Ids
    <3> DEFINE Z == Anonymized(archive, Subject[q])
    <3>3. /\ Z \subseteq RowRecord /\ Ids(Z) = Ids(archive)
          /\ \A y \in Z : \E x \in archive :
                 y.id = x.id /\ y.user = IF x.user = Subject[q] THEN Anonymous ELSE x.user
          /\ \A x, y \in Z : x.id = y.id => x = y
      BY <1>2, <3>1, AnonymizedRows
    <3> HIDE DEF Z
    <3>4. archive' = Z
      BY <2>1 DEF Z
    <3>5. QED
      BY <3>2, <3>3, <3>4
  <2>2. CASE UNCHANGED archive
    BY <2>2 DEF TypeOK, RowKeptOnce, Ids
  <2>3. QED
    BY <1>1, <2>1, <2>2
<1>5. TypeOK' /\ JobsLive'
  <2>1. phase' \in [Entry -> Phase] /\ asked' \in Seq(Entry)
    <3>1. Append(asked, q) \in Seq(Entry)
      BY <1>2 DEF TypeOK
    <3>2. QED
      BY <1>1, <1>2, <3>1 DEF TypeOK, Phase
  <2>2. QED
    BY <1>1, <1>4, <2>1 DEF TypeOK, QueueTypeOK, queueVars, JobsLive
<1>6. Ids(active)' = Ids(active) /\ Ids(active \cup archive)' = Ids(active \cup archive)
  <2>1. Ids(active)' = Ids(active)
    BY <1>1 DEF Ids
  <2>2. Ids(active \cup archive) = Ids(active) \cup Ids(archive)
    BY DEF Ids
  <2>3. Ids(active \cup archive)' = Ids(active)' \cup Ids(archive)'
    BY DEF Ids
  <2>4. QED
    BY <1>4, <2>1, <2>2, <2>3
<1>7. RowKeptOnce'
  BY <1>1, <1>4, <1>6 DEF RowKeptOnce
<1>8. CopiesCurrent'
  BY <1>1, <1>2, <1>3, <1>4, <1>6 DEF CopiesCurrent, Entry
<1>9. ErasureHalfWay'
  <2>1. phase'[q] # "half"
    BY <1>1, <1>2 DEF TypeOK
  <2>2. QED
    BY <1>1, <1>3, <1>6, <2>1 DEF ErasureHalfWay, Entry
<1>10. ForgottenStaysForgotten'
  <2>1. ASSUME NEW p \in Erasure, Forgotten(p)', NEW x \in active' \cup archive',
               x.id \in seen'[p]
        PROVE  x.user # Subject[p]
    <3>1. Subject[p] \in User
      OBVIOUS
    <3>2. CASE p # q
      <4>1. Forgotten(p)
        BY <1>3, <2>1, <3>2 DEF Forgotten, Entry
      <4>2. QED
        BY <1>1, <1>4, <2>1, <3>1, <4>1 DEF ForgottenStaysForgotten
    <3>3. CASE p = q
      <4>1. archive' = Anonymized(archive, Subject[q])
        BY <1>1, <1>2, <2>1, <3>3 DEF Forgotten, TypeOK
      <4>2. CASE x \in active
        BY <1>1, <2>1, <3>3, <4>2 DEF ErasureHalfWay
      <4>3. CASE x \in archive'
        <5>1. \E z \in archive : x.user = IF z.user = Subject[q] THEN Anonymous ELSE z.user
          BY <1>2, <4>1, <4>3 DEF Anonymized, TypeOK, RowRecord
        <5>2. QED
          BY <1>2, <3>3, <5>1
      <4>4. QED
        BY <1>1, <2>1, <4>2, <4>3
    <3>4. QED
      BY <3>2, <3>3
  <2>2. QED
    BY <2>1 DEF ForgottenStaysForgotten
<1>11. QED
  BY <1>5, <1>7, <1>8, <1>9, <1>10

\* A step that changes nothing preserves everything.
LEMMA StutterPreserves ==
    ASSUME IInv, UNCHANGED vars
    PROVE  IInv'
<1> USE DEF vars, trailVars, queueVars, IInv
<1>1. TypeOK' /\ JobsLive'
  BY DEF TypeOK, QueueTypeOK, JobsLive
<1>2. PhasesAgree
  BY DEF PhasesAgree, Forgotten
<1>3. QED
  BY <1>1, <1>2, RowsUntouched

\* Every step preserves the inductive invariant.
LEMMA NextPreserves == IInv /\ [Next]_vars => IInv'
<1> SUFFICES ASSUME IInv, [Next]_vars PROVE IInv'
  OBVIOUS
<1>1. ASSUME NEW e \in Entry,
             \/ LogAction(e) \/ GetLastEntryHash(e) \/ QueueAuditEntry(e) \/ Stall(e)
             \/ \E w \in Worker : Write(w, e)
      PROVE  IInv'
  BY <1>1, LogActionPreserves, GetLastEntryHashPreserves, QueueAuditEntryPreserves,
     StallPreserves, WritePreserves
<1>2. ASSUME NEW w \in Worker, InsertRow(w) \/ InsertFails(w) \/ FinishWrite(w) \/ DropRun(w)
      PROVE  IInv'
  BY <1>2, InsertRowPreserves, InsertFailsPreserves, FinishWritePreserves, DropRunPreserves
<1>3. ASSUME NEW a \in Archival, IdentifyLogs(a) \/ FetchLogs(a) \/ MoveToArchive(a)
      PROVE  IInv'
  BY <1>3, IdentifyLogsPreserves, FetchLogsPreserves, MoveToArchivePreserves
<1>4. ASSUME NEW q \in Erasure, EraseActive(q) \/ EraseArchived(q) PROVE IInv'
  BY <1>4, EraseActivePreserves, EraseArchivedPreserves
<1>5. CASE UNCHANGED vars
  BY <1>5, StutterPreserves
<1>6. QED
  BY <1>1, <1>2, <1>3, <1>4, <1>5 DEF Next

\* The inductive invariant holds throughout every behaviour.
THEOREM Invariance == Spec => []IInv
BY InitEstablishes, NextPreserves, PTL DEF Spec

\* Type correctness.
THEOREM TypeCorrect == Spec => []TypeOK
<1>1. IInv => TypeOK
  BY DEF IInv
<1>2. QED
  BY <1>1, Invariance, PTL

\* A row is in one of the two tables, in one copy, whatever archival runs overlap.  (Two
\* rows of one entry, left by a retried write, may be in different tables.)
THEOREM KeptOnce == Spec => []RowKeptOnce
<1>1. IInv => RowKeptOnce
  BY DEF IInv
<1>2. QED
  BY <1>1, Invariance, PTL

\* Once a request to forget a user is answered, no row it found shows the user, not even
\* one an archival run was copying at the time.
THEOREM StaysForgotten == Spec => []ForgottenStaysForgotten
<1>1. IInv => ForgottenStaysForgotten
  BY DEF IInv
<1>2. QED
  BY <1>1, Invariance, PTL

-----------------------------------------------------------------------------
\* The chain.  ChainIInv rests on IInv only for the types.

\* A change of phase that decides no link leaves the decided entries as they are.
LEMMA PhaseStep ==
    ASSUME TypeOK, NEW e \in Entry, NEW p \in Phase, phase' = [phase EXCEPT ![e] = p],
           phase[e] \in {"linked", "lost", "queued"} <=> p \in {"linked", "lost", "queued"},
           phase[e] = "queued" => p = "queued"
    PROVE  Decided' = Decided /\ Queued \subseteq Queued'
BY DEF TypeOK, Decided, Queued

\* What every step but the reading of the last hash does to the chain: jobs, runs and rows
\* it adds are of queued entries, and a row keeps its link.
ChainKept ==
    /\ UNCHANGED link
    /\ Decided' = Decided /\ Queued \subseteq Queued'
    /\ \A e \in Entry : jstate'[e] # "absent" => jstate[e] # "absent" \/ e \in Queued'
    /\ \A w \in Worker : wjob'[w] # None => wjob'[w] = wjob[w] \/ wjob'[w] \in Queued'
    /\ \A x \in active' \cup archive' :
           \/ x.entry \in Queued /\ x.previous = link[x.entry]
           \/ \E y \in active \cup archive : x.entry = y.entry /\ x.previous = y.previous

LEMMA KeptPreserves ==
    ASSUME ChainIInv, ChainKept
    PROVE  ChainIInv'
<1> USE DEF ChainIInv, ChainKept
<1>1. RowsOfQueued'
  BY DEF RowsOfQueued
<1>2. LinksWellFounded'
  BY DEF LinksWellFounded
<1>3. QED
  BY <1>1, <1>2

\* The entry found has a row, hence was queued before this one, which is not queued yet.
LEMMA LastEntryQueued ==
    ASSUME RowsOfQueued
    PROVE  LastEntry \in Queued \cup {None}
<1> DEFINE stamped == {i \in 1..Len(asked) : \E x \in active : x.entry = asked[i]}
           latest == {asked[i] : i \in {j \in stamped : \A k \in stamped : k <= j}}
<1>1. \A i \in stamped : asked[i] \in Queued
  BY DEF RowsOfQueued
<1>2. latest \subseteq Queued
  BY <1>1
<1>3. LastEntry = IF latest = {} THEN None ELSE CHOOSE e \in latest : TRUE
  BY DEF LastEntry
<1> HIDE DEF latest
<1>4. QED
  BY <1>2, <1>3

\* Only the entry's own link is new, and nothing links to it.
LEMMA LinkingPreserves ==
    ASSUME TypeOK, ChainIInv, NEW e \in Entry, GetLastEntryHash(e)
    PROVE  ChainIInv'
<1> USE AuditAssumption DEF ChainIInv
<1>1. PICK previous \in Queued \cup {None} : link' = [link EXCEPT ![e] = previous]
  BY LastEntryQueued DEF GetLastEntryHash
<1>2. /\ phase[e] = "asked" /\ phase' = [phase EXCEPT ![e] = "linked"]
      /\ UNCHANGED <<jstate, wjob, active, archive>>
  BY DEF GetLastEntryHash, queueVars
<1>3. /\ e \notin Decided /\ Queued \subseteq Decided
      /\ Decided' = Decided \cup {e} /\ Queued' = Queued /\ None \notin Entry
  BY <1>2 DEF TypeOK, Decided, Queued
<1>4. link'[e] = previous /\ \A f \in Entry \ {e} : link'[f] = link[f]
  BY <1>1 DEF TypeOK
<1>5. RowsOfQueued'
  <2>1. \A f \in Queued : f \in Entry \ {e}
    BY <1>3 DEF Queued
  <2>2. QED
    BY <1>2, <1>3, <1>4, <2>1 DEF RowsOfQueued
<1>6. LinksWellFounded'
  <2>1. ASSUME NEW f \in Entry, link'[f] # None
        PROVE  f \in Decided' /\ link'[f] \in Queued'
    <3>1. CASE f = e
      BY <1>3, <1>4, <2>1, <3>1
    <3>2. CASE f # e
      BY <1>3, <1>4, <2>1, <3>2 DEF LinksWellFounded
    <3>3. QED
      BY <3>1, <3>2
  <2>2. ASSUME NEW S \in SUBSET Decided', S # {}
        PROVE  \E f \in S : link'[f] \notin S
    <3>1. \A f \in Entry : link'[f] # e
      BY <1>3, <2>1
    <3>2. CASE S \subseteq {e}
      BY <2>2, <3>1, <3>2
    <3>3. CASE ~(S \subseteq {e})
      <4> DEFINE T == S \ {e}
      <4>1. T \in SUBSET Decided /\ T # {}
        BY <1>3, <3>3
      <4>2. PICK f \in T : link[f] \notin T
        BY <4>1 DEF LinksWellFounded
      <4>3. f \in Entry
        BY <4>1 DEF Decided
      <4>4. link'[f] = link[f] /\ link'[f] # e
        BY <1>4, <3>1, <4>2, <4>3
      <4>5. QED
        BY <4>2, <4>4
    <3>4. QED
      BY <3>2, <3>3
  <2>3. QED
    BY <2>1, <2>2 DEF LinksWellFounded
<1>7. QED
  BY <1>5, <1>6

\* Steps that leave the rows alone: an entry is stamped, queued or its job is moved on.
LEMMA JobStepsKeep ==
    ASSUME TypeOK, RowsOfQueued, NEW e \in Entry,
           \/ LogAction(e) \/ QueueAuditEntry(e) \/ Stall(e)
           \/ \E w \in Worker : Write(w, e)
    PROVE  ChainKept
<1> USE QueueAssumption, AuditAssumption DEF ChainKept
<1>1. CASE LogAction(e)
  <2>1. phase[e] = "idle" /\ phase' = [phase EXCEPT ![e] = "asked"]
    BY <1>1 DEF LogAction, Ask
  <2>2. Decided' = Decided /\ Queued \subseteq Queued'
    BY <2>1, PhaseStep DEF Phase
  <2>3. UNCHANGED <<link, jstate, wjob, active, archive>>
    BY <1>1 DEF LogAction, queueVars
  <2>4. QED
    BY <2>2, <2>3
<1>2. CASE QueueAuditEntry(e)
  <2>1. PICK p \in {"queued", "lost"} : phase' = [phase EXCEPT ![e] = p]
    BY <1>2 DEF QueueAuditEntry
  <2>2. Decided' = Decided /\ Queued \subseteq Queued'
    BY <1>2, <2>1, PhaseStep DEF Phase, QueueAuditEntry
  <2>3. UNCHANGED <<link, wjob, active, archive>>
    BY <1>2 DEF QueueAuditEntry
  <2>4. \A f \in Entry : jstate'[f] # "absent" => jstate[f] # "absent" \/ f \in Queued'
    <3>1. CASE phase' = [phase EXCEPT ![e] = "queued"] /\ AddJob(e)
      BY <3>1 DEF AddJob, queueVars, TypeOK, QueueTypeOK, Queued
    <3>2. CASE UNCHANGED queueVars
      BY <3>2 DEF queueVars
    <3>3. QED
      BY <1>2, <3>1, <3>2 DEF QueueAuditEntry
  <2>5. QED
    BY <2>2, <2>3, <2>4
<1>3. CASE Stall(e)
  <2>1. UNCHANGED <<link, phase, wjob, active, archive>>
    BY <1>3 DEF Stall, trailVars
  <2>2. jstate[e] # "absent" /\ \A f \in Entry \ {e} : jstate'[f] = jstate[f]
    BY <1>3 DEF Stall, StallJob, TypeOK, QueueTypeOK
  <2>3. QED
    BY <2>1, <2>2 DEF Decided, Queued
<1>4. ASSUME NEW w \in Worker, Write(w, e) PROVE ChainKept
  <2>1. UNCHANGED <<link, phase, active, archive>>
    BY <1>4 DEF Write
  <2>2. jstate[e] # "absent" /\ \A f \in Entry \ {e} : jstate'[f] = jstate[f]
    BY <1>4 DEF Write, TakeJob, TypeOK, QueueTypeOK
  <2>3. e \in Queued /\ \A v \in Worker : wjob'[v] = wjob[v] \/ wjob'[v] = e
    BY <1>4, <2>2 DEF Write, TypeOK, RowsOfQueued
  <2>4. QED
    BY <2>1, <2>2, <2>3 DEF Decided, Queued
<1>5. QED
  BY <1>1, <1>2, <1>3, <1>4

\* A run writes the row of its own entry, with the link the entry was queued with; and it
\* ends by moving its own job, which is in the queue.
LEMMA WorkerStepsKeep ==
    ASSUME TypeOK, RowsOfQueued, NEW w \in Worker,
           InsertRow(w) \/ InsertFails(w) \/ FinishWrite(w) \/ DropRun(w)
    PROVE  ChainKept
<1> USE QueueAssumption, AuditAssumption DEF ChainKept
<1> DEFINE e == wjob[w]
<1>1. e \in Entry /\ e \in Queued
  BY DEF InsertRow, InsertFails, FinishWrite, DropRun, TypeOK, RowsOfQueued
<1>2. UNCHANGED <<phase, link, archive>>
  BY DEF InsertRow, InsertFails, FinishWrite, DropRun
<1>3. Decided' = Decided /\ Queued' = Queued
  BY <1>2 DEF Decided, Queued
<1>4. \A f \in Entry : f # e => jstate'[f] = jstate[f]
  BY <1>1 DEF InsertRow, InsertFails, FinishWrite, DropRun, CompleteJob, FailJob,
              TypeOK, QueueTypeOK, queueVars
<1>5. \A v \in Worker : wjob'[v] # None => wjob'[v] = wjob[v]
  BY DEF InsertRow, InsertFails, FinishWrite, DropRun, Leave, TypeOK
<1>6. \A x \in active' : x \in active \/ (x.entry = e /\ x.previous = link[e])
  BY DEF InsertRow, InsertFails, FinishWrite, DropRun, NewRow
<1>7. \A x \in active' \cup archive' :
          \/ x.entry \in Queued /\ x.previous = link[x.entry]
          \/ \E y \in active \cup archive : x.entry = y.entry /\ x.previous = y.previous
  BY <1>1, <1>2, <1>6
<1>8. QED
  BY <1>1, <1>2, <1>3, <1>4, <1>5, <1>7

\* A row is moved as it is.
LEMMA ArchivalKeeps ==
    ASSUME IInv, NEW a \in Archival, IdentifyLogs(a) \/ FetchLogs(a) \/ MoveToArchive(a)
    PROVE  ChainKept
<1> USE AuditAssumption DEF ChainKept
<1>1. /\ UNCHANGED <<link, jstate, wjob>>
      /\ phase[a] \in {"idle", "picked", "fetched"}
      /\ \E p \in {"stopped", "picked", "fetched", "asked"} : phase' = [phase EXCEPT ![a] = p]
  BY DEF IdentifyLogs, FetchLogs, MoveToArchive, Ask, Stop, queueVars
<1>2. Decided' = Decided /\ Queued \subseteq Queued'
  <2>1. PICK p \in {"stopped", "picked", "fetched", "asked"} : phase' = [phase EXCEPT ![a] = p]
    BY <1>1
  <2>2. QED
    BY <1>1, <2>1, PhaseStep DEF IInv, Phase, Entry
<1>3. active' \cup archive' = active \cup archive
  BY MovesCopies DEF IdentifyLogs, FetchLogs, Moved
<1>4. QED
  BY <1>1, <1>2, <1>3

\* Making a row anonymous leaves its entry and its link.
LEMMA ErasureKeeps ==
    ASSUME TypeOK, NEW q \in Erasure, EraseActive(q) \/ EraseArchived(q)
    PROVE  ChainKept
<1> USE AuditAssumption DEF ChainKept
<1>1. /\ UNCHANGED <<link, jstate, wjob, active>>
      /\ phase[q] \in {"idle", "half"}
      /\ \E p \in {"stopped", "half", "asked"} : phase' = [phase EXCEPT ![q] = p]
  BY DEF EraseActive, EraseArchived, Ask, Stop, queueVars
<1>2. Decided' = Decided /\ Queued \subseteq Queued'
  <2>1. PICK p \in {"stopped", "half", "asked"} : phase' = [phase EXCEPT ![q] = p]
    BY <1>1
  <2>2. QED
    BY <1>1, <2>1, PhaseStep DEF Phase, Entry
<1>3. \A x \in archive' :
          \E y \in archive : x.entry = y.entry /\ x.previous = y.previous
  <2>1. CASE archive' = Anonymized(archive, Subject[q])
    <3> DEFINE A(x) == [x EXCEPT !.user = IF x.user = Subject[q] THEN Anonymous ELSE x.user]
    <3>1. \A y \in archive : A(y).entry = y.entry /\ A(y).previous = y.previous
      BY DEF TypeOK, RowRecord
    <3>2. archive' = {A(y) : y \in archive}
      BY <2>1 DEF Anonymized
    <3> HIDE DEF A
    <3>3. QED
      BY <3>1, <3>2
  <2>2. CASE UNCHANGED archive
    BY <2>2
  <2>3. QED
    BY <2>1, <2>2 DEF EraseActive, EraseArchived
<1>4. QED
  BY <1>1, <1>2, <1>3

LEMMA ChainPreserved == IInv /\ ChainIInv /\ [Next]_vars => ChainIInv'
<1> SUFFICES ASSUME IInv, ChainIInv, [Next]_vars PROVE ChainIInv'
  OBVIOUS
<1>1. TypeOK /\ RowsOfQueued
  BY DEF IInv, ChainIInv
<1>2. ASSUME NEW e \in Entry, GetLastEntryHash(e) PROVE ChainIInv'
  BY <1>1, <1>2, LinkingPreserves
<1>3. ASSUME NEW e \in Entry,
             \/ LogAction(e) \/ QueueAuditEntry(e) \/ Stall(e)
             \/ \E w \in Worker : Write(w, e)
      PROVE  ChainIInv'
  BY <1>1, <1>3, JobStepsKeep, KeptPreserves
<1>4. ASSUME NEW w \in Worker, InsertRow(w) \/ InsertFails(w) \/ FinishWrite(w) \/ DropRun(w)
      PROVE  ChainIInv'
  BY <1>1, <1>4, WorkerStepsKeep, KeptPreserves
<1>5. ASSUME NEW a \in Archival, IdentifyLogs(a) \/ FetchLogs(a) \/ MoveToArchive(a)
      PROVE  ChainIInv'
  BY <1>5, ArchivalKeeps, KeptPreserves
<1>6. ASSUME NEW q \in Erasure, EraseActive(q) \/ EraseArchived(q) PROVE ChainIInv'
  BY <1>1, <1>6, ErasureKeeps, KeptPreserves
<1>7. CASE UNCHANGED vars
  <2>1. ChainKept
    BY <1>7 DEF vars, trailVars, queueVars, ChainKept, Decided, Queued
  <2>2. QED
    BY <2>1, KeptPreserves
<1>8. QED
  BY <1>2, <1>3, <1>4, <1>5, <1>6, <1>7 DEF Next

\* In every set of linked rows there is one whose link leaves the set, though operations
\* link to each other out of the order of their timestamps and rows are written twice.
THEOREM NoCycle == Spec => []ChainHasNoCycle
<1>1. Init => ChainIInv
  BY QueueAssumption, AuditAssumption
     DEF Init, QueueInit, ChainIInv, RowsOfQueued, LinksWellFounded, Decided, Queued
<1>2. ChainIInv => ChainHasNoCycle
  <2> SUFFICES ASSUME ChainIInv, NEW S \in SUBSET Linked, S # {}
               PROVE  \E e \in S : \A x \in active \cup archive :
                          x.entry = e => x.previous \notin S
    BY DEF ChainHasNoCycle
  <2>1. S \in SUBSET Decided
    BY DEF Linked, ChainIInv, RowsOfQueued, Queued, Decided
  <2>2. PICK e \in S : link[e] \notin S
    BY <2>1 DEF ChainIInv, LinksWellFounded
  <2>3. QED
    BY <2>2 DEF ChainIInv, RowsOfQueued
<1>3. QED
  BY <1>1, <1>2, ChainPreserved, Invariance, PTL DEF Spec

-----------------------------------------------------------------------------
\* Refinement of the audit record: inserting appends, erasing redacts, and moving rows
\* to the archive is invisible.

\* What one row shows in a set of rows.
ShownIn(S, r) ==
    IF \E x \in S : x.id = r THEN (CHOOSE x \in S : x.id = r).user ELSE None

LEMMA ShownInKept ==
    ASSUME NEW S, \A x, y \in S : x.id = y.id => x = y, NEW z \in S
    PROVE  ShownIn(S, z.id) = z.user
<1>1. (CHOOSE x \in S : x.id = z.id) = z
  OBVIOUS
<1>2. QED
  BY <1>1 DEF ShownIn

LEMMA StepRefines ==
    ASSUME IInv, IInv', Next
    PROVE  Record!Next \/ UNCHANGED Shown
<1> USE AuditAssumption
<1> DEFINE kept == active \cup archive
<1>1. /\ Shown = [r \in Row |-> ShownIn(kept, r)]
      /\ Shown' = [r \in Row |-> ShownIn(kept', r)]
  BY DEF Shown, ShownIn
<1>2. /\ \A x, y \in kept : x.id = y.id => x = y
      /\ \A x, y \in kept' : x.id = y.id => x = y
  BY KeptUnique DEF IInv, RowKeptOnce, Ids
<1>3. ASSUME kept' = kept PROVE UNCHANGED Shown
  BY <1>1, <1>3
<1>4. ASSUME NEW w \in Worker, InsertRow(w) PROVE Record!Next
  <2> DEFINE e == wjob[w]
  <2>1. AuthorOf(e) \in User /\ archive' = archive
    BY <1>4 DEF InsertRow
  <2>2. PICK r \in Unused : active' = active \cup {NewRow(e, r)}
    BY <1>4 DEF InsertRow
  <2>3. r \in Row /\ \A x \in kept : x.id # r
    BY DEF Unused, Ids
  <2>4. NewRow(e, r).id = r /\ NewRow(e, r).user = AuthorOf(e)
    BY DEF NewRow
  <2>5. kept' = kept \cup {NewRow(e, r)}
    BY <2>1, <2>2
  <2>6. Shown[r] = None
    BY <1>1, <2>3 DEF ShownIn
  <2>7. ASSUME NEW p \in Row
        PROVE  ShownIn(kept', p) = IF p = r THEN AuthorOf(e) ELSE ShownIn(kept, p)
    <3>1. CASE p = r
      BY <1>2, <2>4, <2>5, <3>1, ShownInKept
    <3>2. CASE p # r /\ \E x \in kept : x.id = p
      <4>1. PICK x \in kept : x.id = p
        BY <3>2
      <4>2. ShownIn(kept, p) = x.user /\ ShownIn(kept', p) = x.user
        BY <1>2, <2>5, <4>1, ShownInKept
      <4>3. QED
        BY <3>2, <4>2
    <3>3. CASE p # r /\ ~\E x \in kept : x.id = p
      BY <2>4, <2>5, <3>3 DEF ShownIn
    <3>4. QED
      BY <3>1, <3>2, <3>3
  <2>8. Shown' = [Shown EXCEPT ![r] = AuthorOf(e)]
    BY <1>1, <2>3, <2>7
  <2>9. Record!Append(r, AuthorOf(e))
    BY <2>6, <2>8 DEF Record!Append
  <2>10. QED
    BY <2>1, <2>3, <2>9 DEF Record!Next
<1>5. ASSUME NEW q \in Erasure, EraseArchived(q), ~UNCHANGED archive PROVE Record!Next
  <2> DEFINE u == Subject[q]
             R == {r \in Row : \E x \in archive : x.id = r /\ x.user = u}
  <2>1. archive' = Anonymized(archive, u) /\ active' = active /\ u \in User
    BY <1>5 DEF EraseArchived
  <2>2. /\ Ids(archive') = Ids(archive)
        /\ \A y \in archive' : \E x \in archive :
               y.id = x.id /\ y.user = IF x.user = u THEN Anonymous ELSE x.user
    <3>1. archive \in SUBSET RowRecord
      BY DEF IInv, TypeOK
    <3> HIDE DEF u
    <3>2. /\ Ids(Anonymized(archive, u)) = Ids(archive)
          /\ \A y \in Anonymized(archive, u) : \E x \in archive :
                 y.id = x.id /\ y.user = IF x.user = u THEN Anonymous ELSE x.user
      BY <2>1, <3>1, AnonymizedRows
    <3>3. QED
      BY <2>1, <3>2
  <2>3. ASSUME NEW r \in R PROVE Shown[r] = u
    <3>1. PICK x \in archive : x.id = r /\ x.user = u
      OBVIOUS
    <3>2. QED
      BY <1>1, <1>2, <3>1, ShownInKept
  <2>4. ASSUME NEW r \in Row
        PROVE  ShownIn(kept', r) = IF r \in R THEN Anonymous ELSE ShownIn(kept, r)
    <3>1. CASE \E x \in active : x.id = r
      <4>1. PICK x \in active : x.id = r
        BY <3>1
      <4>2. ShownIn(kept, r) = x.user /\ ShownIn(kept', r) = x.user
        BY <1>2, <2>1, <4>1, ShownInKept
      <4>3. r \notin R
        BY <4>1 DEF IInv, RowKeptOnce, Ids
      <4>4. QED
        BY <4>2, <4>3
    <3>2. CASE \E x \in archive : x.id = r
      <4>1. PICK x \in archive : x.id = r
        BY <3>2
      <4>2. r \in Ids(archive')
        BY <2>2, <4>1 DEF Ids
      <4>3. PICK y \in archive' : y.id = r
        BY <4>2 DEF Ids
      <4>4. y.user = IF x.user = u THEN Anonymous ELSE x.user
        BY <1>2, <2>2, <4>1, <4>3
      <4>5. ShownIn(kept, r) = x.user /\ ShownIn(kept', r) = y.user
        <5>1. ShownIn(kept, x.id) = x.user
          BY <1>2, ShownInKept
        <5>2. ShownIn(kept', y.id) = y.user
          BY <1>2, ShownInKept
        <5>3. QED
          BY <4>1, <4>3, <5>1, <5>2
      <4>6. r \in R <=> x.user = u
        BY <1>2, <4>1
      <4>7. QED
        BY <4>4, <4>5, <4>6
    <3>3. CASE ~\E x \in kept : x.id = r
      <4>1. r \notin Ids(archive')
        BY <2>2, <3>3 DEF Ids
      <4>2. ~\E x \in kept' : x.id = r
        BY <2>1, <3>3, <4>1 DEF Ids
      <4>3. QED
        BY <3>3, <4>2 DEF ShownIn
    <3>4. QED
      BY <3>1, <3>2, <3>3
  <2>5. Shown' = [r \in Row |-> IF r \in R THEN Anonymous ELSE Shown[r]]
    BY <1>1, <2>4
  <2>6. Record!Redact(u, R)
    BY <2>3, <2>5 DEF Record!Redact
  <2>7. QED
    BY <2>1, <2>6 DEF Record!Next
<1>6. ASSUME NEW a \in Archival, IdentifyLogs(a) \/ FetchLogs(a) \/ MoveToArchive(a)
      PROVE  kept' = kept
  BY <1>6, MovesCopies DEF IdentifyLogs, FetchLogs, Moved
<1>7. ASSUME NEW e \in Entry,
             \/ LogAction(e) \/ GetLastEntryHash(e) \/ QueueAuditEntry(e) \/ Stall(e)
             \/ \E w \in Worker : Write(w, e)
      PROVE  kept' = kept
  BY <1>7 DEF LogAction, GetLastEntryHash, QueueAuditEntry, Stall, trailVars, Write
<1>8. ASSUME NEW w \in Worker, InsertFails(w) \/ FinishWrite(w) \/ DropRun(w)
      PROVE  kept' = kept
  BY <1>8 DEF InsertFails, FinishWrite, DropRun
<1>9. ASSUME NEW q \in Erasure, EraseActive(q) \/ (EraseArchived(q) /\ UNCHANGED archive)
      PROVE  kept' = kept
  BY <1>9 DEF EraseActive, EraseArchived
<1>10. QED
  BY <1>3, <1>4, <1>5, <1>6, <1>7, <1>8, <1>9 DEF Next

\* The two tables, the queue and the archival transaction implement the audit record: a
\* row once written stays, whichever table it is in, and only an erasure changes its user.
THEOREM ImplementsRecord == Spec => RecordSpec
<1>1. Init => Record!Init
  BY DEF Init, Record!Init, Shown
<1>2. IInv /\ IInv' /\ [Next]_vars => [Record!Next]_Shown
  <2>1. ASSUME UNCHANGED vars PROVE UNCHANGED Shown
    BY <2>1 DEF vars, trailVars, Shown
  <2>2. QED
    BY <2>1, StepRefines
<1>3. QED
  BY <1>1, <1>2, Invariance, PTL DEF Spec, RecordSpec, Record!Spec
=============================================================================
