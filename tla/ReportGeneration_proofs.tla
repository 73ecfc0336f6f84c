----------------------- MODULE ReportGeneration_proofs -----------------------
(***************************************************************************)
(* ReportGeneration for any number of reports, subjects, workers, requests *)
(* and attempts: a report shown as complete has its own file, but for the  *)
(* causes the property names.  One lemma per action shows that it          *)
(* preserves IInv.                                                         *)
(***************************************************************************)
EXTENDS ReportGeneration, TLAPS

\* There is no report at the start.
LEMMA InitEstablishes == Init => IInv
<1> SUFFICES ASSUME Init PROVE IInv
  OBVIOUS
<1> USE QueueAssumption, ReportAssumption DEF Init, QueueInit
<1>1. TypeOK
  <2>1. QueueTypeOK
    BY DEF QueueTypeOK, JobState
  <2>2. /\ second \in 0..MaxSecond /\ status \in [Report -> Status]
        /\ retries \in [Report -> 0..MaxRetries] /\ arrived \in 0..MaxRequests
    BY DEF Status
  <2>3. wstage \in [Worker -> WorkStage] /\ hstage \in [Handler -> HandleStage]
    BY DEF WorkStage, HandleStage
  <2>4. QED
    BY <2>1, <2>2, <2>3 DEF TypeOK
<1>2. JobsLive /\ ActorsHaveReports /\ PathsWritten
  BY DEF JobsLive, ActorsHaveReports, PathsWritten
<1>3. AboutToComplete /\ ReadyHasOwnFile
  BY DEF AboutToComplete, ReadyHasOwnFile
<1>4. QED
  BY <1>1, <1>2, <1>3 DEF IInv

\* An operation of the queue keeps its types, and keeps waiting jobs alive.
LEMMA QueueSteps ==
    ASSUME QueueTypeOK, JobsLive, NEW j \in JobId,
           \/ AddJob(j) \/ StallJob(j)
           \/ \E w \in Worker : TakeJob(w, j) \/ CompleteJob(w, j) \/ FailJob(w, j)
    PROVE  QueueTypeOK' /\ JobsLive'
<1> USE QueueAssumption DEF QueueTypeOK
<1>1. CASE AddJob(j)
  BY <1>1 DEF AddJob, JobsLive, JobState, queueVars
<1>2. CASE \E w \in Worker : TakeJob(w, j)
  BY <1>2 DEF TakeJob, JobsLive, JobState
<1>3. CASE \E w \in Worker : CompleteJob(w, j)
  BY <1>3 DEF CompleteJob, JobsLive, JobState, queueVars
<1>4. CASE \E w \in Worker : FailJob(w, j)
  BY <1>4 DEF FailJob, JobsLive, JobState, queueVars
<1>5. CASE StallJob(j)
  BY <1>5 DEF StallJob, JobsLive, JobState
<1>6. QED
  BY <1>1, <1>2, <1>3, <1>4, <1>5

\* So does a step that leaves it alone.
LEMMA QueueIdle ==
    ASSUME QueueTypeOK, JobsLive, UNCHANGED queueVars
    PROVE  QueueTypeOK' /\ JobsLive'
BY DEF QueueTypeOK, JobsLive, queueVars

\* A worker's step leaves what the others are about to complete, if files keep their causes.
LEMMA OthersComplete ==
    ASSUME IInv, NEW w \in Worker, wrote \subseteq wrote',
           wstage'[w] \in {"open", "write", "complete"} => wpath'[w] \in Path,
           wstage'[w] \in {"write", "complete"} => <<wpath'[w], ReportOf(wjob'[w])>> \in wrote',
           wstage'[w] = "write" => GoneHasCause(wpath[w], ReportOf(wjob[w]))',
           wstage'[w] = "complete" => OwnFileOrCause(wpath[w], ReportOf(wjob[w]))',
           \A v \in Worker \ {w} :
               wstage'[v] = wstage[v] /\ wjob'[v] = wjob[v] /\ wpath'[v] = wpath[v],
           \A p \in Path, r \in Report : OwnFileOrCause(p, r) => OwnFileOrCause(p, r)',
           \A p \in Path, r \in Report : GoneHasCause(p, r) => GoneHasCause(p, r)'
    PROVE  AboutToComplete'
<1> USE ReportAssumption DEF IInv
<1>1. SUFFICES ASSUME NEW v \in Worker
               PROVE  /\ wstage'[v] \in {"open", "write", "complete"} => wpath'[v] \in Path
                      /\ wstage'[v] \in {"write", "complete"} =>
                             <<wpath'[v], ReportOf(wjob'[v])>> \in wrote'
                      /\ wstage'[v] = "write" => GoneHasCause(wpath[v], ReportOf(wjob[v]))'
                      /\ wstage'[v] = "complete" =>
                             OwnFileOrCause(wpath[v], ReportOf(wjob[v]))'
  BY DEF AboutToComplete
<1>2. CASE v = w
  BY <1>2
<1>3. CASE v # w /\ wstage[v] \in {"open", "write", "complete"}
  <2>1. PICK p \in Path, r \in Report : p = wpath[v] /\ r = ReportOf(wjob[v])
    BY <1>3 DEF AboutToComplete, ActorsHaveReports, ReportOf
  <2>2. wstage'[v] = wstage[v] /\ p = wpath'[v] /\ r = ReportOf(wjob'[v])
    BY <1>3, <2>1
  <2>3. wstage[v] \in {"write", "complete"} => <<p, r>> \in wrote
    BY <2>1 DEF AboutToComplete
  <2>4. wstage[v] = "write" => GoneHasCause(p, r)'
    BY <2>1 DEF AboutToComplete
  <2>5. wstage[v] = "complete" => OwnFileOrCause(p, r)'
    BY <2>1 DEF AboutToComplete
  <2>6. wstage[v] = "write" => GoneHasCause(wpath[v], ReportOf(wjob[v]))'
    BY <2>2, <2>4 DEF GoneHasCause
  <2>7. wstage[v] = "complete" => OwnFileOrCause(wpath[v], ReportOf(wjob[v]))'
    BY <2>2, <2>5 DEF OwnFileOrCause, BeingWritten
  <2>8. QED
    BY <2>2, <2>3, <2>6, <2>7
<1>4. CASE v # w /\ wstage[v] \notin {"open", "write", "complete"}
  BY <1>4
<1>5. QED
  BY <1>2, <1>3, <1>4

\* A worker that leaves the files alone, and was not writing one, leaves all as it was.
LEMMA QuietWorker ==
    ASSUME IInv, NEW w \in Worker, wstage[w] # "write", UNCHANGED <<files, wrote, spoilt>>,
           \/ wstage'[w] \in {"idle", "begin", "save", "fail"}
           \/ wstage'[w] = "open" /\ wpath'[w] \in Path,
           \A v \in Worker \ {w} :
               wstage'[v] = wstage[v] /\ wjob'[v] = wjob[v] /\ wpath'[v] = wpath[v]
    PROVE  /\ AboutToComplete'
           /\ \A p \in Path, r \in Report : OwnFileOrCause(p, r) => OwnFileOrCause(p, r)'
<1>1. \A p \in Path, r \in Report : BeingWritten(p, r) => BeingWritten(p, r)'
  BY DEF BeingWritten
<1>2. \A p \in Path, r \in Report : OwnFileOrCause(p, r) => OwnFileOrCause(p, r)'
  BY <1>1 DEF OwnFileOrCause
<1>3. \A p \in Path, r \in Report : GoneHasCause(p, r) => GoneHasCause(p, r)'
  BY DEF GoneHasCause
<1>4. QED
  BY <1>2, <1>3, OthersComplete

\* A row that was not complete, or keeps its path, has its file as long as causes are kept.
LEMMA RowsKept ==
    ASSUME IInv,
           \A r \in Report : status'[r] = "COMPLETED" =>
               status[r] = "COMPLETED" /\ path'[r] = path[r],
           \A p \in Path, r \in Report : OwnFileOrCause(p, r) => OwnFileOrCause(p, r)'
    PROVE  ReadyHasOwnFile'
<1> SUFFICES ASSUME NEW r \in Report, status'[r] = "COMPLETED"
             PROVE  path'[r] # None /\ OwnFileOrCause(path[r], r)'
  BY DEF ReadyHasOwnFile
<1>1. path'[r] = path[r] /\ path[r] # None /\ OwnFileOrCause(path[r], r)
  BY DEF IInv, ReadyHasOwnFile
<1>2. PICK p \in Path : p = path[r]
  BY <1>1 DEF IInv, TypeOK
<1>3. OwnFileOrCause(p, r)'
  BY <1>1, <1>2
<1>4. QED
  BY <1>1, <1>2, <1>3 DEF OwnFileOrCause, BeingWritten

\* The clock moves.
LEMMA TickPreserves ==
    ASSUME IInv, Tick
    PROVE  IInv'
<1> USE QueueAssumption, ReportAssumption DEF IInv
<1>1. QueueTypeOK' /\ JobsLive'
  BY QueueIdle
     DEF Tick, TypeOK, queueVars
<1>2. TypeOK'
  <2>1. /\ second' \in 0..MaxSecond /\ status' \in [Report -> Status]
        /\ retries' \in [Report -> 0..MaxRetries] /\ arrived' \in 0..MaxRequests
    BY DEF Tick, TypeOK, queueVars, workVars, handleVars, pastVars, Status, ActorsHaveReports
  <2>2. /\ path' \in [Report -> Path \cup {None}]
        /\ files' \in [Path -> Report \cup {None, Partial}]
        /\ wrote' \subseteq Path \X Report /\ spoilt' \subseteq Path \X Report
        /\ deleting' \subseteq Report
    BY DEF Tick, TypeOK, queueVars, workVars, handleVars, pastVars, ActorsHaveReports,
       PathsWritten, AboutToComplete
  <2>3. /\ wstage' \in [Worker -> WorkStage] /\ wjob' \in [Worker -> JobId \cup {None}]
        /\ wpath' \in [Worker -> Path \cup {None}]
    BY DEF Tick, TypeOK, queueVars, workVars, handleVars, pastVars, WorkStage
  <2>4. /\ hstage' \in [Handler -> HandleStage] /\ hreport' \in [Handler -> Report \cup {None}]
        /\ hpath' \in [Handler -> Path \cup {None}]
    BY DEF Tick, TypeOK, queueVars, workVars, handleVars, pastVars, HandleStage
  <2>5. QED
    BY <1>1, <2>1, <2>2, <2>3, <2>4 DEF TypeOK
<1>3. ActorsHaveReports'
  BY DEF Tick, TypeOK, queueVars, workVars, handleVars, pastVars, WorkStage, HandleStage,
     ActorsHaveReports
<1>4. PathsWritten'
  BY DEF Tick, TypeOK, queueVars, workVars, handleVars, pastVars, WorkStage, HandleStage,
     PathsWritten, ActorsHaveReports
<1>5. AboutToComplete'
  BY DEF Tick, TypeOK, queueVars, workVars, handleVars, pastVars, WorkStage, HandleStage,
     AboutToComplete, OwnFileOrCause, GoneHasCause, BeingWritten, ActorsHaveReports
<1>6. ReadyHasOwnFile'
  BY DEF Tick, TypeOK, queueVars, workVars, handleVars, pastVars, WorkStage, HandleStage,
     ReadyHasOwnFile, OwnFileOrCause, BeingWritten, ActorsHaveReports, PathsWritten
<1>7. QED
  BY <1>1, <1>2, <1>3, <1>4, <1>5, <1>6
     DEF IInv

\* The row is there; no file yet.
LEMMA CreateReportPreserves ==
    ASSUME IInv, NEW h \in Handler, NEW r \in Report, CreateReport(h, r)
    PROVE  IInv'
<1> USE QueueAssumption, ReportAssumption DEF IInv
<1>1. QueueTypeOK' /\ JobsLive'
  BY QueueIdle
     DEF CreateReport, Serve, Arrive, TypeOK, queueVars
<1>2. TypeOK'
  <2>1. /\ second' \in 0..MaxSecond /\ status' \in [Report -> Status]
        /\ retries' \in [Report -> 0..MaxRetries] /\ arrived' \in 0..MaxRequests
    BY DEF CreateReport, Serve, Arrive, TypeOK, queueVars, workVars, handleVars, pastVars,
       Status, ActorsHaveReports
  <2>2. /\ path' \in [Report -> Path \cup {None}]
        /\ files' \in [Path -> Report \cup {None, Partial}]
        /\ wrote' \subseteq Path \X Report /\ spoilt' \subseteq Path \X Report
        /\ deleting' \subseteq Report
    BY DEF CreateReport, Serve, Arrive, TypeOK, queueVars, workVars, handleVars, pastVars,
       ActorsHaveReports, PathsWritten, AboutToComplete
  <2>3. /\ wstage' \in [Worker -> WorkStage] /\ wjob' \in [Worker -> JobId \cup {None}]
        /\ wpath' \in [Worker -> Path \cup {None}]
    BY DEF CreateReport, Serve, Arrive, TypeOK, queueVars, workVars, handleVars, pastVars,
       WorkStage
  <2>4. /\ hstage' \in [Handler -> HandleStage] /\ hreport' \in [Handler -> Report \cup {None}]
        /\ hpath' \in [Handler -> Path \cup {None}]
    BY DEF CreateReport, Serve, Arrive, TypeOK, queueVars, workVars, handleVars, pastVars,
       HandleStage
  <2>5. QED
    BY <1>1, <2>1, <2>2, <2>3, <2>4 DEF TypeOK
<1>3. ActorsHaveReports'
  BY DEF CreateReport, Serve, Arrive, TypeOK, queueVars, workVars, handleVars, pastVars,
     WorkStage, HandleStage, ActorsHaveReports
<1>4. PathsWritten'
  BY DEF CreateReport, Serve, Arrive, TypeOK, queueVars, workVars, handleVars, pastVars,
     WorkStage, HandleStage, PathsWritten, ActorsHaveReports
<1>5. AboutToComplete'
  BY DEF CreateReport, Serve, Arrive, TypeOK, queueVars, workVars, handleVars, pastVars,
     WorkStage, HandleStage, AboutToComplete, OwnFileOrCause, GoneHasCause, BeingWritten,
     ActorsHaveReports
<1>6. ReadyHasOwnFile'
  BY DEF CreateReport, Serve, Arrive, TypeOK, queueVars, workVars, handleVars, pastVars,
     WorkStage, HandleStage, ReadyHasOwnFile, OwnFileOrCause, BeingWritten, ActorsHaveReports,
     PathsWritten
<1>7. QED
  BY <1>1, <1>2, <1>3, <1>4, <1>5, <1>6
     DEF IInv

\* A new job has all its attempts.
LEMMA EnqueueReportPreserves ==
    ASSUME IInv, NEW h \in Handler, EnqueueReport(h)
    PROVE  IInv'
<1> USE QueueAssumption, ReportAssumption DEF IInv
<1>1. QueueTypeOK' /\ JobsLive'
  BY QueueSteps
     DEF EnqueueReport, Answer, Serve, TypeOK, ActorsHaveReports
<1>2. TypeOK'
  <2>1. /\ second' \in 0..MaxSecond /\ status' \in [Report -> Status]
        /\ retries' \in [Report -> 0..MaxRetries] /\ arrived' \in 0..MaxRequests
    BY DEF EnqueueReport, Answer, Serve, TypeOK, queueVars, workVars, handleVars, pastVars,
       Status, ActorsHaveReports
  <2>2. /\ path' \in [Report -> Path \cup {None}]
        /\ files' \in [Path -> Report \cup {None, Partial}]
        /\ wrote' \subseteq Path \X Report /\ spoilt' \subseteq Path \X Report
        /\ deleting' \subseteq Report
    BY DEF EnqueueReport, Answer, Serve, TypeOK, queueVars, workVars, handleVars, pastVars,
       ActorsHaveReports, PathsWritten, AboutToComplete
  <2>3. /\ wstage' \in [Worker -> WorkStage] /\ wjob' \in [Worker -> JobId \cup {None}]
        /\ wpath' \in [Worker -> Path \cup {None}]
    BY DEF EnqueueReport, Answer, Serve, TypeOK, queueVars, workVars, handleVars, pastVars,
       WorkStage
  <2>4. /\ hstage' \in [Handler -> HandleStage] /\ hreport' \in [Handler -> Report \cup {None}]
        /\ hpath' \in [Handler -> Path \cup {None}]
    BY DEF EnqueueReport, Answer, Serve, TypeOK, queueVars, workVars, handleVars, pastVars,
       HandleStage
  <2>5. QED
    BY <1>1, <2>1, <2>2, <2>3, <2>4 DEF TypeOK
<1>3. ActorsHaveReports'
  BY DEF EnqueueReport, Answer, Serve, TypeOK, queueVars, workVars, handleVars, pastVars,
     WorkStage, HandleStage, ActorsHaveReports
<1>4. PathsWritten'
  BY DEF EnqueueReport, Answer, Serve, TypeOK, queueVars, workVars, handleVars, pastVars,
     WorkStage, HandleStage, PathsWritten, ActorsHaveReports
<1>5. AboutToComplete'
  BY DEF EnqueueReport, Answer, Serve, TypeOK, queueVars, workVars, handleVars, pastVars,
     WorkStage, HandleStage, AboutToComplete, OwnFileOrCause, GoneHasCause, BeingWritten,
     ActorsHaveReports
<1>6. ReadyHasOwnFile'
  BY DEF EnqueueReport, Answer, Serve, TypeOK, queueVars, workVars, handleVars, pastVars,
     WorkStage, HandleStage, ReadyHasOwnFile, OwnFileOrCause, BeingWritten, ActorsHaveReports,
     PathsWritten
<1>7. QED
  BY <1>1, <1>2, <1>3, <1>4, <1>5, <1>6
     DEF IInv

\* Only the request goes on.
LEMMA RetryReportPreserves ==
    ASSUME IInv, NEW h \in Handler, NEW r \in Report, RetryReport(h, r)
    PROVE  IInv'
<1> USE QueueAssumption, ReportAssumption DEF IInv
<1>1. QueueTypeOK' /\ JobsLive'
  BY QueueIdle
     DEF RetryReport, Serve, Arrive, TypeOK, queueVars
<1>2. TypeOK'
  <2>1. /\ second' \in 0..MaxSecond /\ status' \in [Report -> Status]
        /\ retries' \in [Report -> 0..MaxRetries] /\ arrived' \in 0..MaxRequests
    BY DEF RetryReport, Serve, Arrive, TypeOK, queueVars, workVars, handleVars, pastVars,
       Status, ActorsHaveReports
  <2>2. /\ path' \in [Report -> Path \cup {None}]
        /\ files' \in [Path -> Report \cup {None, Partial}]
        /\ wrote' \subseteq Path \X Report /\ spoilt' \subseteq Path \X Report
        /\ deleting' \subseteq Report
    BY DEF RetryReport, Serve, Arrive, TypeOK, queueVars, workVars, handleVars, pastVars,
       ActorsHaveReports, PathsWritten, AboutToComplete
  <2>3. /\ wstage' \in [Worker -> WorkStage] /\ wjob' \in [Worker -> JobId \cup {None}]
        /\ wpath' \in [Worker -> Path \cup {None}]
    BY DEF RetryReport, Serve, Arrive, TypeOK, queueVars, workVars, handleVars, pastVars,
       WorkStage
  <2>4. /\ hstage' \in [Handler -> HandleStage] /\ hreport' \in [Handler -> Report \cup {None}]
        /\ hpath' \in [Handler -> Path \cup {None}]
    BY DEF RetryReport, Serve, Arrive, TypeOK, queueVars, workVars, handleVars, pastVars,
       HandleStage
  <2>5. QED
    BY <1>1, <2>1, <2>2, <2>3, <2>4 DEF TypeOK
<1>3. ActorsHaveReports'
  BY DEF RetryReport, Serve, Arrive, TypeOK, queueVars, workVars, handleVars, pastVars,
     WorkStage, HandleStage, ActorsHaveReports
<1>4. PathsWritten'
  BY DEF RetryReport, Serve, Arrive, TypeOK, queueVars, workVars, handleVars, pastVars,
     WorkStage, HandleStage, PathsWritten, ActorsHaveReports
<1>5. AboutToComplete'
  BY DEF RetryReport, Serve, Arrive, TypeOK, queueVars, workVars, handleVars, pastVars,
     WorkStage, HandleStage, AboutToComplete, OwnFileOrCause, GoneHasCause, BeingWritten,
     ActorsHaveReports
<1>6. ReadyHasOwnFile'
  BY DEF RetryReport, Serve, Arrive, TypeOK, queueVars, workVars, handleVars, pastVars,
     WorkStage, HandleStage, ReadyHasOwnFile, OwnFileOrCause, BeingWritten, ActorsHaveReports,
     PathsWritten
<1>7. QED
  BY <1>1, <1>2, <1>3, <1>4, <1>5, <1>6
     DEF IInv

\* The report is not complete any more.
LEMMA ResetReportPreserves ==
    ASSUME IInv, NEW h \in Handler, ResetReport(h)
    PROVE  IInv'
<1> USE QueueAssumption, ReportAssumption DEF IInv
<1>1. QueueTypeOK' /\ JobsLive'
  BY QueueIdle
     DEF ResetReport, Serve, TypeOK, queueVars
<1>2. TypeOK'
  <2>1. /\ second' \in 0..MaxSecond /\ status' \in [Report -> Status]
        /\ retries' \in [Report -> 0..MaxRetries] /\ arrived' \in 0..MaxRequests
    BY DEF ResetReport, Serve, TypeOK, queueVars, workVars, handleVars, pastVars, Status,
       ActorsHaveReports
  <2>2. /\ path' \in [Report -> Path \cup {None}]
        /\ files' \in [Path -> Report \cup {None, Partial}]
        /\ wrote' \subseteq Path \X Report /\ spoilt' \subseteq Path \X Report
        /\ deleting' \subseteq Report
    BY DEF ResetReport, Serve, TypeOK, queueVars, workVars, handleVars, pastVars,
       ActorsHaveReports, PathsWritten, AboutToComplete
  <2>3. /\ wstage' \in [Worker -> WorkStage] /\ wjob' \in [Worker -> JobId \cup {None}]
        /\ wpath' \in [Worker -> Path \cup {None}]
    BY DEF ResetReport, Serve, TypeOK, queueVars, workVars, handleVars, pastVars, WorkStage
  <2>4. /\ hstage' \in [Handler -> HandleStage] /\ hreport' \in [Handler -> Report \cup {None}]
        /\ hpath' \in [Handler -> Path \cup {None}]
    BY DEF ResetReport, Serve, TypeOK, queueVars, workVars, handleVars, pastVars, HandleStage
  <2>5. QED
    BY <1>1, <2>1, <2>2, <2>3, <2>4 DEF TypeOK
<1>3. ActorsHaveReports'
  BY DEF ResetReport, Serve, TypeOK, queueVars, workVars, handleVars, pastVars, WorkStage,
     HandleStage, ActorsHaveReports
<1>4. PathsWritten'
  BY DEF ResetReport, Serve, TypeOK, queueVars, workVars, handleVars, pastVars, WorkStage,
     HandleStage, PathsWritten, ActorsHaveReports
<1>5. AboutToComplete'
  BY DEF ResetReport, Serve, TypeOK, queueVars, workVars, handleVars, pastVars, WorkStage,
     HandleStage, AboutToComplete, OwnFileOrCause, GoneHasCause, BeingWritten,
     ActorsHaveReports
<1>6. ReadyHasOwnFile'
  BY DEF ResetReport, Serve, TypeOK, queueVars, workVars, handleVars, pastVars, WorkStage,
     HandleStage, ReadyHasOwnFile, OwnFileOrCause, BeingWritten, ActorsHaveReports,
     PathsWritten
<1>7. QED
  BY <1>1, <1>2, <1>3, <1>4, <1>5, <1>6
     DEF IInv

\* One retry more, at most MaxRetries.
LEMMA RequeueReportPreserves ==
    ASSUME IInv, NEW h \in Handler, RequeueReport(h)
    PROVE  IInv'
<1> USE QueueAssumption, ReportAssumption DEF IInv
<1>1. QueueTypeOK' /\ JobsLive'
  BY QueueSteps
     DEF RequeueReport, Answer, Serve, TypeOK, ActorsHaveReports
<1>2. TypeOK'
  <2>1. /\ second' \in 0..MaxSecond /\ status' \in [Report -> Status]
        /\ retries' \in [Report -> 0..MaxRetries] /\ arrived' \in 0..MaxRequests
    BY DEF RequeueReport, Answer, Serve, TypeOK, queueVars, workVars, handleVars, pastVars,
       Status, ActorsHaveReports
  <2>2. /\ path' \in [Report -> Path \cup {None}]
        /\ files' \in [Path -> Report \cup {None, Partial}]
        /\ wrote' \subseteq Path \X Report /\ spoilt' \subseteq Path \X Report
        /\ deleting' \subseteq Report
    BY DEF RequeueReport, Answer, Serve, TypeOK, queueVars, workVars, handleVars, pastVars,
       ActorsHaveReports, PathsWritten, AboutToComplete
  <2>3. /\ wstage' \in [Worker -> WorkStage] /\ wjob' \in [Worker -> JobId \cup {None}]
        /\ wpath' \in [Worker -> Path \cup {None}]
    BY DEF RequeueReport, Answer, Serve, TypeOK, queueVars, workVars, handleVars, pastVars,
       WorkStage
  <2>4. /\ hstage' \in [Handler -> HandleStage] /\ hreport' \in [Handler -> Report \cup {None}]
        /\ hpath' \in [Handler -> Path \cup {None}]
    BY DEF RequeueReport, Answer, Serve, TypeOK, queueVars, workVars, handleVars, pastVars,
       HandleStage
  <2>5. QED
    BY <1>1, <2>1, <2>2, <2>3, <2>4 DEF TypeOK
<1>3. ActorsHaveReports'
  BY DEF RequeueReport, Answer, Serve, TypeOK, queueVars, workVars, handleVars, pastVars,
     WorkStage, HandleStage, ActorsHaveReports
<1>4. PathsWritten'
  BY DEF RequeueReport, Answer, Serve, TypeOK, queueVars, workVars, handleVars, pastVars,
     WorkStage, HandleStage, PathsWritten, ActorsHaveReports
<1>5. AboutToComplete'
  BY DEF RequeueReport, Answer, Serve, TypeOK, queueVars, workVars, handleVars, pastVars,
     WorkStage, HandleStage, AboutToComplete, OwnFileOrCause, GoneHasCause, BeingWritten,
     ActorsHaveReports
<1>6. ReadyHasOwnFile'
  BY DEF RequeueReport, Answer, Serve, TypeOK, queueVars, workVars, handleVars, pastVars,
     WorkStage, HandleStage, ReadyHasOwnFile, OwnFileOrCause, BeingWritten, ActorsHaveReports,
     PathsWritten
<1>7. QED
  BY <1>1, <1>2, <1>3, <1>4, <1>5, <1>6
     DEF IInv

\* The path is one of the row.
LEMMA DeleteReportPreserves ==
    ASSUME IInv, NEW h \in Handler, NEW r \in Report, DeleteReport(h, r)
    PROVE  IInv'
<1> USE QueueAssumption, ReportAssumption DEF IInv
<1>1. QueueTypeOK' /\ JobsLive'
  BY QueueIdle
     DEF DeleteReport, Serve, Arrive, TypeOK, queueVars
<1>2. TypeOK'
  <2>1. /\ second' \in 0..MaxSecond /\ status' \in [Report -> Status]
        /\ retries' \in [Report -> 0..MaxRetries] /\ arrived' \in 0..MaxRequests
    BY DEF DeleteReport, Serve, Arrive, TypeOK, queueVars, workVars, handleVars, pastVars,
       Status, ActorsHaveReports
  <2>2. /\ path' \in [Report -> Path \cup {None}]
        /\ files' \in [Path -> Report \cup {None, Partial}]
        /\ wrote' \subseteq Path \X Report /\ spoilt' \subseteq Path \X Report
        /\ deleting' \subseteq Report
    BY DEF DeleteReport, Serve, Arrive, TypeOK, queueVars, workVars, handleVars, pastVars,
       ActorsHaveReports, PathsWritten, AboutToComplete
  <2>3. /\ wstage' \in [Worker -> WorkStage] /\ wjob' \in [Worker -> JobId \cup {None}]
        /\ wpath' \in [Worker -> Path \cup {None}]
    BY DEF DeleteReport, Serve, Arrive, TypeOK, queueVars, workVars, handleVars, pastVars,
       WorkStage
  <2>4. /\ hstage' \in [Handler -> HandleStage] /\ hreport' \in [Handler -> Report \cup {None}]
        /\ hpath' \in [Handler -> Path \cup {None}]
    BY DEF DeleteReport, Serve, Arrive, TypeOK, queueVars, workVars, handleVars, pastVars,
       HandleStage
  <2>5. QED
    BY <1>1, <2>1, <2>2, <2>3, <2>4 DEF TypeOK
<1>3. ActorsHaveReports'
  BY DEF DeleteReport, Serve, Arrive, TypeOK, queueVars, workVars, handleVars, pastVars,
     WorkStage, HandleStage, ActorsHaveReports
<1>4. PathsWritten'
  BY DEF DeleteReport, Serve, Arrive, TypeOK, queueVars, workVars, handleVars, pastVars,
     WorkStage, HandleStage, PathsWritten, ActorsHaveReports
<1>5. AboutToComplete'
  BY DEF DeleteReport, Serve, Arrive, TypeOK, queueVars, workVars, handleVars, pastVars,
     WorkStage, HandleStage, AboutToComplete, OwnFileOrCause, GoneHasCause, BeingWritten,
     ActorsHaveReports
<1>6. ReadyHasOwnFile'
  BY DEF DeleteReport, Serve, Arrive, TypeOK, queueVars, workVars, handleVars, pastVars,
     WorkStage, HandleStage, ReadyHasOwnFile, OwnFileOrCause, BeingWritten, ActorsHaveReports,
     PathsWritten
<1>7. QED
  BY <1>1, <1>2, <1>3, <1>4, <1>5, <1>6
     DEF IInv

\* The file was written for the report being deleted, so a report that loses it shares its name.
LEMMA UnlinkFilePreserves ==
    ASSUME IInv, NEW h \in Handler, UnlinkFile(h)
    PROVE  IInv'
<1> USE QueueAssumption, ReportAssumption DEF IInv
<1>1. QueueTypeOK' /\ JobsLive'
  BY QueueIdle
     DEF UnlinkFile, Serve, TypeOK, queueVars
<1>2. TypeOK'
  <2>1. /\ second' \in 0..MaxSecond /\ status' \in [Report -> Status]
        /\ retries' \in [Report -> 0..MaxRetries] /\ arrived' \in 0..MaxRequests
    BY DEF UnlinkFile, Serve, TypeOK, queueVars, workVars, handleVars, pastVars, Status,
       ActorsHaveReports
  <2>2. /\ path' \in [Report -> Path \cup {None}]
        /\ files' \in [Path -> Report \cup {None, Partial}]
        /\ wrote' \subseteq Path \X Report /\ spoilt' \subseteq Path \X Report
        /\ deleting' \subseteq Report
    BY DEF UnlinkFile, Serve, TypeOK, queueVars, workVars, handleVars, pastVars,
       ActorsHaveReports, PathsWritten, AboutToComplete
  <2>3. /\ wstage' \in [Worker -> WorkStage] /\ wjob' \in [Worker -> JobId \cup {None}]
        /\ wpath' \in [Worker -> Path \cup {None}]
    BY DEF UnlinkFile, Serve, TypeOK, queueVars, workVars, handleVars, pastVars, WorkStage
  <2>4. /\ hstage' \in [Handler -> HandleStage] /\ hreport' \in [Handler -> Report \cup {None}]
        /\ hpath' \in [Handler -> Path \cup {None}]
    BY DEF UnlinkFile, Serve, TypeOK, queueVars, workVars, handleVars, pastVars, HandleStage
  <2>5. QED
    BY <1>1, <2>1, <2>2, <2>3, <2>4 DEF TypeOK
<1>3. ActorsHaveReports'
  BY DEF UnlinkFile, Serve, TypeOK, queueVars, workVars, handleVars, pastVars, WorkStage,
     HandleStage, ActorsHaveReports
<1>4. PathsWritten'
  BY DEF UnlinkFile, Serve, TypeOK, queueVars, workVars, handleVars, pastVars, WorkStage,
     HandleStage, PathsWritten, ActorsHaveReports
<1>5. /\ \A p \in Path, r \in Report : OwnFileOrCause(p, r) => OwnFileOrCause(p, r)'
      /\ \A p \in Path, r \in Report : GoneHasCause(p, r) => GoneHasCause(p, r)'
  <2>1. PICK s \in Report, f \in Path : s = hreport[h] /\ f = hpath[h]
    BY DEF UnlinkFile, PathsWritten, ActorsHaveReports
  <2>2. <<f, s>> \in wrote
    BY <2>1 DEF UnlinkFile, PathsWritten
  <2>3. UNCHANGED <<workVars, wrote>>
    BY DEF UnlinkFile
  <2>4. \/ UNCHANGED <<files, spoilt>>
        \/ /\ \A p \in Path \ {f} : files'[p] = files[p]
           /\ spoilt' = spoilt \cup {<<f, s>>}
    BY <2>1 DEF UnlinkFile, TypeOK
  <2>5. \A p \in Path, r \in Report : BeingWritten(p, r) => BeingWritten(p, r)'
    BY <2>3 DEF BeingWritten, workVars
  <2>6. QED
    BY <2>2, <2>3, <2>4, <2>5 DEF OwnFileOrCause, GoneHasCause
<1>6. AboutToComplete' /\ ReadyHasOwnFile'
  <2>1. UNCHANGED <<workVars, wrote, status, path>>
    BY DEF UnlinkFile
  <2>2. ReadyHasOwnFile'
    BY <1>5, <2>1, RowsKept
  <2>3. \A w \in Worker : wstage[w] # "idle" => ReportOf(wjob[w]) \in Report
    BY DEF ActorsHaveReports, ReportOf
  <2>4. AboutToComplete'
    BY <1>5, <2>1, <2>3 DEF AboutToComplete, workVars
  <2>5. QED
    BY <2>2, <2>4
<1>7. QED
  BY <1>1, <1>2, <1>3, <1>4, <1>5, <1>6
     DEF IInv

\* The row goes, path and status.
LEMMA DropReportPreserves ==
    ASSUME IInv, NEW h \in Handler, DropReport(h)
    PROVE  IInv'
<1> USE QueueAssumption, ReportAssumption DEF IInv
<1>1. QueueTypeOK' /\ JobsLive'
  BY QueueIdle
     DEF DropReport, Answer, Serve, TypeOK, queueVars
<1>2. TypeOK'
  <2>1. /\ second' \in 0..MaxSecond /\ status' \in [Report -> Status]
        /\ retries' \in [Report -> 0..MaxRetries] /\ arrived' \in 0..MaxRequests
    BY DEF DropReport, Answer, Serve, TypeOK, queueVars, workVars, handleVars, pastVars,
       Status, ActorsHaveReports
  <2>2. /\ path' \in [Report -> Path \cup {None}]
        /\ files' \in [Path -> Report \cup {None, Partial}]
        /\ wrote' \subseteq Path \X Report /\ spoilt' \subseteq Path \X Report
        /\ deleting' \subseteq Report
    BY DEF DropReport, Answer, Serve, TypeOK, queueVars, workVars, handleVars, pastVars,
       ActorsHaveReports, PathsWritten, AboutToComplete
  <2>3. /\ wstage' \in [Worker -> WorkStage] /\ wjob' \in [Worker -> JobId \cup {None}]
        /\ wpath' \in [Worker -> Path \cup {None}]
    BY DEF DropReport, Answer, Serve, TypeOK, queueVars, workVars, handleVars, pastVars,
       WorkStage
  <2>4. /\ hstage' \in [Handler -> HandleStage] /\ hreport' \in [Handler -> Report \cup {None}]
        /\ hpath' \in [Handler -> Path \cup {None}]
    BY DEF DropReport, Answer, Serve, TypeOK, queueVars, workVars, handleVars, pastVars,
       HandleStage
  <2>5. QED
    BY <1>1, <2>1, <2>2, <2>3, <2>4 DEF TypeOK
<1>3. ActorsHaveReports'
  BY DEF DropReport, Answer, Serve, TypeOK, queueVars, workVars, handleVars, pastVars,
     WorkStage, HandleStage, ActorsHaveReports
<1>4. PathsWritten'
  BY DEF DropReport, Answer, Serve, TypeOK, queueVars, workVars, handleVars, pastVars,
     WorkStage, HandleStage, PathsWritten, ActorsHaveReports
<1>5. AboutToComplete'
  BY DEF DropReport, Answer, Serve, TypeOK, queueVars, workVars, handleVars, pastVars,
     WorkStage, HandleStage, AboutToComplete, OwnFileOrCause, GoneHasCause, BeingWritten,
     ActorsHaveReports
<1>6. ReadyHasOwnFile'
  BY DEF DropReport, Answer, Serve, TypeOK, queueVars, workVars, handleVars, pastVars,
     WorkStage, HandleStage, ReadyHasOwnFile, OwnFileOrCause, BeingWritten, ActorsHaveReports,
     PathsWritten
<1>7. QED
  BY <1>1, <1>2, <1>3, <1>4, <1>5, <1>6
     DEF IInv

\* Only the request ends.
LEMMA AbandonPreserves ==
    ASSUME IInv, NEW h \in Handler, Abandon(h)
    PROVE  IInv'
<1> USE QueueAssumption, ReportAssumption DEF IInv
<1>1. QueueTypeOK' /\ JobsLive'
  BY QueueIdle
     DEF Abandon, Answer, Serve, TypeOK, queueVars
<1>2. TypeOK'
  <2>1. /\ second' \in 0..MaxSecond /\ status' \in [Report -> Status]
        /\ retries' \in [Report -> 0..MaxRetries] /\ arrived' \in 0..MaxRequests
    BY DEF Abandon, Answer, Serve, TypeOK, queueVars, workVars, handleVars, pastVars, Status,
       ActorsHaveReports
  <2>2. /\ path' \in [Report -> Path \cup {None}]
        /\ files' \in [Path -> Report \cup {None, Partial}]
        /\ wrote' \subseteq Path \X Report /\ spoilt' \subseteq Path \X Report
        /\ deleting' \subseteq Report
    BY DEF Abandon, Answer, Serve, TypeOK, queueVars, workVars, handleVars, pastVars,
       ActorsHaveReports, PathsWritten, AboutToComplete
  <2>3. /\ wstage' \in [Worker -> WorkStage] /\ wjob' \in [Worker -> JobId \cup {None}]
        /\ wpath' \in [Worker -> Path \cup {None}]
    BY DEF Abandon, Answer, Serve, TypeOK, queueVars, workVars, handleVars, pastVars, WorkStage
  <2>4. /\ hstage' \in [Handler -> HandleStage] /\ hreport' \in [Handler -> Report \cup {None}]
        /\ hpath' \in [Handler -> Path \cup {None}]
    BY DEF Abandon, Answer, Serve, TypeOK, queueVars, workVars, handleVars, pastVars,
       HandleStage
  <2>5. QED
    BY <1>1, <2>1, <2>2, <2>3, <2>4 DEF TypeOK
<1>3. ActorsHaveReports'
  BY DEF Abandon, Answer, Serve, TypeOK, queueVars, workVars, handleVars, pastVars, WorkStage,
     HandleStage, ActorsHaveReports
<1>4. PathsWritten'
  BY DEF Abandon, Answer, Serve, TypeOK, queueVars, workVars, handleVars, pastVars, WorkStage,
     HandleStage, PathsWritten, ActorsHaveReports
<1>5. AboutToComplete'
  BY DEF Abandon, Answer, Serve, TypeOK, queueVars, workVars, handleVars, pastVars, WorkStage,
     HandleStage, AboutToComplete, OwnFileOrCause, GoneHasCause, BeingWritten,
     ActorsHaveReports
<1>6. ReadyHasOwnFile'
  BY DEF Abandon, Answer, Serve, TypeOK, queueVars, workVars, handleVars, pastVars, WorkStage,
     HandleStage, ReadyHasOwnFile, OwnFileOrCause, BeingWritten, ActorsHaveReports,
     PathsWritten
<1>7. QED
  BY <1>1, <1>2, <1>3, <1>4, <1>5, <1>6
     DEF IInv

\* The worker has a job.
LEMMA TakePreserves ==
    ASSUME IInv, NEW w \in Worker, NEW j \in JobId, Take(w, j)
    PROVE  IInv'
<1> USE QueueAssumption, ReportAssumption DEF IInv
<1>1. QueueTypeOK' /\ JobsLive'
  BY QueueSteps
     DEF Take, Run, TypeOK
<1>2. TypeOK'
  <2>1. /\ second' \in 0..MaxSecond /\ status' \in [Report -> Status]
        /\ retries' \in [Report -> 0..MaxRetries] /\ arrived' \in 0..MaxRequests
    BY DEF Take, Run, TypeOK, queueVars, workVars, handleVars, pastVars, Status,
       ActorsHaveReports
  <2>2. /\ path' \in [Report -> Path \cup {None}]
        /\ files' \in [Path -> Report \cup {None, Partial}]
        /\ wrote' \subseteq Path \X Report /\ spoilt' \subseteq Path \X Report
        /\ deleting' \subseteq Report
    BY DEF Take, Run, TypeOK, queueVars, workVars, handleVars, pastVars, ActorsHaveReports,
       PathsWritten, AboutToComplete
  <2>3. /\ wstage' \in [Worker -> WorkStage] /\ wjob' \in [Worker -> JobId \cup {None}]
        /\ wpath' \in [Worker -> Path \cup {None}]
    BY DEF Take, Run, TypeOK, queueVars, workVars, handleVars, pastVars, WorkStage
  <2>4. /\ hstage' \in [Handler -> HandleStage] /\ hreport' \in [Handler -> Report \cup {None}]
        /\ hpath' \in [Handler -> Path \cup {None}]
    BY DEF Take, Run, TypeOK, queueVars, workVars, handleVars, pastVars, HandleStage
  <2>5. QED
    BY <1>1, <2>1, <2>2, <2>3, <2>4 DEF TypeOK
<1>3. ActorsHaveReports'
  BY DEF Take, Run, TypeOK, queueVars, workVars, handleVars, pastVars, WorkStage, HandleStage,
     ActorsHaveReports
<1>4. PathsWritten'
  BY DEF Take, Run, TypeOK, queueVars, workVars, handleVars, pastVars, WorkStage, HandleStage,
     PathsWritten, ActorsHaveReports
<1>5. /\ AboutToComplete'
      /\ \A p \in Path, r \in Report : OwnFileOrCause(p, r) => OwnFileOrCause(p, r)'
  <2>1. /\ wstage[w] # "write" /\ UNCHANGED <<files, wrote, spoilt>>
        /\ wstage'[w] \in {"idle", "begin", "save", "fail"}
        /\ \A v \in Worker \ {w} :
               wstage'[v] = wstage[v] /\ wjob'[v] = wjob[v] /\ wpath'[v] = wpath[v]
    BY DEF Take, Run, TypeOK, pastVars
  <2>2. QED
    BY <2>1, QuietWorker
<1>6. ReadyHasOwnFile'
  <2>1. \A r \in Report : status'[r] = "COMPLETED" =>
            status[r] = "COMPLETED" /\ path'[r] = path[r]
    BY DEF Take, TypeOK
  <2>2. QED
    BY <1>5, <2>1, RowsKept
<1>7. QED
  BY <1>1, <1>2, <1>3, <1>4, <1>5, <1>6
     DEF IInv

\* The report is not complete any more.
LEMMA BeginPreserves ==
    ASSUME IInv, NEW w \in Worker, Begin(w)
    PROVE  IInv'
<1> USE QueueAssumption, ReportAssumption DEF IInv
<1>1. QueueTypeOK' /\ JobsLive'
  BY QueueIdle
     DEF Begin, Run, TypeOK, queueVars
<1>2. TypeOK'
  <2>1. /\ second' \in 0..MaxSecond /\ status' \in [Report -> Status]
        /\ retries' \in [Report -> 0..MaxRetries] /\ arrived' \in 0..MaxRequests
    BY DEF Begin, Run, TypeOK, queueVars, workVars, handleVars, pastVars, Status,
       ActorsHaveReports
  <2>2. /\ path' \in [Report -> Path \cup {None}]
        /\ files' \in [Path -> Report \cup {None, Partial}]
        /\ wrote' \subseteq Path \X Report /\ spoilt' \subseteq Path \X Report
        /\ deleting' \subseteq Report
    BY DEF Begin, Run, TypeOK, queueVars, workVars, handleVars, pastVars, ActorsHaveReports,
       PathsWritten, AboutToComplete
  <2>3. /\ wstage' \in [Worker -> WorkStage] /\ wjob' \in [Worker -> JobId \cup {None}]
        /\ wpath' \in [Worker -> Path \cup {None}]
    BY DEF Begin, Run, TypeOK, queueVars, workVars, handleVars, pastVars, WorkStage
  <2>4. /\ hstage' \in [Handler -> HandleStage] /\ hreport' \in [Handler -> Report \cup {None}]
        /\ hpath' \in [Handler -> Path \cup {None}]
    BY DEF Begin, Run, TypeOK, queueVars, workVars, handleVars, pastVars, HandleStage
  <2>5. QED
    BY <1>1, <2>1, <2>2, <2>3, <2>4 DEF TypeOK
<1>3. ActorsHaveReports'
  BY DEF Begin, Run, TypeOK, queueVars, workVars, handleVars, pastVars, WorkStage, HandleStage,
     ActorsHaveReports
<1>4. PathsWritten'
  BY DEF Begin, Run, TypeOK, queueVars, workVars, handleVars, pastVars, WorkStage, HandleStage,
     PathsWritten, ActorsHaveReports
<1>5. /\ AboutToComplete'
      /\ \A p \in Path, r \in Report : OwnFileOrCause(p, r) => OwnFileOrCause(p, r)'
  <2>1. /\ wstage[w] # "write" /\ UNCHANGED <<files, wrote, spoilt>>
        /\ wstage'[w] \in {"idle", "begin", "save", "fail"}
        /\ \A v \in Worker \ {w} :
               wstage'[v] = wstage[v] /\ wjob'[v] = wjob[v] /\ wpath'[v] = wpath[v]
    BY DEF Begin, Run, TypeOK, pastVars
  <2>2. QED
    BY <2>1, QuietWorker
<1>6. ReadyHasOwnFile'
  <2>1. \A r \in Report : status'[r] = "COMPLETED" =>
            status[r] = "COMPLETED" /\ path'[r] = path[r]
    BY DEF Begin, TypeOK
  <2>2. QED
    BY <1>5, <2>1, RowsKept
<1>7. QED
  BY <1>1, <1>2, <1>3, <1>4, <1>5, <1>6
     DEF IInv

\* A name under which any report on the subject may have been written.
LEMMA SaveFilePreserves ==
    ASSUME IInv, NEW w \in Worker, SaveFile(w)
    PROVE  IInv'
<1> USE QueueAssumption, ReportAssumption DEF IInv
<1>1. QueueTypeOK' /\ JobsLive'
  BY QueueIdle DEF SaveFile, TypeOK
<1>2. TypeOK'
  <2>1. /\ second' \in 0..MaxSecond /\ status' \in [Report -> Status]
        /\ path' \in [Report -> Path \cup {None}]
        /\ retries' \in [Report -> 0..MaxRetries] /\ arrived' \in 0..MaxRequests
        /\ hstage' \in [Handler -> HandleStage] /\ hreport' \in [Handler -> Report \cup {None}]
        /\ hpath' \in [Handler -> Path \cup {None}] /\ deleting' \subseteq Report
    BY DEF SaveFile, TypeOK, handleVars, pastVars
  <2>2. /\ files' \in [Path -> Report \cup {None, Partial}]
        /\ wrote' \subseteq Path \X Report /\ spoilt' \subseteq Path \X Report
    BY DEF SaveFile, TypeOK, pastVars
  <2>3. /\ wstage' \in [Worker -> WorkStage] /\ wjob' \in [Worker -> JobId \cup {None}]
        /\ wpath' \in [Worker -> Path \cup {None}]
    <3>1. <<Subject[ReportOf(wjob[w])], second>> \in Path /\ wjob[w] \in JobId
      BY DEF SaveFile, ActorsHaveReports, ReportOf, TypeOK, Path
    <3>2. QED
      BY <3>1 DEF SaveFile, Run, TypeOK, WorkStage
  <2>4. QED
    BY <1>1, <2>1, <2>2, <2>3 DEF TypeOK
<1>3. ActorsHaveReports'
  BY DEF SaveFile, Run, TypeOK, handleVars, ActorsHaveReports
<1>4. PathsWritten'
  BY DEF SaveFile, Run, TypeOK, handleVars, pastVars, PathsWritten
<1>5. /\ AboutToComplete'
      /\ \A p \in Path, r \in Report : OwnFileOrCause(p, r) => OwnFileOrCause(p, r)'
  <2>1. <<Subject[ReportOf(wjob[w])], second>> \in Path
    BY DEF SaveFile, ActorsHaveReports, ReportOf, TypeOK, Path
  <2>2. /\ wstage[w] # "write" /\ UNCHANGED <<files, wrote, spoilt>>
        /\ \/ wstage'[w] = "open" /\ wpath'[w] \in Path
           \/ wstage'[w] = "fail"
        /\ \A v \in Worker \ {w} :
               wstage'[v] = wstage[v] /\ wjob'[v] = wjob[v] /\ wpath'[v] = wpath[v]
    BY <2>1 DEF SaveFile, Run, TypeOK, pastVars
  <2>3. QED
    BY <2>2, QuietWorker
<1>6. ReadyHasOwnFile'
  BY <1>5, RowsKept DEF SaveFile
<1>7. QED
  BY <1>1, <1>2, <1>3, <1>4, <1>5, <1>6 DEF IInv

\* Whoever loses its file to the opened one shares its name, or is the report itself.
LEMMA OpenFilePreserves ==
    ASSUME IInv, NEW w \in Worker, OpenFile(w)
    PROVE  IInv'
<1> USE QueueAssumption, ReportAssumption DEF IInv
<1>1. QueueTypeOK' /\ JobsLive'
  BY QueueIdle DEF OpenFile, TypeOK
<1>2. TypeOK'
  <2>1. /\ second' \in 0..MaxSecond /\ status' \in [Report -> Status]
        /\ path' \in [Report -> Path \cup {None}]
        /\ retries' \in [Report -> 0..MaxRetries] /\ arrived' \in 0..MaxRequests
        /\ hstage' \in [Handler -> HandleStage] /\ hreport' \in [Handler -> Report \cup {None}]
        /\ hpath' \in [Handler -> Path \cup {None}] /\ deleting' \subseteq Report
    BY DEF OpenFile, TypeOK, handleVars, pastVars
  <2>2. /\ files' \in [Path -> Report \cup {None, Partial}]
        /\ wrote' \subseteq Path \X Report /\ spoilt' \subseteq Path \X Report
    <3>1. wpath[w] \in Path /\ ReportOf(wjob[w]) \in Report
      BY DEF OpenFile, AboutToComplete, ActorsHaveReports, ReportOf
    <3>2. QED
      BY <3>1 DEF OpenFile, TypeOK
  <2>3. /\ wstage' \in [Worker -> WorkStage] /\ wjob' \in [Worker -> JobId \cup {None}]
        /\ wpath' \in [Worker -> Path \cup {None}]
    BY DEF OpenFile, Run, TypeOK, WorkStage
  <2>4. QED
    BY <1>1, <2>1, <2>2, <2>3 DEF TypeOK
<1>3. ActorsHaveReports'
  BY DEF OpenFile, Run, TypeOK, handleVars, ActorsHaveReports
<1>4. PathsWritten'
  BY DEF OpenFile, Run, TypeOK, handleVars, pastVars, PathsWritten
<1>5. /\ AboutToComplete'
      /\ \A p \in Path, r \in Report : OwnFileOrCause(p, r) => OwnFileOrCause(p, r)'
  <2>1. PICK s \in Report, f \in Path : s = ReportOf(wjob[w]) /\ f = wpath[w]
    BY DEF OpenFile, AboutToComplete, ActorsHaveReports, ReportOf, WorkStage
  <2>2. /\ wstage[w] = "open" /\ spoilt' = spoilt
        /\ \A v \in Worker \ {w} :
               wstage'[v] = wstage[v] /\ wjob'[v] = wjob[v] /\ wpath'[v] = wpath[v]
    BY DEF OpenFile, Run, TypeOK
  <2>3. \A p \in Path, r \in Report : BeingWritten(p, r) => BeingWritten(p, r)'
    BY <2>2 DEF BeingWritten
  <2>4. CASE UNCHANGED <<files, wrote>> /\ Run(w, "fail", wjob[w], None)
    <3>1. wstage'[w] = "fail"
      BY <2>4 DEF Run, TypeOK
    <3>2. QED
      BY <2>2, <2>4, <3>1, QuietWorker
  <2>5. CASE /\ files' = [files EXCEPT ![f] = Partial] /\ wrote' = wrote \cup {<<f, s>>}
             /\ Run(w, "write", wjob[w], f)
    <3>1. /\ wstage'[w] = "write" /\ wpath'[w] = f /\ wjob'[w] = wjob[w]
          /\ <<f, s>> \in wrote' /\ wrote \subseteq wrote'
          /\ files'[f] = Partial /\ \A p \in Path \ {f} : files'[p] = files[p]
      BY <2>5 DEF Run, TypeOK
    <3>2. BeingWritten(f, s)'
      BY <2>1, <3>1 DEF BeingWritten
    <3>3. \A p \in Path, r \in Report : OwnFileOrCause(p, r) => OwnFileOrCause(p, r)'
      BY <2>2, <2>3, <3>1, <3>2 DEF OwnFileOrCause
    <3>4. \A p \in Path, r \in Report : GoneHasCause(p, r) => GoneHasCause(p, r)'
      BY <2>2, <3>1 DEF GoneHasCause
    <3>5. GoneHasCause(wpath[w], ReportOf(wjob[w]))'
      BY <2>1, <3>1 DEF GoneHasCause
    <3>6. QED
      BY <2>1, <2>2, <3>1, <3>3, <3>4, <3>5, OthersComplete
  <2>6. QED
    BY <2>1, <2>4, <2>5 DEF OpenFile
<1>6. ReadyHasOwnFile'
  BY <1>5, RowsKept DEF OpenFile
<1>7. QED
  BY <1>1, <1>2, <1>3, <1>4, <1>5, <1>6 DEF IInv

\* A file cut short is named so; other reports that lose theirs share its name.
LEMMA CutShortKeeps ==
    ASSUME IInv, NEW w \in Worker, wstage[w] = "write", CutShort(w), wrote' = wrote,
           wstage'[w] \in {"idle", "fail"},
           \A v \in Worker \ {w} :
               wstage'[v] = wstage[v] /\ wjob'[v] = wjob[v] /\ wpath'[v] = wpath[v]
    PROVE  /\ AboutToComplete'
           /\ \A p \in Path, r \in Report : OwnFileOrCause(p, r) => OwnFileOrCause(p, r)'
           /\ files' \in [Path -> Report \cup {None, Partial}]
           /\ spoilt' \subseteq Path \X Report
<1> USE ReportAssumption DEF IInv
<1>1. PICK s \in Report, f \in Path : s = ReportOf(wjob[w]) /\ f = wpath[w]
  BY DEF AboutToComplete, ActorsHaveReports, ReportOf
<1>2. <<f, s>> \in wrote
  BY <1>1 DEF AboutToComplete
<1>3. /\ spoilt' = spoilt \cup {<<f, s>>}
      /\ files' = [files EXCEPT ![f] = IF files[f] = None THEN None ELSE Partial]
  BY <1>1 DEF CutShort, Fill, TypeOK
<1>4. /\ \A p \in Path \ {f} : files'[p] = files[p]
      /\ files[f] # None => files'[f] # None
  BY <1>3 DEF TypeOK
<1>5. \A p \in Path, r \in Report :
          BeingWritten(p, r) => BeingWritten(p, r)' \/ (p = f /\ r = s)
  BY <1>1 DEF BeingWritten
<1>6. \A p \in Path, r \in Report : OwnFileOrCause(p, r) => OwnFileOrCause(p, r)'
  BY <1>2, <1>3, <1>4, <1>5 DEF OwnFileOrCause
<1>7. \A p \in Path, r \in Report : GoneHasCause(p, r) => GoneHasCause(p, r)'
  BY <1>3, <1>4 DEF GoneHasCause
<1>8. AboutToComplete'
  BY <1>6, <1>7, OthersComplete
<1>9. QED
  BY <1>3, <1>6, <1>8 DEF TypeOK

\* The file has the report's data, or was gone for a cause, or is cut short.
LEMMA WriteFilePreserves ==
    ASSUME IInv, NEW w \in Worker, WriteFile(w)
    PROVE  IInv'
<1> USE QueueAssumption, ReportAssumption DEF IInv
<1>1. QueueTypeOK' /\ JobsLive'
  BY QueueIdle DEF WriteFile, TypeOK
<1>2. TypeOK'
  <2>1. /\ second' \in 0..MaxSecond /\ status' \in [Report -> Status]
        /\ path' \in [Report -> Path \cup {None}]
        /\ retries' \in [Report -> 0..MaxRetries] /\ arrived' \in 0..MaxRequests
        /\ hstage' \in [Handler -> HandleStage] /\ hreport' \in [Handler -> Report \cup {None}]
        /\ hpath' \in [Handler -> Path \cup {None}] /\ deleting' \subseteq Report
    BY DEF WriteFile, TypeOK, handleVars, pastVars
  <2>2. /\ files' \in [Path -> Report \cup {None, Partial}]
        /\ wrote' \subseteq Path \X Report /\ spoilt' \subseteq Path \X Report
    <3>1. wpath[w] \in Path /\ ReportOf(wjob[w]) \in Report
      BY DEF WriteFile, AboutToComplete, ActorsHaveReports, ReportOf
    <3>2. QED
      BY <3>1 DEF WriteFile, CutShort, Fill, TypeOK
  <2>3. /\ wstage' \in [Worker -> WorkStage] /\ wjob' \in [Worker -> JobId \cup {None}]
        /\ wpath' \in [Worker -> Path \cup {None}]
    BY DEF WriteFile, Run, TypeOK, WorkStage
  <2>4. QED
    BY <1>1, <2>1, <2>2, <2>3 DEF TypeOK
<1>3. ActorsHaveReports'
  BY DEF WriteFile, Run, TypeOK, handleVars, ActorsHaveReports
<1>4. PathsWritten'
  BY DEF WriteFile, Run, TypeOK, handleVars, pastVars, PathsWritten
<1>5. /\ AboutToComplete'
      /\ \A p \in Path, r \in Report : OwnFileOrCause(p, r) => OwnFileOrCause(p, r)'
  <2>1. PICK s \in Report, f \in Path : s = ReportOf(wjob[w]) /\ f = wpath[w]
    BY DEF WriteFile, AboutToComplete, ActorsHaveReports, ReportOf, WorkStage
  <2>2. /\ wstage[w] = "write" /\ wrote' = wrote /\ <<f, s>> \in wrote
        /\ GoneHasCause(f, s)
        /\ \A v \in Worker \ {w} :
               wstage'[v] = wstage[v] /\ wjob'[v] = wjob[v] /\ wpath'[v] = wpath[v]
    BY <2>1 DEF WriteFile, Run, TypeOK, AboutToComplete
  <2>3. CASE CutShort(w) /\ Run(w, "fail", wjob[w], None)
    <3>1. wstage'[w] = "fail"
      BY <2>3 DEF Run, TypeOK
    <3>2. QED
      BY <2>2, <2>3, <3>1, CutShortKeeps
  <2>4. CASE Fill(f, s) /\ Run(w, "complete", wjob[w], f) /\ spoilt' = spoilt
    <3>1. wstage'[w] = "complete" /\ wpath'[w] = f /\ wjob'[w] = wjob[w]
      BY <2>4 DEF Run, TypeOK
    <3>2. /\ files[f] # None => files'[f] = s
          /\ files[f] = None => files'[f] = None
          /\ \A p \in Path \ {f} : files'[p] = files[p]
      BY <2>4 DEF Fill, TypeOK
    <3>3. OwnFileOrCause(f, s)'
      BY <2>2, <2>4, <3>2 DEF OwnFileOrCause, GoneHasCause
    <3>4. \A p \in Path, r \in Report :
              BeingWritten(p, r) => BeingWritten(p, r)' \/ (p = f /\ r = s)
      BY <2>1, <2>2 DEF BeingWritten
    <3>5. \A p \in Path, r \in Report : OwnFileOrCause(p, r) => OwnFileOrCause(p, r)'
      BY <2>2, <2>4, <3>2, <3>3, <3>4 DEF OwnFileOrCause
    <3>6. \A p \in Path, r \in Report : GoneHasCause(p, r) => GoneHasCause(p, r)'
      BY <2>2, <2>4, <3>2 DEF GoneHasCause
    <3>7. OwnFileOrCause(wpath[w], ReportOf(wjob[w]))'
      BY <2>1, <3>1, <3>3 DEF OwnFileOrCause, BeingWritten
    <3>8. QED
      BY <2>1, <2>2, <3>1, <3>5, <3>6, <3>7, OthersComplete
  <2>5. QED
    BY <2>1, <2>3, <2>4 DEF WriteFile
<1>6. ReadyHasOwnFile'
  BY <1>5, RowsKept DEF WriteFile
<1>7. QED
  BY <1>1, <1>2, <1>3, <1>4, <1>5, <1>6 DEF IInv

\* The path was written, and its file is there or has a cause.
LEMMA CompletePreserves ==
    ASSUME IInv, NEW w \in Worker, Complete(w)
    PROVE  IInv'
<1> USE QueueAssumption, ReportAssumption DEF IInv
<1>1. QueueTypeOK' /\ JobsLive'
  BY QueueSteps, QueueIdle
     DEF Complete, Quit, Run, TypeOK, ActorsHaveReports, queueVars
<1>2. TypeOK'
  <2>1. /\ second' \in 0..MaxSecond /\ status' \in [Report -> Status]
        /\ retries' \in [Report -> 0..MaxRetries] /\ arrived' \in 0..MaxRequests
    BY DEF Complete, Quit, Run, TypeOK, queueVars, workVars, handleVars, pastVars, Status,
       ActorsHaveReports
  <2>2. /\ path' \in [Report -> Path \cup {None}]
        /\ files' \in [Path -> Report \cup {None, Partial}]
        /\ wrote' \subseteq Path \X Report /\ spoilt' \subseteq Path \X Report
        /\ deleting' \subseteq Report
    BY DEF Complete, Quit, Run, TypeOK, queueVars, workVars, handleVars, pastVars,
       ActorsHaveReports, PathsWritten, AboutToComplete
  <2>3. /\ wstage' \in [Worker -> WorkStage] /\ wjob' \in [Worker -> JobId \cup {None}]
        /\ wpath' \in [Worker -> Path \cup {None}]
    BY DEF Complete, Quit, Run, TypeOK, queueVars, workVars, handleVars, pastVars, WorkStage
  <2>4. /\ hstage' \in [Handler -> HandleStage] /\ hreport' \in [Handler -> Report \cup {None}]
        /\ hpath' \in [Handler -> Path \cup {None}]
    BY DEF Complete, Quit, Run, TypeOK, queueVars, workVars, handleVars, pastVars, HandleStage
  <2>5. QED
    BY <1>1, <2>1, <2>2, <2>3, <2>4 DEF TypeOK
<1>3. ActorsHaveReports'
  BY DEF Complete, Quit, Run, TypeOK, queueVars, workVars, handleVars, pastVars, WorkStage,
     HandleStage, ActorsHaveReports
<1>4. PathsWritten'
  <2>1. ReportOf(wjob[w]) \in Report
    BY DEF Complete, ActorsHaveReports, ReportOf, WorkStage
  <2>2. /\ path' = [path EXCEPT ![ReportOf(wjob[w])] = wpath[w]]
        /\ <<wpath[w], ReportOf(wjob[w])>> \in wrote
        /\ UNCHANGED <<handleVars, wrote>>
    BY DEF Complete, AboutToComplete, pastVars
  <2>3. QED
    BY <2>1, <2>2 DEF PathsWritten, TypeOK, handleVars
<1>5. /\ AboutToComplete'
      /\ \A p \in Path, r \in Report : OwnFileOrCause(p, r) => OwnFileOrCause(p, r)'
  <2>1. /\ wstage[w] # "write" /\ UNCHANGED <<files, wrote, spoilt>>
        /\ wstage'[w] \in {"idle", "begin", "save", "fail"}
        /\ \A v \in Worker \ {w} :
               wstage'[v] = wstage[v] /\ wjob'[v] = wjob[v] /\ wpath'[v] = wpath[v]
    BY DEF Complete, Quit, Run, TypeOK, pastVars
  <2>2. QED
    BY <2>1, QuietWorker
<1>6. ReadyHasOwnFile'
  <2>1. PICK r \in Report : r = ReportOf(wjob[w])
    BY DEF Complete, ActorsHaveReports, ReportOf, WorkStage
  <2>2. /\ path' = [path EXCEPT ![r] = wpath[w]]
        /\ status' = [status EXCEPT ![r] = "COMPLETED"]
    BY <2>1 DEF Complete
  <2>3. PICK p \in Path : p = wpath[w]
    BY DEF Complete, AboutToComplete
  <2>4. p # None /\ OwnFileOrCause(p, r)'
    BY <1>5, <2>1, <2>3 DEF Complete, AboutToComplete, Path
  <2>5. SUFFICES ASSUME NEW g \in Report, status'[g] = "COMPLETED"
                 PROVE  path'[g] # None /\ OwnFileOrCause(path[g], g)'
    BY DEF ReadyHasOwnFile
  <2>6. CASE g = r
    <3>1. path'[g] = p
      BY <2>1, <2>2, <2>3, <2>6 DEF TypeOK
    <3>2. QED
      BY <2>4, <2>6, <3>1 DEF OwnFileOrCause, BeingWritten
  <2>7. CASE g # r
    <3>1. path'[g] = path[g] /\ path[g] # None /\ OwnFileOrCause(path[g], g)
      BY <2>2, <2>5, <2>7 DEF TypeOK, ReadyHasOwnFile
    <3>2. PICK q \in Path : q = path[g]
      BY <3>1 DEF TypeOK
    <3>3. OwnFileOrCause(q, g)'
      BY <1>5, <3>1, <3>2
    <3>4. QED
      BY <3>1, <3>2, <3>3 DEF OwnFileOrCause, BeingWritten
  <2>8. QED
    BY <2>6, <2>7
<1>7. QED
  BY <1>1, <1>2, <1>3, <1>4, <1>5, <1>6
     DEF IInv

\* Only the run goes on.
LEMMA CompleteFailsPreserves ==
    ASSUME IInv, NEW w \in Worker, CompleteFails(w)
    PROVE  IInv'
<1> USE QueueAssumption, ReportAssumption DEF IInv
<1>1. QueueTypeOK' /\ JobsLive'
  BY QueueIdle
     DEF CompleteFails, Run, TypeOK, queueVars
<1>2. TypeOK'
  <2>1. /\ second' \in 0..MaxSecond /\ status' \in [Report -> Status]
        /\ retries' \in [Report -> 0..MaxRetries] /\ arrived' \in 0..MaxRequests
    BY DEF CompleteFails, Run, TypeOK, queueVars, workVars, handleVars, pastVars, Status,
       ActorsHaveReports
  <2>2. /\ path' \in [Report -> Path \cup {None}]
        /\ files' \in [Path -> Report \cup {None, Partial}]
        /\ wrote' \subseteq Path \X Report /\ spoilt' \subseteq Path \X Report
        /\ deleting' \subseteq Report
    BY DEF CompleteFails, Run, TypeOK, queueVars, workVars, handleVars, pastVars,
       ActorsHaveReports, PathsWritten, AboutToComplete
  <2>3. /\ wstage' \in [Worker -> WorkStage] /\ wjob' \in [Worker -> JobId \cup {None}]
        /\ wpath' \in [Worker -> Path \cup {None}]
    BY DEF CompleteFails, Run, TypeOK, queueVars, workVars, handleVars, pastVars, WorkStage
  <2>4. /\ hstage' \in [Handler -> HandleStage] /\ hreport' \in [Handler -> Report \cup {None}]
        /\ hpath' \in [Handler -> Path \cup {None}]
    BY DEF CompleteFails, Run, TypeOK, queueVars, workVars, handleVars, pastVars, HandleStage
  <2>5. QED
    BY <1>1, <2>1, <2>2, <2>3, <2>4 DEF TypeOK
<1>3. ActorsHaveReports'
  BY DEF CompleteFails, Run, TypeOK, queueVars, workVars, handleVars, pastVars, WorkStage,
     HandleStage, ActorsHaveReports
<1>4. PathsWritten'
  BY DEF CompleteFails, Run, TypeOK, queueVars, workVars, handleVars, pastVars, WorkStage,
     HandleStage, PathsWritten, ActorsHaveReports
<1>5. /\ AboutToComplete'
      /\ \A p \in Path, r \in Report : OwnFileOrCause(p, r) => OwnFileOrCause(p, r)'
  <2>1. /\ wstage[w] # "write" /\ UNCHANGED <<files, wrote, spoilt>>
        /\ wstage'[w] \in {"idle", "begin", "save", "fail"}
        /\ \A v \in Worker \ {w} :
               wstage'[v] = wstage[v] /\ wjob'[v] = wjob[v] /\ wpath'[v] = wpath[v]
    BY DEF CompleteFails, Run, TypeOK, pastVars
  <2>2. QED
    BY <2>1, QuietWorker
<1>6. ReadyHasOwnFile'
  <2>1. \A r \in Report : status'[r] = "COMPLETED" =>
            status[r] = "COMPLETED" /\ path'[r] = path[r]
    BY DEF CompleteFails, TypeOK
  <2>2. QED
    BY <1>5, <2>1, RowsKept
<1>7. QED
  BY <1>1, <1>2, <1>3, <1>4, <1>5, <1>6
     DEF IInv

\* The report is not complete any more.
LEMMA FailPreserves ==
    ASSUME IInv, NEW w \in Worker, Fail(w)
    PROVE  IInv'
<1> USE QueueAssumption, ReportAssumption DEF IInv
<1>1. QueueTypeOK' /\ JobsLive'
  BY QueueSteps
     DEF Fail, Quit, Run, TypeOK, ActorsHaveReports
<1>2. TypeOK'
  <2>1. /\ second' \in 0..MaxSecond /\ status' \in [Report -> Status]
        /\ retries' \in [Report -> 0..MaxRetries] /\ arrived' \in 0..MaxRequests
    BY DEF Fail, Quit, Run, TypeOK, queueVars, workVars, handleVars, pastVars, Status,
       ActorsHaveReports
  <2>2. /\ path' \in [Report -> Path \cup {None}]
        /\ files' \in [Path -> Report \cup {None, Partial}]
        /\ wrote' \subseteq Path \X Report /\ spoilt' \subseteq Path \X Report
        /\ deleting' \subseteq Report
    BY DEF Fail, Quit, Run, TypeOK, queueVars, workVars, handleVars, pastVars,
       ActorsHaveReports, PathsWritten, AboutToComplete
  <2>3. /\ wstage' \in [Worker -> WorkStage] /\ wjob' \in [Worker -> JobId \cup {None}]
        /\ wpath' \in [Worker -> Path \cup {None}]
    BY DEF Fail, Quit, Run, TypeOK, queueVars, workVars, handleVars, pastVars, WorkStage
  <2>4. /\ hstage' \in [Handler -> HandleStage] /\ hreport' \in [Handler -> Report \cup {None}]
        /\ hpath' \in [Handler -> Path \cup {None}]
    BY DEF Fail, Quit, Run, TypeOK, queueVars, workVars, handleVars, pastVars, HandleStage
  <2>5. QED
    BY <1>1, <2>1, <2>2, <2>3, <2>4 DEF TypeOK
<1>3. ActorsHaveReports'
  BY DEF Fail, Quit, Run, TypeOK, queueVars, workVars, handleVars, pastVars, WorkStage,
     HandleStage, ActorsHaveReports
<1>4. PathsWritten'
  BY DEF Fail, Quit, Run, TypeOK, queueVars, workVars, handleVars, pastVars, WorkStage,
     HandleStage, PathsWritten, ActorsHaveReports
<1>5. /\ AboutToComplete'
      /\ \A p \in Path, r \in Report : OwnFileOrCause(p, r) => OwnFileOrCause(p, r)'
  <2>1. /\ wstage[w] # "write" /\ UNCHANGED <<files, wrote, spoilt>>
        /\ wstage'[w] \in {"idle", "begin", "save", "fail"}
        /\ \A v \in Worker \ {w} :
               wstage'[v] = wstage[v] /\ wjob'[v] = wjob[v] /\ wpath'[v] = wpath[v]
    BY DEF Fail, Quit, Run, TypeOK, pastVars
  <2>2. QED
    BY <2>1, QuietWorker
<1>6. ReadyHasOwnFile'
  <2>1. \A r \in Report : status'[r] = "COMPLETED" =>
            status[r] = "COMPLETED" /\ path'[r] = path[r]
    BY DEF Fail, TypeOK
  <2>2. QED
    BY <1>5, <2>1, RowsKept
<1>7. QED
  BY <1>1, <1>2, <1>3, <1>4, <1>5, <1>6
     DEF IInv

\* The run ends, the file it was writing is cut short.
LEMMA DiePreserves ==
    ASSUME IInv, NEW w \in Worker, Die(w)
    PROVE  IInv'
<1> USE QueueAssumption, ReportAssumption DEF IInv
<1>1. QueueTypeOK' /\ JobsLive'
  BY QueueIdle DEF Die, TypeOK
<1>2. TypeOK'
  <2>1. /\ second' \in 0..MaxSecond /\ status' \in [Report -> Status]
        /\ path' \in [Report -> Path \cup {None}]
        /\ retries' \in [Report -> 0..MaxRetries] /\ arrived' \in 0..MaxRequests
        /\ hstage' \in [Handler -> HandleStage] /\ hreport' \in [Handler -> Report \cup {None}]
        /\ hpath' \in [Handler -> Path \cup {None}] /\ deleting' \subseteq Report
    BY DEF Die, TypeOK, handleVars, pastVars
  <2>2. /\ files' \in [Path -> Report \cup {None, Partial}]
        /\ wrote' \subseteq Path \X Report /\ spoilt' \subseteq Path \X Report
    <3>1. wstage[w] = "write" => wpath[w] \in Path /\ ReportOf(wjob[w]) \in Report
      BY DEF AboutToComplete, ActorsHaveReports, ReportOf
    <3>2. QED
      BY <3>1 DEF Die, CutShort, Fill, TypeOK
  <2>3. /\ wstage' \in [Worker -> WorkStage] /\ wjob' \in [Worker -> JobId \cup {None}]
        /\ wpath' \in [Worker -> Path \cup {None}]
    BY DEF Die, Quit, Run, TypeOK, WorkStage
  <2>4. QED
    BY <1>1, <2>1, <2>2, <2>3 DEF TypeOK
<1>3. ActorsHaveReports'
  BY DEF Die, Quit, Run, TypeOK, handleVars, ActorsHaveReports
<1>4. PathsWritten'
  BY DEF Die, Quit, Run, TypeOK, handleVars, pastVars, PathsWritten
<1>5. /\ AboutToComplete'
      /\ \A p \in Path, r \in Report : OwnFileOrCause(p, r) => OwnFileOrCause(p, r)'
  <2>1. /\ wstage'[w] = "idle" /\ wrote' = wrote
        /\ \A v \in Worker \ {w} :
               wstage'[v] = wstage[v] /\ wjob'[v] = wjob[v] /\ wpath'[v] = wpath[v]
    BY DEF Die, Quit, Run, TypeOK
  <2>2. CASE wstage[w] = "write"
    BY <2>1, <2>2, CutShortKeeps DEF Die
  <2>3. CASE wstage[w] # "write"
    BY <2>1, <2>3, QuietWorker DEF Die
  <2>4. QED
    BY <2>2, <2>3
<1>6. ReadyHasOwnFile'
  BY <1>5, RowsKept DEF Die
<1>7. QED
  BY <1>1, <1>2, <1>3, <1>4, <1>5, <1>6 DEF IInv

\* A stalled job is waiting again or has failed.
LEMMA StallPreserves ==
    ASSUME IInv, NEW j \in JobId, Stall(j)
    PROVE  IInv'
<1> USE QueueAssumption, ReportAssumption DEF IInv
<1>1. QueueTypeOK' /\ JobsLive'
  BY QueueSteps
     DEF Stall, reportVars, TypeOK
<1>2. TypeOK'
  <2>1. /\ second' \in 0..MaxSecond /\ status' \in [Report -> Status]
        /\ retries' \in [Report -> 0..MaxRetries] /\ arrived' \in 0..MaxRequests
    BY DEF Stall, reportVars, TypeOK, queueVars, workVars, handleVars, pastVars, Status,
       ActorsHaveReports
  <2>2. /\ path' \in [Report -> Path \cup {None}]
        /\ files' \in [Path -> Report \cup {None, Partial}]
        /\ wrote' \subseteq Path \X Report /\ spoilt' \subseteq Path \X Report
        /\ deleting' \subseteq Report
    BY DEF Stall, reportVars, TypeOK, queueVars, workVars, handleVars, pastVars,
       ActorsHaveReports, PathsWritten, AboutToComplete
  <2>3. /\ wstage' \in [Worker -> WorkStage] /\ wjob' \in [Worker -> JobId \cup {None}]
        /\ wpath' \in [Worker -> Path \cup {None}]
    BY DEF Stall, reportVars, TypeOK, queueVars, workVars, handleVars, pastVars, WorkStage
  <2>4. /\ hstage' \in [Handler -> HandleStage] /\ hreport' \in [Handler -> Report \cup {None}]
        /\ hpath' \in [Handler -> Path \cup {None}]
    BY DEF Stall, reportVars, TypeOK, queueVars, workVars, handleVars, pastVars, HandleStage
  <2>5. QED
    BY <1>1, <2>1, <2>2, <2>3, <2>4 DEF TypeOK
<1>3. ActorsHaveReports'
  BY DEF Stall, reportVars, TypeOK, queueVars, workVars, handleVars, pastVars, WorkStage,
     HandleStage, ActorsHaveReports
<1>4. PathsWritten'
  BY DEF Stall, reportVars, TypeOK, queueVars, workVars, handleVars, pastVars, WorkStage,
     HandleStage, PathsWritten, ActorsHaveReports
<1>5. AboutToComplete'
  BY DEF Stall, reportVars, TypeOK, queueVars, workVars, handleVars, pastVars, WorkStage,
     HandleStage, AboutToComplete, OwnFileOrCause, GoneHasCause, BeingWritten,
     ActorsHaveReports
<1>6. ReadyHasOwnFile'
  BY DEF Stall, reportVars, TypeOK, queueVars, workVars, handleVars, pastVars, WorkStage,
     HandleStage, ReadyHasOwnFile, OwnFileOrCause, BeingWritten, ActorsHaveReports,
     PathsWritten
<1>7. QED
  BY <1>1, <1>2, <1>3, <1>4, <1>5, <1>6
     DEF IInv

\* A step that changes nothing preserves everything.
LEMMA StutterPreserves ==
    ASSUME IInv, UNCHANGED vars
    PROVE  IInv'
<1> USE DEF vars, reportVars, workVars, handleVars, pastVars, queueVars, IInv
<1>1. TypeOK' /\ JobsLive' /\ ActorsHaveReports' /\ PathsWritten'
  BY DEF TypeOK, QueueTypeOK, JobsLive, ActorsHaveReports, PathsWritten
<1>2. AboutToComplete' /\ ReadyHasOwnFile'
  BY DEF AboutToComplete, ReadyHasOwnFile, OwnFileOrCause, GoneHasCause, BeingWritten
<1>3. QED
  BY <1>1, <1>2

\* Every step preserves the inductive invariant.
LEMMA NextPreserves == IInv /\ [Next]_vars => IInv'
<1> SUFFICES ASSUME IInv, [Next]_vars PROVE IInv'
  OBVIOUS
<1>1. ASSUME NEW h \in Handler, NEW r \in Report,
             CreateReport(h, r) \/ RetryReport(h, r) \/ DeleteReport(h, r)
      PROVE  IInv'
  BY <1>1, CreateReportPreserves, RetryReportPreserves, DeleteReportPreserves
<1>2. ASSUME NEW h \in Handler,
             \/ EnqueueReport(h) \/ ResetReport(h) \/ RequeueReport(h)
             \/ UnlinkFile(h) \/ DropReport(h) \/ Abandon(h)
      PROVE  IInv'
  BY <1>2, EnqueueReportPreserves, ResetReportPreserves, RequeueReportPreserves,
     UnlinkFilePreserves, DropReportPreserves, AbandonPreserves
<1>3. ASSUME NEW w \in Worker,
             \/ \E j \in JobId : Take(w, j)
             \/ Begin(w) \/ SaveFile(w) \/ OpenFile(w) \/ WriteFile(w)
             \/ Complete(w) \/ CompleteFails(w) \/ Fail(w) \/ Die(w)
      PROVE  IInv'
  BY <1>3, TakePreserves, BeginPreserves, SaveFilePreserves, OpenFilePreserves,
     WriteFilePreserves, CompletePreserves, CompleteFailsPreserves, FailPreserves, DiePreserves
<1>4. CASE Tick \/ \E j \in JobId : Stall(j)
  BY <1>4, TickPreserves, StallPreserves
<1>5. CASE UNCHANGED vars
  BY <1>5, StutterPreserves
<1>6. QED
  BY <1>1, <1>2, <1>3, <1>4, <1>5 DEF Next

\* The inductive invariant holds throughout every behaviour.
THEOREM Invariance == Spec => []IInv
BY InitEstablishes, NextPreserves, PTL DEF Spec

\* Type correctness.
THEOREM TypeCorrect == Spec => []TypeOK
<1>1. IInv => TypeOK
  BY DEF IInv
<1>2. QED
  BY <1>1, Invariance, PTL

\* A report shown as complete has its own file, with all its data, unless another report was
\* written under the same name, a request deleting the report has unlinked the file, or a run
\* of the report is writing it again or was cut short in doing so.
THEOREM OwnFileExplained == Spec => []ReadyHasOwnFile
<1>1. IInv => ReadyHasOwnFile
  BY DEF IInv
<1>2. QED
  BY <1>1, Invariance, PTL
=============================================================================
