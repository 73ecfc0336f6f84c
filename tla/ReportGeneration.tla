-------------------------- MODULE ReportGeneration --------------------------
(***************************************************************************)
(* Reports: requests create, retry and delete them (reports.service), the  *)
(* report-generation worker writes their files (report-generator.processor *)
(* and file-storage.service).  A file is named after what the report is    *)
(* about and the second it was generated in; the row keeps the path.       *)
(*                                                                         *)
(*   request --row PENDING--> job --> PROCESSING --file--> COMPLETED       *)
(*                             |                             |             *)
(*                             +------ an error: FAILED <----+             *)
(***************************************************************************)
EXTENDS JobQueue

CONSTANTS
    Report,
    Subject,    \* [Report -> the title gathered for its scope, with its type and organization]
    Handler,    \* slots for requests
    None,
    Partial,    \* what a file holds while it is being written
    MaxRetries, \* bound: retries asked per report
    MaxRequests, \* bound: requests in all
    MaxSecond   \* bound: seconds the clock shows

ASSUME ReportAssumption ==
    /\ JobId = Report \X (0..MaxRetries)
    /\ MaxRetries \in Nat /\ MaxRequests \in Nat /\ MaxSecond \in Nat
    /\ Worker \cap Handler = {}
    /\ None \notin Report /\ Partial \notin Report /\ Partial # None
    /\ None \notin {Subject[r] : r \in Report} \X (0..MaxSecond)

VARIABLES
    second,   \* the clock, to the second
    status,   \* [Report -> Status]: reports.status, "none" for no row
    path,     \* [Report -> Path \cup {None}]: reports.filePath
    files,    \* [Path -> report whose data the file holds, Partial, or None for no file]
    retries,  \* [Report -> retries asked so far]
    arrived,  \* requests so far
    wstage,   \* [Worker -> WorkStage]
    wjob,     \* [Worker -> job it runs, or None]
    wpath,    \* [Worker -> path it saves the file under, or None]
    hstage,   \* [Handler -> HandleStage]
    hreport,  \* [Handler -> report of the request, or None]
    hpath,    \* [Handler -> path the request read, or None]
    wrote,    \* history: <<path, report>> of every file opened for writing
    spoilt,   \* history: <<path, report>> whose file a request deleting the report unlinked,
              \*   or a run of the report was cut short in writing
    deleting  \* history: reports a request set out to delete (ids are fresh)

workVars == <<wstage, wjob, wpath>>
handleVars == <<hstage, hreport, hpath>>
pastVars == <<wrote, spoilt, deleting>>
reportVars == <<second, status, path, files, retries, arrived, workVars, handleVars, pastVars>>
vars == <<queueVars, reportVars>>

Status == {"none", "PENDING", "PROCESSING", "COMPLETED", "FAILED"}
WorkStage == {"idle", "begin", "save", "open", "write", "complete", "fail"}
HandleStage == {"idle", "enqueue", "reset", "requeue", "unlink", "drop"}
Path == {Subject[r] : r \in Report} \X (0..MaxSecond)

TypeOK ==
    /\ QueueTypeOK
    /\ second \in 0..MaxSecond
    /\ status \in [Report -> Status]
    /\ path \in [Report -> Path \cup {None}]
    /\ files \in [Path -> Report \cup {None, Partial}]
    /\ retries \in [Report -> 0..MaxRetries]
    /\ arrived \in 0..MaxRequests
    /\ wstage \in [Worker -> WorkStage]
    /\ wjob \in [Worker -> JobId \cup {None}]
    /\ wpath \in [Worker -> Path \cup {None}]
    /\ hstage \in [Handler -> HandleStage]
    /\ hreport \in [Handler -> Report \cup {None}]
    /\ hpath \in [Handler -> Path \cup {None}]
    /\ wrote \subseteq Path \X Report
    /\ spoilt \subseteq Path \X Report
    /\ deleting \subseteq Report

Init ==
    /\ QueueInit
    /\ second = 0
    /\ status = [r \in Report |-> "none"]
    /\ path = [r \in Report |-> None]
    /\ files = [p \in Path |-> None]
    /\ retries = [r \in Report |-> 0]
    /\ arrived = 0
    /\ wstage = [w \in Worker |-> "idle"]
    /\ wjob = [w \in Worker |-> None]
    /\ wpath = [w \in Worker |-> None]
    /\ hstage = [h \in Handler |-> "idle"]
    /\ hreport = [h \in Handler |-> None]
    /\ hpath = [h \in Handler |-> None]
    /\ wrote = {}
    /\ spoilt = {}
    /\ deleting = {}

Tick ==
    /\ second < MaxSecond
    /\ second' = second + 1
    /\ UNCHANGED <<queueVars, status, path, files, retries, arrived, workVars, handleVars,
                   pastVars>>

-----------------------------------------------------------------------------
\* Requests.

Serve(h, r, stage, p) ==
    /\ hstage' = [hstage EXCEPT ![h] = stage]
    /\ hreport' = [hreport EXCEPT ![h] = r]
    /\ hpath' = [hpath EXCEPT ![h] = p]

\* A request comes in.
Arrive == arrived < MaxRequests /\ arrived' = arrived + 1

Answer(h) == Serve(h, None, "idle", None)

\* createReport: the row first, under a fresh id ...
CreateReport(h, r) ==
    /\ hstage[h] = "idle"
    /\ Arrive
    /\ status[r] = "none" /\ r \notin deleting
    /\ status' = [status EXCEPT ![r] = "PENDING"]
    /\ Serve(h, r, "enqueue", None)
    /\ UNCHANGED <<queueVars, second, path, files, retries, workVars, pastVars>>

\* ... then the job report-<id>.
EnqueueReport(h) ==
    /\ hstage[h] = "enqueue"
    /\ AddJob(<<hreport[h], 0>>)
    /\ Answer(h)
    /\ UNCHANGED <<second, status, path, files, retries, arrived, workVars, pastVars>>

\* retryFailedReport: only a FAILED report is retried ...
RetryReport(h, r) ==
    /\ hstage[h] = "idle"
    /\ Arrive
    /\ status[r] = "FAILED"
    /\ retries[r] < MaxRetries
    /\ Serve(h, r, "reset", None)
    /\ UNCHANGED <<queueVars, second, status, path, files, retries, workVars, pastVars>>

\* ... but the reset is unconditional (and throws when the row is gone) ...
ResetReport(h) ==
    LET r == hreport[h] IN
    /\ hstage[h] = "reset"
    /\ status[r] # "none"
    /\ status' = [status EXCEPT ![r] = "PENDING"]
    /\ Serve(h, r, "requeue", None)
    /\ UNCHANGED <<queueVars, second, path, files, retries, arrived, workVars, pastVars>>

\* ... and the job is a new one, unless it is asked for in the same millisecond.
RequeueReport(h) ==
    LET r == hreport[h] IN
    /\ hstage[h] = "requeue"
    /\ \E k \in {retries[r], retries[r] + 1} \cap (1..MaxRetries) :
           AddJob(<<r, k>>) /\ retries' = [retries EXCEPT ![r] = k]
    /\ Answer(h)
    /\ UNCHANGED <<second, status, path, files, arrived, workVars, pastVars>>

\* delete: the path is read with the row; a report without one is dropped at once.
DeleteReport(h, r) ==
    /\ hstage[h] = "idle"
    /\ Arrive
    /\ status[r] # "none"
    /\ Serve(h, r, IF path[r] = None THEN "drop" ELSE "unlink", path[r])
    /\ deleting' = deleting \cup {r}
    /\ UNCHANGED <<queueVars, second, status, path, files, retries, workVars, wrote, spoilt>>

\* deleteFile swallows its errors.
UnlinkFile(h) ==
    /\ hstage[h] = "unlink"
    /\ \/ /\ files' = [files EXCEPT ![hpath[h]] = None]
          /\ spoilt' = spoilt \cup {<<hpath[h], hreport[h]>>}
       \/ UNCHANGED <<files, spoilt>>
    /\ Serve(h, hreport[h], "drop", None)
    /\ UNCHANGED <<queueVars, second, status, path, retries, arrived, workVars, wrote,
                   deleting>>

DropReport(h) ==
    LET r == hreport[h] IN
    /\ hstage[h] = "drop"
    /\ status[r] # "none"
    /\ status' = [status EXCEPT ![r] = "none"]
    /\ path' = [path EXCEPT ![r] = None]
    /\ Answer(h)
    /\ UNCHANGED <<queueVars, second, files, retries, arrived, workVars, pastVars>>

\* A statement throws (the row is gone, the queue or the database is away), or the
\* server dies.
Abandon(h) ==
    /\ hstage[h] # "idle"
    /\ Answer(h)
    /\ UNCHANGED <<queueVars, second, status, path, files, retries, arrived, workVars,
                   pastVars>>

-----------------------------------------------------------------------------
\* The worker.

ReportOf(j) == j[1]

Run(w, stage, j, p) ==
    /\ wstage' = [wstage EXCEPT ![w] = stage]
    /\ wjob' = [wjob EXCEPT ![w] = j]
    /\ wpath' = [wpath EXCEPT ![w] = p]

Quit(w) == Run(w, "idle", None, None)

Take(w, j) ==
    /\ wstage[w] = "idle"
    /\ TakeJob(w, j)
    /\ Run(w, "begin", j, None)
    /\ UNCHANGED <<second, status, path, files, retries, arrived, handleVars, pastVars>>

\* The update to PROCESSING, whatever the status was; it throws when the row is gone.
Begin(w) ==
    LET r == ReportOf(wjob[w]) IN
    /\ wstage[w] = "begin"
    /\ \/ /\ status[r] # "none"
          /\ status' = [status EXCEPT ![r] = "PROCESSING"]
          /\ Run(w, "save", wjob[w], None)
       \/ UNCHANGED status /\ Run(w, "fail", wjob[w], None)
    /\ UNCHANGED <<queueVars, second, path, files, retries, arrived, handleVars, pastVars>>

\* The data is gathered and the file named (generateFilename).
SaveFile(w) ==
    /\ wstage[w] = "save"
    /\ \/ Run(w, "open", wjob[w], <<Subject[ReportOf(wjob[w])], second>>)
       \/ Run(w, "fail", wjob[w], None)
    /\ UNCHANGED <<queueVars, second, status, path, files, retries, arrived, handleVars,
                   pastVars>>

\* writeFile opens the file, which empties what is there, ...
OpenFile(w) ==
    /\ wstage[w] = "open"
    /\ \/ /\ files' = [files EXCEPT ![wpath[w]] = Partial]
          /\ wrote' = wrote \cup {<<wpath[w], ReportOf(wjob[w])>>}
          /\ Run(w, "write", wjob[w], wpath[w])
       \/ Run(w, "fail", wjob[w], None) /\ UNCHANGED <<files, wrote>>
    /\ UNCHANGED <<queueVars, second, status, path, retries, arrived, handleVars, spoilt,
                   deleting>>

\* Data reaches a file only under a name that has not been unlinked since.
Fill(p, data) == files' = IF files[p] = None THEN files ELSE [files EXCEPT ![p] = data]

CutShort(w) ==
    /\ Fill(wpath[w], Partial)
    /\ spoilt' = spoilt \cup {<<wpath[w], ReportOf(wjob[w])>>}

\* ... and writes it, to the end or not.
WriteFile(w) ==
    /\ wstage[w] = "write"
    /\ \/ /\ Fill(wpath[w], ReportOf(wjob[w]))
          /\ Run(w, "complete", wjob[w], wpath[w])
          /\ UNCHANGED spoilt
       \/ CutShort(w) /\ Run(w, "fail", wjob[w], None)
    /\ UNCHANGED <<queueVars, second, status, path, retries, arrived, handleVars, wrote,
                   deleting>>

\* Mutant: the row gets a name made up afresh.
Complete_NamesAgain(w) ==
    LET r == ReportOf(wjob[w]) IN
    /\ wstage[w] = "complete"
    /\ status[r] # "none"
    /\ status' = [status EXCEPT ![r] = "COMPLETED"]
    /\ path' = [path EXCEPT ![r] = <<Subject[r], second>>]
    /\ CompleteJob(w, wjob[w]) /\ Quit(w)
    /\ UNCHANGED <<second, files, retries, arrived, handleVars, pastVars>>

\* The update to COMPLETED with the path; the answer to it may be lost.
Complete(w) ==
    LET r == ReportOf(wjob[w]) IN
    /\ wstage[w] = "complete"
    /\ status[r] # "none"
    /\ status' = [status EXCEPT ![r] = "COMPLETED"]
    /\ path' = [path EXCEPT ![r] = wpath[w]]
    /\ \/ CompleteJob(w, wjob[w]) /\ Quit(w)
       \/ UNCHANGED queueVars /\ Run(w, "fail", wjob[w], None)
    /\ UNCHANGED <<second, files, retries, arrived, handleVars, pastVars>>

CompleteFails(w) ==
    /\ wstage[w] = "complete"
    /\ Run(w, "fail", wjob[w], None)
    /\ UNCHANGED <<queueVars, second, status, path, files, retries, arrived, handleVars,
                   pastVars>>

\* The catch block: FAILED is written after every failed attempt, also when others follow,
\* and that update may throw in turn.
Fail(w) ==
    LET r == ReportOf(wjob[w]) IN
    /\ wstage[w] = "fail"
    /\ \/ status[r] # "none" /\ status' = [status EXCEPT ![r] = "FAILED"]
       \/ UNCHANGED status
    /\ FailJob(w, wjob[w])
    /\ Quit(w)
    /\ UNCHANGED <<second, path, files, retries, arrived, handleVars, pastVars>>

\* The server dies; the job stalls.
Die(w) ==
    /\ wstage[w] # "idle"
    /\ IF wstage[w] = "write" THEN CutShort(w) ELSE UNCHANGED <<files, spoilt>>
    /\ Quit(w)
    /\ UNCHANGED <<queueVars, second, status, path, retries, arrived, handleVars, wrote,
                   deleting>>

Stall(j) == StallJob(j) /\ UNCHANGED reportVars

-----------------------------------------------------------------------------
\* Ids are never used again, so that evicting a finished job changes nothing.
Next ==
    \/ Tick
    \/ \E h \in Handler :
          \/ \E r \in Report : CreateReport(h, r) \/ RetryReport(h, r) \/ DeleteReport(h, r)
          \/ EnqueueReport(h) \/ ResetReport(h) \/ RequeueReport(h)
          \/ UnlinkFile(h) \/ DropReport(h) \/ Abandon(h)
    \/ \E w \in Worker :
          \/ \E j \in JobId : Take(w, j)
          \/ Begin(w) \/ SaveFile(w) \/ OpenFile(w) \/ WriteFile(w)
          \/ Complete(w) \/ CompleteFails(w) \/ Fail(w) \/ Die(w)
    \/ \E j \in JobId : Stall(j)

Spec == Init /\ [][Next]_vars

-----------------------------------------------------------------------------
\* Properties.

\* A run of report r is writing the file.
BeingWritten(p, r) ==
    \E w \in Worker : wstage[w] = "write" /\ wpath[w] = p /\ ReportOf(wjob[w]) = r

\* A report shown as COMPLETED has its file, with its own data and all of it, unless a
\* report on the same subject was written in the same second (the name has no id in it), a
\* request that deletes the report has unlinked the file (which goes before the row), or
\* another run of the report is writing it again or was cut short in doing so.
OwnFileOrCause(p, r) ==
    \/ files[p] = r
    \/ \E q \in Report \ {r} : <<p, q>> \in wrote
    \/ <<p, r>> \in spoilt
    \/ BeingWritten(p, r)

ReadyHasOwnFile ==
    \A r \in Report :
        status[r] = "COMPLETED" => path[r] # None /\ OwnFileOrCause(path[r], r)

-----------------------------------------------------------------------------
\* The inductive invariant behind the property (proved in ReportGeneration_proofs).

\* Whoever is at work knows what for.
ActorsHaveReports ==
    /\ \A w \in Worker : wstage[w] # "idle" => wjob[w] \in JobId
    /\ \A h \in Handler : hstage[h] # "idle" => hreport[h] \in Report

\* A path in a row, or read from one by a request that deletes, is one the report's file
\* was written under.
PathsWritten ==
    /\ \A r \in Report : path[r] # None => <<path[r], r>> \in wrote
    /\ \A h \in Handler : hstage[h] = "unlink" =>
           hpath[h] \in Path /\ <<hpath[h], hreport[h]>> \in wrote

\* A file that is gone, though report r opened it, was unlinked by a request.
GoneHasCause(p, r) ==
    \/ files[p] # None
    \/ \E q \in Report \ {r} : <<p, q>> \in wrote
    \/ <<p, r>> \in spoilt

\* A worker has a name for the file it saves; the file it writes was opened by it, and the
\* one it is about to put in the row is there or has a cause to be missing.
AboutToComplete ==
    \A w \in Worker :
        LET p == wpath[w]  r == ReportOf(wjob[w]) IN
        /\ wstage[w] \in {"open", "write", "complete"} => p \in Path
        /\ wstage[w] \in {"write", "complete"} => <<p, r>> \in wrote
        /\ wstage[w] = "write" => GoneHasCause(p, r)
        /\ wstage[w] = "complete" => OwnFileOrCause(p, r)

IInv ==
    /\ TypeOK
    /\ JobsLive
    /\ ActorsHaveReports
    /\ PathsWritten
    /\ AboutToComplete
    /\ ReadyHasOwnFile
=============================================================================
