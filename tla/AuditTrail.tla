----------------------------- MODULE AuditTrail -----------------------------
(***************************************************************************)
(* The audit trail of one organization: operations are logged through the  *)
(* audit-write queue, the archival job moves old rows to the archive table *)
(* and an owner may have the entries of a user made anonymous.             *)
(*                                                                         *)
(* An audited operation e is one of                                        *)
(*   Action    an ordinary operation of a user,                            *)
(*   Archival  one run of the archival job, logged as user 'system',       *)
(*   Erasure   a right-to-be-forgotten request of an owner for Subject[e], *)
(* and all end in queueAuditEntry.  sha256 is injective, so the hash of an *)
(* entry is the entry itself.  A row's id is a fresh uuid.                 *)
(***************************************************************************)
EXTENDS JobQueue, Sequences

CONSTANTS
    Action, Archival, Erasure,  \* the operations, three disjoint sets
    User,       \* rows of the users table
    Author,     \* [Action \cup Erasure -> User]: who acts
    Subject,    \* [Erasure -> User]: whose data is to be forgotten
    System,     \* the literal user id 'system', which is no row of users
    Anonymous,  \* anon_<sha256 of the user id>, which is no row of users either
    Row,        \* ids of audit rows (bounds how many are ever written)
    None        \* no hash, no row, no entry

Entry == Action \cup Archival \cup Erasure

ASSUME AuditAssumption ==
    /\ JobId = Entry
    /\ Action \cap Archival = {} /\ Action \cap Erasure = {} /\ Archival \cap Erasure = {}
    /\ Author \in [Action \cup Erasure -> User]
    /\ Subject \in [Erasure -> User]
    /\ System \notin User /\ Anonymous \notin User /\ System # Anonymous
    /\ None \notin Entry \cup Row \cup User \cup {System, Anonymous}

VARIABLES
    phase,    \* [Entry -> Phase]: how far the operation has come
    asked,    \* entries in the order of their timestamps (the call of logAction)
    link,     \* [Entry -> previousEntryHash of the queued entry]
    active,   \* rows of audit_logs
    archive,  \* rows of archived_audit_logs
    picked,   \* [Archival -> row ids identifyLogsForArchival returned]
    copies,   \* [Archival -> the rows moveToArchive fetched]
    wjob,     \* [Worker -> entry the audit-write processor runs, or None]
    wdone,    \* [Worker -> TRUE once the row of that run is inserted]
    seen      \* history: [Erasure -> ids of the rows there when the request began]

trailVars == <<phase, asked, link, active, archive, picked, copies, wjob, wdone, seen>>
vars == <<queueVars, trailVars>>

Phase == {"idle", "picked", "fetched", "half", "stopped", "asked", "linked", "lost", "queued"}

\* The columns that tell rows apart; entry stands for entryHash and what it covers.
RowRecord == [id : Row, entry : Entry, user : User \cup {System, Anonymous},
              previous : Entry \cup {None}]

Ids(S) == {x.id : x \in S}
AuthorOf(e) == IF e \in Archival THEN System ELSE Author[e]

TypeOK ==
    /\ QueueTypeOK
    /\ phase \in [Entry -> Phase]
    /\ asked \in Seq(Entry)
    /\ link \in [Entry -> Entry \cup {None}]
    /\ active \subseteq RowRecord
    /\ archive \subseteq RowRecord
    /\ picked \in [Archival -> SUBSET Row]
    /\ copies \in [Archival -> SUBSET RowRecord]
    /\ wjob \in [Worker -> Entry \cup {None}]
    /\ wdone \in [Worker -> BOOLEAN]
    /\ seen \in [Erasure -> SUBSET Row]

Init ==
    /\ QueueInit
    /\ phase = [e \in Entry |-> "idle"]
    /\ asked = <<>>
    /\ link = [e \in Entry |-> None]
    /\ active = {}
    /\ archive = {}
    /\ picked = [a \in Archival |-> {}]
    /\ copies = [a \in Archival |-> {}]
    /\ wjob = [w \in Worker |-> None]
    /\ wdone = [w \in Worker |-> FALSE]
    /\ seen = [q \in Erasure |-> {}]

-----------------------------------------------------------------------------
\* Logging an operation.

\* logAction and its siblings stamp the entry and call queueAuditEntry.
Ask(e) ==
    /\ phase' = [phase EXCEPT ![e] = "asked"]
    /\ asked' = Append(asked, e)

\* The operation ends without being logged.
Stop(e) == phase' = [phase EXCEPT ![e] = "stopped"] /\ UNCHANGED asked

LogAction(e) ==
    /\ e \in Action
    /\ phase[e] = "idle"
    /\ Ask(e)
    /\ UNCHANGED <<queueVars, link, active, archive, picked, copies, wjob, wdone, seen>>

\* The entry with the latest timestamp in the active table.
LastEntry ==
    LET stamped == {i \in 1..Len(asked) : \E x \in active : x.entry = asked[i]}
        latest == {asked[i] : i \in {j \in stamped : \A k \in stamped : k <= j}}
    IN  IF latest = {} THEN None ELSE CHOOSE e \in latest : TRUE

\* getLastEntryHash: an error of the query is swallowed and leaves the entry unlinked.
GetLastEntryHash(e) ==
    /\ phase[e] = "asked"
    /\ \E previous \in {LastEntry, None} : link' = [link EXCEPT ![e] = previous]
    /\ phase' = [phase EXCEPT ![e] = "linked"]
    /\ UNCHANGED <<queueVars, asked, active, archive, picked, copies, wjob, wdone, seen>>

\* auditWriteQueue.add; when it throws, the entry is dropped and the operation goes on.
QueueAuditEntry(e) ==
    /\ phase[e] = "linked"
    /\ \/ phase' = [phase EXCEPT ![e] = "queued"] /\ AddJob(e)
       \/ phase' = [phase EXCEPT ![e] = "lost"] /\ UNCHANGED queueVars
    /\ UNCHANGED <<asked, link, active, archive, picked, copies, wjob, wdone, seen>>

-----------------------------------------------------------------------------
\* The audit-write processor.

Write(w, e) ==
    /\ wjob[w] = None
    /\ TakeJob(w, e)
    /\ wjob' = [wjob EXCEPT ![w] = e]
    /\ wdone' = [wdone EXCEPT ![w] = FALSE]
    /\ UNCHANGED <<phase, asked, link, active, archive, picked, copies, seen>>

Unused == Row \ Ids(active \cup archive)

Leave(w) ==
    /\ wjob' = [wjob EXCEPT ![w] = None]
    /\ wdone' = [wdone EXCEPT ![w] = FALSE]

\* Mutant: the chain is linked when the row is written.
NewRow_LinkedLate(e, r) == [id |-> r, entry |-> e, user |-> AuthorOf(e), previous |-> LastEntry]

NewRow(e, r) == [id |-> r, entry |-> e, user |-> AuthorOf(e), previous |-> link[e]]

\* prisma.auditLog.create: the row's user must exist (foreign key).  The answer to a
\* committed insert may still be lost, and then the attempt fails all the same.
InsertRow(w) ==
    LET e == wjob[w] IN
    /\ e # None
    /\ ~wdone[w]
    /\ AuthorOf(e) \in User
    /\ \E r \in Unused : active' = active \cup {NewRow(e, r)}
    /\ \/ /\ wdone' = [wdone EXCEPT ![w] = TRUE]
          /\ UNCHANGED <<queueVars, wjob>>
       \/ FailJob(w, e) /\ Leave(w)
    /\ UNCHANGED <<phase, asked, link, archive, picked, copies, seen>>

\* The insert is refused (no such user) or the database is away: the attempt fails.
InsertFails(w) ==
    /\ wjob[w] # None
    /\ ~wdone[w]
    /\ FailJob(w, wjob[w])
    /\ Leave(w)
    /\ UNCHANGED <<phase, asked, link, active, archive, picked, copies, seen>>

\* emitAuditEvent and detectSuspiciousPatterns swallow their errors: the run completes.
FinishWrite(w) ==
    /\ wjob[w] # None
    /\ wdone[w]
    /\ CompleteJob(w, wjob[w])
    /\ Leave(w)
    /\ UNCHANGED <<phase, asked, link, active, archive, picked, copies, seen>>

\* The worker dies in the middle of a run; its lock expires later.
DropRun(w) ==
    /\ wjob[w] # None
    /\ Leave(w)
    /\ UNCHANGED <<queueVars, phase, asked, link, active, archive, picked, copies, seen>>

Stall(e) == StallJob(e) /\ UNCHANGED trailVars

-----------------------------------------------------------------------------
\* The archival job: archiveOldLogs.  Its queue gives a job three attempts, and an attempt
\* begins anew: each attempt, a stalled run's successor among them, and each further batch
\* of 1000 rows is a member of Archival (a batch that is not the last one logs nothing).

\* identifyLogsForArchival: which rows are old depends on the entry's action, its
\* timestamp and a policy that may change, hence on the entry; none old ends the run.
IdentifyLogs(a) ==
    /\ a \in Archival
    /\ phase[a] = "idle"
    /\ \E D \in SUBSET {x.entry : x \in active} :
           LET ids == Ids({x \in active : x.entry \in D}) IN
           /\ picked' = [picked EXCEPT ![a] = ids]
           /\ phase' = [phase EXCEPT ![a] = IF ids = {} THEN "stopped" ELSE "picked"]
    /\ UNCHANGED <<queueVars, asked, link, active, archive, copies, wjob, wdone, seen>>

\* moveToArchive fetches the rows and then compresses them, outside any transaction;
\* rows another run took meanwhile are gone, and with no row left nothing is logged.
FetchLogs(a) ==
    LET found == {x \in active : x.id \in picked[a]} IN
    /\ a \in Archival
    /\ phase[a] = "picked"
    /\ copies' = [copies EXCEPT ![a] = found]
    /\ phase' = [phase EXCEPT ![a] = IF found = {} THEN "stopped" ELSE "fetched"]
    /\ UNCHANGED <<queueVars, asked, link, active, archive, picked, wjob, wdone, seen>>

\* Mutant: the rows are copied and deleted by two statements, and the second may fail.
MoveToArchive_NoTransaction(a) ==
    /\ a \in Archival
    /\ phase[a] = "fetched"
    /\ \/ /\ Ids(copies[a]) \cap Ids(archive) = {}
          /\ archive' = archive \cup copies[a]
          /\ \/ active' = {x \in active : x.id \notin picked[a]}
             \/ UNCHANGED active
          /\ Ask(a)
       \/ Stop(a) /\ UNCHANGED <<active, archive>>
    /\ copies' = [copies EXCEPT ![a] = {}]
    /\ picked' = [picked EXCEPT ![a] = {}]
    /\ UNCHANGED <<queueVars, link, wjob, wdone, seen>>

\* Mutant: a copy replaces the archived row of the same id (an upsert).
MoveToArchive_Overwrites(a) ==
    /\ a \in Archival
    /\ phase[a] = "fetched"
    /\ archive' = {x \in archive : x.id \notin Ids(copies[a])} \cup copies[a]
    /\ active' = {x \in active : x.id \notin picked[a]}
    /\ Ask(a)
    /\ copies' = [copies EXCEPT ![a] = {}]
    /\ picked' = [picked EXCEPT ![a] = {}]
    /\ UNCHANGED <<queueVars, link, wjob, wdone, seen>>

\* The transaction of moveToArchive: every copy is created under its own id, so that a
\* copy another run made first (primary key) rolls everything back and fails the attempt;
\* then the active rows are deleted.  A run that moved something logs it, unless the
\* answer of the commit is lost or a later batch fails.
MoveToArchive(a) ==
    /\ a \in Archival
    /\ phase[a] = "fetched"
    /\ \/ /\ Ids(copies[a]) \cap Ids(archive) = {}
          /\ archive' = archive \cup copies[a]
          /\ active' = {x \in active : x.id \notin picked[a]}
          /\ Ask(a) \/ Stop(a)
       \/ Stop(a) /\ UNCHANGED <<active, archive>>
    /\ copies' = [copies EXCEPT ![a] = {}]
    /\ picked' = [picked EXCEPT ![a] = {}]
    /\ UNCHANGED <<queueVars, link, wjob, wdone, seen>>

-----------------------------------------------------------------------------
\* anonymizeUserData.

Anonymized(S, u) ==
    {[x EXCEPT !.user = IF x.user = u THEN Anonymous ELSE x.user] : x \in S}

\* Mutant: the anonymous identifier is acceptable to the active table.
EraseActive_NoForeignKey(q) ==
    /\ q \in Erasure
    /\ phase[q] = "idle"
    /\ seen' = [seen EXCEPT ![q] = Ids(active \cup archive)]
    /\ active' = Anonymized(active, Subject[q])
    /\ phase' = [phase EXCEPT ![q] = "half"]
    /\ UNCHANGED <<queueVars, asked, link, archive, picked, copies, wjob, wdone>>

\* auditLog.updateMany: the new user id is no row of users, so the foreign key refuses
\* the statement as soon as it matches a row, and the request ends with that error.
EraseActive(q) ==
    /\ q \in Erasure
    /\ phase[q] = "idle"
    /\ seen' = [seen EXCEPT ![q] = Ids(active \cup archive)]
    /\ active' = active
    /\ phase' = [phase EXCEPT ![q] =
                    IF \E x \in active : x.user = Subject[q] THEN "stopped" ELSE "half"]
    /\ UNCHANGED <<queueVars, asked, link, archive, picked, copies, wjob, wdone>>

\* archivedAuditLog.updateMany (that table has no foreign key), then the controller logs
\* the request; the database may be away between the two statements, or its answer lost.
EraseArchived(q) ==
    /\ q \in Erasure
    /\ phase[q] = "half"
    /\ \/ archive' = Anonymized(archive, Subject[q]) /\ (Ask(q) \/ Stop(q))
       \/ Stop(q) /\ UNCHANGED archive
    /\ UNCHANGED <<queueVars, link, active, picked, copies, wjob, wdone, seen>>

-----------------------------------------------------------------------------
Next ==
    \/ \E e \in Entry :
           \/ LogAction(e) \/ GetLastEntryHash(e) \/ QueueAuditEntry(e) \/ Stall(e)
           \/ \E w \in Worker : Write(w, e)
    \/ \E w \in Worker : InsertRow(w) \/ InsertFails(w) \/ FinishWrite(w) \/ DropRun(w)
    \/ \E a \in Archival : IdentifyLogs(a) \/ FetchLogs(a) \/ MoveToArchive(a)
    \/ \E q \in Erasure : EraseActive(q) \/ EraseArchived(q)

Spec == Init /\ [][Next]_vars

-----------------------------------------------------------------------------
\* Properties.

\* A row is in one of the two tables, in one copy, whatever archival runs overlap.
RowKeptOnce ==
    /\ Ids(active) \cap Ids(archive) = {}
    /\ \A x, y \in active : x.id = y.id => x = y
    /\ \A x, y \in archive : x.id = y.id => x = y

\* Once a request to forget a user is answered, no row that was there when it began shows
\* the user: not even one an archival run was copying while the request was served.
Forgotten(q) == phase[q] \in {"asked", "linked", "lost", "queued"}

ForgottenStaysForgotten ==
    \A q \in Erasure : Forgotten(q) =>
        \A x \in active \cup archive : x.id \in seen[q] => x.user # Subject[q]

\* previousEntryHash leads to an entry that was there before and never around, though
\* entries are queued concurrently, written out of order and written twice: in every set
\* of linked rows there is one whose link leaves the set.
Linked == {x.entry : x \in active \cup archive}

ChainHasNoCycle ==
    \A S \in SUBSET Linked : S # {} =>
        \E e \in S : \A x \in active \cup archive : x.entry = e => x.previous \notin S

\* The tables together are the audit record: moving a row to the archive is invisible.
Shown == [r \in Row |->
    IF \E x \in active \cup archive : x.id = r
    THEN (CHOOSE x \in active \cup archive : x.id = r).user
    ELSE None]

Record == INSTANCE AuditRecord WITH NoRow <- None, record <- Shown
RecordSpec == Record!Spec

-----------------------------------------------------------------------------
\* The inductive invariant behind the properties (proved in AuditTrail_proofs).

\* The rows a run picked are still kept, and what it copied is what it will delete: a row
\* copied is active or archived by now, and no row picked is active and not copied.
CopiesCurrent ==
    \A a \in Archival :
        /\ picked[a] \subseteq Ids(active \cup archive)
        /\ \A x \in copies[a] : x.id \in picked[a] /\ (x \in active \/ x.id \in Ids(archive))
        /\ IF phase[a] = "fetched" THEN \A x \in active : x.id \in picked[a] => x \in copies[a]
           ELSE copies[a] = {}

\* Rows a request has seen are still kept; half-way, none of its subject's is active.
ErasureHalfWay ==
    \A q \in Erasure :
        /\ seen[q] \subseteq Ids(active \cup archive)
        /\ phase[q] = "half" => \A x \in active : x.id \in seen[q] => x.user # Subject[q]

IInv ==
    /\ TypeOK
    /\ JobsLive
    /\ RowKeptOnce
    /\ CopiesCurrent
    /\ ErasureHalfWay
    /\ ForgottenStaysForgotten

\* The operations whose link is decided, and those of them that were queued.
Decided == {e \in Entry : phase[e] \in {"linked", "lost", "queued"}}
Queued == {e \in Entry : phase[e] = "queued"}

\* Jobs, their runs and the rows they wrote are of queued entries, and a row keeps the
\* link its entry was queued with, through archival and erasure.
RowsOfQueued ==
    /\ \A e \in Entry : jstate[e] # "absent" => e \in Queued
    /\ \A w \in Worker : wjob[w] # None => wjob[w] \in Queued
    /\ \A x \in active \cup archive : x.entry \in Queued /\ x.previous = link[x.entry]

\* Entries are linked to entries that were queued by then, wherever their timestamps are:
\* no set of entries is closed under its links.
LinksWellFounded ==
    /\ \A e \in Entry : link[e] # None => e \in Decided /\ link[e] \in Queued
    /\ \A S \in SUBSET Decided : S # {} => \E e \in S : link[e] \notin S

\* The inductive invariant of the chain, on top of IInv.
ChainIInv == RowsOfQueued /\ LinksWellFounded
=============================================================================
