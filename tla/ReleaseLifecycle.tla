-------------------------- MODULE ReleaseLifecycle --------------------------
(***************************************************************************)
(* The releases of one organization and the requests that change them:     *)
(* create, update, ship, delete and roll back.  Every request reads, waits *)
(* for GitHub, for an outbound webhook or for the database, and writes;    *)
(* nothing but the unique index on (repositoryId, version) ties a write to *)
(* what the request read.                                                  *)
(*                                                                         *)
(* Telemetry, sprint associations, readiness scores and PDF export are     *)
(* left out: they add rows of their own and do not change a release.       *)
(***************************************************************************)
EXTENDS Naturals, FiniteSets

CONSTANTS
    Release,  \* ids of release rows
    Version,  \* version strings
    Repo,     \* repositories a release may belong to
    Call,     \* requests; each is made at most once
    Kinds,    \* the kinds of request made, a subset of CallKind
    Options,  \* external steps ship requests may ask for, a subset of ShipOption
    MaxTime,  \* bound of the clock
    Faults,   \* subset of FaultKind
    None      \* null

CallKind == {"create", "update", "ship", "delete", "rollback"}
ShipOption == {"release", "workflow"}
FaultKind == {"github", "webhook", "crash"}

ASSUME ReleaseAssumption ==
    /\ Kinds \subseteq CallKind
    /\ Options \subseteq ShipOption
    /\ Faults \subseteq FaultKind
    /\ MaxTime \in Nat
    /\ None \notin Nat \cup Repo \cup Release \cup Version

VARIABLES
    now,        \* the clock
    row,        \* [Release -> Row or None]: the releases table
    published,  \* <<repository, version>> tags released on GitHub
    deployed,   \* <<repository, version>> whose deployment workflow was dispatched
    dispatched, \* set of <<call, release, target>>: rollback webhooks posted
    cpc,        \* [Call -> Stage]
    cargs,      \* [Call -> Args or None]: the request
    csnap,      \* [Call -> Row or None]: the row it read and goes on using
    ctarget,    \* [Call -> Release or None]: the release a rollback goes back to
    cfailed     \* [Call -> BOOLEAN]: externalFailed of a ship request; ~webhookDispatched of a rollback

tables == <<now, row>>
outside == <<published, deployed, dispatched>>
locals == <<cargs, csnap, ctarget, cfailed>>
vars == <<tables, outside, cpc, locals>>

Time == 0..MaxTime
Row == [version : Version, repo : Repo \cup {None}, active : BOOLEAN,
        shipped : Time \cup {None}, rolledBack : BOOLEAN, hook : BOOLEAN]
Args == [kind : CallKind, rel : Release, version : Version \cup {None},
         moves : BOOLEAN, repo : Repo \cup {None}, status : {"RELEASED", "PLANNED", None},
         wants : SUBSET ShipOption, hook : BOOLEAN]

Tags == (Repo \cup {None}) \X Version

\* null is not a row and not a request.
ASSUME NoneIsNoRow == None \notin Row /\ None \notin Args

Stage == {"new", "insert", "check", "write", "publish", "workflow", "mark",
          "target", "dispatch", "record", "done", "shipped", "refused"}

TypeOK ==
    /\ now \in Time
    /\ row \in [Release -> Row \cup {None}]
    /\ published \subseteq Tags
    /\ deployed \subseteq Tags
    /\ dispatched \subseteq Call \X Release \X (Release \cup {None})
    /\ cpc \in [Call -> Stage]
    /\ cargs \in [Call -> Args \cup {None}]
    /\ csnap \in [Call -> Row \cup {None}]
    /\ ctarget \in [Call -> Release \cup {None}]
    /\ cfailed \in [Call -> BOOLEAN]

Init ==
    /\ now = 0
    /\ row = [r \in Release |-> None]
    /\ published = {} /\ deployed = {} /\ dispatched = {}
    /\ cpc = [c \in Call |-> "new"]
    /\ cargs = [c \in Call |-> None]
    /\ csnap = [c \in Call |-> None]
    /\ ctarget = [c \in Call |-> None]
    /\ cfailed = [c \in Call |-> FALSE]

Goto(c, to) == cpc' = [cpc EXCEPT ![c] = to] /\ UNCHANGED locals

\* The request arrives with its arguments and makes its first read.
Begin(c, a, read, to) ==
    /\ cpc[c] = "new"
    /\ a.kind \in Kinds
    /\ cpc' = [cpc EXCEPT ![c] = to]
    /\ cargs' = [cargs EXCEPT ![c] = a]
    /\ csnap' = [csnap EXCEPT ![c] = read]
    /\ UNCHANGED <<tables, outside, ctarget, cfailed>>

\* Arguments a kind of request does not have are held at a fixed value.
NoArgs(k, r) ==
    [kind |-> k, rel |-> r, version |-> None, moves |-> FALSE, repo |-> None,
     status |-> None, wants |-> {}, hook |-> FALSE]

Rows == {r \in Release : row[r] # None}
Others(r) == Rows \ {r}

-----------------------------------------------------------------------------
\* create and update: a duplicate check and a write.

\* findFirst: an active release with this version in the repository, or, for a release
\* without a repository, anywhere in the organization.
Duplicate(r, version, repo) ==
    \E s \in Others(r) :
        /\ row[s].version = version /\ row[s].active
        /\ repo # None => row[s].repo = repo

\* The unique index on (repositoryId, version): nulls are distinct, and a soft-deleted
\* row still counts.
IndexAllows(r, version, repo) ==
    \A s \in Others(r) : repo # None => <<row[s].repo, row[s].version>> # <<repo, version>>

CreateRelease(c) ==
    \E r \in Release, v \in Version, p \in Repo \cup {None} :
        LET a == [NoArgs("create", r) EXCEPT !.version = v, !.repo = p] IN
        /\ row[r] = None
        /\ Begin(c, a, None, IF Duplicate(r, v, p) THEN "refused" ELSE "insert")

\* Mutant: no unique index behind the duplicate check.
InsertRelease_NoIndex(c) ==
    LET a == cargs[c] IN
    /\ cpc[c] = "insert"
    /\ row[a.rel] = None
    /\ row' = [row EXCEPT ![a.rel] =
                  [version |-> a.version, repo |-> a.repo, active |-> TRUE,
                   shipped |-> None, rolledBack |-> FALSE, hook |-> FALSE]]
    /\ Goto(c, "done")
    /\ UNCHANGED <<now, outside>>

InsertRelease(c) ==
    LET a == cargs[c] IN
    /\ cpc[c] = "insert"
    /\ row[a.rel] = None \* ids are fresh uuids
    /\ \/ /\ IndexAllows(a.rel, a.version, a.repo)
          /\ row' = [row EXCEPT ![a.rel] =
                        [version |-> a.version, repo |-> a.repo, active |-> TRUE,
                         shipped |-> None, rolledBack |-> FALSE, hook |-> FALSE]]
          /\ Goto(c, "done")
       \/ /\ ~IndexAllows(a.rel, a.version, a.repo)
          /\ UNCHANGED row
          /\ Goto(c, "refused")
    /\ UNCHANGED <<now, outside>>

\* A request may carry a new version, a new repository (or none) and a status.
UpdateRelease(c) ==
    \E r \in Rows, v \in Version \cup {None}, p \in Repo \cup {None}, m \in BOOLEAN,
       s \in {"RELEASED", "PLANNED", None} :
        LET a == [NoArgs("update", r) EXCEPT !.version = v, !.moves = m, !.repo = p,
                                             !.status = s] IN
        /\ ~m => p = None
        /\ Begin(c, a, row[r], IF v = None THEN "write" ELSE "check")

CheckVersion(c) ==
    LET repo == IF cargs[c].moves THEN cargs[c].repo ELSE csnap[c].repo IN
    /\ cpc[c] = "check"
    /\ Goto(c, IF Duplicate(cargs[c].rel, cargs[c].version, repo) THEN "refused" ELSE "write")
    /\ UNCHANGED <<tables, outside>>

\* The columns the request carries are set, whatever became of the row since the read.
Updated(r, a) ==
    [row[r] EXCEPT
        !.version = IF a.version # None THEN a.version ELSE @,
        !.repo    = IF a.moves THEN a.repo ELSE @,
        !.shipped = CASE a.status = "RELEASED" -> now
                      [] a.status = "PLANNED"  -> None
                      [] OTHER                 -> @]

WriteUpdate(c) ==
    LET r == cargs[c].rel
        new == Updated(r, cargs[c])
    IN
    /\ cpc[c] = "write"
    /\ \/ /\ IndexAllows(r, new.version, new.repo)
          /\ row' = [row EXCEPT ![r] = new]
          /\ Goto(c, "done")
       \/ /\ ~IndexAllows(r, new.version, new.repo)
          /\ UNCHANGED row
          /\ Goto(c, "refused")
    /\ UNCHANGED <<now, outside>>

\* The read only establishes that the row exists, and rows are never removed.
DeleteRelease(c) ==
    \E r \in Rows :
        /\ cpc[c] = "new" /\ "delete" \in Kinds
        /\ cpc' = [cpc EXCEPT ![c] = "done"]
        /\ cargs' = [cargs EXCEPT ![c] = NoArgs("delete", r)]
        /\ row' = [row EXCEPT ![r].active = FALSE]
        /\ UNCHANGED <<now, outside, csnap, ctarget, cfailed>>

-----------------------------------------------------------------------------
\* ship: GitHub release, deployment workflow, shippedAt.

\* What the request acts on at GitHub, from its snapshot.  A release without a repository
\* uses one the organization keeps for these (None); a request that names another
\* repository or another tag is left out.
Tag(c) == <<csnap[c].repo, csnap[c].version>>

ShipRelease(c) ==
    \E r \in Rows, w \in SUBSET Options :
        LET a == [NoArgs("ship", r) EXCEPT !.wants = w] IN
        /\ row[r].active
        /\ Begin(c, a, row[r], IF row[r].rolledBack THEN "refused" ELSE "publish")

\* An external step succeeds, or fails and is reported at the end; either way the
\* request goes on.
External(c, ok, to) ==
    /\ cpc' = [cpc EXCEPT ![c] = to]
    /\ cfailed' = [cfailed EXCEPT ![c] = @ \/ ~ok]
    /\ UNCHANGED <<cargs, csnap, ctarget>>

\* Mutant: published under the version of the request, which a ship request does not have.
PublishRelease_RequestVersion(c) ==
    /\ cpc[c] = "publish"
    /\ published' = IF "release" \in cargs[c].wants
                    THEN published \cup {<<csnap[c].repo, cargs[c].version>>} ELSE published
    /\ External(c, TRUE, "workflow")
    /\ UNCHANGED <<tables, deployed, dispatched>>

\* Option A.  GitHub refuses a second release for a tag.
PublishRelease(c) ==
    LET wanted == "release" \in cargs[c].wants IN
    /\ cpc[c] = "publish"
    /\ \/ /\ wanted /\ Tag(c) \notin published
          /\ published' = published \cup {Tag(c)}
          /\ External(c, TRUE, "workflow")
       \/ /\ wanted /\ (Tag(c) \in published \/ "github" \in Faults)
          /\ External(c, FALSE, "workflow")
          /\ UNCHANGED published
       \/ /\ ~wanted
          /\ External(c, TRUE, "workflow")
          /\ UNCHANGED published
    /\ UNCHANGED <<tables, deployed, dispatched>>

\* Mutant: the outcome of the workflow replaces that of the publication.
DispatchWorkflow_Forgets(c) ==
    /\ cpc[c] = "workflow"
    /\ deployed' = IF "workflow" \in cargs[c].wants
                   THEN deployed \cup {Tag(c)} ELSE deployed
    /\ cpc' = [cpc EXCEPT ![c] = "mark"]
    /\ cfailed' = [cfailed EXCEPT ![c] = FALSE]
    /\ UNCHANGED <<tables, published, dispatched, cargs, csnap, ctarget>>

\* Option B.
DispatchWorkflow(c) ==
    LET wanted == "workflow" \in cargs[c].wants IN
    /\ cpc[c] = "workflow"
    /\ \/ /\ wanted
          /\ deployed' = deployed \cup {Tag(c)}
          /\ External(c, TRUE, "mark")
       \/ /\ wanted => "github" \in Faults
          /\ External(c, ~wanted, "mark")
          /\ UNCHANGED deployed
    /\ UNCHANGED <<tables, published, dispatched>>

MarkShipped(c) ==
    /\ cpc[c] = "mark"
    /\ \/ /\ ~cfailed[c]
          /\ row' = [row EXCEPT ![cargs[c].rel].shipped = now]
          /\ Goto(c, "shipped")
       \/ /\ cfailed[c]
          /\ UNCHANGED row
          /\ Goto(c, "done")
    /\ UNCHANGED <<now, outside>>

-----------------------------------------------------------------------------
\* roll back: find the target, send the webhook, record the rollback.

RollbackRelease(c) ==
    \E r \in Rows, h \in BOOLEAN :
        LET a == [NoArgs("rollback", r) EXCEPT !.hook = h] IN
        /\ row[r].active
        /\ Begin(c, a, row[r], IF row[r].rolledBack THEN "refused" ELSE "target")

\* "Find previous stable release if available": the latest shipped of the others.
Stable(r) == {s \in Others(r) : row[s].active /\ ~row[s].rolledBack /\ row[s].shipped # None}

HasHook(c) == cargs[c].hook \/ csnap[c].hook

\* Mutant: the rollback is recorded first and dispatched afterwards.
FindTarget_RecordsFirst(c) ==
    LET r == cargs[c].rel IN
    /\ cpc[c] = "target"
    /\ row' = [row EXCEPT ![r].rolledBack = TRUE, ![r].hook = HasHook(c)]
    /\ Goto(c, "dispatch")
    /\ UNCHANGED <<now, outside>>

FindTarget(c) ==
    LET r == cargs[c].rel IN
    /\ cpc[c] = "target"
    /\ \/ /\ Stable(r) = {}
          /\ ctarget' = [ctarget EXCEPT ![c] = None]
       \/ \E s \in Stable(r) :
             /\ \A t \in Stable(r) : row[t].shipped <= row[s].shipped
             /\ ctarget' = [ctarget EXCEPT ![c] = s]
    /\ cpc' = [cpc EXCEPT ![c] = "dispatch"]
    /\ UNCHANGED <<tables, outside, cargs, csnap, cfailed>>

\* One POST.  A fetch that throws, before the request is out or after, is logged and reported
\* in the answer, and the rollback goes on.
DispatchRollback(c) ==
    /\ cpc[c] = "dispatch"
    /\ \/ /\ HasHook(c)
          /\ dispatched' = dispatched \cup {<<c, cargs[c].rel, ctarget[c]>>}
          /\ \E ok \in BOOLEAN : (ok \/ "webhook" \in Faults) /\ External(c, ok, "record")
       \/ /\ HasHook(c) => "webhook" \in Faults
          /\ External(c, ~HasHook(c), "record")
          /\ UNCHANGED dispatched
    /\ UNCHANGED <<tables, published, deployed>>

RecordRollback(c) ==
    LET r == cargs[c].rel IN
    /\ cpc[c] = "record"
    /\ row' = [row EXCEPT ![r].rolledBack = TRUE, ![r].hook = HasHook(c)]
    /\ Goto(c, "done")
    /\ UNCHANGED <<now, outside>>

-----------------------------------------------------------------------------
\* The process dies, and the requests under way with it.
Crash(c) ==
    /\ "crash" \in Faults
    /\ cpc[c] \notin {"new", "done", "shipped", "refused"}
    /\ Goto(c, "refused")
    /\ UNCHANGED <<tables, outside>>

Tick ==
    /\ now < MaxTime
    /\ now' = now + 1
    /\ UNCHANGED <<row, outside, cpc, locals>>

CallStep(c) ==
    \/ CreateRelease(c) \/ InsertRelease(c)
    \/ UpdateRelease(c) \/ CheckVersion(c) \/ WriteUpdate(c)
    \/ DeleteRelease(c)
    \/ ShipRelease(c) \/ PublishRelease(c) \/ DispatchWorkflow(c) \/ MarkShipped(c)
    \/ RollbackRelease(c) \/ FindTarget(c) \/ DispatchRollback(c) \/ RecordRollback(c)
    \/ Crash(c)

Next == Tick \/ \E c \in Call : CallStep(c)

Spec == Init /\ [][Next]_vars

-----------------------------------------------------------------------------
\* Properties.

\* Two rows of one repository never carry one version, though concurrent requests all
\* pass the duplicate check.
VersionUniquePerRepository ==
    \A r, s \in Rows :
        r # s /\ row[r].repo # None =>
            <<row[r].repo, row[r].version>> # <<row[s].repo, row[s].version>>

\* A ship request that marked its release shipped had everything it was asked for done
\* by GitHub, whichever of the two failed, raced another request or was repeated.
ShippedWasDelivered ==
    \A c \in Call : cpc[c] = "shipped" =>
        /\ "release" \in cargs[c].wants => Tag(c) \in published
        /\ "workflow" \in cargs[c].wants => Tag(c) \in deployed

\* The request posted the webhook of its rollback, or knows that it could not.
Announces(c) ==
    /\ cargs[c].kind = "rollback"
    /\ cfailed[c] \/ \E d \in dispatched : d[1] = c /\ d[2] = cargs[c].rel

\* A release marked as rolled back, with a webhook, has a rollback request behind it that had
\* posted the webhook before, or whose fetch threw, which its answer says.  A process that
\* dies between the two, and rollbacks that race with and without a webhook, leave none that
\* nobody was told of.
NoSilentRollback ==
    \A r \in Rows : row[r].rolledBack /\ row[r].hook =>
        \E c \in Call : cpc[c] = "done" /\ cargs[c].rel = r /\ Announces(c)

\* What these rest on: a request past its first read has its arguments and its snapshot,
\* and its row is there; a step GitHub confirmed stays confirmed; a rollback about to be
\* recorded has been announced, or could not be.
Begun ==
    \A c \in Call :
        /\ cpc[c] # "new" => cargs[c] # None
        /\ cpc[c] = "insert" => cargs[c].version # None
        /\ cpc[c] \notin {"new", "insert", "refused", "done"} =>
              row[cargs[c].rel] # None /\ csnap[c] # None

Delivered ==
    \A c \in Call :
        /\ cpc[c] \in {"workflow", "mark"} /\ ~cfailed[c] /\ "release" \in cargs[c].wants
              => Tag(c) \in published
        /\ cpc[c] = "mark" /\ ~cfailed[c] /\ "workflow" \in cargs[c].wants
              => Tag(c) \in deployed

Announced ==
    \A c \in Call :
        /\ cpc[c] \in {"target", "dispatch", "record"} => cargs[c].kind = "rollback"
        /\ cpc[c] = "record" /\ HasHook(c) => Announces(c)

\* The inductive invariant.
IInv ==
    /\ TypeOK
    /\ Begun
    /\ VersionUniquePerRepository
    /\ Delivered
    /\ ShippedWasDelivered
    /\ Announced
    /\ NoSilentRollback

\* "Idempotent Incident Dispatching: Release rollback mutations verify the current state
\* in PostgreSQL before dispatching outbound CI/CD webhooks, preventing duplicate
\* execution during concurrent calls".
RollbackDispatchedOnce ==
    \A d, e \in dispatched : d[2] = e[2] => d = e
=============================================================================
