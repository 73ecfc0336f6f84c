----------------------- MODULE ReleaseLifecycle_proofs -----------------------
(***************************************************************************)
(* ReleaseLifecycle for any number of releases, repositories, versions and *)
(* requests of any kind, with any faults: versions are unique in a         *)
(* repository, a release marked shipped was delivered, and no rollback is  *)
(* recorded unannounced.                                                   *)
(***************************************************************************)
EXTENDS ReleaseLifecycle, TLAPS

\* No rows and no requests at the start.
LEMMA InitEstablishes == Init => IInv
<1> SUFFICES ASSUME Init PROVE IInv
  OBVIOUS
<1> USE ReleaseAssumption, NoneIsNoRow DEF Init
<1>1. TypeOK
  BY DEF TypeOK, Stage, Time
<1>2. Begun /\ VersionUniquePerRepository
  BY DEF Begun, VersionUniquePerRepository, Rows
<1>3. Delivered /\ ShippedWasDelivered
  BY DEF Delivered, ShippedWasDelivered
<1>4. Announced /\ NoSilentRollback
  BY DEF Announced, Announces, NoSilentRollback, Rows
<1>5. QED
  BY <1>1, <1>2, <1>3, <1>4 DEF IInv

\* A request that arrives: it takes nothing from the tables but its snapshot.
LEMMA BeginPreserves ==
    ASSUME IInv, NEW c \in Call, NEW a \in Args, NEW read \in Row \cup {None},
           NEW to \in {"refused", "insert", "check", "write", "publish", "target"},
           to = "insert" => a.version # None, to = "target" => a.kind = "rollback",
           to \in {"refused", "insert"} \/ (row[a.rel] # None /\ read # None),
           Begin(c, a, read, to)
    PROVE  IInv'
<1> USE ReleaseAssumption, NoneIsNoRow DEF IInv, TypeOK, tables, outside
<1>1. TypeOK'
  BY DEF Begin, Stage
<1>2. Begun'
  BY DEF Begin, Begun
<1>3. Delivered' /\ ShippedWasDelivered'
  BY DEF Begin, Delivered, ShippedWasDelivered, Tag
<1>4. Announced'
  BY DEF Begin, Announced, Announces, HasHook
<1>5. VersionUniquePerRepository' /\ NoSilentRollback'
  BY DEF Begin, VersionUniquePerRepository, NoSilentRollback, Announces, Rows
<1>6. QED
  BY <1>1, <1>2, <1>3, <1>4, <1>5

LEMMA CreateReleasePreserves ==
    ASSUME IInv, NEW c \in Call, CreateRelease(c)
    PROVE  IInv'
<1>1. PICK r \in Release, v \in Version, p \in Repo \cup {None} :
        Begin(c, [NoArgs("create", r) EXCEPT !.version = v, !.repo = p], None,
              IF Duplicate(r, v, p) THEN "refused" ELSE "insert")
  BY DEF CreateRelease
<1>2. [NoArgs("create", r) EXCEPT !.version = v, !.repo = p] \in Args
  BY DEF NoArgs, Args, CallKind, ShipOption
<1> DEFINE a == [NoArgs("create", r) EXCEPT !.version = v, !.repo = p]
<1>3. a.version # None
  BY ReleaseAssumption DEF NoArgs
<1> HIDE DEF a
<1>4. Begin(c, a, None, "refused") \/ Begin(c, a, None, "insert")
  BY <1>1 DEF a
<1>5. a \in Args
  BY <1>2 DEF a
<1>6. QED
  BY <1>3, <1>4, <1>5, BeginPreserves

LEMMA UpdateReleasePreserves ==
    ASSUME IInv, NEW c \in Call, UpdateRelease(c)
    PROVE  IInv'
<1>1. PICK r \in Rows, v \in Version \cup {None}, p \in Repo \cup {None}, m \in BOOLEAN,
           s \in {"RELEASED", "PLANNED", None} :
        Begin(c, [NoArgs("update", r) EXCEPT !.version = v, !.moves = m, !.repo = p,
                                             !.status = s],
              row[r], IF v = None THEN "write" ELSE "check")
  BY ZenonT(60) DEF UpdateRelease
<1> DEFINE a == [NoArgs("update", r) EXCEPT !.version = v, !.moves = m, !.repo = p,
                                            !.status = s]
<1>2. a \in Args /\ a.rel = r
  BY DEF NoArgs, Args, CallKind, ShipOption, Rows
<1>3. row[r] \in Row /\ row[r] # None
  BY DEF IInv, TypeOK, Rows
<1> HIDE DEF a
<1>4. Begin(c, a, row[r], "write") \/ Begin(c, a, row[r], "check")
  BY <1>1 DEF a
<1>5. QED
  BY <1>2, <1>3, <1>4, BeginPreserves

LEMMA ShipReleasePreserves ==
    ASSUME IInv, NEW c \in Call, ShipRelease(c)
    PROVE  IInv'
<1>1. PICK r \in Rows, w \in SUBSET Options :
        Begin(c, [NoArgs("ship", r) EXCEPT !.wants = w], row[r],
              IF row[r].rolledBack THEN "refused" ELSE "publish")
  BY DEF ShipRelease
<1> DEFINE a == [NoArgs("ship", r) EXCEPT !.wants = w]
<1>2. a \in Args /\ a.rel = r
  BY ReleaseAssumption DEF NoArgs, Args, CallKind, ShipOption, Rows
<1>3. row[r] \in Row /\ row[r] # None
  BY DEF IInv, TypeOK, Rows
<1> HIDE DEF a
<1>4. Begin(c, a, row[r], "refused") \/ Begin(c, a, row[r], "publish")
  BY <1>1 DEF a
<1>5. QED
  BY <1>2, <1>3, <1>4, BeginPreserves

LEMMA RollbackReleasePreserves ==
    ASSUME IInv, NEW c \in Call, RollbackRelease(c)
    PROVE  IInv'
<1>1. PICK r \in Rows, h \in BOOLEAN :
        Begin(c, [NoArgs("rollback", r) EXCEPT !.hook = h], row[r],
              IF row[r].rolledBack THEN "refused" ELSE "target")
  BY DEF RollbackRelease
<1> DEFINE a == [NoArgs("rollback", r) EXCEPT !.hook = h]
<1>2. a \in Args /\ a.rel = r /\ a.kind = "rollback"
  BY DEF NoArgs, Args, CallKind, ShipOption, Rows
<1>3. row[r] \in Row /\ row[r] # None
  BY DEF IInv, TypeOK, Rows
<1> HIDE DEF a
<1>4. Begin(c, a, row[r], "refused") \/ Begin(c, a, row[r], "target")
  BY <1>1 DEF a
<1>5. QED
  BY <1>2, <1>3, <1>4, BeginPreserves

-----------------------------------------------------------------------------
\* What every write of the table looks like: one row, with a version and a repository
\* that the index allows or that it had before.
Change(r) ==
    \/ UNCHANGED row
    \/ \E new \in Row :
          /\ row' = [row EXCEPT ![r] = new]
          /\ \/ IndexAllows(r, new.version, new.repo)
             \/ row[r] # None /\ new.version = row[r].version /\ new.repo = row[r].repo

\* Such a write keeps rows rows, takes none away, and keeps versions apart.
LEMMA ChangeKeeps ==
    ASSUME IInv, NEW r \in Release, Change(r)
    PROVE  /\ row' \in [Release -> Row \cup {None}]
           /\ \A s \in Release : row[s] # None => row'[s] # None
           /\ \A s \in Release : s # r => row'[s] = row[s]
           /\ VersionUniquePerRepository'
<1> USE NoneIsNoRow DEF IInv, TypeOK
<1>1. CASE UNCHANGED row
  BY <1>1 DEF VersionUniquePerRepository, Rows
<1>2. ASSUME NEW new \in Row, row' = [row EXCEPT ![r] = new],
             \/ IndexAllows(r, new.version, new.repo)
             \/ row[r] # None /\ new.version = row[r].version /\ new.repo = row[r].repo
      PROVE  /\ row' \in [Release -> Row \cup {None}]
             /\ \A s \in Release : row[s] # None => row'[s] # None
             /\ \A s \in Release : s # r => row'[s] = row[s]
             /\ VersionUniquePerRepository'
  <2>1. row' \in [Release -> Row \cup {None}] /\ row'[r] = new
    BY <1>2
  <2>2. \A s \in Release : s # r => row'[s] = row[s]
    BY <1>2
  <2>3. \A s \in Others(r) : new.repo # None =>
          <<row[s].repo, row[s].version>> # <<new.repo, new.version>>
    BY <1>2 DEF IndexAllows, Others, Rows, VersionUniquePerRepository
  <2>4. VersionUniquePerRepository'
    BY <2>1, <2>2, <2>3 DEF VersionUniquePerRepository, Rows, Others
  <2>5. QED
    BY <2>1, <2>2, <2>4
<1>3. QED
  BY <1>1, <1>2 DEF Change

\* Time passes.
LEMMA TickPreserves ==
    ASSUME IInv, Tick
    PROVE  IInv'
<1> USE ReleaseAssumption, NoneIsNoRow DEF IInv, TypeOK, tables, outside, locals
<1>1. TypeOK'
  BY DEF Time, Tags, Stage, Tick
<1>2. Begun' /\ VersionUniquePerRepository' /\ Delivered' /\ ShippedWasDelivered' /\
     Announced' /\ NoSilentRollback'
  BY DEF Rows, Tag, HasHook, Tick, VersionUniquePerRepository, ShippedWasDelivered,
         NoSilentRollback, Begun, Delivered, Announced, Announces
<1>3. QED
  BY <1>1, <1>2

\* The index keeps the new row apart, and the row is not rolled back.
LEMMA InsertReleasePreserves ==
    ASSUME IInv, NEW c \in Call, InsertRelease(c)
    PROVE  IInv'
<1> USE ReleaseAssumption, NoneIsNoRow DEF IInv, TypeOK, tables, outside, locals
<1>a. cargs[c] \in Args /\ cargs[c].rel \in Release
  BY DEF InsertRelease, Begun, Args
<1> DEFINE new == [version |-> cargs[c].version, repo |-> cargs[c].repo, active |-> TRUE,
                   shipped |-> None, rolledBack |-> FALSE, hook |-> FALSE]
<1>c. Change(cargs[c].rel)
  <2>1. new \in Row
    BY <1>a DEF InsertRelease, Begun, Args, Row
  <2>2. QED
    BY <1>a, <2>1 DEF InsertRelease, Change
<1>d. /\ row' \in [Release -> Row \cup {None}]
      /\ \A s \in Release : row[s] # None => row'[s] # None
      /\ \A s \in Release : s # cargs[c].rel => row'[s] = row[s]
      /\ VersionUniquePerRepository'
  BY <1>a, <1>c, ChangeKeeps
<1>e. \/ row'[cargs[c].rel] = None \/ ~row'[cargs[c].rel].rolledBack
      \/ row'[cargs[c].rel] = row[cargs[c].rel]
  BY <1>a DEF InsertRelease
<1>1. TypeOK'
  BY <1>a, <1>d DEF Time, Tags, Stage, Goto, Rows, InsertRelease
<1>2. Begun'
  <2>1. UNCHANGED <<cargs, csnap>>
    BY DEF InsertRelease, Goto, locals
  <2>2. cpc[c] = "insert" /\ cpc' \in [Call -> Stage] /\ cpc'[c] \in {"done", "refused"}
    BY DEF InsertRelease, Goto, Stage
  <2>3. \A d \in Call : d # c => cpc'[d] = cpc[d]
    BY DEF InsertRelease, Goto
  <2>4. \A d \in Call : cargs[d] # None => cargs[d].rel \in Release
    BY DEF Args
  <2>5. QED
    BY <2>1, <2>2, <2>3, <2>4, <1>a, <1>d DEF Rows, Begun
<1>3. VersionUniquePerRepository'
  BY <1>a, <1>d DEF Goto, Rows, InsertRelease, VersionUniquePerRepository
<1>4. Delivered'
  BY <1>a DEF Goto, Rows, Others, InsertRelease, Tag, Begun, Delivered
<1>5. ShippedWasDelivered'
  BY <1>a DEF Goto, Rows, Others, InsertRelease, Tag, ShippedWasDelivered, Begun
<1>6. Announced'
  BY <1>a DEF Goto, Rows, Others, InsertRelease, HasHook, Begun, Announced, Announces
<1>7. NoSilentRollback'
  BY <1>a, <1>d, <1>e DEF Goto, Rows, InsertRelease, NoSilentRollback, Begun, Announced, Announces
<1>8. QED
  BY <1>1, <1>2, <1>3, <1>4, <1>5, <1>6, <1>7

\* A check changes no row.
LEMMA CheckVersionPreserves ==
    ASSUME IInv, NEW c \in Call, CheckVersion(c)
    PROVE  IInv'
<1> USE ReleaseAssumption, NoneIsNoRow DEF IInv, TypeOK, tables, outside, locals
<1>a. cargs[c] \in Args /\ cargs[c].rel \in Release
  BY DEF CheckVersion, Begun, Args
<1>b. csnap[c] \in Row /\ Tag(c) \in Tags
  BY DEF CheckVersion, Begun, Row, Tag, Tags
<1>1. TypeOK'
  BY <1>a, <1>b DEF Time, Tags, Stage, Goto, Rows, Others, CheckVersion
<1>2. Begun'
  BY <1>a, <1>b DEF Goto, Rows, Others, CheckVersion, Begun
<1>3. Delivered'
  BY <1>a, <1>b DEF Goto, Rows, Others, CheckVersion, Tag, Begun, Delivered
<1>4. ShippedWasDelivered'
  BY <1>a, <1>b DEF Goto, Rows, Others, CheckVersion, Tag, ShippedWasDelivered, Begun
<1>5. Announced'
  BY <1>a, <1>b DEF Goto, Rows, Others, CheckVersion, HasHook, Begun, Announced, Announces
<1>6. VersionUniquePerRepository' /\ NoSilentRollback'
  BY DEF Goto, Rows, Others, CheckVersion, VersionUniquePerRepository, NoSilentRollback,
         Announces, Begun
<1>7. QED
  BY <1>1, <1>2, <1>3, <1>4, <1>5, <1>6

\* The index keeps the changed row apart; its rollback columns stay.
LEMMA WriteUpdatePreserves ==
    ASSUME IInv, NEW c \in Call, WriteUpdate(c)
    PROVE  IInv'
<1> USE ReleaseAssumption, NoneIsNoRow DEF IInv, TypeOK, tables, outside, locals
<1>a. cargs[c] \in Args /\ cargs[c].rel \in Release
  BY DEF WriteUpdate, Begun, Args
<1>b. csnap[c] \in Row /\ Tag(c) \in Tags
  BY DEF WriteUpdate, Begun, Row, Tag, Tags
<1>c. Change(cargs[c].rel)
  <2>1. row[cargs[c].rel] \in Row
    BY <1>a DEF WriteUpdate, Begun
  <2>2. Updated(cargs[c].rel, cargs[c]) \in Row
    BY <1>a, <2>1 DEF Updated, Args, Row, Time
  <2>3. QED
    BY <1>a, <2>2 DEF WriteUpdate, Change
<1>d. /\ row' \in [Release -> Row \cup {None}]
      /\ \A s \in Release : row[s] # None => row'[s] # None
      /\ \A s \in Release : s # cargs[c].rel => row'[s] = row[s]
      /\ VersionUniquePerRepository'
  BY <1>a, <1>c, ChangeKeeps
<1>e. \/ row'[cargs[c].rel] = row[cargs[c].rel]
      \/ /\ row'[cargs[c].rel].rolledBack = row[cargs[c].rel].rolledBack
         /\ row'[cargs[c].rel].hook = row[cargs[c].rel].hook
  <2>1. row[cargs[c].rel] \in Row
    BY <1>a DEF WriteUpdate, Begun
  <2>2. Updated(cargs[c].rel, cargs[c]).rolledBack = row[cargs[c].rel].rolledBack
    BY <2>1 DEF Updated, Row
  <2>3. Updated(cargs[c].rel, cargs[c]).hook = row[cargs[c].rel].hook
    BY <2>1 DEF Updated, Row
  <2>4. QED
    BY <1>a, <2>2, <2>3 DEF WriteUpdate
<1>1. TypeOK'
  BY <1>a, <1>b, <1>d DEF Time, Tags, Stage, Goto, Rows, WriteUpdate
<1>2. Begun'
  <2>1. UNCHANGED <<cargs, csnap>>
    BY DEF WriteUpdate, Goto, locals
  <2>2. cpc[c] = "write" /\ cpc' \in [Call -> Stage] /\ cpc'[c] \in {"done", "refused"}
    BY DEF WriteUpdate, Goto, Stage
  <2>3. \A d \in Call : d # c => cpc'[d] = cpc[d]
    BY DEF WriteUpdate, Goto
  <2>4. \A d \in Call : cargs[d] # None => cargs[d].rel \in Release
    BY DEF Args
  <2>5. QED
    BY <2>1, <2>2, <2>3, <2>4, <1>a, <1>b, <1>d DEF Rows, Begun
<1>3. VersionUniquePerRepository'
  BY <1>a, <1>b, <1>d DEF Goto, Rows, WriteUpdate, VersionUniquePerRepository, Begun
<1>4. Delivered'
  BY <1>a, <1>b DEF Goto, Rows, Others, WriteUpdate, Tag, Begun, Delivered
<1>5. ShippedWasDelivered'
  BY <1>a, <1>b DEF Goto, Rows, Others, WriteUpdate, Tag, ShippedWasDelivered, Begun
<1>6. Announced'
  BY <1>a, <1>b DEF Goto, Rows, Others, WriteUpdate, HasHook, Begun, Announced, Announces
<1>7. NoSilentRollback'
  BY <1>a, <1>b, <1>d, <1>e DEF Goto, Rows, WriteUpdate, NoSilentRollback, Begun, Announced, Announces
<1>8. QED
  BY <1>1, <1>2, <1>3, <1>4, <1>5, <1>6, <1>7

\* A soft-deleted row keeps its version and its rollback columns.
LEMMA DeleteReleasePreserves ==
    ASSUME IInv, NEW c \in Call, DeleteRelease(c)
    PROVE  IInv'
<1> USE ReleaseAssumption, NoneIsNoRow DEF IInv, TypeOK, tables, outside, locals
<1> PICK r \in Rows :
      /\ cpc[c] = "new"
      /\ cpc' = [cpc EXCEPT ![c] = "done"]
      /\ cargs' = [cargs EXCEPT ![c] = NoArgs("delete", r)]
      /\ row' = [row EXCEPT ![r].active = FALSE]
      /\ UNCHANGED <<now, outside, csnap, ctarget, cfailed>>
  BY DEF DeleteRelease
<1>a. NoArgs("delete", r) \in Args
  BY DEF NoArgs, Args, CallKind, ShipOption, Rows
<1>c. Change(r)
  <2>1. r \in Release /\ row[r] \in Row /\ row[r] # None
    BY DEF Rows
  <2>2. [row[r] EXCEPT !.active = FALSE] \in Row
    BY <2>1 DEF Row
  <2>3. QED
    BY <2>1, <2>2 DEF Change, Row
<1>d. /\ row' \in [Release -> Row \cup {None}]
      /\ \A s \in Release : row[s] # None => row'[s] # None
      /\ \A s \in Release : s # r => row'[s] = row[s]
      /\ VersionUniquePerRepository'
  BY <1>c, ChangeKeeps DEF Rows
<1>e. /\ row'[r].rolledBack = row[r].rolledBack
      /\ row'[r].hook = row[r].hook
  BY DEF Rows, Row
<1>1. TypeOK'
  BY <1>a, <1>d DEF Time, Tags, Stage, Rows
<1>2. Begun'
  BY <1>a, <1>d DEF Rows, Begun
<1>3. VersionUniquePerRepository'
  BY <1>d DEF Rows, VersionUniquePerRepository, Begun
<1>4. Delivered'
  BY DEF Rows, Tag, Begun, Delivered
<1>5. ShippedWasDelivered'
  BY DEF Rows, Tag, ShippedWasDelivered, Begun
<1>6. Announced'
  BY DEF Rows, HasHook, Begun, Announced, Announces
<1>7. NoSilentRollback'
  BY <1>d, <1>e DEF Rows, NoSilentRollback, Begun, Announced, Announces
<1>8. QED
  BY <1>1, <1>2, <1>3, <1>4, <1>5, <1>6, <1>7

\* What GitHub has published stays published.
LEMMA PublishReleasePreserves ==
    ASSUME IInv, NEW c \in Call, PublishRelease(c)
    PROVE  IInv'
<1> USE ReleaseAssumption, NoneIsNoRow DEF IInv, TypeOK, tables, outside, locals
<1>a. cargs[c] \in Args /\ cargs[c].rel \in Release
  BY DEF PublishRelease, Begun, Args
<1>b. csnap[c] \in Row /\ Tag(c) \in Tags
  BY DEF PublishRelease, Begun, Row, Tag, Tags
<1>1. TypeOK'
  <2>1. published' \subseteq Tags
    BY <1>b DEF PublishRelease
  <2>2. \E ok \in BOOLEAN : External(c, ok, "workflow")
    BY DEF PublishRelease
  <2>3. /\ cpc' \in [Call -> Stage] /\ cfailed' \in [Call -> BOOLEAN]
        /\ UNCHANGED <<cargs, csnap, ctarget>>
    BY <2>2 DEF External, Stage
  <2>4. QED
    BY <2>1, <2>3 DEF PublishRelease
<1>2. Begun'
  BY <1>a, <1>b DEF Tag, External, PublishRelease, Begun
<1>3. Delivered'
  <2>1. \A d \in Call : d # c => cfailed'[d] = cfailed[d]
    BY DEF PublishRelease, External
  <2>2. ~cfailed'[c] /\ "release" \in cargs[c].wants => Tag(c) \in published'
    BY DEF PublishRelease, External
  <2>3. published \subseteq published'
    BY DEF PublishRelease
  <2>4. QED
    BY <2>1, <2>2, <2>3, <1>a, <1>b DEF Tag, External, PublishRelease, Begun, Delivered
<1>4. ShippedWasDelivered'
  BY <1>a, <1>b DEF Tag, External, PublishRelease, ShippedWasDelivered, Begun, Delivered
<1>5. Announced'
  BY <1>a, <1>b DEF Tag, External, PublishRelease, HasHook, Begun, Announced, Announces
<1>6. VersionUniquePerRepository' /\ NoSilentRollback'
  BY DEF Rows, Tag, External, PublishRelease, VersionUniquePerRepository,
         NoSilentRollback, Announces, Begun
<1>7. QED
  BY <1>1, <1>2, <1>3, <1>4, <1>5, <1>6

\* A failure of either step is remembered.
LEMMA DispatchWorkflowPreserves ==
    ASSUME IInv, NEW c \in Call, DispatchWorkflow(c)
    PROVE  IInv'
<1> USE ReleaseAssumption, NoneIsNoRow DEF IInv, TypeOK, tables, outside, locals
<1>a. cargs[c] \in Args /\ cargs[c].rel \in Release
  BY DEF DispatchWorkflow, Begun, Args
<1>b. csnap[c] \in Row /\ Tag(c) \in Tags
  BY DEF DispatchWorkflow, Begun, Row, Tag, Tags
<1>1. TypeOK'
  <2>1. deployed' \subseteq Tags
    BY <1>b DEF DispatchWorkflow
  <2>2. \E ok \in BOOLEAN : External(c, ok, "mark")
    BY DEF DispatchWorkflow
  <2>3. /\ cpc' \in [Call -> Stage] /\ cfailed' \in [Call -> BOOLEAN]
        /\ UNCHANGED <<cargs, csnap, ctarget>>
    BY <2>2 DEF External, Stage
  <2>4. QED
    BY <2>1, <2>3 DEF DispatchWorkflow
<1>2. Begun'
  BY <1>a, <1>b DEF Tag, External, DispatchWorkflow, Begun
<1>3. Delivered'
  <2>1. \A d \in Call : d # c => cfailed'[d] = cfailed[d]
    BY DEF DispatchWorkflow, External
  <2>2. ~cfailed'[c] => ~cfailed[c]
    BY DEF DispatchWorkflow, External
  <2>3. ~cfailed'[c] /\ "workflow" \in cargs[c].wants => Tag(c) \in deployed'
    BY DEF DispatchWorkflow, External
  <2>4. deployed \subseteq deployed'
    BY DEF DispatchWorkflow
  <2>5. QED
    BY <2>1, <2>2, <2>3, <2>4, <1>a, <1>b DEF Tag, External, DispatchWorkflow, Begun,
           Delivered
<1>4. ShippedWasDelivered'
  BY <1>a, <1>b DEF Tag, External, DispatchWorkflow, ShippedWasDelivered, Begun, Delivered
<1>5. Announced'
  BY <1>a, <1>b DEF Tag, External, DispatchWorkflow, HasHook, Begun, Announced, Announces
<1>6. VersionUniquePerRepository' /\ NoSilentRollback'
  BY DEF Rows, Tag, External, DispatchWorkflow, VersionUniquePerRepository,
         NoSilentRollback, Announces, Begun
<1>7. QED
  BY <1>1, <1>2, <1>3, <1>4, <1>5, <1>6

\* Shipped only with nothing failed.
LEMMA MarkShippedPreserves ==
    ASSUME IInv, NEW c \in Call, MarkShipped(c)
    PROVE  IInv'
<1> USE ReleaseAssumption, NoneIsNoRow DEF IInv, TypeOK, tables, outside, locals
<1>a. cargs[c] \in Args /\ cargs[c].rel \in Release
  BY DEF MarkShipped, Begun, Args
<1>b. csnap[c] \in Row /\ Tag(c) \in Tags
  BY DEF MarkShipped, Begun, Row, Tag, Tags
<1>c. Change(cargs[c].rel)
  <2>1. row[cargs[c].rel] \in Row /\ row[cargs[c].rel] # None
    BY <1>a DEF MarkShipped, Begun
  <2>2. [row[cargs[c].rel] EXCEPT !.shipped = now] \in Row
    BY <1>a, <1>b, <2>1 DEF Row, Time, Args, HasHook
  <2>3. QED
    BY <1>a, <2>1, <2>2 DEF MarkShipped, Change, Row
<1>d. /\ row' \in [Release -> Row \cup {None}]
      /\ \A s \in Release : row[s] # None => row'[s] # None
      /\ \A s \in Release : s # cargs[c].rel => row'[s] = row[s]
      /\ VersionUniquePerRepository'
  BY <1>a, <1>c, ChangeKeeps
<1>e. /\ row'[cargs[c].rel].rolledBack = row[cargs[c].rel].rolledBack
      /\ row'[cargs[c].rel].hook = row[cargs[c].rel].hook
  BY <1>a DEF MarkShipped, Begun, Row
<1>1. TypeOK'
  BY <1>a, <1>b, <1>d DEF Time, Tags, Stage, Goto, MarkShipped
<1>2. Begun'
  <2>1. UNCHANGED <<cargs, csnap>>
    BY DEF MarkShipped, Goto, locals
  <2>2. cpc[c] = "mark" /\ cpc' \in [Call -> Stage] /\ cpc'[c] \in {"done", "shipped"}
    BY DEF MarkShipped, Goto, Stage
  <2>3. \A d \in Call : d # c => cpc'[d] = cpc[d]
    BY DEF MarkShipped, Goto
  <2>4. \A d \in Call : cargs[d] # None => cargs[d].rel \in Release
    BY DEF Args
  <2>5. QED
    BY <2>1, <2>2, <2>3, <2>4, <1>a, <1>b, <1>d DEF Begun
<1>3. VersionUniquePerRepository'
  BY <1>a, <1>b, <1>d DEF Goto, Rows, MarkShipped, VersionUniquePerRepository, Begun
<1>4. Delivered'
  BY <1>a, <1>b DEF Goto, Tag, MarkShipped, Begun, Delivered
<1>5. ShippedWasDelivered'
  BY <1>a, <1>b DEF Goto, Tag, MarkShipped, ShippedWasDelivered, Begun, Delivered
<1>6. Announced'
  BY <1>a, <1>b DEF Goto, MarkShipped, HasHook, Begun, Announced, Announces
<1>7. NoSilentRollback'
  BY <1>a, <1>b, <1>d, <1>e DEF Goto, Rows, MarkShipped, NoSilentRollback, Begun, Announced, Announces
<1>8. QED
  BY <1>1, <1>2, <1>3, <1>4, <1>5, <1>6, <1>7

\* The target is only remembered.
LEMMA FindTargetPreserves ==
    ASSUME IInv, NEW c \in Call, FindTarget(c)
    PROVE  IInv'
<1> USE ReleaseAssumption, NoneIsNoRow DEF IInv, TypeOK, tables, outside, locals
<1>a. cargs[c] \in Args /\ cargs[c].rel \in Release
  BY DEF FindTarget, Begun, Args
<1>b. csnap[c] \in Row /\ Tag(c) \in Tags
  BY DEF FindTarget, Begun, Row, Tag, Tags
<1>1. TypeOK'
  <2>1. ctarget' \in [Call -> Release \cup {None}]
    BY DEF FindTarget, Stable, Others, Rows
  <2>2. QED
    BY <2>1, <1>a, <1>b DEF Time, Tags, Stage, Rows, FindTarget
<1>2. Begun'
  BY <1>a, <1>b DEF Rows, Others, FindTarget, Begun
<1>3. Delivered'
  BY <1>a, <1>b DEF Rows, Others, Tag, FindTarget, Begun, Delivered
<1>4. ShippedWasDelivered'
  BY <1>a, <1>b DEF Rows, Others, Tag, FindTarget, ShippedWasDelivered, Begun
<1>5. Announced'
  BY <1>a, <1>b DEF Rows, Others, HasHook, FindTarget, Begun, Announced, Announces
<1>6. VersionUniquePerRepository' /\ NoSilentRollback'
  BY DEF Rows, Others, FindTarget, VersionUniquePerRepository, NoSilentRollback, Announces, Begun
<1>7. QED
  BY <1>1, <1>2, <1>3, <1>4, <1>5, <1>6

\* The webhook goes out before the request gets to the record.
LEMMA DispatchRollbackPreserves ==
    ASSUME IInv, NEW c \in Call, DispatchRollback(c)
    PROVE  IInv'
<1> USE ReleaseAssumption, NoneIsNoRow DEF IInv, TypeOK, tables, outside, locals
<1>a. cargs[c] \in Args /\ cargs[c].rel \in Release
  BY DEF DispatchRollback, Begun, Args
<1>b. csnap[c] \in Row /\ Tag(c) \in Tags
  BY DEF DispatchRollback, Begun, Row, Tag, Tags
<1>1. TypeOK'
  <2>1. dispatched' \subseteq Call \X Release \X (Release \cup {None})
    <3>1. dispatched' \subseteq dispatched \cup {<<c, cargs[c].rel, ctarget[c]>>}
      BY DEF DispatchRollback
    <3>2. ctarget[c] \in Release \cup {None}
      OBVIOUS
    <3>3. QED
      BY <1>a, <3>1, <3>2
  <2>2. cpc' \in [Call -> Stage] /\ cfailed' \in [Call -> BOOLEAN]
    BY DEF DispatchRollback, External, Stage
  <2>3. QED
    BY <2>1, <2>2 DEF DispatchRollback, External
<1>2. Begun'
  BY <1>a, <1>b DEF External, HasHook, DispatchRollback, Begun
<1>3. Delivered'
  BY <1>a, <1>b DEF External, Tag, HasHook, DispatchRollback, Begun, Delivered
<1>4. ShippedWasDelivered'
  BY <1>a, <1>b DEF External, Tag, HasHook, DispatchRollback, ShippedWasDelivered, Begun
<1>5. dispatched \subseteq dispatched' /\ UNCHANGED <<cargs, csnap, row>> /\ cpc[c] = "dispatch"
      /\ cfailed' \in [Call -> BOOLEAN] /\ cpc' = [cpc EXCEPT ![c] = "record"]
      /\ \A d \in Call : (cfailed[d] => cfailed'[d])
  BY DEF DispatchRollback, External
<1>6. Announced'
  <2> SUFFICES ASSUME NEW d \in Call
               PROVE  /\ cpc'[d] \in {"target", "dispatch", "record"} => cargs[d].kind = "rollback"
                      /\ cpc'[d] = "record" /\ HasHook(d) => Announces(d)'
    BY <1>5 DEF Announced, HasHook
  <2>1. CASE d = c
    <3>1. cargs[c].kind = "rollback"
      BY <1>5 DEF Announced
    <3>2. HasHook(c) => cfailed'[c] \/ <<c, cargs[c].rel, ctarget[c]>> \in dispatched'
      BY DEF DispatchRollback, External
    <3>3. QED
      BY <1>5, <2>1, <3>1, <3>2 DEF Announces
  <2>2. CASE d # c
    BY <1>5, <2>2 DEF Announced, Announces
  <2>3. QED
    BY <2>1, <2>2
<1>7. NoSilentRollback'
  BY <1>5 DEF Rows, NoSilentRollback, Announces
<1>8. VersionUniquePerRepository'
  BY DEF External, Rows, HasHook, DispatchRollback, VersionUniquePerRepository, Begun
<1>9. QED
  BY <1>1, <1>2, <1>3, <1>4, <1>5, <1>6, <1>7, <1>8

\* The webhook of this request went out before.
LEMMA RecordRollbackPreserves ==
    ASSUME IInv, NEW c \in Call, RecordRollback(c)
    PROVE  IInv'
<1> USE ReleaseAssumption, NoneIsNoRow DEF IInv, TypeOK, tables, outside, locals
<1>a. cargs[c] \in Args /\ cargs[c].rel \in Release
  BY DEF RecordRollback, Begun, Args
<1>b. csnap[c] \in Row /\ Tag(c) \in Tags
  BY DEF RecordRollback, Begun, Row, Tag, Tags
<1>c. Change(cargs[c].rel)
  <2>1. row[cargs[c].rel] \in Row /\ row[cargs[c].rel] # None
    BY <1>a DEF RecordRollback, Begun
  <2>2. [row[cargs[c].rel] EXCEPT !.rolledBack = TRUE, !.hook = HasHook(c)] \in Row
    BY <1>a, <1>b, <2>1 DEF Row, Time, Args, HasHook
  <2>3. row' = [row EXCEPT ![cargs[c].rel] =
                   [row[cargs[c].rel] EXCEPT !.rolledBack = TRUE, !.hook = HasHook(c)]]
    BY <1>a DEF RecordRollback
  <2>4. QED
    BY <1>a, <2>1, <2>2, <2>3 DEF Change, Row
<1>d. /\ row' \in [Release -> Row \cup {None}]
      /\ \A s \in Release : row[s] # None => row'[s] # None
      /\ \A s \in Release : s # cargs[c].rel => row'[s] = row[s]
      /\ VersionUniquePerRepository'
  BY <1>a, <1>c, ChangeKeeps
<1>e. row'[cargs[c].rel].hook = HasHook(c)
  BY <1>a DEF RecordRollback, Begun, Row
<1>1. TypeOK'
  BY <1>a, <1>b, <1>d DEF Time, Tags, Stage, Goto, HasHook, RecordRollback
<1>2. Begun'
  <2>1. UNCHANGED <<cargs, csnap>>
    BY DEF RecordRollback, Goto, locals
  <2>2. cpc[c] = "record" /\ cpc' \in [Call -> Stage] /\ cpc'[c] \in {"done"}
    BY DEF RecordRollback, Goto, Stage
  <2>3. \A d \in Call : d # c => cpc'[d] = cpc[d]
    BY DEF RecordRollback, Goto
  <2>4. \A d \in Call : cargs[d] # None => cargs[d].rel \in Release
    BY DEF Args
  <2>5. QED
    BY <2>1, <2>2, <2>3, <2>4, <1>a, <1>b, <1>d DEF Begun
<1>3. VersionUniquePerRepository'
  BY <1>a, <1>b, <1>d DEF Goto, Rows, HasHook, RecordRollback, VersionUniquePerRepository,
         Begun
<1>4. Delivered'
  BY <1>a, <1>b DEF Goto, Tag, HasHook, RecordRollback, Begun, Delivered
<1>5. ShippedWasDelivered'
  BY <1>a, <1>b DEF Goto, Tag, HasHook, RecordRollback, ShippedWasDelivered, Begun
<1>6. Announced'
  BY <1>a, <1>b DEF Goto, HasHook, RecordRollback, Begun, Announced, Announces
<1>7. NoSilentRollback'
  <2> SUFFICES ASSUME NEW s \in Release, row'[s] # None, row'[s].rolledBack, row'[s].hook
               PROVE  \E d \in Call : cpc'[d] = "done" /\ cargs[d].rel = s /\ Announces(d)
    <3>1. UNCHANGED <<cargs, cfailed, dispatched>>
      BY DEF RecordRollback, Goto
    <3>2. \A d \in Call : Announces(d)' <=> Announces(d)
      BY <3>1 DEF Announces
    <3>3. QED
      BY <3>1, <3>2 DEF NoSilentRollback, Rows
  <2>1. cpc' = [cpc EXCEPT ![c] = "done"] /\ cpc[c] = "record"
    BY DEF RecordRollback, Goto
  <2>2. CASE s = cargs[c].rel
    <3>1. HasHook(c) => Announces(c)
      BY <2>1 DEF Announced
    <3>2. QED
      BY <1>e, <2>1, <2>2, <3>1
  <2>3. CASE s # cargs[c].rel
    <3>1. s \in Rows /\ row[s].rolledBack /\ row[s].hook
      BY <1>d, <2>3 DEF Rows
    <3>2. PICK d \in Call : cpc[d] = "done" /\ cargs[d].rel = s /\ Announces(d)
      BY <3>1 DEF NoSilentRollback
    <3>3. QED
      BY <2>1, <3>2
  <2>4. QED
    BY <2>2, <2>3
<1>8. QED
  BY <1>1, <1>2, <1>3, <1>4, <1>5, <1>6, <1>7

\* A crash drops a request.
LEMMA CrashPreserves ==
    ASSUME IInv, NEW c \in Call, Crash(c)
    PROVE  IInv'
<1> USE ReleaseAssumption, NoneIsNoRow DEF IInv, TypeOK, tables, outside, locals
<1>1. TypeOK'
  BY DEF Time, Tags, Stage, Goto, Crash
<1>2. Begun'
  BY DEF Goto, Crash, Begun
<1>3. Delivered'
  BY DEF Goto, Tag, Crash, Begun, Delivered
<1>4. ShippedWasDelivered'
  BY DEF Goto, Tag, Crash, ShippedWasDelivered, Begun
<1>5. Announced'
  BY DEF Goto, HasHook, Crash, Begun, Announced, Announces
<1>6. VersionUniquePerRepository' /\ NoSilentRollback'
  BY DEF Goto, Rows, Crash, VersionUniquePerRepository, NoSilentRollback, Announces, Begun
<1>7. QED
  BY <1>1, <1>2, <1>3, <1>4, <1>5, <1>6

\* A step that changes nothing preserves everything.
LEMMA StutterPreserves ==
    ASSUME IInv, UNCHANGED vars
    PROVE  IInv'
<1> USE DEF IInv, vars, tables, outside, locals
<1>1. TypeOK' /\ Begun' /\ VersionUniquePerRepository'
  BY DEF TypeOK, Begun, VersionUniquePerRepository, Rows
<1>2. Delivered' /\ ShippedWasDelivered'
  BY DEF Delivered, ShippedWasDelivered, Tag
<1>3. Announced' /\ NoSilentRollback'
  BY DEF Announced, Announces, NoSilentRollback, HasHook, Rows
<1>4. QED
  BY <1>1, <1>2, <1>3

\* Every step preserves the inductive invariant.
LEMMA NextPreserves == IInv /\ [Next]_vars => IInv'
<1> SUFFICES ASSUME IInv, [Next]_vars PROVE IInv'
  OBVIOUS
<1>1. CASE Tick
  BY <1>1, TickPreserves
<1>2. CASE \E c \in Call : CallStep(c)
  <2> PICK c \in Call : CallStep(c)
    BY <1>2
  <2>1. CASE CreateRelease(c) \/ InsertRelease(c) \/ UpdateRelease(c)
    BY <2>1, CreateReleasePreserves, InsertReleasePreserves, UpdateReleasePreserves
  <2>2. CASE CheckVersion(c) \/ WriteUpdate(c) \/ DeleteRelease(c)
    BY <2>2, CheckVersionPreserves, WriteUpdatePreserves, DeleteReleasePreserves
  <2>3. CASE ShipRelease(c) \/ PublishRelease(c) \/ DispatchWorkflow(c) \/ MarkShipped(c)
    BY <2>3, ShipReleasePreserves, PublishReleasePreserves, DispatchWorkflowPreserves,
       MarkShippedPreserves
  <2>4. CASE RollbackRelease(c) \/ FindTarget(c) \/ DispatchRollback(c) \/ RecordRollback(c)
    BY <2>4, RollbackReleasePreserves, FindTargetPreserves, DispatchRollbackPreserves,
       RecordRollbackPreserves
  <2>5. CASE Crash(c)
    BY <2>5, CrashPreserves
  <2>6. QED
    BY <2>1, <2>2, <2>3, <2>4, <2>5 DEF CallStep
<1>3. CASE UNCHANGED vars
  BY <1>3, StutterPreserves
<1>4. QED
  BY <1>1, <1>2, <1>3 DEF Next

\* The inductive invariant holds throughout every behaviour.
THEOREM Invariance == Spec => []IInv
BY InitEstablishes, NextPreserves, PTL DEF Spec

\* Type correctness.
THEOREM TypeCorrect == Spec => []TypeOK
<1>1. IInv => TypeOK
  BY DEF IInv
<1>2. QED
  BY <1>1, Invariance, PTL

\* However requests interleave, two releases of a repository never share a version.
THEOREM VersionsUnique == Spec => []VersionUniquePerRepository
<1>1. IInv => VersionUniquePerRepository
  BY DEF IInv
<1>2. QED
  BY <1>1, Invariance, PTL

\* A ship request that marked its release shipped had everything done that it asked for.
THEOREM ShippedDelivered == Spec => []ShippedWasDelivered
<1>1. IInv => ShippedWasDelivered
  BY DEF IInv
<1>2. QED
  BY <1>1, Invariance, PTL

\* No crash and no interleaving leaves a rollback with a webhook on record but by a request
\* that had posted the webhook, or whose fetch threw.
THEOREM RollbackAnnounced == Spec => []NoSilentRollback
<1>1. IInv => NoSilentRollback
  BY DEF IInv
<1>2. QED
  BY <1>1, Invariance, PTL
==============================================================================
