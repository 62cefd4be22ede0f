--------------------------- MODULE SidecarProofs ---------------------------
(***************************************************************************)
(* Two parts of the Sidecar that keep records, for any sets of them.       *)
(*                                                                         *)
(* SidecarStart: a process that writes to a profile holds a lock, has      *)
(* every migration complete and works for the owner of the profile.  The   *)
(* lock does not exclude: the removal of the lock file lets a second       *)
(* process in.  What protects the profile is the ledger, whose primary key *)
(* gives each migration to one process (ScriptInv), and in which a         *)
(* completed row stays completed (DoneInv).                                *)
(*                                                                         *)
(* Organisation: an archived company runs nothing, ever.  The property is  *)
(* inductive over typed tables.                                            *)
(***************************************************************************)
EXTENDS SidecarStart, Organisation, TLAPS

Steps == {"down", "launched", "opened", "locked", "migrating", "script", "unlock", "unlink"}
             \cup Writing

StartTypeOK ==
    /\ proc \in [Procs -> Steps]
    /\ identity \in [Procs -> [id : Identities \cup {NoOwner}, mode : {"online", "offline"}]]
    /\ flocked \subseteq Procs
    /\ todo \in [Procs -> SUBSET Migrations]
    /\ ledger \in [Migrations -> {"none", "running", "completed", "failed"}]
    /\ schema \in [Migrations -> {"none", "part", "all"}]
    /\ owner \in Identities \cup {NoOwner}

Locked == {"locked", "migrating", "script"} \cup Writing

\* A process past the lock holds it, and knows for whom it was started.
HoldsInv ==
    \A p \in Procs : /\ proc[p] \in Locked => p \in flocked
                     /\ proc[p] # "down" => identity[p].id \in Identities

OwnerInv == \A p \in Procs : proc[p] \in {"recovering", "serving"} => owner = identity[p].id

First(S) == CHOOSE v \in S : \A w \in S : v <= w

\* The row of a script that is being executed belongs to one process.
ScriptInv ==
    \A p \in Procs : proc[p] = "script" =>
        /\ First(todo[p]) \in Migrations => ledger[First(todo[p])] = "running"
        /\ \A q \in Procs : proc[q] = "script" /\ First(todo[p]) = First(todo[q])
                            /\ First(todo[p]) \in Migrations => p = q

\* What a process does not have to do is done, and what is done is whole.
DoneInv ==
    /\ \A p \in Procs : proc[p] \in {"migrating", "script"} =>
          \A v \in Migrations \ todo[p] : ledger[v] = "completed"
    /\ \A p \in Procs : proc[p] \in Writing => \A v \in Migrations : ledger[v] = "completed"
    /\ \A v \in Migrations : ledger[v] = "completed" => schema[v] = "all"

StartInv == StartTypeOK /\ HoldsInv /\ OwnerInv /\ ScriptInv /\ DoneInv

-----------------------------------------------------------------------------
\* NextVersion depends on the list of the process only.
LEMMA NextIsFirst ==
    /\ \A p : NextVersion(p) = First(todo[p])
    /\ \A p : NextVersion(p)' = First(todo'[p])
  BY DEF NextVersion, First

\* The steps of a start that leave the database and the list of migrations alone.
Quiet(p) ==
    \/ \E i \in Identities, mode \in {"online", "offline"} : LaunchProcess(p, i, mode)
    \/ OpenLock(p) \/ Flock(p) \/ LockRefused(p) \/ CloseLock(p) \/ UnlinkLock(p)
    \/ CapabilitiesMissing(p) \/ MigrationRefused(p) \/ IdentityRefused(p) \/ Serve(p)
    \/ RecoveryFails(p) \/ StopServing(p) \/ CloseConnections(p) \/ Kill(p)

\* A step of StartNext is one of these.
LEMMA StartSteps ==
    StartNext => \E p \in Procs :
        \/ Quiet(p) \/ ReadLedger(p) \/ BeginMigration(p) \/ RunStatements(p)
        \/ EndMigration(p) \/ MigrationFails(p) \/ OpenWriter(p) \/ VerifyIdentity(p)
  BY DEF StartNext, Quiet

\* What a quiet step may change.
LEMMA QuietMoves ==
    ASSUME StartTypeOK, NEW p \in Procs, Quiet(p)
    PROVE  /\ UNCHANGED <<todo, ledger, schema, owner>>
           /\ proc' \in [Procs -> Steps]
           /\ \A q \in Procs \ {p} : proc'[q] = proc[q] /\ identity'[q] = identity[q]
           /\ proc'[p] \notin {"migrating", "script"}
           /\ proc'[p] \in Writing => proc[p] \in Writing
           /\ proc'[p] \in {"recovering", "serving"} => proc[p] = "recovering"
           /\ proc'[p] \in Locked => proc[p] \in Locked \/ p \in flocked'
           /\ proc'[p] \in Locked => flocked \subseteq flocked'
           /\ flocked \ {p} \subseteq flocked' /\ flocked' \subseteq Procs
           /\ identity' \in [Procs -> [id : Identities \cup {NoOwner}, mode : {"online", "offline"}]]
           /\ \/ identity'[p] = identity[p] /\ (proc'[p] # "down" => proc[p] # "down")
              \/ identity'[p].id \in Identities /\ proc'[p] = "launched"
<1>1. CASE \E i \in Identities, mode \in {"online", "offline"} : LaunchProcess(p, i, mode)
  BY <1>1 DEF StartTypeOK, LaunchProcess, Move, Steps, Writing, Locked, lockVars, dbVars
<1>2. CASE OpenLock(p) \/ Flock(p) \/ LockRefused(p)
  BY <1>2 DEF StartTypeOK, OpenLock, Flock, LockRefused, Move, Steps, Writing, Locked, lockVars, dbVars
<1>3. CASE CloseLock(p) \/ UnlinkLock(p) \/ Kill(p)
  BY <1>3 DEF StartTypeOK, CloseLock, UnlinkLock, Kill, Move, Steps, Writing, Locked, lockVars, dbVars
<1>4. CASE CapabilitiesMissing(p) \/ MigrationRefused(p) \/ IdentityRefused(p)
  BY <1>4 DEF StartTypeOK, CapabilitiesMissing, MigrationRefused, IdentityRefused, Move, Steps, Writing,
              Locked, lockVars, dbVars
<1>5. CASE Serve(p) \/ RecoveryFails(p) \/ StopServing(p) \/ CloseConnections(p)
  BY <1>5 DEF StartTypeOK, Serve, RecoveryFails, StopServing, CloseConnections, Move, Steps, Writing,
              Locked, lockVars, dbVars
<1> QED
  BY <1>1, <1>2, <1>3, <1>4, <1>5 DEF Quiet

LEMMA QuietStep ==
    ASSUME StartInv, NEW p \in Procs, Quiet(p)
    PROVE  StartInv'
<1> USE QuietMoves DEF StartInv
<1>1. StartTypeOK'
  BY DEF StartTypeOK
<1>2. HoldsInv'
  BY DEF HoldsInv, StartTypeOK
<1>3. OwnerInv'
  BY DEF OwnerInv, StartTypeOK, Writing
<1>4. ScriptInv'
  BY DEF ScriptInv
<1>5. DoneInv'
  BY DEF DoneInv
<1> QED
  BY <1>1, <1>2, <1>3, <1>4, <1>5

-----------------------------------------------------------------------------
LEMMA StartInvInductive ==
    StartInv /\ [StartNext]_startVars => StartInv'
<1> SUFFICES ASSUME StartInv, [StartNext]_startVars PROVE StartInv'
  OBVIOUS
<1> USE DEF StartInv
<1>0. CASE UNCHANGED startVars
  BY <1>0 DEF startVars, StartTypeOK, HoldsInv, OwnerInv, ScriptInv, DoneInv
<1>1. ASSUME NEW p \in Procs, Quiet(p) PROVE StartInv'
  BY <1>1, QuietStep
<1>2. ASSUME NEW p \in Procs, ReadLedger(p) PROVE StartInv'
  <2> USE <1>2 DEF ReadLedger, Move, lockVars, dbVars
  <2>1. StartTypeOK'
    BY DEF StartTypeOK, Steps
  <2>2. HoldsInv' /\ OwnerInv'
    BY DEF HoldsInv, OwnerInv, StartTypeOK, Locked, Writing
  <2>3. \A q \in Procs : proc'[q] = "script" => proc[q] = "script" /\ todo'[q] = todo[q]
    BY DEF StartTypeOK
  <2>4. ScriptInv'
    BY <2>3 DEF ScriptInv
  <2>5. DoneInv'
    BY DEF DoneInv, StartTypeOK, Writing
  <2> QED
    BY <2>1, <2>2, <2>4, <2>5
<1>3. ASSUME NEW p \in Procs, BeginMigration(p) PROVE StartInv'
  <2> DEFINE n == First(todo[p])
  <2> USE <1>3 DEF BeginMigration, Move, lockVars
  <2>0. /\ ledger[n] = "none" /\ ledger' = [ledger EXCEPT ![n] = "running"]
        /\ UNCHANGED <<todo, schema, owner, identity, flocked>>
        /\ proc[p] = "migrating" /\ proc' = [proc EXCEPT ![p] = "script"]
    BY NextIsFirst
  <2> HIDE DEF n
  <2> USE ONLY StartInv, <2>0 DEF StartInv
  <2>1. StartTypeOK'
    BY DEF StartTypeOK, Steps
  <2>2. HoldsInv' /\ OwnerInv'
    BY DEF HoldsInv, OwnerInv, StartTypeOK, Locked, Writing
  <2>3. \A v \in Migrations : ledger[v] # "none" => ledger'[v] = ledger[v]
    BY DEF StartTypeOK
  <2>4. ScriptInv'
    <3>1. n \in Migrations => ledger'[n] = "running"
      BY DEF StartTypeOK
    <3>2. \A q \in Procs : proc[q] = "script" /\ First(todo[q]) \in Migrations => First(todo[q]) # n
      BY DEF ScriptInv
    <3>3. \A q \in Procs : proc'[q] = "script" <=> proc[q] = "script" \/ q = p
      BY DEF StartTypeOK
    <3> QED
      BY <2>3, <3>1, <3>2, <3>3 DEF ScriptInv, n
  <2>5. DoneInv'
    BY <2>3 DEF DoneInv, StartTypeOK, Writing
  <2> QED
    BY <2>1, <2>2, <2>4, <2>5
<1>4. ASSUME NEW p \in Procs, RunStatements(p) PROVE StartInv'
  <2>0. /\ schema' = [schema EXCEPT ![NextVersion(p)] = IF @ = "none" THEN "part" ELSE "all"]
        /\ schema[NextVersion(p)] # "all"
        /\ UNCHANGED <<proc, identity, flocked, todo, ledger, owner>>
    BY <1>4 DEF RunStatements, lockVars
  <2>1. StartTypeOK'
    BY <2>0 DEF StartTypeOK
  <2>2. HoldsInv' /\ OwnerInv' /\ ScriptInv'
    BY <2>0 DEF HoldsInv, OwnerInv, ScriptInv
  <2>3. DoneInv'
    BY <2>0 DEF DoneInv, StartTypeOK
  <2> QED
    BY <2>1, <2>2, <2>3
<1>5. ASSUME NEW p \in Procs, EndMigration(p) \/ MigrationFails(p) PROVE StartInv'
  <2> DEFINE n == First(todo[p])
  <2>0. /\ UNCHANGED <<schema, owner, identity, flocked>>
        /\ proc[p] = "script"
        /\ \/ /\ proc' = [proc EXCEPT ![p] = "migrating"] /\ schema[n] = "all"
              /\ ledger' = [ledger EXCEPT ![n] = "completed"]
              /\ todo' = [todo EXCEPT ![p] = @ \ {n}]
           \/ /\ proc' = [proc EXCEPT ![p] = "unlock"] /\ UNCHANGED todo
              /\ ledger' = [ledger EXCEPT ![n] = "failed"]
    BY <1>5, NextIsFirst DEF EndMigration, MigrationFails, Move, lockVars
  <2>1. StartTypeOK'
    BY <2>0 DEF StartTypeOK, Steps
  <2>2. HoldsInv' /\ OwnerInv'
    BY <2>0 DEF HoldsInv, OwnerInv, StartTypeOK, Locked, Writing
  <2>3. n \in Migrations => ledger[n] = "running"
    BY <2>0 DEF ScriptInv
  <2>4. \A v \in Migrations : v # n => ledger'[v] = ledger[v]
    BY <2>0 DEF StartTypeOK
  <2>5. ScriptInv'
    <3>1. \A q \in Procs : proc'[q] = "script" => proc[q] = "script" /\ q # p /\ todo'[q] = todo[q]
      BY <2>0 DEF StartTypeOK
    <3>2. \A q \in Procs : proc'[q] = "script" /\ First(todo[q]) \in Migrations => First(todo[q]) # n
      BY <2>0, <3>1 DEF ScriptInv
    <3> QED
      BY <2>4, <3>1, <3>2 DEF ScriptInv
  <2>6. DoneInv'
    <3> HIDE DEF n
    <3>1. \A v \in Migrations : ledger'[v] = "completed" => schema'[v] = "all"
      BY <2>0, <2>4 DEF DoneInv, StartTypeOK
    <3>2. \A v \in Migrations : ledger[v] = "completed" => ledger'[v] = "completed"
      BY <2>3, <2>4
    <3>3. \A q \in Procs : proc'[q] \in Writing => proc[q] \in Writing
      BY <2>0 DEF StartTypeOK, Writing
    <3>4. ASSUME NEW q \in Procs, proc'[q] \in {"migrating", "script"},
                 NEW v \in Migrations \ todo'[q]
          PROVE  ledger'[v] = "completed"
      <4>1. CASE v = n /\ ledger' = [ledger EXCEPT ![n] = "completed"]
        BY <4>1 DEF StartTypeOK
      <4>2. CASE v \notin todo[q]
        BY <2>0, <3>2, <3>4, <4>2 DEF DoneInv, StartTypeOK
      <4> QED
        BY <2>0, <3>4, <4>1, <4>2 DEF StartTypeOK
    <3> QED
      BY <3>1, <3>2, <3>3, <3>4 DEF DoneInv
  <2> QED
    BY <2>1, <2>2, <2>5, <2>6
<1>6. ASSUME NEW p \in Procs, OpenWriter(p) PROVE StartInv'
  <2> USE <1>6 DEF OpenWriter, Move, lockVars, dbVars
  <2>1. StartTypeOK'
    BY DEF StartTypeOK, Steps, Writing
  <2>2. HoldsInv' /\ OwnerInv'
    BY DEF HoldsInv, OwnerInv, StartTypeOK, Locked, Writing
  <2>3. ScriptInv'
    BY DEF ScriptInv, StartTypeOK
  <2>4. DoneInv'
    BY DEF DoneInv, StartTypeOK
  <2> QED
    BY <2>1, <2>2, <2>3, <2>4
<1>7. ASSUME NEW p \in Procs, VerifyIdentity(p) PROVE StartInv'
  <2> USE <1>7 DEF VerifyIdentity, Move, lockVars
  <2>0. owner' = identity[p].id /\ (owner = NoOwner \/ UNCHANGED owner) /\ identity[p].id \in Identities
    BY DEF HoldsInv
  <2>1. StartTypeOK'
    BY <2>0 DEF StartTypeOK, Steps, Writing
  <2>2. HoldsInv'
    BY DEF HoldsInv, StartTypeOK, Locked, Writing
  <2>3. OwnerInv'
    <3>1. \A q \in Procs : proc[q] \in {"recovering", "serving"} => owner \in Identities
      BY DEF OwnerInv, HoldsInv
    <3> QED
      BY <2>0, <3>1, StartAssumption DEF OwnerInv, StartTypeOK
  <2>4. ScriptInv'
    BY DEF ScriptInv, StartTypeOK
  <2>5. DoneInv'
    BY DEF DoneInv, StartTypeOK, Writing
  <2> QED
    BY <2>1, <2>2, <2>3, <2>4, <2>5
<1> QED
  BY <1>0, <1>1, <1>2, <1>3, <1>4, <1>5, <1>6, <1>7, StartSteps

(***************************************************************************)
(* Whoever writes to a profile holds a lock, found every migration         *)
(* completed with its whole script and, past the identity check, works for *)
(* the owner of the profile (MigrationRunner.apply_all, ProfileFileLock,   *)
(* _ensure_profile_identity).                                              *)
(***************************************************************************)
THEOREM WritersOwnTheProfile == StartSpec => []WritesOwnMigratedProfile
<1>1. StartInit => StartInv
  BY StartAssumption DEF StartInit, StartInv, StartTypeOK, HoldsInv, OwnerInv, ScriptInv, DoneInv, Steps,
                         Locked, Writing
<1>2. StartInv => WritesOwnMigratedProfile
  BY DEF StartInv, HoldsInv, OwnerInv, DoneInv, WritesOwnMigratedProfile, Locked
<1> QED
  BY <1>1, <1>2, StartInvInductive, PTL DEF StartSpec

-----------------------------------------------------------------------------
(* Organisation. *)

CompanyRow == [status : {"active", "archived", NoId}, office : Departments \cup {NoId},
               gm : Employees \cup {NoId}]
DeptRow == [status : {"active", "archived", NoId}, company : Companies \cup {NoId},
            kind : {"standard", "general_manager_office", NoId}, leader : Employees \cup {NoId}]
EmpRow == [status : {"active", "draining", "inactive", "unavailable", NoId},
           company : Companies \cup {NoId}, dept : Departments \cup {NoId},
           role : {"general_manager", "department_leader", "member", NoId},
           profile : Profiles \cup {NoId}]

OrgTypeOK ==
    /\ company \in [Companies -> CompanyRow]
    /\ dept \in [Departments -> DeptRow]
    /\ emp \in [Employees -> EmpRow]

OrgInv == OrgTypeOK /\ ArchivedIsClosed

\* The rows that the commands write.
LEMMA OrgRows ==
    /\ \A d \in Departments, e \in Employees : NewCompany(d, e) \in CompanyRow
    /\ \A c \in Companies, e \in Employees, kind \in {"standard", "general_manager_office"} :
          NewDept(c, kind, e) \in DeptRow
    /\ \A c \in Companies, d \in Departments, p \in Profiles,
          role \in {"general_manager", "department_leader", "member"} : NewEmp(c, d, role, p) \in EmpRow
    /\ NoCompany \in CompanyRow /\ NoDept \in DeptRow /\ NoEmp \in EmpRow
    /\ \A row \in CompanyRow : [row EXCEPT !.status = "archived"] \in CompanyRow
    /\ \A row \in DeptRow : [row EXCEPT !.status = "archived"] \in DeptRow
    /\ \A row \in DeptRow, e \in Employees : [row EXCEPT !.leader = e] \in DeptRow
    /\ \A row \in EmpRow, status \in {"active", "draining", "inactive", "unavailable"} :
          [row EXCEPT !.status = status] \in EmpRow
    /\ \A row \in EmpRow, d \in Departments : [row EXCEPT !.dept = d] \in EmpRow
    /\ \A row \in EmpRow, p \in Profiles : [row EXCEPT !.profile = p] \in EmpRow
    /\ \A row \in EmpRow, role \in {"general_manager", "department_leader", "member"} :
          [row EXCEPT !.role = role] \in EmpRow
<1>1. /\ \A row \in CompanyRow : [row EXCEPT !.status = "archived"] \in CompanyRow
      /\ \A row \in DeptRow : [row EXCEPT !.status = "archived"] \in DeptRow
      /\ \A row \in DeptRow, e \in Employees : [row EXCEPT !.leader = e] \in DeptRow
  BY DEF CompanyRow, DeptRow
<1>2. /\ \A row \in EmpRow, status \in {"active", "draining", "inactive", "unavailable"} :
            [row EXCEPT !.status = status] \in EmpRow
      /\ \A row \in EmpRow, d \in Departments : [row EXCEPT !.dept = d] \in EmpRow
      /\ \A row \in EmpRow, p \in Profiles : [row EXCEPT !.profile = p] \in EmpRow
      /\ \A row \in EmpRow, role \in {"general_manager", "department_leader", "member"} :
            [row EXCEPT !.role = role] \in EmpRow
  BY DEF EmpRow
<1> QED
  BY <1>1, <1>2 DEF CompanyRow, DeptRow, EmpRow, NewCompany, NewDept, NewEmp, NoCompany, NoDept, NoEmp

\* What the commands leave alone in a row.
LEMMA OrgFields ==
    /\ \A row \in DeptRow, e \in Employees :
          [row EXCEPT !.leader = e].status = row.status /\ [row EXCEPT !.leader = e].company = row.company
    /\ \A row \in DeptRow : /\ [row EXCEPT !.status = "archived"].status = "archived"
                            /\ [row EXCEPT !.status = "archived"].company = row.company
    /\ \A row \in EmpRow, d \in Departments :
          [row EXCEPT !.dept = d].status = row.status /\ [row EXCEPT !.dept = d].company = row.company
    /\ \A row \in EmpRow, p \in Profiles :
          [row EXCEPT !.profile = p].status = row.status /\ [row EXCEPT !.profile = p].company = row.company
    /\ \A row \in EmpRow, role \in {"general_manager", "department_leader", "member"} :
          [row EXCEPT !.role = role].status = row.status /\ [row EXCEPT !.role = role].company = row.company
    /\ \A row \in EmpRow, status \in {"active", "draining", "inactive", "unavailable"} :
          /\ [row EXCEPT !.status = status].status = status
          /\ [row EXCEPT !.status = status].company = row.company
  BY DEF DeptRow, EmpRow

\* The commands that change neither companies nor departments nor employees and
\* begin no run.
OrgQuiet ==
    \/ \E c \in Companies : OpenTask(c) \/ SupersedeTask(c) \/ CloseWork(c)
    \/ \E old \in Employees, e \in Employees : ReplaceEmployee(old, e)
    \/ \E e \in Employees : Finish(e) \/ EndRun(e)
    \/ \E p \in Profiles : PublishDraft(p) \/ RetireVersion(p)
    \/ \E p \in Profiles, e \in Employees, valid \in BOOLEAN : CreateDraft(p, e, valid)
    \/ \E p \in Profiles, valid \in BOOLEAN : UpdateDraft(p, valid)
    \/ \E p \in Profiles, s \in Skills : BindSkill(p, s) \/ UnbindSkill(p, s)

LEMMA OrgInvInductive ==
    OrgInv /\ [OrgNext]_orgVars => OrgInv'
<1> SUFFICES ASSUME OrgInv, [OrgNext]_orgVars PROVE OrgInv'
  OBVIOUS
<1> USE OrganisationAssumption DEF OrgInv, jobVars
<1>0. CASE UNCHANGED orgVars
  BY <1>0 DEF orgVars, OrgTypeOK, ArchivedIsClosed
<1>1. ASSUME NEW c \in Companies, NEW d \in Departments, NEW e \in Employees, NEW p \in Profiles,
             CreateCompany(c, d, e, p)
      PROVE  OrgInv'
  <2>1. OrgTypeOK'
    BY <1>1, OrgRows DEF CreateCompany, OrgTypeOK
  <2>2. ArchivedIsClosed'
    BY <1>1, OrgFields DEF CreateCompany, OrgTypeOK, ArchivedIsClosed, NewCompany, NewDept, NewEmp, Free
  <2> QED
    BY <2>1, <2>2
<1>2. ASSUME NEW c \in Companies, NEW d \in Departments, NEW e \in Employees, NEW p \in Profiles,
             CreateDepartment(c, d, e, p)
      PROVE  OrgInv'
  <2>1. OrgTypeOK'
    BY <1>2, OrgRows DEF CreateDepartment, OrgTypeOK
  <2>2. ArchivedIsClosed'
    BY <1>2, OrgFields DEF CreateDepartment, OrgTypeOK, ArchivedIsClosed, NewDept, NewEmp, ActiveCompany
  <2> QED
    BY <2>1, <2>2
<1>3. ASSUME NEW c \in Companies,
             ArchiveCompany(c)
      PROVE  OrgInv'
  <2>1. OrgTypeOK'
    BY <1>3, OrgRows DEF ArchiveCompany, OrgTypeOK
  <2>2. ArchivedIsClosed'
    BY <1>3, OrgFields DEF ArchiveCompany, OrgTypeOK, ArchivedIsClosed, CompanyRow
  <2> QED
    BY <2>1, <2>2
<1>4. ASSUME NEW e \in Employees, NEW dispatched \in BOOLEAN, Assign(e, dispatched) \/ StartRun(e)
      PROVE  OrgInv'
  <2>1. /\ UNCHANGED <<company, dept, emp>> /\ emp[e].status = "active"
        /\ engaged' \subseteq engaged \union {e}
    BY <1>4 DEF Assign, StartRun
  <2> QED
    BY <2>1 DEF OrgTypeOK, ArchivedIsClosed
<1>5. ASSUME NEW d \in Departments,
             ArchiveDepartment(d)
      PROVE  OrgInv'
  <2>1. OrgTypeOK'
    BY <1>5, OrgRows DEF ArchiveDepartment, OrgTypeOK
  <2>2. ArchivedIsClosed'
    BY <1>5, OrgFields DEF ArchiveDepartment, OrgTypeOK, ArchivedIsClosed
  <2> QED
    BY <2>1, <2>2
<1>6. ASSUME NEW d \in Departments, NEW e \in Employees,
             TransferEmployee(e, d)
      PROVE  OrgInv'
  <2>1. OrgTypeOK'
    BY <1>6, OrgRows DEF TransferEmployee, SetEmployee, OrgTypeOK
  <2>2. ArchivedIsClosed'
    BY <1>6, OrgFields DEF TransferEmployee, SetEmployee, OrgTypeOK, ArchivedIsClosed
  <2> QED
    BY <2>1, <2>2
<1>7. ASSUME NEW d \in Departments, NEW e \in Employees, SetDepartmentLeader(d, e) PROVE OrgInv'
  <2> DEFINE old == dept[d].leader
             middle == [emp EXCEPT ![old] = [emp[old] EXCEPT !.role = "member"]]
  <2>1. /\ dept' = [dept EXCEPT ![d] = [dept[d] EXCEPT !.leader = e]]
        /\ emp' = [middle EXCEPT ![e] = [middle[e] EXCEPT !.role = "department_leader"]]
        /\ UNCHANGED <<company, engaged>>
    BY <1>7 DEF SetDepartmentLeader
  <2>2. /\ middle \in [Employees -> EmpRow]
        /\ \A x \in Employees : middle[x].status = emp[x].status /\ middle[x].company = emp[x].company
    <3>0. emp \in [Employees -> EmpRow]
      BY DEF OrgTypeOK
    <3>1. CASE old \in Employees
      <4>1. emp[old] \in EmpRow
        BY <3>0, <3>1
      <4> DEFINE row == [emp[old] EXCEPT !.role = "member"]
      <4>2. row \in EmpRow /\ row.status = emp[old].status /\ row.company = emp[old].company
        BY <4>1, OrgRows, OrgFields
      <4>3. middle = [emp EXCEPT ![old] = row]
        OBVIOUS
      <4> HIDE DEF row, old, middle
      <4> QED
        BY <3>0, <3>1, <4>2, <4>3
    <3>2. CASE old \notin Employees
      <4>1. middle = emp
        <5> HIDE DEF old
        <5> QED
          BY <3>0, <3>2
      <4> QED
        BY <3>0, <4>1
    <3> QED
      BY <3>1, <3>2
  <2> HIDE DEF middle
  <2>3. OrgTypeOK'
    BY <2>1, <2>2, OrgRows DEF OrgTypeOK
  <2>4. \A x \in Employees : emp'[x].status = emp[x].status /\ emp'[x].company = emp[x].company
    BY <2>1, <2>2, OrgFields
  <2>5. \A x \in Departments : dept'[x].status = dept[x].status /\ dept'[x].company = dept[x].company
    BY <2>1, OrgFields DEF OrgTypeOK
  <2> QED
    BY <2>1, <2>3, <2>4, <2>5 DEF ArchivedIsClosed
<1>8. ASSUME NEW d \in Departments, NEW e \in Employees, NEW p \in Profiles,
             CreateEmployee(d, e, p)
      PROVE  OrgInv'
  <2>1. dept[d].company \in Companies \union {NoId}
    BY DEF OrgTypeOK, DeptRow
  <2>2. NewEmp(dept[d].company, d, "member", p) \in EmpRow
    BY <2>1 DEF NewEmp, EmpRow
  <2>3. OrgTypeOK'
    BY <1>8, <2>2 DEF CreateEmployee, OrgTypeOK
  <2>4. ArchivedIsClosed'
    BY <1>8, OrgFields DEF CreateEmployee, OrgTypeOK, ArchivedIsClosed, NewEmp, ActiveCompany
  <2> QED
    BY <2>3, <2>4
<1>9. ASSUME NEW e \in Employees, NEW p \in Profiles,
             UpdateBaseProfile(e, p)
      PROVE  OrgInv'
  <2>1. OrgTypeOK'
    BY <1>9, OrgRows DEF UpdateBaseProfile, SetEmployee, OrgTypeOK
  <2>2. ArchivedIsClosed'
    BY <1>9, OrgFields DEF UpdateBaseProfile, SetEmployee, OrgTypeOK, ArchivedIsClosed
  <2> QED
    BY <2>1, <2>2
<1>10. ASSUME NEW e \in Employees, NEW status \in Statuses,
             UpdateEmployeeStatus(e, status)
      PROVE  OrgInv'
  <2>1. OrgTypeOK'
    BY <1>10, OrgRows DEF UpdateEmployeeStatus, SetEmployee, OrgTypeOK
  <2>2. ArchivedIsClosed'
    BY <1>10, OrgFields DEF UpdateEmployeeStatus, SetEmployee, OrgTypeOK, ArchivedIsClosed, ActiveCompany
  <2> QED
    BY <2>1, <2>2
<1>11. ASSUME NEW e \in Employees, NEW role \in WorkRoles,
             UpdateWorkRole(e, role)
      PROVE  OrgInv'
  <2>1. OrgTypeOK'
    BY <1>11, OrgRows DEF UpdateWorkRole, SetEmployee, OrgTypeOK
  <2>2. ArchivedIsClosed'
    BY <1>11, OrgFields DEF UpdateWorkRole, SetEmployee, OrgTypeOK, ArchivedIsClosed
  <2> QED
    BY <2>1, <2>2
<1>12. CASE OrgQuiet
  <2>1. UNCHANGED <<company, dept, emp>> /\ engaged' \subseteq engaged
    BY <1>12 DEF OrgQuiet, OpenTask, SupersedeTask, CloseWork, SetWork, ReplaceEmployee, Finish, EndRun, PublishDraft, RetireVersion, CreateDraft, UpdateDraft,
                 BindSkill, UnbindSkill, SetProfile
  <2> QED
    BY <2>1 DEF OrgTypeOK, ArchivedIsClosed
<1> QED
  BY <1>0, <1>1, <1>2, <1>3, <1>4, <1>5, <1>6, <1>7, <1>8, <1>9, <1>10, <1>11, <1>12
  DEF OrgNext, OrgQuiet

(***************************************************************************)
(* An archived company runs nothing and never will, for any companies,     *)
(* departments, employees and profiles and any sequence of the commands of *)
(* company.py, employee.py, profile/service.py and public_rpc.py, among    *)
(* them task.supersede, which opens a task in an archived company.         *)
(***************************************************************************)
THEOREM ArchivedStaysClosed == OrgSpec => []ArchivedIsClosed
<1>1. OrgInit => OrgInv
  <2>1. OrgInit => OrgTypeOK
    BY OrganisationAssumption, OrgRows DEF OrgInit, OrgTypeOK
  <2>2. OrgInit => ArchivedIsClosed
    BY OrganisationAssumption DEF OrgInit, ArchivedIsClosed, NewCompany, NoCompany
  <2> QED
    BY <2>1, <2>2 DEF OrgInv
<1>2. OrgInv => ArchivedIsClosed
  BY DEF OrgInv
<1> QED
  BY <1>1, <1>2, OrgInvInductive, PTL DEF OrgSpec
=============================================================================
