---------------------------- MODULE Organisation ----------------------------
(***************************************************************************)
(* Companies, departments, employees and their base profiles: company.py,  *)
(* employee.py, profile/service.py and the SQL adapters of public_rpc.py   *)
(* for the same tables.  Each command is one transaction of the WriteQueue *)
(* and a refused one changes nothing.                                      *)
(*                                                                         *)
(* Names, revisions, responsibilities and row versions are left out: a     *)
(* name in use or a stale expected_version refuses the command.  The first *)
(* company and its profile come with the database, because company.create  *)
(* asks for a published profile and profile.createDraft for an employee of *)
(* a company.                                                              *)
(***************************************************************************)
EXTENDS FiniteSets

CONSTANTS Companies, Departments, Employees, Profiles, Skills, NoId,
          Statuses, WorkRoles,  \* of employees: what the callers ask for
          FirstCompany, FirstOffice, FirstManager, FirstProfile

ASSUME OrganisationAssumption ==
    /\ FirstCompany \in Companies /\ FirstOffice \in Departments
    /\ FirstManager \in Employees /\ FirstProfile \in Profiles
    /\ Statuses \subseteq {"active", "draining", "inactive", "unavailable"}
    /\ WorkRoles \subseteq {"general_manager", "department_leader", "member"}
    /\ NoId \notin Companies \cup {"active", "archived"}

VARIABLES
    company,   \* companies: status, general_manager_office_id, general_manager_employee_id
    dept,      \* departments: status (its conversation has the same), leader_employee_id
    emp,       \* employees
    profile,   \* employee_base_profile_versions: create_draft makes one per profile
    work,      \* company_tasks with their approvals, reviews and workspaces, per company
    busy,      \* employees with an employee task that is not finished
    engaged    \* employees with an agent run that has not ended

jobVars == <<work, busy, engaged>>
orgVars == <<company, dept, emp, profile, jobVars>>

----------------------------------------------------------------------------
(* Rows. *)

NoCompany == [status |-> NoId, office |-> NoId, gm |-> NoId]
NoDept == [status |-> NoId, company |-> NoId, kind |-> NoId, leader |-> NoId]
NoEmp == [status |-> NoId, company |-> NoId, dept |-> NoId, role |-> NoId, profile |-> NoId]
NoProfile == [status |-> NoId, valid |-> FALSE, skills |-> {}]

NewCompany(d, e) == [status |-> "active", office |-> d, gm |-> e]
NewDept(c, kind, e) == [status |-> "active", company |-> c, kind |-> kind, leader |-> e]
NewEmp(c, d, role, p) ==
    [status |-> "active", company |-> c, dept |-> d, role |-> role, profile |-> p]
NewDraft(valid) == [status |-> "draft", valid |-> valid, skills |-> {}]

Free(table, id) == table[id].status = NoId

\* Deliberately wrong: a command no longer looks at the status of the company.
AnyCompany(c) == company[c].status # NoId

ActiveCompany(c) == company[c].status = "active"

\* _published_profile; the company of the profile is not compared.
PublishedProfile(p) == profile[p].status = "published"

----------------------------------------------------------------------------
(* Companies. *)

\* What create_company asserts before it answers: one active office, led by the
\* manager, who works there.
Founded(c) ==
    LET office == company[c].office
        gm     == company[c].gm
    IN  /\ {d \in Departments : /\ dept[d].company = c /\ dept[d].status = "active"
                                /\ dept[d].kind = "general_manager_office"} = {office}
        /\ emp[gm].company = c /\ emp[gm].dept = office /\ emp[gm].role = "general_manager"
        /\ dept[office].leader = gm

\* create_company, with the general manager's office, the manager and the two
\* conversations.
CreateCompany(c, d, e, p) ==
    /\ PublishedProfile(p)
    /\ Free(company, c) /\ Free(dept, d) /\ Free(emp, e)
    /\ company' = [company EXCEPT ![c] = NewCompany(d, e)]
    /\ dept' = [dept EXCEPT ![d] = NewDept(c, "general_manager_office", e)]
    /\ emp' = [emp EXCEPT ![e] = NewEmp(c, d, "general_manager", p)]
    /\ Founded(c)'
    /\ UNCHANGED <<profile, jobVars>>

ArchiveCompany(c) ==
    /\ ActiveCompany(c) /\ work[c] # "open"
    /\ \A e \in engaged : emp[e].company # c
    /\ company' = [company EXCEPT ![c].status = "archived"]
    /\ dept' = [d \in Departments |->
                  IF dept[d].company = c THEN [dept[d] EXCEPT !.status = "archived"] ELSE dept[d]]
    /\ emp' = [e \in Employees |->
                  IF emp[e].company = c THEN [emp[e] EXCEPT !.status = "inactive"] ELSE emp[e]]
    /\ UNCHANGED <<profile, jobVars>>

----------------------------------------------------------------------------
(* Departments and employees. *)

CreateDepartment(c, d, e, p) ==
    /\ ActiveCompany(c) /\ PublishedProfile(p)
    /\ Free(dept, d) /\ Free(emp, e)
    /\ dept' = [dept EXCEPT ![d] = NewDept(c, "standard", e)]
    /\ emp' = [emp EXCEPT ![e] = NewEmp(c, d, "department_leader", p)]
    /\ UNCHANGED <<company, profile, jobVars>>

\* department.archive of public_rpc: any department, whatever is open.
ArchiveDepartment(d) ==
    /\ dept[d].status = "active"
    /\ dept' = [dept EXCEPT ![d].status = "archived"]
    /\ UNCHANGED <<company, emp, profile, jobVars>>

CreateEmployee(d, e, p) ==
    /\ dept[d].status = "active" /\ ActiveCompany(dept[d].company) /\ PublishedProfile(p)
    /\ Free(emp, e)
    /\ emp' = [emp EXCEPT ![e] = NewEmp(dept[d].company, d, "member", p)]
    /\ UNCHANGED <<company, dept, profile, jobVars>>

SetEmployee(row, e) ==
    /\ emp' = [emp EXCEPT ![e] = row]
    /\ UNCHANGED <<company, dept, profile, jobVars>>

UpdateEmployeeStatus(e, status) ==
    /\ ~Free(emp, e) /\ ActiveCompany(emp[e].company) /\ emp[e].role # "general_manager"
    /\ status \in {"inactive", "unavailable"} => e \notin busy
    /\ SetEmployee([emp[e] EXCEPT !.status = status], e)

TransferEmployee(e, d) ==
    /\ ~Free(emp, e) /\ ActiveCompany(emp[e].company)
    /\ emp[e].role # "general_manager" /\ e \notin busy
    /\ dept[d].company = emp[e].company /\ dept[d].status = "active"
    /\ SetEmployee([emp[e] EXCEPT !.dept = d], e)

\* employee.updateBaseProfile and employee.updateWorkRole of public_rpc: an
\* UPDATE that only the foreign key and the CHECK limit.
UpdateBaseProfile(e, p) ==
    /\ ~Free(profile, p) /\ ~Free(emp, e)
    /\ SetEmployee([emp[e] EXCEPT !.profile = p], e)

UpdateWorkRole(e, role) == ~Free(emp, e) /\ SetEmployee([emp[e] EXCEPT !.role = role], e)

\* The old leader becomes a member wherever it works now.
SetDepartmentLeader(d, e) ==
    /\ dept[d].kind = "standard"
    /\ emp[e].dept = d /\ emp[e].status = "active"
    /\ dept[d].leader # e
    /\ dept' = [dept EXCEPT ![d].leader = e]
    /\ emp' = [emp EXCEPT ![dept[d].leader].role = "member", ![e].role = "department_leader"]
    /\ UNCHANGED <<company, profile, jobVars>>

----------------------------------------------------------------------------
(* The work of a company, as far as these commands depend on it: work is   *)
(* none until there is a task, then open or ended.                         *)

SetWork(c, state) ==
    /\ work' = [work EXCEPT ![c] = state]
    /\ UNCHANGED <<company, dept, emp, profile, busy, engaged>>

\* submit_user_message with a new task.
OpenTask(c) == ActiveCompany(c) /\ SetWork(c, "open")

\* task.supersede of public_rpc, with its new draft: any task of any company.
SupersedeTask(c) == work[c] # "none" /\ SetWork(c, "open")

\* The last open task, approval, review and workspace ends.
CloseWork(c) == work[c] = "open" /\ SetWork(c, "ended")

\* confirm_plan_and_dispatch gives active employees a task of theirs, with a run
\* unless the task waits for another one.
Assign(e, dispatched) ==
    /\ emp[e].status = "active" /\ PublishedProfile(emp[e].profile)
    /\ work[emp[e].company] = "open"
    /\ busy' = busy \union {e}
    /\ engaged' = IF dispatched THEN engaged \union {e} ELSE engaged
    /\ UNCHANGED <<company, dept, emp, profile, work>>

\* departmentTask.replaceEmployee cancels a task of one employee and gives the
\* same to another, whatever the status of either; old may have other tasks, and
\* the one replaced may have ended.
ReplaceEmployee(old, e) ==
    /\ ~Free(emp, old) /\ emp[e].company = emp[old].company
    /\ work[emp[old].company] # "none"
    /\ busy' \in {busy \union {e}, (busy \ {old}) \union {e}}
    /\ UNCHANGED <<company, dept, emp, profile, work, engaged>>

\* The last employee task of an employee is accepted, cancelled or fails.
Finish(e) ==
    /\ e \in busy /\ busy' = busy \ {e}
    /\ UNCHANGED <<company, dept, emp, profile, work, engaged>>

\* Every other way to a run: create_run of the gateway and the dispatch of a
\* task that waited.  Both ask for an active employee.
StartRun(e) ==
    /\ emp[e].status = "active" /\ work[emp[e].company] # "none"
    /\ engaged' = engaged \union {e}
    /\ UNCHANGED <<company, dept, emp, profile, work, busy>>

EndRun(e) ==
    /\ e \in engaged /\ engaged' = engaged \ {e}
    /\ UNCHANGED <<company, dept, emp, profile, work, busy>>

----------------------------------------------------------------------------
(* Base profiles.  valid says that publish_draft takes the draft: that it  *)
(* is of an agent CLI, or validate_draft finds no error in its fields, its *)
(* routing policy and its candidates in the pinned catalog release.  The   *)
(* company of a profile is left out: the uses of a profile do not read it. *)

SetProfile(p, row) ==
    /\ profile' = [profile EXCEPT ![p] = row]
    /\ UNCHANGED <<company, dept, emp, jobVars>>

CreateDraft(p, e, valid) ==
    /\ ~Free(emp, e) /\ Free(profile, p)
    /\ SetProfile(p, NewDraft(valid))

IsDraft(p) == profile[p].status = "draft"

\* validate_draft.
DraftValidated(p) == profile[p].valid

UpdateDraft(p, valid) == IsDraft(p) /\ SetProfile(p, [profile[p] EXCEPT !.valid = valid])

BindSkill(p, s) ==
    /\ IsDraft(p) /\ s \notin profile[p].skills
    /\ SetProfile(p, [profile[p] EXCEPT !.skills = @ \union {s}])

UnbindSkill(p, s) ==
    /\ IsDraft(p) /\ s \in profile[p].skills
    /\ SetProfile(p, [profile[p] EXCEPT !.skills = @ \ {s}])

PublishDraft(p) ==
    /\ IsDraft(p) /\ DraftValidated(p)
    /\ SetProfile(p, [profile[p] EXCEPT !.status = "published"])

\* retire_version and retire_profile; for a draft the CHECK on published_at
\* refuses the status, which rolls retire_profile back.
RetireVersion(p) ==
    /\ profile[p].status = "published"
    /\ SetProfile(p, [profile[p] EXCEPT !.status = "retired"])

----------------------------------------------------------------------------
OrgInit ==
    /\ company = [c \in Companies |->
                    IF c = FirstCompany THEN NewCompany(FirstOffice, FirstManager) ELSE NoCompany]
    /\ dept = [d \in Departments |->
                 IF d = FirstOffice THEN NewDept(FirstCompany, "general_manager_office", FirstManager)
                 ELSE NoDept]
    /\ emp = [e \in Employees |->
                IF e = FirstManager THEN NewEmp(FirstCompany, FirstOffice, "general_manager", FirstProfile)
                ELSE NoEmp]
    /\ profile = [p \in Profiles |->
                    IF p = FirstProfile
                    THEN [NewDraft(TRUE) EXCEPT !.status = "published"]
                    ELSE NoProfile]
    /\ work = [c \in Companies |-> "none"]
    /\ busy = {} /\ engaged = {}

OrgNext ==
    \/ \E c \in Companies, d \in Departments, e \in Employees, p \in Profiles :
         CreateCompany(c, d, e, p) \/ CreateDepartment(c, d, e, p)
    \/ \E c \in Companies : ArchiveCompany(c) \/ OpenTask(c) \/ SupersedeTask(c) \/ CloseWork(c)
    \/ \E d \in Departments : ArchiveDepartment(d)
    \/ \E d \in Departments, e \in Employees : TransferEmployee(e, d) \/ SetDepartmentLeader(d, e)
    \/ \E d \in Departments, e \in Employees, p \in Profiles : CreateEmployee(d, e, p)
    \/ \E e \in Employees, p \in Profiles : UpdateBaseProfile(e, p)
    \/ \E e \in Employees, dispatched \in BOOLEAN : Assign(e, dispatched)
    \/ \E old \in Employees, e \in Employees : ReplaceEmployee(old, e)
    \/ \E e \in Employees : Finish(e) \/ StartRun(e) \/ EndRun(e)
    \/ \E e \in Employees, status \in Statuses : UpdateEmployeeStatus(e, status)
    \/ \E e \in Employees, role \in WorkRoles : UpdateWorkRole(e, role)
    \/ \E p \in Profiles : PublishDraft(p) \/ RetireVersion(p)
    \/ \E p \in Profiles, e \in Employees, valid \in BOOLEAN : CreateDraft(p, e, valid)
    \/ \E p \in Profiles, valid \in BOOLEAN : UpdateDraft(p, valid)
    \/ \E p \in Profiles, s \in Skills : BindSkill(p, s) \/ UnbindSkill(p, s)

OrgSpec == OrgInit /\ [][OrgNext]_orgVars

----------------------------------------------------------------------------
(* Properties. *)

(***************************************************************************)
(* An archived company runs nothing and never will: its departments are    *)
(* archived, its employees inactive and none of them has a run, although   *)
(* most commands name only a department, an employee, a task or a profile, *)
(* and some (setLeader, updateWorkRole, replaceEmployee, task.supersede)   *)
(* never look at the company: the last opens a draft in an archived one.   *)
(***************************************************************************)
ArchivedIsClosed ==
    \A c \in Companies : company[c].status = "archived" =>
        /\ \A d \in Departments : dept[d].company = c => dept[d].status = "archived"
        /\ \A e \in Employees : emp[e].company = c => emp[e].status = "inactive" /\ e \notin engaged
=============================================================================
