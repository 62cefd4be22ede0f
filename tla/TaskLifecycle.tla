--------------------------- MODULE TaskLifecycle ---------------------------
(***************************************************************************)
(* A company task from its plan to its completion: the plan commands of    *)
(* task/service.py, the confirm transaction that creates the department    *)
(* and employee tasks, the completion handlers with their three gates, and *)
(* the OutboxWorker that dispatches the internal commands.                 *)
(*                                                                         *)
(* The evidence a gate reads (artifacts, verifications, reviews, issues,   *)
(* reports) is a set of tokens here; module Review details the reviews.    *)
(* Versions are left out: every handler compares the version it has read   *)
(* in its own transaction.                                                 *)
(***************************************************************************)
EXTENDS Naturals, Sequences, StateTables

CONSTANTS
    Depts, Tasks,  \* ids of department tasks and employee tasks
    Plans,         \* plans a user may confirm
    Asking,        \* tasks whose tools ask for an approval
    MaxRows,       \* bound on pending outbox rows
    MaxReviews,    \* bound on review events
    NoState        \* SQL NULL

(***************************************************************************)
(* A plan gives the department of each employee task it creates, the       *)
(* upstream tasks of a segment (employee_task_dependencies) and the        *)
(* dependency_refs between department tasks; spare bounds the tasks that   *)
(* replace_employee may add.                                               *)
(***************************************************************************)
ASSUME PlanAssumption ==
    /\ \A p \in Plans :
         /\ p.deptOf \in [p.tasks -> p.depts] /\ p.tasks \union p.spare \subseteq Tasks /\ p.depts \subseteq Depts
         /\ p.upstream \in [p.tasks -> SUBSET p.tasks]
         /\ \A t \in p.tasks : t \notin p.upstream[t]
         /\ p.refs \in [p.depts -> SUBSET p.depts]
    /\ Asking \subseteq Tasks /\ MaxRows \in Nat /\ MaxReviews \in Nat

VARIABLES
    company,      \* company_tasks row: status and resume_state
    content,      \* canonical_json of the plan
    plan,         \* status of the latest company_plan_versions row
    dept, task,   \* department_tasks and employee_tasks rows
    run,          \* status of the agent run of an employee task
    dispatched,   \* runs built for an employee task
    approvals,    \* tasks whose run has a pending or allowed approval
    contributed,  \* tasks whose employee contributed to a current artifact
    evidence,     \* what the gates find: verified, reviewed, department, company
    outbox,       \* pending rows that dispatch a command
    failed,       \* topics of rows marked failed
    reviews       \* review events so far

work == <<company, content, plan, dept, task>>
proof == <<approvals, contributed, evidence, reviews>>
taskVars == <<work, proof, run, dispatched, outbox, failed>>

----------------------------------------------------------------------------
(* Rows, events and gates. *)

Waiting == {"waiting_dependency", "waiting_resource", "waiting_permission", "paused"}

\* CHECK: a waiting status has a resume_state and no other status has one.
ResumeOk(row) == (row.status \in Waiting) <=> (row.resume # NoState)

Row(status) == [status |-> status, resume |-> NoState]
TaskRow(d, status, resume) == [dept |-> d, status |-> status, resume |-> resume]

Upstream(t) == IF t \in content.tasks THEN content.upstream[t] ELSE {}
Deferred(t) == Upstream(t) # {}

\* Tasks whose profile, binding and revisions the confirm freezes for later, in
\* employee_task_dispatch_specs.
Frozen == {t \in content.tasks : Deferred(t)}

CommandOf ==
    [topic \in {"run.completed", "review.submitted", "review.issue_changed",
                "employee_task.status_changed", "employee_task.graph_advance",
                "department_task.status_changed"} |->
        CASE topic = "run.completed" -> "EvaluateEmployeeSubmission"
          [] topic = "review.submitted" -> "EvaluateEmployeeAcceptance"
          [] topic = "review.issue_changed" -> "EvaluateAffectedTask"
          [] topic = "employee_task.status_changed" -> "EvaluateDepartmentReadiness"
          [] topic = "employee_task.graph_advance" -> "AdvanceEmployeeTaskGraph"
          [] topic = "department_task.status_changed" -> "EvaluateCompanyReadiness"]

ProjectionOnly == {"run.queued", "run.started", "run.failed", "run.cancelled",
                   "review.assigned", "company_task.status_changed"}

\* A command runs for these states only (review.submitted has no filter).
Triggers(event) ==
    CASE event.topic = "run.completed" -> event.to = "succeeded"
      [] event.topic = "review.issue_changed" -> event.to = "closed"
      [] event.topic = "employee_task.status_changed" -> event.to = "accepted"
      [] event.topic = "employee_task.graph_advance" -> event.to = "accepted"
      [] event.topic = "department_task.status_changed" -> event.to = "completed"
      [] OTHER -> TRUE

Event(topic, id, to) == [topic |-> topic, id |-> id, to |-> to]

\* Rows that the worker would mark delivered without a command are not kept.
Kept(event) == event.topic \notin ProjectionOnly /\ Triggers(event)
Post(rows, event) == IF Kept(event) THEN Append(rows, event) ELSE rows

Active(s, t) == s.run[t] \in {"queued", "running"} \/ t \in approvals

EmployeeGate(s, t) ==
    /\ t \in contributed
    /\ {"verified", "reviewed"} \subseteq evidence
    /\ ~Active(s, t)

\* Deliberately wrong: a submitted task counts as done.
GateOnSubmission(s, d) ==
    /\ \A t \in Tasks : s.task[t].dept = d => s.task[t].status \in {"submitted", "accepted", "cancelled"}
    /\ {"department", "reviewed"} \subseteq evidence
    /\ \A t \in Tasks : ~Active(s, t)

\* The check of merge tasks finds none: confirm_plan creates standard tasks only.
DepartmentGate(s, d) ==
    /\ \A t \in Tasks : s.task[t].dept = d => s.task[t].status \in {"accepted", "cancelled"}
    /\ {"department", "reviewed"} \subseteq evidence
    /\ \A t \in Tasks : ~Active(s, t)

CompanyGate(s) ==
    /\ \A d \in content.depts : s.dept[d].status \in {"completed", "cancelled"}
    /\ {"company", "reviewed"} \subseteq evidence
    /\ \A t \in Tasks : ~Active(s, t)

----------------------------------------------------------------------------
(* The internal commands, on the state s of the Outbox transaction.  A     *)
(* statement the CHECK refuses is an IntegrityError: nobody catches it and *)
(* the transaction is rolled back.                                         *)

Poison(s) == [s EXCEPT !.poison = TRUE]

\* Deliberately wrong: an accepted task announces itself but not the graph.
AcceptWithoutGraph(s, t) ==
    IF ~EmployeeGate(s, t) \/ s.task[t].resume # NoState THEN s
    ELSE [s EXCEPT !.task[t].status = "accepted",
                   !.out = Post(@, Event("employee_task.status_changed", t, "accepted"))]

AcceptEmployeeTask(s, t) ==
    IF ~EmployeeGate(s, t) THEN s
    ELSE IF ~ResumeOk([s.task[t] EXCEPT !.status = "accepted"]) THEN Poison(s)
    ELSE [s EXCEPT !.task[t].status = "accepted",
                   !.out = Post(Post(@, Event("employee_task.status_changed", t, "accepted")),
                                Event("employee_task.graph_advance", t, "accepted"))]

SubmitEmployeeTask(s, t) ==
    IF s.run[t] = "succeeded" /\ s.task[t].status = "running"
    THEN [s EXCEPT !.task[t].status = "submitted",
                   !.out = Post(@, Event("employee_task.status_changed", t, "submitted"))]
    ELSE s

CompleteDepartmentTask(s, d) ==
    IF ~DepartmentGate(s, d) THEN s
    ELSE IF ~ResumeOk([s.dept[d] EXCEPT !.status = "completed"]) THEN Poison(s)
    ELSE [s EXCEPT !.dept[d].status = "completed",
                   !.out = Post(@, Event("department_task.status_changed", d, "completed"))]

CompleteCompanyTask(s) ==
    IF ~CompanyGate(s) THEN s
    ELSE IF ~ResumeOk([s.company EXCEPT !.status = "completed"]) THEN Poison(s)
    ELSE [s EXCEPT !.company.status = "completed"]

\* The INSERTs of a queued run and of its runtime_queue row.
Queued(runs, ts) == [t \in Tasks |-> IF t \in ts THEN "queued" ELSE runs[t]]

\* build_run: the snapshots and the run they are for.
BuildRuns(s, ts) ==
    [s EXCEPT !.run = Queued(@, ts),
              !.dispatched = [t \in Tasks |-> IF t \in ts THEN @[t] + 1 ELSE @[t]]]

\* Deliberately wrong: the status guard of the dispatch is dropped.
DependentsAgain(s, t) ==
    {u \in Tasks : t \in Upstream(u) /\ \A v \in Upstream(u) : s.task[v].status = "accepted"}

\* The dependents of an accepted task that wait and have no open upstream.
Dependents(s, t) ==
    {u \in Tasks : /\ t \in Upstream(u)
                   /\ s.task[u].status = "waiting_resource"
                   /\ \A v \in Upstream(u) : s.task[v].status = "accepted"}

\* _lazy_availability_checks: the frozen employee, department, profile, catalog,
\* capability or workspace of any deferred task may be gone by now.
MayBeLost == SUBSET Frozen

\* A dependent is dispatched, or fails when it is lost.
AdvanceEmployeeTaskGraph(s, t, lost) ==
    LET ready == Dependents(s, t)
        moved == [u \in Tasks |->
                    IF u \notin ready THEN s.task[u]
                    ELSE TaskRow(s.task[u].dept, IF u \in lost THEN "failed" ELSE "assigned", NoState)]
    IN  BuildRuns([s EXCEPT !.task = moved], ready \ lost)

\* A review row names an assignment or an issue: the first employee task of
\* the company task is evaluated (ORDER BY created_at LIMIT 1; every task of
\* a confirm has the same created_at).
Dispatch(s, event, first, lost) ==
    IF s.poison THEN s
    ELSE CASE event.topic \notin DOMAIN CommandOf -> [s EXCEPT !.failed = @ \union {event.topic}]
           [] event.topic = "run.completed" -> SubmitEmployeeTask(s, event.id)
           [] event.topic \in {"review.submitted", "review.issue_changed"} -> AcceptEmployeeTask(s, first)
           [] event.topic = "employee_task.status_changed" -> CompleteDepartmentTask(s, s.task[event.id].dept)
           [] event.topic = "employee_task.graph_advance" -> AdvanceEmployeeTaskGraph(s, event.id, lost)
           [] event.topic = "department_task.status_changed" -> CompleteCompanyTask(s)

\* The transaction after each of its rows.
Batch(first, lost) ==
    LET after[n \in 0..Len(outbox)] ==
          IF n = 0 THEN [company |-> company, dept |-> dept, task |-> task, run |-> run,
                         dispatched |-> dispatched, out |-> <<>>, failed |-> failed, poison |-> FALSE]
          ELSE Dispatch(after[n - 1], outbox[n], first, lost)
    IN  after[Len(outbox)]

Exists(t) == task[t].status # "none"

\* OutboxWorker.work: all pending rows in one transaction; the rows it writes
\* are read by the next one.  When a row raises, the whole batch stays.
Deliver ==
    /\ outbox # <<>>
    /\ \E first \in Tasks, lost \in MayBeLost :
         LET s == Batch(first, lost)
         IN  /\ contributed # {} => Exists(first)
             /\ ~s.poison
             /\ company' = s.company /\ dept' = s.dept /\ task' = s.task
             /\ run' = s.run /\ dispatched' = s.dispatched
             /\ outbox' = s.out /\ failed' = s.failed
    /\ UNCHANGED <<content, plan, proof>>

----------------------------------------------------------------------------
(* Plan commands. *)

CompanyOnly == UNCHANGED <<content, dept, task, run, dispatched, failed, proof>>

\* submit_user_message on an existing task; the topic it writes has no command.
SubmitUserMessage ==
    /\ company.status \in {"awaiting_user_confirmation", "revision_requested"}
    /\ Len(outbox) < MaxRows
    /\ company' = [company EXCEPT !.status = "revision_requested"]
    /\ outbox' = Post(outbox, Event("company_task.analysis.requested", "company", "none"))
    /\ UNCHANGED plan /\ CompanyOnly

SubmitPlan ==
    /\ company.status \in {"analyzing", "draft"} /\ plan = "draft"
    /\ plan' = "awaiting_user_confirmation"
    /\ company' = [company EXCEPT !.status = "awaiting_user_confirmation"]
    /\ UNCHANGED outbox /\ CompanyOnly

\* request_plan_revision and reject_plan.
AnswerPlan(status, planStatus) ==
    /\ company.status = "awaiting_user_confirmation"
    /\ plan' = IF plan = "awaiting_user_confirmation" THEN planStatus ELSE plan
    /\ company' = [company EXCEPT !.status = status]
    /\ UNCHANGED outbox /\ CompanyOnly

RequestPlanRevision == AnswerPlan("revision_requested", "superseded")
RejectPlan == AnswerPlan("rejected", "rejected")

\* The INSERT of a department task does not set resume_state.
InitialDept(d) == Row(IF content.refs[d] = {} THEN "ready" ELSE "waiting_dependency")
InitialTask(t) ==
    LET d == content.deptOf[t]
    IN  IF Deferred(t) \/ InitialDept(d).status # "ready"
        THEN TaskRow(d, "waiting_resource", "assigned")
        ELSE TaskRow(d, "assigned", NoState)

\* The company task passes through approved, dispatching and checking_resources
\* in the same transaction; the four events are projections only.
Confirmed == [company EXCEPT !.status = "executing"]
DispatchedNow == content.tasks \ Frozen

\* What the preflight asks for: an active catalog release, and for the plan's
\* departments and employees a status, profile, binding, capabilities and grant.
Resources == {"catalog_release", "department", "employee", "profile_version",
              "runtime_binding", "capability", "workspace_grant"}
Prepared(found) == found = Resources

\* Resources are missing: the answer is waiting_resource, the plan stays.
ConfirmWaits(found) ==
    /\ company.status = "awaiting_user_confirmation" /\ plan = "awaiting_user_confirmation"
    /\ ~Prepared(found)
    /\ UNCHANGED taskVars

\* confirm_and_dispatch: one transaction; a department that the CHECK refuses
\* rolls all of it back.
ConfirmPlan(found) ==
    /\ company.status = "awaiting_user_confirmation" /\ plan = "awaiting_user_confirmation"
    /\ Prepared(found)
    /\ \A d \in content.depts : ResumeOk(InitialDept(d))
    /\ plan' = "approved"
    /\ company' = Confirmed
    /\ dept' = [d \in Depts |-> IF d \in content.depts THEN InitialDept(d) ELSE dept[d]]
    /\ task' = [t \in Tasks |-> IF t \in content.tasks THEN InitialTask(t) ELSE task[t]]
    /\ run' = Queued(run, DispatchedNow)
    /\ dispatched' = [t \in Tasks |-> IF t \in DispatchedNow THEN 1 ELSE 0]
    /\ UNCHANGED <<content, proof, outbox, failed>>

\* pause_task, resume_task, cancel_task and task.supersede; an UPDATE that the
\* CHECK refuses raises and changes nothing.
SetCompany(row) ==
    /\ ResumeOk(row)
    /\ company' = row
    /\ UNCHANGED <<plan, outbox>> /\ CompanyOnly

PauseTask ==
    /\ company.status \in {"executing", "reviewing", "fixing"}
    /\ SetCompany([status |-> "paused", resume |-> company.status])

ResumeTask ==
    /\ company.status = "paused"
    /\ SetCompany(Row(company.resume))

CancelTask ==
    /\ company.status \notin {"completed", "cancelled", "failed"}
    /\ SetCompany([company EXCEPT !.status = "cancelling"])

SupersedeTask == SetCompany([company EXCEPT !.status = "cancelled"])

----------------------------------------------------------------------------
(* Employees at work: the runs of RuntimeExecution in four steps, the      *)
(* artifacts and reviews, and the replacement of an employee.              *)

ClaimRun(t) ==
    /\ run[t] = "queued"
    /\ run' = [run EXCEPT ![t] = "starting"]
    /\ UNCHANGED <<work, proof, dispatched, outbox, failed>>

\* _transition to running starts the employee task in the same transaction.
StartRun(t) ==
    /\ run[t] = "starting"
    /\ IF task[t].status \in {"assigned", "ready", "running"}
       THEN /\ run' = [run EXCEPT ![t] = "running"]
            /\ task' = [task EXCEPT ![t].status = "running"]
       ELSE run' = [run EXCEPT ![t] = "failed"] /\ UNCHANGED task
    /\ UNCHANGED <<company, content, plan, dept, proof, dispatched, outbox, failed>>

EndRun(t, status) ==
    /\ run[t] = "running"
    /\ run' = [run EXCEPT ![t] = status]
    /\ outbox' = Post(outbox, Event("run.completed", t, status))
    /\ UNCHANGED <<work, proof, dispatched, failed>>

\* A running tool asks for an approval; it is refused, expires or is consumed
\* later (one that is allowed still counts).
RequestApproval(t) ==
    /\ t \in Asking \ approvals /\ run[t] = "running"
    /\ approvals' = approvals \union {t}
    /\ UNCHANGED <<work, contributed, evidence, reviews, run, dispatched, outbox, failed>>

ResolveApproval(t) ==
    /\ t \in approvals
    /\ approvals' = approvals \ {t}
    /\ UNCHANGED <<work, contributed, evidence, reviews, run, dispatched, outbox, failed>>

\* artifact.create: a new test case or result has no verification yet, reviewers
\* are assigned when the deliverable has any, and the version that is superseded
\* may have been a report.
PublishArtifact(t) ==
    /\ Exists(t)
    /\ contributed' \in {contributed \union {t}, {t}}
    /\ evidence' \in SUBSET evidence
    /\ UNCHANGED <<work, approvals, reviews, run, dispatched, outbox, failed>>

\* artifact.create with a report; abandon_workspace and apply_workspace, which end
\* the workspace the company gate waits for.  No code writes verifications or
\* ceo_confirmed_at: those may come at any time.
ProvideEvidence(kind) ==
    /\ contributed # {} /\ kind \notin evidence
    /\ evidence' = evidence \union {kind}
    /\ UNCHANGED <<work, approvals, contributed, reviews, run, dispatched, outbox, failed>>

\* review.submit and the closing of an issue, seen from the gates.
ReviewEvent(topic) ==
    /\ contributed # {} /\ Len(outbox) < MaxRows /\ reviews < MaxReviews
    /\ reviews' = reviews + 1
    /\ evidence' \in {evidence \union {"reviewed"}, evidence \ {"reviewed"}}
    /\ outbox' = Post(outbox, Event(topic, "review", "closed"))
    /\ UNCHANGED <<work, approvals, contributed, run, dispatched, failed>>

\* replace_employee: a new assigned task, without a run, and the old one is
\* cancelled whatever its status (unless the CHECK refuses it).
ReplaceEmployee(t, new) ==
    /\ Exists(t) /\ new \in content.spare /\ ~Exists(new)
    /\ ResumeOk([task[t] EXCEPT !.status = "cancelled"])
    /\ task' = [task EXCEPT ![t].status = "cancelled", ![new] = TaskRow(task[t].dept, "assigned", NoState)]
    /\ UNCHANGED <<company, content, plan, dept, proof, run, dispatched, outbox, failed>>

----------------------------------------------------------------------------
TaskInit ==
    /\ company = Row("analyzing") /\ content \in Plans /\ plan = "draft"
    /\ dept = [d \in Depts |-> Row("none")]
    /\ task = [t \in Tasks |-> TaskRow(NoState, "none", NoState)]
    /\ run = [t \in Tasks |-> "none"] /\ dispatched = [t \in Tasks |-> 0]
    /\ approvals = {} /\ contributed = {} /\ evidence = {} /\ reviews = 0
    /\ outbox = <<>> /\ failed = {}

UserStep ==
    \/ SubmitUserMessage \/ SubmitPlan \/ RequestPlanRevision \/ RejectPlan
    \/ \E found \in SUBSET Resources : ConfirmPlan(found) \/ ConfirmWaits(found)
    \/ PauseTask \/ ResumeTask \/ CancelTask \/ SupersedeTask
    \/ \E t, new \in Tasks : ReplaceEmployee(t, new)

EmployeeStep ==
    \/ \E t \in Tasks : ClaimRun(t) \/ StartRun(t) \/ PublishArtifact(t)
                       \/ RequestApproval(t) \/ ResolveApproval(t)
    \/ \E t \in Tasks, status \in {"succeeded", "failed"} : EndRun(t, status)
    \/ \E kind \in {"verified", "department", "company"} : ProvideEvidence(kind)
    \/ \E topic \in {"review.submitted", "review.issue_changed"} : ReviewEvent(topic)

TaskNext == Deliver \/ UserStep \/ EmployeeStep
TaskSpec == TaskInit /\ [][TaskNext]_taskVars

----------------------------------------------------------------------------
(* Properties. *)

(***************************************************************************)
(* Work is completed bottom up: a department task completes only when each *)
(* of its employee tasks is accepted or cancelled and none has a queued or *)
(* running run or an open approval, and the company task only when every   *)
(* department task has completed.  It is about the gates that the Outbox   *)
(* transaction evaluates long after the event they react to was written.   *)
(***************************************************************************)
CompletesBottomUp ==
    [][/\ \A d \in Depts :
            dept'[d].status = "completed" /\ dept[d].status # "completed" =>
              \A t \in Tasks : task'[t].dept = d =>
                /\ task'[t].status \in {"accepted", "cancelled"}
                /\ run'[t] \notin {"queued", "running"} /\ t \notin approvals
       /\ company'.status = "completed" /\ company.status # "completed" =>
            \A d \in content.depts : dept'[d].status = "completed"]_taskVars

(***************************************************************************)
(* A deferred segment is dispatched once, after all its upstream tasks are *)
(* accepted, although an accepted task may be accepted again by a later    *)
(* review event (AcceptEmployeeTask looks at no status) and then announces *)
(* itself again.                                                           *)
(***************************************************************************)
DispatchedOnceInOrder ==
    [][\A t \in Tasks : Deferred(t) /\ dispatched'[t] # dispatched[t] =>
          /\ dispatched'[t] = 1
          /\ \A u \in Upstream(t) : task'[u].status = "accepted"]_taskVars

(***************************************************************************)
(* No segment is forgotten: while a segment waits and all its upstream     *)
(* tasks are accepted, a graph_advance row for it is pending.  The row is  *)
(* delivered once, so one that is consumed too early would leave the       *)
(* segment waiting for ever.                                               *)
(***************************************************************************)
NoSegmentForgotten ==
    \A t \in Tasks :
        /\ task[t].status = "waiting_resource" /\ Deferred(t)
        /\ \A u \in Upstream(t) : task[u].status = "accepted"
        => \E i \in DOMAIN outbox : /\ outbox[i].topic = "employee_task.graph_advance"
                                     /\ outbox[i].id \in Upstream(t)

(***************************************************************************)
(* The status changes that some handler writes although no table has them. *)
(***************************************************************************)
Shortcut(from, to) ==
    \/ to \in {"accepted", "completed", "cancelled"}
    \/ <<from, to>> \in {<<"awaiting_user_confirmation", "executing">>,
                         <<"assigned", "running">>, <<"rejected", "cancelling">>}

Follows(table, row, next) ==
    row.status \in {"none", next.status}
    \/ CanTransition(table, row.status, next.status, row.resume)
    \/ Shortcut(row.status, next.status)

(***************************************************************************)
(* Plans and tasks move along the tables of state_machine.py, although     *)
(* their writers never ask transition().  The exceptions are shortcuts of  *)
(* the writers: confirm goes straight to executing, a run starts its task  *)
(* without the ready status, and supersession, replacement and the gates   *)
(* cancel, accept or complete from any status.  Nothing else leaves a      *)
(* terminal status, and no accepted or cancelled task is dispatched again. *)
(***************************************************************************)
TasksFollowTables ==
    [][/\ Follows(CompanyTaskTransitions, company, company')
       /\ Follows(CompanyPlanVersionTransitions, Row(plan), Row(plan'))
       /\ \A d \in Depts : Follows(DepartmentTaskTransitions, dept[d], dept'[d])
       /\ \A t \in Tasks : Follows(EmployeeTaskTransitions, task[t], task'[t])]_taskVars
=============================================================================
