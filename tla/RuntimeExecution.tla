-------------------------- MODULE RuntimeExecution --------------------------
(***************************************************************************)
(* The life of an agent run in the Sidecar: the rows of agent_runs,        *)
(* runtime_queue and runtime_leases, the RuntimeWorker that claims and     *)
(* executes runs one at a time, the AnalysisWorker that reaps leases, the  *)
(* user's cancel/resume/stop requests, and a crash or stop of the Sidecar  *)
(* followed by the recovery transaction that precedes its workers.         *)
(*                                                                         *)
(* Every write of the Sidecar is one transaction of the single WriteQueue  *)
(* (module WriteQueue), so every database change below is one atomic       *)
(* action.  What is NOT atomic is what the executor does between two       *)
(* transactions: exec is its memory (program counter, claimed run, the     *)
(* version it read and has counted on since), and any other actor may act  *)
(* between two of its steps.                                               *)
(***************************************************************************)
EXTENDS Naturals, FiniteSets, StateTables

CONSTANTS
    Runs,        \* agent_runs.id
    Employees,   \* agent_runs.employee_id
    EmployeeOf,  \* the employee of a run
    Companies,   \* agent_runs.company_id
    CompanyOf,   \* the company of a run
    Priority,    \* runtime_queue.priority of a run: 0, 10 or 20
    Items,       \* runtime_queue.work_item_id
    WorkItem,    \* the work item of a run
    Tasks,       \* the work items that are employee tasks
    ApiModel,    \* the runs with adapter_type api_model
    NoRun,       \* no run is claimed
    NoLease,     \* a run without a row in runtime_leases
    DayLen,      \* time units in a UTC day
    LeaseLen,    \* the 300 seconds of a lease, in time units
    MaxTime,     \* bound on the clock
    MaxFaults,   \* bound on failing WriteQueue submissions
    MaxCrashes   \* bound on crashes and stops of the Sidecar

ASSUME RunAssumption ==
    /\ IsFiniteSet(Runs) /\ NoRun \notin Runs
    /\ EmployeeOf \in [Runs -> Employees]
    /\ CompanyOf \in [Runs -> Companies]
    /\ Priority \in [Runs -> Nat]
    /\ WorkItem \in [Runs -> Items]
    /\ Tasks \subseteq Items
    /\ ApiModel \subseteq Runs

ASSUME BoundAssumption ==
    /\ DayLen \in Nat \ {0}
    /\ LeaseLen \in Nat \ {0}
    /\ MaxTime \in Nat
    /\ MaxFaults \in Nat
    /\ MaxCrashes \in Nat

-----------------------------------------------------------------------------
(***************************************************************************)
(* Timestamps are TEXT columns compared character by character.  Python    *)
(* writes now as date, the letter T, time; SQLite's datetime() writes the  *)
(* expiry as date, a blank, time.  The blank sorts before the T.           *)
(***************************************************************************)
Blank == 0
LetterT == 1
IsoNow(t) == <<t \div DayLen, LetterT, t % DayLen>>
SqliteDatetime(t) == <<t \div DayLen, Blank, t % DayLen>>

TextLess(a, b) ==
    \/ a[1] < b[1]
    \/ a[1] = b[1] /\ a[2] < b[2]
    \/ a[1] = b[1] /\ a[2] = b[2] /\ a[3] < b[3]

LeaseRow == [heartbeat_at : Nat, expires_at : Nat \X {Blank} \X Nat]

ASSUME LeaseAssumption == NoLease \notin LeaseRow

NewLease(t) == [heartbeat_at |-> t, expires_at |-> SqliteDatetime(t + LeaseLen)]

-----------------------------------------------------------------------------
Terminal == {"succeeded", "cancelled", "timed_out", "failed", "lost"}
Waiting == {"waiting_resource"}
Unfinished == {"queued", "probing", "starting", "running"}
Statuses == Terminal \cup Waiting \cup Unfinished
QueueStatuses == {"ready", "leased", "completed", "cancelled"}
TaskStatuses == {"assigned", "running", "cancelled"}
Results == {"succeeded", "failed", "timed_out", "cancelled"}
EventTypes == {"run.queued", "run.started", "run.completed", "run.failed", "run.cancelled"}
PCs == {"idle", "read", "unavailable", "probing", "starting", "running", "launch",
        "executing", "complete", "fail", "wait", "release"}
MaxAttempt == 6

VARIABLES
    run,          \* agent_runs: status, version, resume_state set?, attempt
    queue,        \* runtime_queue.status of the run's row, or "none"
    queuedAt,     \* runtime_queue.queued_at, as the position in arrival order
    lastDispatch, \* runtime_company_fairness.last_dispatched_at, as a stamp; 0 is NULL
    dispatches,   \* the stamps given out so far
    lease,        \* runtime_leases of the run
    task,         \* employee_tasks.status of a work item that is a task
    events,       \* domain_events (and outbox rows) written for the run
    exec,         \* the memory of the RuntimeWorker
    stopped,      \* the runs whose model request the host has cancelled
    launches,     \* how many times the agent of a run was started (history)
    now,          \* the clock
    up,           \* is the Sidecar running?
    faults,       \* failed WriteQueue submissions so far
    crashes       \* crashes and stops so far

vars == <<run, queue, queuedAt, lastDispatch, dispatches, lease, task, events, exec,
          stopped, launches, now, up, faults, crashes>>
db == <<run, queue, queuedAt, lastDispatch, lease, task, events>>
rows == <<queue, queuedAt, lastDispatch, lease>>
env == <<now, up, faults, crashes>>

RunRow == [status : Statuses \cup {"absent"}, version : Nat, resume : BOOLEAN,
           attempt : 1..MaxAttempt]
Event == [type : EventTypes, version : Nat]
Exec == [pc : PCs, run : Runs \cup {NoRun}, version : Nat, result : Results \cup {"none"}]
Idle == [pc |-> "idle", run |-> NoRun, version |-> 0, result |-> "none"]

TypeOK ==
    /\ run \in [Runs -> RunRow]
    /\ queue \in [Runs -> QueueStatuses \cup {"none"}]
    /\ queuedAt \in [Runs -> Nat]
    /\ lastDispatch \in [Companies -> Nat] /\ dispatches \in Nat
    /\ lease \in [Runs -> LeaseRow \cup {NoLease}]
    /\ task \in [Tasks -> TaskStatuses]
    /\ events \in [Runs -> SUBSET Event]
    /\ exec \in Exec
    /\ exec.pc # "idle" => exec.run \in Runs
    /\ exec.pc = "complete" => exec.result \in Results
    /\ stopped \subseteq Runs
    /\ launches \in [Runs -> Nat]
    /\ now \in Nat /\ up \in BOOLEAN /\ faults \in Nat /\ crashes \in Nat

Init ==
    /\ run = [r \in Runs |-> [status |-> "absent", version |-> 0, resume |-> FALSE, attempt |-> 1]]
    /\ queue = [r \in Runs |-> "none"]
    /\ queuedAt = [r \in Runs |-> 0]
    /\ lastDispatch = [c \in Companies |-> 0] /\ dispatches = 0
    /\ lease = [r \in Runs |-> NoLease]
    /\ task = [i \in Tasks |-> "assigned"]
    /\ events = [r \in Runs |-> {}]
    /\ exec = Idle
    /\ stopped = {}
    /\ launches = [r \in Runs |-> 0]
    /\ now = 0 /\ up = TRUE /\ faults = 0 /\ crashes = 0

-----------------------------------------------------------------------------
(***************************************************************************)
(* Helpers: the row of a run after a status change, and the event written  *)
(* with it.  The schema's CHECK(resume_state set iff status is waiting)    *)
(* makes a transaction that breaks it roll back.                           *)
(***************************************************************************)
Bump(row, s) == [row EXCEPT !.status = s, !.version = @ + 1]

\* aggregate_version of the event written by cancel_run and recover_stale_runs.
NextVersion(row) == row.version + 1

ResumeCheck(row) == (row.status \in Waiting) <=> row.resume
Emit(r, type, version) == [events EXCEPT ![r] = @ \cup {[type |-> type, version |-> version]}]
Matches(r, s, v) == run[r].status = s /\ run[r].version = v
Active(r) == queue[r] \in {"ready", "leased"}

\* The snapshots fit the run, and the unique index on active work items refuses
\* a second active row for the same item.
StartAccepted(r) ==
    /\ run[r].status = "absent"
    /\ \A q \in Runs : WorkItem[q] = WorkItem[r] => ~Active(q)

\* gateway.start: the run, its queue row and the run.queued event in one
\* transaction.
StartRun(r) ==
    /\ up
    /\ StartAccepted(r)
    /\ run' = [run EXCEPT ![r] = Bump(@, "queued")]
    /\ queue' = [queue EXCEPT ![r] = "ready"]
    /\ queuedAt' = [queuedAt EXCEPT ![r] = 1 + Cardinality({q \in Runs : run[q].status # "absent"})]
    /\ events' = Emit(r, "run.queued", 1)
    /\ UNCHANGED <<lastDispatch, dispatches, lease, task, exec, stopped, launches, env>>

-----------------------------------------------------------------------------
(* The RuntimeWorker. *)

\* ORDER BY last_dispatched_at NULLS FIRST, priority, queued_at
PriorityFirst(r, s) ==
    \/ Priority[r] < Priority[s]
    \/ Priority[r] = Priority[s] /\ queuedAt[r] < queuedAt[s]

ClaimedBefore(r, s) ==
    LET f(x) == lastDispatch[CompanyOf[x]]
    IN  \/ f(r) < f(s)
        \/ f(r) = f(s) /\ Priority[r] < Priority[s]
        \/ f(r) = f(s) /\ Priority[r] = Priority[s] /\ queuedAt[r] < queuedAt[s]

(***************************************************************************)
(* _claim_next: the first ready row becomes leased, a lease of LeaseLen is *)
(* inserted and the company's turn is recorded, in one transaction.  The   *)
(* status of the run itself is not looked at.                              *)
(***************************************************************************)
ClaimNext(r) ==
    /\ up /\ exec.pc = "idle"
    /\ queue[r] = "ready" /\ lease[r] = NoLease
    /\ \A q \in Runs : queue[q] = "ready" => ~ClaimedBefore(q, r)
    /\ queue' = [queue EXCEPT ![r] = "leased"]
    /\ lease' = [lease EXCEPT ![r] = NewLease(now)]
    /\ dispatches' = dispatches + 1
    /\ lastDispatch' = [lastDispatch EXCEPT ![CompanyOf[r]] = dispatches']
    /\ exec' = [Idle EXCEPT !.pc = "read", !.run = r]
    /\ UNCHANGED <<run, queuedAt, task, events, stopped, launches, env>>

Goto(pc) == exec' = [exec EXCEPT !.pc = pc]

(***************************************************************************)
(* The read of the run that opens _execute_claimed, with the adapter       *)
(* probe.  Its status and version are remembered; the database moves on.   *)
(***************************************************************************)
ReadRun(available) ==
    /\ up /\ exec.pc = "read"
    /\ LET row == run[exec.run] IN
       exec' = [exec EXCEPT !.version = row.version,
                            !.pc = IF row.status \in Terminal THEN "release"
                                   ELSE IF ~available THEN "unavailable"
                                   ELSE IF row.status = "queued" THEN "probing"
                                   ELSE IF row.status = "running" THEN "launch"
                                   ELSE "release"]
    /\ UNCHANGED <<db, dispatches, stopped, launches, env>>

(***************************************************************************)
(* _transition: compare-and-set from one status to the next.  The step to  *)
(* running first dispatches StartEmployeeTask in the same transaction; its *)
(* refusal rolls back, but a failed compare-and-set after it commits.      *)
(***************************************************************************)
HasTask(r) == WorkItem[r] \in Tasks
StartEmployeeTask(r) == IF HasTask(r) THEN [task EXCEPT ![WorkItem[r]] = "running"] ELSE task
StartRefused(r) == HasTask(r) /\ task[WorkItem[r]] \notin {"assigned", "running"}

\* Deliberately wrong: the task is started one status too early.
TransitionEarly(from, to, next) ==
    LET r == exec.run IN
    /\ up /\ exec.pc = to
    /\ task' = IF to # "probing" /\ ~StartRefused(r) THEN StartEmployeeTask(r) ELSE task
    /\ Matches(r, from, exec.version)
    /\ run' = [run EXCEPT ![r] = Bump(@, to)]
    /\ events' = IF to = "running" THEN Emit(r, "run.started", exec.version + 1) ELSE events
    /\ exec' = [exec EXCEPT !.pc = next, !.version = @ + 1]
    /\ UNCHANGED <<rows, dispatches, stopped, launches, env>>

Transition(from, to, next) ==
    LET r == exec.run IN
    /\ up /\ exec.pc = to
    /\ to = "running" => ~StartRefused(r)
    /\ task' = IF to = "running" THEN StartEmployeeTask(r) ELSE task
    /\ IF Matches(r, from, exec.version)
       THEN /\ run' = [run EXCEPT ![r] = Bump(@, to)]
            /\ events' = IF to = "running" THEN Emit(r, "run.started", exec.version + 1) ELSE events
            /\ exec' = [exec EXCEPT !.pc = next, !.version = @ + 1]
       ELSE /\ Goto("release")
            /\ UNCHANGED <<run, events>>
    /\ UNCHANGED <<rows, dispatches, stopped, launches, env>>

StartRefusedStep ==
    /\ up /\ exec.pc = "running"
    /\ StartRefused(exec.run)
    /\ Goto("fail")
    /\ UNCHANGED <<db, dispatches, stopped, launches, env>>

\* Loading the execution snapshot fails, or the process / model loop starts.
Launch(loaded) ==
    /\ up /\ exec.pc = "launch"
    /\ IF loaded
       THEN /\ launches' = [launches EXCEPT ![exec.run] = @ + 1]
            /\ Goto("executing")
       ELSE /\ Goto("fail")
            /\ UNCHANGED launches
    /\ UNCHANGED <<db, dispatches, stopped, env>>

\* What a model loop can return; an invalid binding or policy is an exception.
ModelResults == {"succeeded", "failed"}

\* The agent ends: with a result, an exception, or a missing resource (only a
\* model transport raises those codes).
Finish(result) ==
    /\ up /\ exec.pc = "executing"
    /\ exec.run \in ApiModel => result \in ModelResults
    /\ exec' = [exec EXCEPT !.pc = "complete", !.result = result]
    /\ stopped' = stopped \ {exec.run}
    /\ UNCHANGED <<db, dispatches, launches, env>>

Raise(handler) ==
    /\ up /\ exec.pc = "executing"
    /\ handler = "wait" => exec.run \in ApiModel
    /\ Goto(handler)
    /\ stopped' = stopped \ {exec.run}
    /\ UNCHANGED <<db, dispatches, launches, env>>

\* The broker reports the model request cancelled: the executor just returns.
ModelRunCancelled ==
    /\ exec.run \in stopped
    /\ Raise("release")

\* _complete_claimed: only a run still running at the version counted on.
FailureUnlessSuccess(result) == IF result = "succeeded" THEN "run.completed" ELSE "run.failed"
EventOf(result) == CASE result = "succeeded" -> "run.completed"
                     [] result = "cancelled" -> "run.cancelled"
                     [] OTHER -> "run.failed"

CompleteClaimed ==
    LET r == exec.run IN
    /\ up /\ exec.pc = "complete"
    /\ IF Matches(r, "running", exec.version)
       THEN /\ run' = [run EXCEPT ![r] = Bump(@, exec.result)]
            /\ events' = Emit(r, EventOf(exec.result), exec.version + 1)
       ELSE UNCHANGED <<run, events>>
    /\ Goto("release")
    /\ UNCHANGED <<rows, dispatches, task, stopped, launches, env>>

\* _fail_claimed, in the try block (the adapter is unavailable) or in its
\* handler: reads the row afresh; a terminal run is left alone.
AnyRun(r) == run[r].status # "absent"
Failable(r) == run[r].status \notin Terminal

FailClaimed ==
    LET r == exec.run IN
    /\ up /\ exec.pc \in {"unavailable", "fail"}
    /\ IF Failable(r)
       THEN /\ run' = [run EXCEPT ![r] = Bump(@, "failed")]
            /\ events' = Emit(r, "run.failed", NextVersion(run[r]))
       ELSE UNCHANGED <<run, events>>
    /\ Goto("release")
    /\ UNCHANGED <<rows, dispatches, task, stopped, launches, env>>

\* _wait_resource_claimed; run.waiting_resource is not a domain event.
WaitResourceClaimed ==
    LET r == exec.run IN
    /\ up /\ exec.pc = "wait"
    /\ run' = IF Failable(r)
              THEN [run EXCEPT ![r] = [Bump(@, "waiting_resource") EXCEPT !.resume = TRUE]]
              ELSE run
    /\ Goto("release")
    /\ UNCHANGED <<rows, dispatches, task, events, stopped, launches, env>>

\* _release_claimed, in the finally clause of every path.
ReleaseClaimed ==
    LET r == exec.run IN
    /\ up /\ exec.pc = "release"
    /\ queue' = [queue EXCEPT ![r] = IF @ = "cancelled" THEN "cancelled" ELSE "completed"]
    /\ lease' = [lease EXCEPT ![r] = NoLease]
    /\ exec' = Idle
    /\ UNCHANGED <<run, queuedAt, lastDispatch, dispatches, task, events, stopped, launches, env>>

(***************************************************************************)
(* WriteQueue.submit raises (back-pressure, deadline): nothing was         *)
(* written.  In the try block the exception leads to _fail_claimed, in its *)
(* handler to the finally clause, in the finally clause out of work().     *)
(***************************************************************************)
AfterFault == [unavailable |-> "fail", probing |-> "fail", starting |-> "fail",
               running |-> "fail", complete |-> "fail", fail |-> "release", wait |-> "release"]

SubmitFails ==
    /\ up /\ faults < MaxFaults
    /\ \/ exec.pc \in DOMAIN AfterFault /\ Goto(AfterFault[exec.pc])
       \/ exec.pc = "release" /\ exec' = Idle
    /\ faults' = faults + 1
    /\ UNCHANGED <<db, dispatches, stopped, launches, now, up, crashes>>

\* _lease_heartbeat: UPDATE ... WHERE expires_at > now, until the finally clause.
LeaseHeartbeat ==
    LET r == exec.run IN
    /\ up /\ exec.pc \notin {"idle", "release"}
    /\ lease[r] # NoLease
    /\ TextLess(IsoNow(now), lease[r].expires_at)
    /\ lease' = [lease EXCEPT ![r] = NewLease(now)]
    /\ UNCHANGED <<run, queue, queuedAt, lastDispatch, dispatches, task, events, exec, stopped,
                   launches, env>>

-----------------------------------------------------------------------------
(* The user. *)

(***************************************************************************)
(* cancel_run, for one run (run.cancel) or for every unfinished run of an  *)
(* employee (_runtime_stop).  The host is asked to stop the agent first;   *)
(* then the rows change.  resume_state is not cleared, so the CHECK        *)
(* refuses to cancel a waiting run.                                        *)
(***************************************************************************)
CancelAccepted(r) ==
    /\ run[r].status \notin Terminal \cup {"absent"}
    /\ ResumeCheck(Bump(run[r], "cancelled"))

HostCancels(S) == {r \in S \cap ApiModel : exec.pc = "executing" /\ exec.run = r}

CancelRuns(S) ==
    /\ up /\ S # {}
    /\ \A r \in S : CancelAccepted(r)
    /\ run' = [r \in Runs |-> IF r \in S THEN Bump(run[r], "cancelled") ELSE run[r]]
    /\ queue' = [r \in Runs |-> IF r \in S /\ queue[r] # "none" THEN "cancelled" ELSE queue[r]]
    /\ events' = [r \in Runs |->
                    IF r \in S
                    THEN events[r] \cup {[type |-> "run.cancelled", version |-> NextVersion(run[r])]}
                    ELSE events[r]]
    /\ stopped' = stopped \cup HostCancels(S)
    /\ UNCHANGED <<queuedAt, lastDispatch, dispatches, lease, task, exec, launches, env>>

(***************************************************************************)
(* The host cancels the model request but its answer is lost or an error:  *)
(* MODEL_CANCEL_FAILED rolls the transaction back, not the cancellation.   *)
(***************************************************************************)
CancelFails(S) ==
    /\ up /\ HostCancels(S) # {}
    /\ stopped' = stopped \cup HostCancels(S)
    /\ UNCHANGED <<db, dispatches, exec, launches, env>>

UnfinishedOf(e) == {r \in Runs : EmployeeOf[r] = e /\ run[r].status \in Unfinished}

(***************************************************************************)
(* resume_run: the run goes back to running and a NEW queue row is         *)
(* inserted; runtime_queue.run_id is UNIQUE, and no code deletes queue     *)
(* rows, so the insert is refused and the transaction rolls back whenever  *)
(* the run already has a row.  transition() is given no resume_state.      *)
(***************************************************************************)
Resumable(status) ==
    status \in Waiting /\ CanTransition(AgentRunTransitions, status, "running", "none")

ResumeOutcome(r) ==
    CASE ~Resumable(run[r].status)        -> "STATE_TRANSITION_INVALID"
      [] run[r].attempt >= MaxAttempt     -> "RUN_ATTEMPT_LIMIT_EXCEEDED"
      [] queue[r] # "none"                -> "UNIQUE_CONSTRAINT_FAILED"
      [] OTHER                            -> "ok"

ResumeRun(r) ==
    /\ up /\ run[r].status \in Waiting
    /\ IF ResumeOutcome(r) = "ok"
       THEN /\ run' = [run EXCEPT ![r].status = "running", ![r].version = @ + 1,
                                  ![r].resume = FALSE, ![r].attempt = @ + 1]
            /\ queue' = [queue EXCEPT ![r] = "ready"]
       ELSE UNCHANGED <<run, queue>>
    /\ UNCHANGED <<queuedAt, lastDispatch, dispatches, lease, task, events, exec, stopped,
                   launches, env>>

\* replace_employee cancels the old employee's task whatever its status.  The
\* task it inserts for the new employee is another item, assigned from Init on.
ReplaceEmployee(i) ==
    /\ up /\ task[i] # "cancelled"
    /\ task' = [task EXCEPT ![i] = "cancelled"]
    /\ UNCHANGED <<run, rows, dispatches, events, exec, stopped, launches, env>>

-----------------------------------------------------------------------------
(***************************************************************************)
(* AnalysisWorker: in one transaction, every lease whose expires_at sorts  *)
(* before now is deleted, its leased row is made ready again and its run   *)
(* is set to lost, whatever its status, without an event.  A waiting run   *)
(* among them breaks the CHECK and rolls the whole clean-up back.          *)
(***************************************************************************)
LeaveRow(row) == row
ReapedRow(row) == Bump(row, "lost")
LeaveLeased(q) == q
ReapedQueue(q) == IF q = "leased" THEN "ready" ELSE q

Expired(r) == lease[r] # NoLease /\ TextLess(lease[r].expires_at, IsoNow(now))

CleanupLeases ==
    LET E == {r \in Runs : Expired(r)} IN
    /\ up /\ E # {}
    /\ \A r \in E : ResumeCheck(ReapedRow(run[r]))
    /\ queue' = [r \in Runs |-> IF r \in E THEN ReapedQueue(queue[r]) ELSE queue[r]]
    /\ lease' = [r \in Runs |-> IF r \in E THEN NoLease ELSE lease[r]]
    /\ run' = [r \in Runs |-> IF r \in E THEN ReapedRow(run[r]) ELSE run[r]]
    /\ UNCHANGED <<queuedAt, lastDispatch, dispatches, task, events, exec, stopped, launches, env>>

-----------------------------------------------------------------------------
(***************************************************************************)
(* The Sidecar dies (released = FALSE), or is stopped: the executor is     *)
(* cancelled, kills its process and still releases its claim.              *)
(***************************************************************************)
Down(released) ==
    LET r == exec.run IN
    /\ up /\ crashes < MaxCrashes
    /\ up' = FALSE
    /\ crashes' = crashes + 1
    /\ exec' = Idle
    /\ stopped' = {}
    /\ IF released
       THEN /\ exec.pc # "idle"
            /\ queue' = [queue EXCEPT ![r] = IF @ = "cancelled" THEN "cancelled" ELSE "completed"]
            /\ lease' = [lease EXCEPT ![r] = NoLease]
       ELSE UNCHANGED <<queue, lease>>
    /\ UNCHANGED <<run, queuedAt, lastDispatch, dispatches, task, events, launches, now, faults>>

(***************************************************************************)
(* start: recover_stale_runs in one transaction, before any worker runs.   *)
(***************************************************************************)
StaleButStarting == {"queued", "probing", "running"}
Stale == {"queued", "probing", "starting", "running"}

RecoverStaleRuns ==
    LET S == {r \in Runs : run[r].status \in Stale} IN
    /\ ~up
    /\ up' = TRUE
    /\ run' = [r \in Runs |-> IF r \in S THEN Bump(run[r], "failed") ELSE run[r]]
    /\ queue' = [r \in Runs |-> IF r \in S /\ Active(r) THEN "cancelled" ELSE queue[r]]
    /\ lease' = [r \in Runs |-> IF r \in S THEN NoLease ELSE lease[r]]
    /\ events' = [r \in Runs |->
                    IF r \in S
                    THEN events[r] \cup {[type |-> "run.failed", version |-> NextVersion(run[r])]}
                    ELSE events[r]]
    /\ UNCHANGED <<queuedAt, lastDispatch, dispatches, task, exec, stopped, launches, now, faults,
                   crashes>>

Tick ==
    /\ now < MaxTime
    /\ now' = now + 1
    /\ UNCHANGED <<db, dispatches, exec, stopped, launches, up, faults, crashes>>

-----------------------------------------------------------------------------
Executor ==
    \/ \E r \in Runs : ClaimNext(r)
    \/ \E available \in BOOLEAN : ReadRun(available)
    \/ Transition("queued", "probing", "starting")
    \/ Transition("probing", "starting", "running")
    \/ Transition("starting", "running", "launch")
    \/ StartRefusedStep
    \/ \E loaded \in BOOLEAN : Launch(loaded)
    \/ \E result \in Results : Finish(result)
    \/ Raise("fail")
    \/ Raise("wait")
    \/ ModelRunCancelled
    \/ CompleteClaimed
    \/ FailClaimed
    \/ WaitResourceClaimed
    \/ ReleaseClaimed

User ==
    \/ \E r \in Runs : StartRun(r)
    \/ \E r \in Runs : CancelRuns({r})
    \/ \E e \in Employees : CancelRuns(UnfinishedOf(e))
    \/ \E r \in Runs : CancelFails({r})
    \/ \E e \in Employees : CancelFails(UnfinishedOf(e))
    \/ \E r \in Runs : ResumeRun(r)
    \/ \E i \in Tasks : ReplaceEmployee(i)

Next ==
    \/ Executor
    \/ SubmitFails
    \/ LeaseHeartbeat
    \/ User
    \/ CleanupLeases
    \/ \E released \in BOOLEAN : Down(released)
    \/ RecoverStaleRuns
    \/ Tick

Spec == Init /\ [][Next]_vars

(***************************************************************************)
(* The worker loop polls every second and every process has a deadline, so *)
(* the executor takes its next step while the Sidecar is up.  Nothing is   *)
(* assumed of users, leases or the clock, nor that a Sidecar that is down  *)
(* comes up again: only the user opens a profile.                          *)
(***************************************************************************)
FairSpec == Spec /\ WF_vars(Executor)

-----------------------------------------------------------------------------
(* What holds of the runtime. *)

(***************************************************************************)
(* No replay.  Whatever crashes, is cancelled, reaped, stopped or          *)
(* recovered, the agent of a run is started at most once per attempt:      *)
(* recovery and the reaper never put a run that may have run back to work. *)
(* (recovery.py: "never replays it automatically")                         *)
(***************************************************************************)
NoReplay == \A r \in Runs : launches[r] <= run[r].attempt

(***************************************************************************)
(* A leased queue row always has its lease, so it can be released or       *)
(* reaped, and a lease only belongs to a leased or a cancelled row, so the *)
(* UNIQUE constraints of runtime_leases never refuse a claim.              *)
(***************************************************************************)
LeaseMatchesQueue ==
    \A r \in Runs :
        /\ queue[r] = "leased" => lease[r] # NoLease
        /\ lease[r] # NoLease => queue[r] \in {"leased", "cancelled"}

(***************************************************************************)
(* A finished run (other than a lost one) has in domain_events, at its     *)
(* current version, the terminal event of its status: the outbox tells     *)
(* consumers what the row says, whoever finished the run.                  *)
(***************************************************************************)
StatusHasItsEvent ==
    \A r \in Runs : run[r].status \in Results =>
        [type |-> EventOf(run[r].status), version |-> run[r].version] \in events[r]

(***************************************************************************)
(* aggregate_version orders the events of a run: no two events share a     *)
(* version, and none is ahead of the row.                                  *)
(***************************************************************************)
OneEventPerVersion ==
    \A r \in Runs :
        /\ \A e \in events[r] : e.version <= run[r].version
        /\ \A d, e \in events[r] : d.version = e.version => d = e

(***************************************************************************)
(* An employee task is started by its run: when the task is running, one   *)
(* of its runs has announced run.started, or has been ended by somebody    *)
(* else.  StartEmployeeTask commits even when the compare-and-set of the   *)
(* run fails after it, so a started task may have lost its run, but never  *)
(* one that is still on its way to running.                                *)
(***************************************************************************)
StartedByItsRun ==
    \A t \in Tasks : task[t] = "running" =>
        \E r \in Runs : /\ WorkItem[r] = t
                        /\ \/ run[r].status \in Terminal
                           \/ \E e \in events[r] : e.type = "run.started"

(***************************************************************************)
(* A run moves along the AgentRun table of the state machine, which only   *)
(* resume_run consults: the executor, cancel_run, the reaper and recovery  *)
(* each write a status after a look at another one, and it is their reads  *)
(* and versions that keep a finished run finished and a step from being    *)
(* taken twice.  Three moves are not in the table: an execution succeeds   *)
(* without verifying, a queued run fails, and the reaper makes a run lost  *)
(* whatever it was; and nobody takes a lost run up again.                  *)
(***************************************************************************)
Unlisted == {<<"running", "succeeded">>, <<"queued", "failed">>}

FollowsTable(from, to) ==
    \/ from \in {"absent", to}
    \/ to = "lost"
    \/ from # "lost" /\ to \in AgentRunTransitions[from]
    \/ <<from, to>> \in Unlisted

RunsFollowTable ==
    [][\A r \in Runs : FollowsTable(run[r].status, run'[r].status)]_vars

(***************************************************************************)
(* Nothing is forgotten while submissions succeed: an unfinished run has a *)
(* ready row, or the executor is at work on it.  (For an API model run a   *)
(* cancel that fails after the host has stopped the request breaks this:   *)
(* ModelRunCancelled lets go of a run that nobody has finished.)           *)
(***************************************************************************)
AtWork(r) == exec.pc # "idle" /\ exec.run = r

NothingForgotten ==
    up /\ faults = 0 =>
        \A r \in Runs \ ApiModel :
            run[r].status \in Unfinished =>
                queue[r] = "ready" \/ AtWork(r)

(***************************************************************************)
(* A lease whose holder has been silent for longer than LeaseLen is seen   *)
(* as expired by the text comparison, across the day boundary too.         *)
(***************************************************************************)
OverdueIsExpired ==
    \A r \in Runs :
        lease[r] # NoLease /\ now > lease[r].heartbeat_at + LeaseLen => Expired(r)

(***************************************************************************)
(* A queued CLI run eventually finishes, through cancels, reaped leases,   *)
(* crashes and stops, unless the Sidecar stays down from some point on: a  *)
(* restart, whenever it comes, strands none.  This holds as long as        *)
(* submissions to the WriteQueue succeed.  (One failing submission of      *)
(* _fail_claimed is enough to strand a run: its row is then released       *)
(* unconditionally.)                                                       *)
(***************************************************************************)
QueuedSettles ==
    \A r \in Runs \ ApiModel :
        [](run[r].status = "queued" => <>(run[r].status \in Terminal \/ []~up))

-----------------------------------------------------------------------------
(* What the documentation, a comment or a table says, and the code does    *)
(* not do: each is violated (see the findings).                            *)

(***************************************************************************)
(* A lease is held for LeaseLen after the last heartbeat: nobody but its   *)
(* holder (or recovery) removes it earlier.  (README: a 5 minute lease,    *)
(* renewed every 30 seconds.)                                              *)
(***************************************************************************)
LeaseHonoured ==
    [][\A r \in Runs :
        lease[r] # NoLease /\ lease'[r] = NoLease /\ exec' = exec /\ up' = up =>
            now >= lease[r].heartbeat_at + LeaseLen]_vars

(***************************************************************************)
(* A run waiting for a resource that the executor has let go of is not     *)
(* stuck: the user can resume it or cancel it.  (README: queued again once *)
(* the user has restored the resource; the deployment guide: run.resume    *)
(* creates a new queue item.  The UNIQUE run_id refuses the one, the CHECK *)
(* on resume_state the other.)                                             *)
(***************************************************************************)
WaitingCanLeave ==
    \A r \in Runs :
        run[r].status \in Waiting /\ run[r].attempt < MaxAttempt /\ ~AtWork(r) =>
            ResumeOutcome(r) = "ok" \/ CancelAccepted(r)

=============================================================================
