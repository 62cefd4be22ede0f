----------------------- MODULE RuntimeExecutionProofs -----------------------
(***************************************************************************)
(* Theorems about RuntimeExecution, for every set of runs and every bound, *)
(* and about the claim order between companies (CompanyFairness).          *)
(***************************************************************************)
EXTENDS CompanyFairness, FiniteSetTheorems, TLAPS

-----------------------------------------------------------------------------
(* Lemmas about the operators the actions are built from. *)

\* A position in arrival order is a number.
LEMMA ArrivalType ==
    ASSUME NEW S \in SUBSET Runs
    PROVE  1 + Cardinality(S) \in Nat
<1>1. IsFiniteSet(S)
  BY RunAssumption, FS_Subset
<1> QED
  BY <1>1, FS_CardinalityType

\* The lease written at a time is a row of runtime_leases, not its absence.
LEMMA LeaseType ==
    ASSUME NEW t \in Nat
    PROVE  NewLease(t) \in LeaseRow /\ NewLease(t) # NoLease
<1>1. (t + LeaseLen) \div DayLen \in Nat /\ (t + LeaseLen) % DayLen \in Nat
  BY BoundAssumption
<1>2. SqliteDatetime(t + LeaseLen) \in Nat \X {Blank} \X Nat
  BY <1>1 DEF SqliteDatetime
<1>3. NewLease(t) \in LeaseRow
  BY <1>2 DEF NewLease, LeaseRow
<1> QED
  BY <1>3, LeaseAssumption

\* A status change keeps the row a row, and counts the version by one.
LEMMA BumpType ==
    ASSUME NEW row \in RunRow, NEW s \in Statuses
    PROVE  /\ Bump(row, s) \in RunRow
           /\ Bump(row, s).status = s
           /\ Bump(row, s).version = row.version + 1
           /\ Bump(row, s).resume = row.resume
           /\ Bump(row, s).attempt = row.attempt
<1>1. row.version \in Nat /\ row.version + 1 \in Nat
  BY DEF RunRow
<1>2. /\ Bump(row, s).status = s
      /\ Bump(row, s).version = row.version + 1
      /\ Bump(row, s).resume = row.resume
      /\ Bump(row, s).attempt = row.attempt
  BY DEF Bump, RunRow
<1>3. Bump(row, s) \in RunRow
  BY <1>1 DEF Bump, RunRow
<1> QED
  BY <1>2, <1>3

-----------------------------------------------------------------------------
(* Type correctness. *)

LEMMA TypeInit == Init => TypeOK
<1> SUFFICES ASSUME Init PROVE TypeOK
  OBVIOUS
<1>1. run \in [Runs -> RunRow]
  BY DEF Init, RunRow, Statuses, MaxAttempt
<1>2. events \in [Runs -> SUBSET Event]
  BY DEF Init
<1>3. exec \in Exec /\ exec.pc = "idle"
  BY DEF Init, Idle, Exec, PCs
<1>4. /\ queue \in [Runs -> QueueStatuses \cup {"none"}]
      /\ lease \in [Runs -> LeaseRow \cup {NoLease}]
      /\ task \in [Tasks -> TaskStatuses]
  BY DEF Init, TaskStatuses
<1> QED
  BY <1>1, <1>2, <1>3, <1>4 DEF Init, TypeOK

\* The memory of the executor keeps its type when it goes to another step.
LEMMA GotoType ==
    ASSUME TypeOK, NEW pc \in PCs \ {"idle", "complete"}, exec.pc # "idle", Goto(pc)
    PROVE  /\ exec' \in Exec /\ exec'.pc = pc
           /\ exec'.run = exec.run /\ exec'.run \in Runs
           /\ exec'.version = exec.version
  BY DEF Goto, TypeOK, Exec

\* An event added to a run's events.
LEMMA EmitType ==
    ASSUME TypeOK, NEW r \in Runs, NEW type \in EventTypes, NEW v \in Nat
    PROVE  /\ Emit(r, type, v) \in [Runs -> SUBSET Event]
           /\ Emit(r, type, v)[r] = events[r] \cup {[type |-> type, version |-> v]}
           /\ \A q \in Runs : q # r => Emit(r, type, v)[q] = events[q]
<1>1. [type |-> type, version |-> v] \in Event
  BY DEF Event
<1> QED
  BY <1>1 DEF Emit, TypeOK

LEMMA TypeStep == TypeOK /\ [Next]_vars => TypeOK'
<1> SUFFICES ASSUME TypeOK, [Next]_vars PROVE TypeOK'
  OBVIOUS
<1>idle. Idle \in Exec /\ Idle.pc = "idle"
  BY DEF Idle, Exec, PCs
<1>1. ASSUME NEW r \in Runs, StartRun(r) PROVE TypeOK'
  <2>1. run' \in [Runs -> RunRow]
    BY <1>1, BumpType DEF StartRun, StartAccepted, TypeOK, Statuses, Unfinished
  <2>2. queuedAt' \in [Runs -> Nat]
    BY <1>1, ArrivalType DEF StartRun, StartAccepted, TypeOK
  <2>3. events' \in [Runs -> SUBSET Event]
    BY <1>1, EmitType DEF StartRun, StartAccepted, EventTypes
  <2>4. queue' \in [Runs -> QueueStatuses \cup {"none"}]
    BY <1>1 DEF StartRun, StartAccepted, TypeOK, QueueStatuses
  <2> QED
    BY <1>1, <2>1, <2>2, <2>3, <2>4 DEF StartRun, StartAccepted, TypeOK, env
<1>2. ASSUME NEW r \in Runs, ClaimNext(r) PROVE TypeOK'
  <2>1. lease' \in [Runs -> LeaseRow \cup {NoLease}]
    BY <1>2, LeaseType DEF ClaimNext, TypeOK
  <2>2. exec' \in Exec /\ exec'.pc = "read" /\ exec'.run \in Runs
    BY <1>2 DEF ClaimNext, Idle, Exec, PCs
  <2>3. dispatches' \in Nat /\ lastDispatch' \in [Companies -> Nat]
    <3>1. CompanyOf[r] \in Companies
      BY RunAssumption
    <3>2. dispatches' = dispatches + 1 /\ dispatches \in Nat
      BY <1>2 DEF ClaimNext, TypeOK
    <3>3. lastDispatch' = [lastDispatch EXCEPT ![CompanyOf[r]] = dispatches']
      BY <1>2 DEF ClaimNext
    <3> QED
      BY <3>1, <3>2, <3>3 DEF TypeOK
  <2>4. queue' \in [Runs -> QueueStatuses \cup {"none"}]
    BY <1>2 DEF ClaimNext, TypeOK, QueueStatuses
  <2> QED
    BY <1>2, <2>1, <2>2, <2>3, <2>4 DEF ClaimNext, TypeOK, env
<1>3. ASSUME NEW available \in BOOLEAN, ReadRun(available) PROVE TypeOK'
  <2>1. exec.run \in Runs /\ run[exec.run].version \in Nat
    BY <1>3 DEF ReadRun, TypeOK, RunRow
  <2>2. exec' \in Exec /\ exec'.run \in Runs /\ exec'.pc # "complete"
    BY <1>3, <2>1 DEF ReadRun, TypeOK, Exec, PCs
  <2> QED
    BY <1>3, <2>2 DEF ReadRun, TypeOK, db, env
<1>4. ASSUME NEW from, NEW to \in {"probing", "starting", "running"},
             NEW next \in {"starting", "running", "launch"}, Transition(from, to, next)
      PROVE  TypeOK'
  <2> DEFINE r == exec.run
  <2>1. r \in Runs /\ exec.version \in Nat /\ exec.version + 1 \in Nat
    BY <1>4 DEF Transition, TypeOK, Exec
  <2>2. run' \in [Runs -> RunRow]
    <3>1. CASE UNCHANGED run
      BY <3>1 DEF TypeOK
    <3>2. CASE run' = [run EXCEPT ![r] = Bump(@, to)]
      BY <2>1, <3>2, BumpType DEF TypeOK, Statuses, Unfinished
    <3> QED
      BY <1>4, <3>1, <3>2 DEF Transition
  <2>3. events' \in [Runs -> SUBSET Event]
    <3>1. CASE UNCHANGED events
      BY <3>1 DEF TypeOK
    <3>2. CASE events' = Emit(r, "run.started", exec.version + 1)
      BY <2>1, <3>2, EmitType DEF EventTypes
    <3> QED
      BY <1>4, <3>1, <3>2 DEF Transition
  <2>4. exec' \in Exec /\ exec'.pc # "complete" /\ exec'.run \in Runs
    <3>1. CASE Goto("release")
      BY <1>4, <3>1, GotoType DEF Transition, PCs
    <3>2. CASE exec' = [exec EXCEPT !.pc = next, !.version = @ + 1]
      BY <3>2, <2>1 DEF TypeOK, Exec, PCs
    <3> QED
      BY <1>4, <3>1, <3>2 DEF Transition
  <2>5. task' \in [Tasks -> TaskStatuses]
    BY <1>4, <2>1, RunAssumption DEF Transition, StartEmployeeTask, HasTask, TypeOK, TaskStatuses
  <2> QED
    BY <1>4, <2>2, <2>3, <2>4, <2>5 DEF Transition, TypeOK, rows, env
<1>5. ASSUME StartRefusedStep PROVE TypeOK'
  BY <1>5, GotoType DEF StartRefusedStep, TypeOK, PCs, db, env
<1>6. ASSUME NEW loaded \in BOOLEAN, Launch(loaded) PROVE TypeOK'
  <2>1. exec.run \in Runs
    BY <1>6 DEF Launch, TypeOK
  <2>2. launches' \in [Runs -> Nat]
    BY <1>6, <2>1 DEF Launch, TypeOK
  <2>3. exec' \in Exec /\ exec'.pc \notin {"idle", "complete"} /\ exec'.run \in Runs
    BY <1>6, GotoType DEF Launch, PCs
  <2> QED
    BY <1>6, <2>2, <2>3 DEF Launch, TypeOK, db, env
<1>7. ASSUME NEW result \in Results, Finish(result) PROVE TypeOK'
  <2>1. exec' \in Exec /\ exec'.run \in Runs /\ exec'.result \in Results
    BY <1>7 DEF Finish, TypeOK, Exec, PCs
  <2> QED
    BY <1>7, <2>1 DEF Finish, TypeOK, db, env
<1>8. ASSUME NEW handler \in {"fail", "wait", "release"}, Raise(handler) PROVE TypeOK'
  BY <1>8, GotoType DEF Raise, TypeOK, PCs, db, env
<1>9. ASSUME CompleteClaimed PROVE TypeOK'
  <2> DEFINE r == exec.run
  <2>1. /\ r \in Runs /\ exec.version + 1 \in Nat
        /\ exec.result \in Statuses /\ EventOf(exec.result) \in EventTypes
    BY <1>9 DEF CompleteClaimed, TypeOK, Exec, Results, Statuses, Terminal, EventOf, EventTypes
  <2>2. run' \in [Runs -> RunRow]
    <3>1. CASE UNCHANGED run
      BY <3>1 DEF TypeOK
    <3>2. CASE run' = [run EXCEPT ![r] = Bump(@, exec.result)]
      BY <2>1, <3>2, BumpType DEF TypeOK
    <3> QED
      BY <1>9, <3>1, <3>2 DEF CompleteClaimed
  <2>3. events' \in [Runs -> SUBSET Event]
    <3>1. CASE UNCHANGED events
      BY <3>1 DEF TypeOK
    <3>2. CASE events' = Emit(r, EventOf(exec.result), exec.version + 1)
      BY <2>1, <3>2, EmitType
    <3> QED
      BY <1>9, <3>1, <3>2 DEF CompleteClaimed
  <2>4. exec' \in Exec /\ exec'.pc = "release" /\ exec'.run \in Runs
    BY <1>9, GotoType DEF CompleteClaimed, PCs
  <2> QED
    BY <1>9, <2>2, <2>3, <2>4 DEF CompleteClaimed, TypeOK, rows, env
<1>10. ASSUME FailClaimed PROVE TypeOK'
  <2> DEFINE r == exec.run
  <2>1. r \in Runs /\ NextVersion(run[r]) \in Nat
    BY <1>10 DEF FailClaimed, TypeOK, RunRow, NextVersion
  <2>2. run' \in [Runs -> RunRow]
    BY <1>10, <2>1, BumpType DEF FailClaimed, TypeOK, Statuses, Terminal
  <2>3. events' \in [Runs -> SUBSET Event]
    BY <1>10, <2>1, EmitType DEF FailClaimed, TypeOK, EventTypes
  <2>4. exec' \in Exec /\ exec'.pc = "release" /\ exec'.run \in Runs
    BY <1>10, GotoType DEF FailClaimed, PCs
  <2> QED
    BY <1>10, <2>2, <2>3, <2>4 DEF FailClaimed, TypeOK, rows, env
<1>11. ASSUME WaitResourceClaimed PROVE TypeOK'
  <2> DEFINE r == exec.run
             row == [Bump(run[r], "waiting_resource") EXCEPT !.resume = TRUE]
  <2>1. r \in Runs
    BY <1>11 DEF WaitResourceClaimed, TypeOK
  <2>2. row \in RunRow
    <3>1. Bump(run[r], "waiting_resource") \in RunRow
      BY <2>1, BumpType DEF TypeOK, Statuses, Waiting
    <3> QED
      BY <3>1 DEF RunRow
  <2>3. run' \in [Runs -> RunRow]
    BY <1>11, <2>1, <2>2 DEF WaitResourceClaimed, TypeOK
  <2>4. exec' \in Exec /\ exec'.pc = "release" /\ exec'.run \in Runs
    BY <1>11, GotoType DEF WaitResourceClaimed, PCs
  <2> QED
    BY <1>11, <2>3, <2>4 DEF WaitResourceClaimed, TypeOK, rows, env
<1>12. ASSUME ReleaseClaimed PROVE TypeOK'
  BY <1>12, <1>idle DEF ReleaseClaimed, TypeOK, QueueStatuses, env
<1>13. ASSUME SubmitFails PROVE TypeOK'
  <2>1. exec' \in Exec /\ (exec'.pc # "idle" => exec'.run \in Runs) /\ exec'.pc # "complete"
    <3>1. CASE exec' = Idle
      BY <3>1, <1>idle
    <3>2. ASSUME exec.pc \in DOMAIN AfterFault, Goto(AfterFault[exec.pc])
          PROVE  exec' \in Exec /\ exec'.run \in Runs /\ exec'.pc # "complete"
      <4>1. AfterFault[exec.pc] \in {"fail", "release"} /\ exec.pc # "idle"
        BY <3>2 DEF AfterFault
      <4> QED
        BY <3>2, <4>1, GotoType DEF PCs
    <3> QED
      BY <1>13, <3>1, <3>2 DEF SubmitFails
  <2> QED
    BY <1>13, <2>1 DEF SubmitFails, TypeOK, db
<1>14. ASSUME LeaseHeartbeat PROVE TypeOK'
  BY <1>14, LeaseType DEF LeaseHeartbeat, TypeOK, env
<1>15. ASSUME NEW S \in SUBSET Runs, CancelRuns(S) PROVE TypeOK'
  <2>1. run' \in [Runs -> RunRow]
    BY <1>15, BumpType DEF CancelRuns, TypeOK, Statuses, Terminal
  <2>2. events' \in [Runs -> SUBSET Event]
    <3> SUFFICES ASSUME NEW r \in Runs
                 PROVE  [type |-> "run.cancelled", version |-> NextVersion(run[r])] \in Event
      BY <1>15 DEF CancelRuns, TypeOK
    <3> QED
      BY DEF TypeOK, RunRow, NextVersion, Event, EventTypes
  <2>3. queue' \in [Runs -> QueueStatuses \cup {"none"}]
    BY <1>15 DEF CancelRuns, TypeOK, QueueStatuses
  <2>4. stopped' \subseteq Runs
    BY <1>15 DEF CancelRuns, TypeOK, HostCancels
  <2> QED
    BY <1>15, <2>1, <2>2, <2>3, <2>4 DEF CancelRuns, TypeOK, env
<1>16. ASSUME NEW S \in SUBSET Runs, CancelFails(S) PROVE TypeOK'
  BY <1>16 DEF CancelFails, HostCancels, TypeOK, db, env
<1>17. ASSUME NEW r \in Runs, ResumeRun(r) PROVE TypeOK'
  <2>1. run' \in [Runs -> RunRow]
    <3>1. CASE UNCHANGED run
      BY <3>1 DEF TypeOK
    <3>2. CASE ResumeOutcome(r) = "ok"
      <4>1. run[r].attempt \in 1..MaxAttempt /\ run[r].attempt + 1 \in 1..MaxAttempt
        BY <3>2 DEF ResumeOutcome, TypeOK, RunRow, MaxAttempt
      <4>2. /\ run[r].version + 1 \in Nat
            /\ "running" \in Statuses
        BY DEF TypeOK, RunRow, Statuses, Unfinished
      <4> QED
        BY <1>17, <3>2, <4>1, <4>2 DEF ResumeRun, TypeOK, RunRow
    <3> QED
      BY <1>17, <3>1, <3>2 DEF ResumeRun
  <2>2. queue' \in [Runs -> QueueStatuses \cup {"none"}]
    BY <1>17 DEF ResumeRun, TypeOK, QueueStatuses
  <2> QED
    BY <1>17, <2>1, <2>2 DEF ResumeRun, TypeOK, env
<1>18. ASSUME NEW i \in Tasks, ReplaceEmployee(i) PROVE TypeOK'
  BY <1>18 DEF ReplaceEmployee, TypeOK, TaskStatuses, rows, env
<1>19. ASSUME CleanupLeases PROVE TypeOK'
  <2>1. run' \in [Runs -> RunRow]
    BY <1>19, BumpType DEF CleanupLeases, ReapedRow, TypeOK, Statuses, Terminal
  <2>2. /\ queue' \in [Runs -> QueueStatuses \cup {"none"}]
        /\ lease' \in [Runs -> LeaseRow \cup {NoLease}]
    BY <1>19 DEF CleanupLeases, ReapedQueue, TypeOK, QueueStatuses
  <2> QED
    BY <1>19, <2>1, <2>2 DEF CleanupLeases, TypeOK, env
<1>20. ASSUME NEW released \in BOOLEAN, Down(released) PROVE TypeOK'
  <2>1. /\ queue' \in [Runs -> QueueStatuses \cup {"none"}]
        /\ lease' \in [Runs -> LeaseRow \cup {NoLease}]
    BY <1>20 DEF Down, TypeOK, QueueStatuses
  <2>2. /\ exec' = Idle /\ stopped' = {}
        /\ up' = FALSE /\ crashes' = crashes + 1
        /\ UNCHANGED <<run, queuedAt, lastDispatch, dispatches, task, events, launches, now, faults>>
    BY <1>20 DEF Down
  <2>3. crashes' \in Nat /\ stopped' \subseteq Runs
    BY <2>2 DEF TypeOK
  <2>4. up' \in BOOLEAN
    BY <2>2
  <2>5. exec' \in Exec /\ exec'.pc = "idle"
    BY <2>2, <1>idle
  <2> QED
    BY <2>1, <2>2, <2>3, <2>4, <2>5 DEF TypeOK
<1>21. ASSUME RecoverStaleRuns PROVE TypeOK'
  <2>1. run' \in [Runs -> RunRow]
    BY <1>21, BumpType DEF RecoverStaleRuns, TypeOK, Statuses, Terminal
  <2>2. events' \in [Runs -> SUBSET Event]
    <3> SUFFICES ASSUME NEW r \in Runs
                 PROVE  [type |-> "run.failed", version |-> NextVersion(run[r])] \in Event
      BY <1>21 DEF RecoverStaleRuns, TypeOK
    <3> QED
      BY DEF TypeOK, RunRow, NextVersion, Event, EventTypes
  <2>3. /\ queue' \in [Runs -> QueueStatuses \cup {"none"}]
        /\ lease' \in [Runs -> LeaseRow \cup {NoLease}]
    BY <1>21 DEF RecoverStaleRuns, TypeOK, QueueStatuses
  <2> QED
    BY <1>21, <2>1, <2>2, <2>3 DEF RecoverStaleRuns, TypeOK
<1>22. ASSUME Tick PROVE TypeOK'
  BY <1>22 DEF Tick, TypeOK, db
<1>23. ASSUME UNCHANGED vars PROVE TypeOK'
  BY <1>23 DEF vars, TypeOK
<1>24. ASSUME Executor PROVE TypeOK'
  BY <1>24, <1>2, <1>3, <1>4, <1>5, <1>6, <1>7, <1>8, <1>9, <1>10, <1>11, <1>12
  DEF Executor, ModelRunCancelled
<1>25. ASSUME User PROVE TypeOK'
  <2>1. \A e \in Employees : UnfinishedOf(e) \in SUBSET Runs
    BY DEF UnfinishedOf
  <2> QED
    BY <1>25, <2>1, <1>1, <1>15, <1>16, <1>17, <1>18 DEF User
<1> QED
  BY <1>13, <1>14, <1>19, <1>20, <1>21, <1>22, <1>23, <1>24, <1>25 DEF Next

(***************************************************************************)
(* Type correctness, for every number of runs, companies and employees.    *)
(***************************************************************************)
THEOREM TypeCorrect == Spec => []TypeOK
  BY TypeInit, TypeStep, PTL DEF Spec

-----------------------------------------------------------------------------
(***************************************************************************)
(* Events.  What any step does to one run: nothing, or one status change   *)
(* that counts the version by one and writes at most one event, at the new *)
(* version, which for a result is the event of that result.                *)
(***************************************************************************)
Kept(r) == run'[r] = run[r] /\ events'[r] = events[r]

Moved(r) ==
    /\ run[r].status \notin Terminal \/ run'[r].status = "lost"
    /\ run'[r].status # "absent"
    /\ run'[r].version = run[r].version + 1
    /\ \/ run'[r].status \notin Results /\ events'[r] = events[r]
       \/ \E type \in EventTypes :
            /\ run'[r].status \in Results => type = EventOf(run'[r].status)
            /\ events'[r] = events[r] \cup {[type |-> type, version |-> run[r].version + 1]}

\* A run that does not exist yet has no history.
Unborn == \A r \in Runs : run[r].status = "absent" => run[r].version = 0 /\ events[r] = {}

LEMMA RunStep ==
    ASSUME TypeOK, Unborn, [Next]_vars, NEW q \in Runs
    PROVE  Kept(q) \/ Moved(q)
<1> USE DEF Kept
<1>1. ASSUME NEW r \in Runs, StartRun(r) PROVE Kept(q) \/ Moved(q)
  <2>1. CASE q # r
    BY <1>1, <2>1 DEF StartRun, StartAccepted, Emit, TypeOK
  <2>2. CASE q = r
    <3>1. run'[r] = Bump(run[r], "queued") /\ run[r].status = "absent" /\ run[r].version = 0
      BY <1>1 DEF StartRun, StartAccepted, TypeOK, Unborn
    <3>2. run'[r].status = "queued" /\ run'[r].version = run[r].version + 1
      BY <3>1, BumpType DEF TypeOK, Statuses, Unfinished
    <3>3. events'[r] = events[r] \cup {[type |-> "run.queued", version |-> run[r].version + 1]}
      BY <1>1, <3>1 DEF StartRun, StartAccepted, Emit, TypeOK
    <3> QED
      BY <2>2, <3>1, <3>2, <3>3 DEF Moved, Terminal, Results, EventTypes
  <2> QED
    BY <2>1, <2>2
<1>2. ASSUME NEW from \in {"queued", "probing", "starting"},
             NEW to \in {"probing", "starting", "running"}, NEW next, Transition(from, to, next)
      PROVE  Kept(q) \/ Moved(q)
  <2> DEFINE r == exec.run
  <2>1. r \in Runs /\ exec.version \in Nat
    BY <1>2 DEF Transition, TypeOK, Exec
  <2>2. CASE UNCHANGED <<run, events>>
    BY <2>2
  <2>3. CASE /\ Matches(r, from, exec.version)
             /\ run' = [run EXCEPT ![r] = Bump(@, to)]
             /\ events' = IF to = "running" THEN Emit(r, "run.started", exec.version + 1) ELSE events
    <3>1. CASE q # r
      BY <2>1, <2>3, <3>1 DEF Emit, TypeOK
    <3>2. CASE q = r
      <4>1. /\ run'[r] = Bump(run[r], to) /\ run[r] \in RunRow /\ to \in Statuses
            /\ run[r].status = from /\ run[r].version = exec.version
        BY <2>1, <2>3 DEF Matches, TypeOK, Statuses, Unfinished
      <4>2. run'[r].status = to /\ run'[r].version = run[r].version + 1
        BY <4>1, BumpType
      <4>3. \/ events'[r] = events[r]
            \/ events'[r] = events[r] \cup {[type |-> "run.started", version |-> run[r].version + 1]}
        BY <2>1, <2>3, <4>1 DEF Emit, TypeOK
      <4> QED
        BY <3>2, <4>1, <4>2, <4>3 DEF Moved, Terminal, Results, EventTypes
    <3> QED
      BY <3>1, <3>2
  <2> QED
    BY <1>2, <2>2, <2>3 DEF Transition
<1>3. ASSUME CompleteClaimed PROVE Kept(q) \/ Moved(q)
  <2> DEFINE r == exec.run
             s == exec.result
  <2>1. r \in Runs /\ s \in Results /\ s \in Statuses /\ EventOf(s) \in EventTypes
    BY <1>3 DEF CompleteClaimed, TypeOK, Exec, Results, Statuses, Terminal, EventOf, EventTypes
  <2>2. CASE UNCHANGED <<run, events>>
    BY <2>2
  <2>3. CASE /\ Matches(r, "running", exec.version)
             /\ run' = [run EXCEPT ![r] = Bump(@, s)]
             /\ events' = Emit(r, EventOf(s), exec.version + 1)
    <3>1. CASE q # r
      BY <2>1, <2>3, <3>1 DEF Emit, TypeOK
    <3>2. CASE q = r
      <4>1. /\ run'[r] = Bump(run[r], s) /\ run[r] \in RunRow
            /\ run[r].status = "running" /\ run[r].version = exec.version
        BY <2>1, <2>3 DEF Matches, TypeOK
      <4>2. run'[r].status = s /\ run'[r].version = run[r].version + 1
        BY <2>1, <4>1, BumpType
      <4>3. events'[r] = events[r] \cup {[type |-> EventOf(s), version |-> run[r].version + 1]}
        BY <2>1, <2>3, <4>1 DEF Emit, TypeOK
      <4> QED
        BY <2>1, <3>2, <4>1, <4>2, <4>3 DEF Moved, Terminal, Results
    <3> QED
      BY <3>1, <3>2
  <2> QED
    BY <1>3, <2>2, <2>3 DEF CompleteClaimed
<1>4. ASSUME FailClaimed PROVE Kept(q) \/ Moved(q)
  <2> DEFINE r == exec.run
  <2>1. r \in Runs
    BY <1>4 DEF FailClaimed, TypeOK
  <2>2. CASE UNCHANGED <<run, events>>
    BY <2>2
  <2>3. CASE /\ Failable(r)
             /\ run' = [run EXCEPT ![r] = Bump(@, "failed")]
             /\ events' = Emit(r, "run.failed", NextVersion(run[r]))
    <3>1. CASE q # r
      BY <2>1, <2>3, <3>1 DEF Emit, TypeOK
    <3>2. CASE q = r
      <4>1. /\ run'[r] = Bump(run[r], "failed") /\ run[r] \in RunRow
            /\ run[r].status \notin Terminal
        BY <2>1, <2>3 DEF Failable, TypeOK
      <4>2. run'[r].status = "failed" /\ run'[r].version = run[r].version + 1
        BY <4>1, BumpType DEF Statuses, Terminal
      <4>3. events'[r] = events[r] \cup {[type |-> "run.failed", version |-> run[r].version + 1]}
        BY <2>1, <2>3 DEF Emit, TypeOK, NextVersion
      <4> QED
        BY <3>2, <4>1, <4>2, <4>3 DEF Moved, EventOf, EventTypes
    <3> QED
      BY <3>1, <3>2
  <2> QED
    BY <1>4, <2>2, <2>3 DEF FailClaimed
<1>5. ASSUME WaitResourceClaimed PROVE Kept(q) \/ Moved(q)
  <2> DEFINE r == exec.run
  <2>1. r \in Runs /\ events' = events
    BY <1>5 DEF WaitResourceClaimed, TypeOK
  <2>2. CASE UNCHANGED run
    BY <2>1, <2>2
  <2>3. CASE /\ Failable(r)
             /\ run' = [run EXCEPT ![r] = [Bump(@, "waiting_resource") EXCEPT !.resume = TRUE]]
    <3>1. CASE q # r
      BY <2>1, <2>3, <3>1 DEF TypeOK
    <3>2. CASE q = r
      <4> DEFINE row == Bump(run[r], "waiting_resource")
      <4>1. row \in RunRow /\ row.status = "waiting_resource" /\ row.version = run[r].version + 1
        BY <2>1, BumpType DEF TypeOK, Statuses, Waiting
      <4>2. run'[r] = [row EXCEPT !.resume = TRUE] /\ run[r].status \notin Terminal
        BY <2>1, <2>3 DEF TypeOK, Failable
      <4>3. run'[r].status = "waiting_resource" /\ run'[r].version = run[r].version + 1
        BY <4>1, <4>2 DEF RunRow
      <4> QED
        BY <2>1, <3>2, <4>2, <4>3 DEF Moved, Results
    <3> QED
      BY <3>1, <3>2
  <2> QED
    BY <1>5, <2>2, <2>3 DEF WaitResourceClaimed
<1>6. ASSUME NEW S \in SUBSET Runs, CancelRuns(S) PROVE Kept(q) \/ Moved(q)
  <2>1. CASE q \notin S
    BY <1>6, <2>1 DEF CancelRuns
  <2>2. CASE q \in S
    <3>1. /\ run'[q] = Bump(run[q], "cancelled") /\ run[q] \in RunRow
          /\ run[q].status \notin Terminal
      BY <1>6, <2>2 DEF CancelRuns, CancelAccepted, TypeOK
    <3>s. "cancelled" \in Statuses
      BY DEF Statuses, Terminal
    <3>2. run'[q].status = "cancelled" /\ run'[q].version = run[q].version + 1
      BY <3>1, <3>s, BumpType
    <3>3. events'[q] = events[q] \cup {[type |-> "run.cancelled", version |-> run[q].version + 1]}
      BY <1>6, <2>2 DEF CancelRuns, NextVersion
    <3> QED
      BY <3>1, <3>2, <3>3 DEF Moved, EventOf, EventTypes
  <2> QED
    BY <2>1, <2>2
<1>7. ASSUME NEW r \in Runs, ResumeRun(r) PROVE Kept(q) \/ Moved(q)
  <2>1. events' = events /\ run[r].status \in Waiting
    BY <1>7 DEF ResumeRun
  <2>2. CASE UNCHANGED run
    BY <2>1, <2>2
  <2>3. CASE run' = [run EXCEPT ![r].status = "running", ![r].version = @ + 1,
                                ![r].resume = FALSE, ![r].attempt = @ + 1]
    <3>1. CASE q # r
      BY <2>1, <2>3, <3>1 DEF TypeOK
    <3>2. CASE q = r
      <4>1. run'[r].status = "running" /\ run'[r].version = run[r].version + 1
        BY <2>3 DEF TypeOK, RunRow
      <4> QED
        BY <2>1, <3>2, <4>1 DEF Moved, Waiting, Terminal, Results
    <3> QED
      BY <3>1, <3>2
  <2> QED
    BY <1>7, <2>2, <2>3 DEF ResumeRun
<1>8. ASSUME CleanupLeases PROVE Kept(q) \/ Moved(q)
  <2>1. events' = events /\ (run'[q] = run[q] \/ run'[q] = Bump(run[q], "lost"))
    BY <1>8 DEF CleanupLeases, ReapedRow
  <2>2. CASE run'[q] = run[q]
    BY <2>1, <2>2
  <2>3. CASE run'[q] = Bump(run[q], "lost")
    <3>1. run'[q].status = "lost" /\ run'[q].version = run[q].version + 1
      BY <2>3, BumpType DEF TypeOK, Statuses, Terminal
    <3> QED
      BY <2>1, <3>1 DEF Moved, Results
  <2> QED
    BY <2>1, <2>2, <2>3
<1>9. ASSUME RecoverStaleRuns PROVE Kept(q) \/ Moved(q)
  <2>1. CASE run[q].status \notin Stale
    BY <1>9, <2>1 DEF RecoverStaleRuns
  <2>2. CASE run[q].status \in Stale
    <3>1. run'[q] = Bump(run[q], "failed") /\ run[q] \in RunRow
      BY <1>9, <2>2 DEF RecoverStaleRuns, TypeOK
    <3>2. run'[q].status = "failed" /\ run'[q].version = run[q].version + 1
      BY <3>1, BumpType DEF Statuses, Terminal
    <3>3. events'[q] = events[q] \cup {[type |-> "run.failed", version |-> run[q].version + 1]}
      BY <1>9, <2>2 DEF RecoverStaleRuns, NextVersion
    <3> QED
      BY <2>2, <3>2, <3>3 DEF Moved, Stale, Terminal, EventOf, EventTypes
  <2> QED
    BY <2>1, <2>2
<1>10. ASSUME UNCHANGED <<run, events>> PROVE Kept(q) \/ Moved(q)
  BY <1>10
<1>11. ASSUME Executor PROVE Kept(q) \/ Moved(q)
  BY <1>11, <1>2, <1>3, <1>4, <1>5, <1>10
  DEF Executor, ClaimNext, ReadRun, StartRefusedStep, Launch, Finish, Raise, ModelRunCancelled,
      ReleaseClaimed, db
<1>12. ASSUME User PROVE Kept(q) \/ Moved(q)
  <2>1. \A e \in Employees : UnfinishedOf(e) \in SUBSET Runs
    BY DEF UnfinishedOf
  <2> QED
    BY <1>12, <2>1, <1>1, <1>6, <1>7, <1>10 DEF User, CancelFails, ReplaceEmployee, db
<1> QED
  BY <1>8, <1>9, <1>10, <1>11, <1>12
  DEF Next, SubmitFails, LeaseHeartbeat, Down, Tick, vars, db

\* The inductive invariant behind the two properties of the event log.
EventInv == Unborn /\ OneEventPerVersion /\ StatusHasItsEvent

LEMMA EventInit == Init => EventInv
  BY DEF Init, EventInv, Unborn, OneEventPerVersion, StatusHasItsEvent, Results

LEMMA EventStep == TypeOK /\ EventInv /\ [Next]_vars => EventInv'
<1> SUFFICES ASSUME TypeOK, EventInv, [Next]_vars PROVE EventInv'
  OBVIOUS
<1> USE DEF EventInv
<1>type. TypeOK'
  BY TypeStep
<1> SUFFICES ASSUME NEW r \in Runs
             PROVE  /\ run'[r].status = "absent" => run'[r].version = 0 /\ events'[r] = {}
                    /\ \A e \in events'[r] : e.version <= run'[r].version
                    /\ \A d, e \in events'[r] : d.version = e.version => d = e
                    /\ run'[r].status \in Results =>
                        [type |-> EventOf(run'[r].status), version |-> run'[r].version] \in events'[r]
  BY DEF Unborn, OneEventPerVersion, StatusHasItsEvent, Results
<1>0. /\ run[r].version \in Nat /\ \A e \in events[r] : e.version \in Nat
      /\ \A e \in events[r] : e.version <= run[r].version
      /\ \A d, e \in events[r] : d.version = e.version => d = e
  BY DEF TypeOK, RunRow, Event, OneEventPerVersion
<1>1. CASE Kept(r)
  BY <1>1 DEF Kept, Unborn, OneEventPerVersion, StatusHasItsEvent
<1>2. CASE Moved(r)
  <2>1. run'[r].status # "absent" /\ run'[r].version = run[r].version + 1
    BY <1>2 DEF Moved
  <2>2. CASE run'[r].status \notin Results /\ events'[r] = events[r]
    BY <1>0, <2>1, <2>2
  <2>3. CASE \E type \in EventTypes :
              /\ run'[r].status \in Results => type = EventOf(run'[r].status)
              /\ events'[r] = events[r] \cup {[type |-> type, version |-> run[r].version + 1]}
    <3>1. PICK type \in EventTypes :
              /\ run'[r].status \in Results => type = EventOf(run'[r].status)
              /\ events'[r] = events[r] \cup {[type |-> type, version |-> run[r].version + 1]}
      BY <2>3
    <3> DEFINE new == [type |-> type, version |-> run[r].version + 1]
    <3>2. events'[r] = events[r] \cup {new} /\ new.version = run[r].version + 1
      BY <3>1
    <3>3. \A e \in events[r] : e.version # new.version
      BY <1>0, <3>2
    <3> HIDE DEF new
    <3>4. \A e \in events'[r] : e.version <= run'[r].version
      BY <1>0, <2>1, <3>2
    <3>5. \A d, e \in events'[r] : d.version = e.version => d = e
      BY <1>0, <3>2, <3>3
    <3>6. run'[r].status \in Results =>
              [type |-> EventOf(run'[r].status), version |-> run'[r].version] \in events'[r]
      BY <2>1, <3>1
    <3> QED
      BY <2>1, <3>4, <3>5, <3>6
  <2> QED
    BY <1>2, <2>2, <2>3 DEF Moved
<1> QED
  BY <1>1, <1>2, RunStep

LEMMA EventsCorrect == Spec => [](TypeOK /\ EventInv)
<1>1. Init => TypeOK /\ EventInv
  BY TypeInit, EventInit
<1>2. TypeOK /\ EventInv /\ [Next]_vars => (TypeOK /\ EventInv)'
  BY TypeStep, EventStep
<1> QED
  BY <1>1, <1>2, PTL DEF Spec

(***************************************************************************)
(* Consumers of the outbox can rely on aggregate_version: whichever of the *)
(* executor, the user, the reaper and recovery wrote the events of a run,  *)
(* no two carry the same version and none is ahead of the row.             *)
(***************************************************************************)
THEOREM VersionsAreUnique == Spec => []OneEventPerVersion
  BY EventsCorrect, PTL DEF EventInv

(***************************************************************************)
(* A finished run, other than a lost one, has told of its result: the      *)
(* event of its status is there at its version.                            *)
(***************************************************************************)
THEOREM ResultsAreTold == Spec => []StatusHasItsEvent
  BY EventsCorrect, PTL DEF EventInv

-----------------------------------------------------------------------------
(***************************************************************************)
(* The state machine.  Whether a waiting or failed run follows the table   *)
(* depends on where the executor is: it has written running before it      *)
(* executes, and nobody else takes a run back.                             *)
(***************************************************************************)
NotLaunched == {"absent", "queued", "probing", "starting"}

Started(log) == \E e \in log : e.type = "run.started"

WorkInv ==
    exec.pc \in {"launch", "executing", "complete", "wait"} => run[exec.run].status \notin NotLaunched

\* The moves that the actions make, by the table and its exceptions.
LEMMA TableMoves ==
    /\ \A s \in Statuses \cup {"absent"} : FollowsTable(s, s) /\ FollowsTable(s, "lost")
    /\ FollowsTable("absent", "queued") /\ FollowsTable("queued", "probing")
    /\ FollowsTable("probing", "starting") /\ FollowsTable("starting", "running")
    /\ \A t \in Results : FollowsTable("running", t)
    /\ \A s \in (Statuses \cup {"absent"}) \ Terminal :
          FollowsTable(s, "failed") /\ FollowsTable(s, "cancelled")
    /\ \A s \in (Statuses \cup {"absent"}) \ (Terminal \cup NotLaunched) :
          FollowsTable(s, "waiting_resource")
    /\ \A s \in Waiting : FollowsTable(s, "running")
  BY DEF FollowsTable, Unlisted, AgentRunTransitions, Statuses, Terminal, Waiting, Unfinished, Results,
         NotLaunched

LEMMA FollowStep ==
    ASSUME TypeOK, WorkInv, [Next]_vars, NEW q \in Runs
    PROVE  /\ FollowsTable(run[q].status, run'[q].status)
           /\ run[q].status \notin NotLaunched => run'[q].status \notin NotLaunched
           /\ run'[q].status \notin NotLaunched \cup Terminal =>
                run[q].status \notin NotLaunched \cup Terminal \/ Started(events'[q])
<1> DEFINE s == run[q].status
           Good(t) == /\ FollowsTable(s, t)
                      /\ s \notin NotLaunched => t \notin NotLaunched
                      /\ t \notin NotLaunched \cup Terminal =>
                           s \notin NotLaunched \cup Terminal \/ Started(events'[q])
<1>type. run[q] \in RunRow /\ s \in Statuses \cup {"absent"}
  BY DEF TypeOK, RunRow
<1>0. ASSUME run'[q] = run[q] PROVE Good(run'[q].status)
  BY <1>type, <1>0, TableMoves
<1>b. ASSUME NEW t \in Statuses, run'[q] = Bump(run[q], t) PROVE run'[q].status = t
  BY <1>type, <1>b, BumpType
<1>1. ASSUME NEW r \in Runs, StartRun(r) PROVE Good(run'[q].status)
  <2>1. CASE q # r
    BY <1>0, <1>1, <2>1 DEF StartRun, TypeOK
  <2>2. CASE q = r
    <3>1. s = "absent" /\ run'[q] = Bump(run[q], "queued") /\ "queued" \in Statuses
      BY <1>1, <2>2 DEF StartRun, StartAccepted, TypeOK, Statuses, Unfinished
    <3>2. run'[q].status = "queued"
      BY <3>1, <1>b
    <3> QED
      BY <3>1, <3>2, TableMoves DEF NotLaunched
  <2> QED
    BY <2>1, <2>2
<1>2. ASSUME NEW from, NEW to, NEW next, Transition(from, to, next),
             <<from, to>> \in {<<"queued", "probing">>, <<"probing", "starting">>, <<"starting", "running">>}
      PROVE  Good(run'[q].status)
  <2>1. CASE run'[q] = run[q]
    BY <2>1, <1>0
  <2>2. CASE run'[q] # run[q]
    <3>1. s = from /\ run'[q] = Bump(run[q], to) /\ to \in Statuses
      BY <1>2, <2>2 DEF Transition, Matches, TypeOK, Statuses, Unfinished
    <3>2. run'[q].status = to
      BY <3>1, <1>b
    <3>3. to = "running" => Started(events'[q])
      <4> DEFINE new == [type |-> "run.started", version |-> exec.version + 1]
      <4>1. to = "running" => events'[q] = events[q] \cup {new}
        BY <1>2, <2>2 DEF Transition, Emit, TypeOK
      <4>2. new.type = "run.started"
        OBVIOUS
      <4> QED
        BY <4>1, <4>2 DEF Started
    <3> QED
      BY <1>2, <3>1, <3>2, <3>3, TableMoves DEF NotLaunched
  <2> QED
    BY <2>1, <2>2
<1>3. ASSUME CompleteClaimed PROVE Good(run'[q].status)
  <2>1. CASE run'[q] = run[q]
    BY <2>1, <1>0
  <2>2. CASE run'[q] # run[q]
    <3>1. s = "running" /\ run'[q] = Bump(run[q], exec.result) /\ exec.result \in Results
      BY <1>3, <2>2 DEF CompleteClaimed, Matches, TypeOK, Exec
    <3>2. exec.result \in Statuses /\ exec.result \notin NotLaunched
      BY <3>1 DEF Results, Statuses, Terminal, NotLaunched
    <3>3. run'[q].status = exec.result
      BY <3>1, <3>2, <1>b
    <3> QED
      BY <3>1, <3>2, <3>3, TableMoves DEF Results, Terminal
  <2> QED
    BY <2>1, <2>2
<1>4. ASSUME run'[q] = Bump(run[q], "failed") \/ run'[q] = Bump(run[q], "cancelled"), s \notin Terminal
      PROVE  Good(run'[q].status)
  <2>1. {"failed", "cancelled"} \subseteq Statuses \ NotLaunched
    BY DEF Statuses, Terminal, NotLaunched
  <2>2. run'[q].status \in {"failed", "cancelled"}
    BY <1>4, <1>b, <2>1
  <2> QED
    BY <1>type, <1>4, <2>1, <2>2, TableMoves DEF Terminal
<1>5. ASSUME FailClaimed PROVE Good(run'[q].status)
  <2>1. run'[q] = run[q] \/ (run'[q] = Bump(run[q], "failed") /\ s \notin Terminal)
    BY <1>5 DEF FailClaimed, Failable, TypeOK
  <2> QED
    BY <2>1, <1>0, <1>4
<1>6. ASSUME WaitResourceClaimed PROVE Good(run'[q].status)
  <2> DEFINE row == Bump(run[q], "waiting_resource")
  <2>1. \/ run'[q] = run[q]
        \/ run'[q] = [row EXCEPT !.resume = TRUE] /\ s \notin Terminal /\ q = exec.run /\ exec.pc = "wait"
    BY <1>6 DEF WaitResourceClaimed, Failable, TypeOK
  <2>2. CASE run'[q] = run[q]
    BY <2>2, <1>0
  <2>3. CASE run'[q] = [row EXCEPT !.resume = TRUE] /\ s \notin Terminal /\ q = exec.run /\ exec.pc = "wait"
    <3>1. row \in RunRow /\ row.status = "waiting_resource"
      BY <1>type, BumpType DEF Statuses, Waiting
    <3>2. run'[q].status = "waiting_resource"
      BY <2>3, <3>1 DEF RunRow
    <3>3. s \notin NotLaunched
      BY <2>3 DEF WorkInv
    <3> QED
      BY <1>type, <2>3, <3>2, <3>3, TableMoves DEF NotLaunched
  <2> QED
    BY <2>1, <2>2, <2>3
<1>7. ASSUME NEW S \in SUBSET Runs, CancelRuns(S) PROVE Good(run'[q].status)
  <2>1. run'[q] = run[q] \/ (run'[q] = Bump(run[q], "cancelled") /\ s \notin Terminal)
    BY <1>7 DEF CancelRuns, CancelAccepted
  <2> QED
    BY <2>1, <1>0, <1>4
<1>8. ASSUME NEW r \in Runs, ResumeRun(r) PROVE Good(run'[q].status)
  <2>1. \/ run'[q] = run[q]
        \/ s \in Waiting /\ run'[q].status = "running"
    BY <1>type, <1>8 DEF ResumeRun, TypeOK, RunRow
  <2> QED
    BY <2>1, <1>0, TableMoves DEF NotLaunched, Waiting, Terminal
<1>9. ASSUME CleanupLeases PROVE Good(run'[q].status)
  <2>1. run'[q] = run[q] \/ run'[q] = Bump(run[q], "lost")
    BY <1>9 DEF CleanupLeases, ReapedRow
  <2>2. "lost" \in Statuses \ NotLaunched
    BY DEF Statuses, Terminal, NotLaunched
  <2> QED
    BY <1>type, <2>1, <2>2, <1>0, <1>b, TableMoves DEF Terminal
<1>10. ASSUME RecoverStaleRuns PROVE Good(run'[q].status)
  <2>1. run'[q] = run[q] \/ (run'[q] = Bump(run[q], "failed") /\ s \notin Terminal)
    BY <1>10 DEF RecoverStaleRuns, Stale, Terminal
  <2> QED
    BY <2>1, <1>0, <1>4
<1>11. ASSUME UNCHANGED run PROVE Good(run'[q].status)
  BY <1>11, <1>0
<1>12. ASSUME Executor PROVE Good(run'[q].status)
  <2>1. ASSUME \/ Transition("queued", "probing", "starting") \/ Transition("probing", "starting", "running")
               \/ Transition("starting", "running", "launch")
        PROVE  Good(run'[q].status)
    BY <2>1, <1>2
  <2> HIDE DEF Good
  <2> QED
    BY <1>12, <2>1, <1>3, <1>5, <1>6, <1>11
    DEF Executor, ClaimNext, ReadRun, StartRefusedStep, Launch, Finish, Raise, ModelRunCancelled,
        ReleaseClaimed, db
<1>13. ASSUME User PROVE Good(run'[q].status)
  <2>1. \A e \in Employees : UnfinishedOf(e) \in SUBSET Runs
    BY DEF UnfinishedOf
  <2> HIDE DEF Good
  <2> QED
    BY <1>13, <2>1, <1>1, <1>7, <1>8, <1>11 DEF User, CancelFails, ReplaceEmployee, db
<1> HIDE DEF Good
<1>14. Good(run'[q].status)
  BY <1>9, <1>10, <1>11, <1>12, <1>13
  DEF Next, SubmitFails, LeaseHeartbeat, Down, Tick, vars, db
<1> QED
  BY <1>14 DEF Good

LEMMA WorkStep == TypeOK /\ WorkInv /\ [Next]_vars => WorkInv'
<1> SUFFICES ASSUME TypeOK, WorkInv, [Next]_vars,
                    exec'.pc \in {"launch", "executing", "complete", "wait"}
             PROVE  run'[exec'.run].status \notin NotLaunched
  BY DEF WorkInv
<1> DEFINE r == exec'.run
<1>1. CASE exec' = exec
  <2>1. exec.run \in Runs
    BY <1>1 DEF TypeOK
  <2> QED
    BY <1>1, <2>1, FollowStep DEF WorkInv
<1>2. CASE exec' # exec
  <2>1. exec \in Exec /\ (exec.pc # "idle" => exec.run \in Runs)
    BY DEF TypeOK
  <2>2. CASE Transition("starting", "running", "launch")
    <3>1. r = exec.run /\ r \in Runs
      BY <2>1, <2>2 DEF Transition, Exec, Goto
    <3>2. CASE Matches(r, "starting", exec.version)
      <4>1. run'[r] = Bump(run[r], "running") /\ run[r] \in RunRow
        BY <2>2, <3>1, <3>2 DEF Transition, TypeOK
      <4>2. run'[r].status = "running"
        BY <4>1, BumpType DEF Statuses, Unfinished
      <4> QED
        BY <4>2 DEF NotLaunched
    <3>3. CASE ~Matches(r, "starting", exec.version)
      BY <2>1, <2>2, <3>1, <3>3 DEF Transition, Goto, Exec
    <3> QED
      BY <3>2, <3>3
  <2>3. CASE \E available \in BOOLEAN : ReadRun(available)
    <3>1. r = exec.run /\ run' = run /\ run[r].status = "running"
      BY <1>2, <2>1, <2>3 DEF ReadRun, Exec, db
    <3> QED
      BY <3>1 DEF NotLaunched
  <2>4. CASE \/ \E loaded \in BOOLEAN : Launch(loaded)
             \/ \E result \in Results : Finish(result)
             \/ Raise("fail") \/ Raise("wait") \/ ModelRunCancelled
    <3>1. /\ exec.pc \in {"launch", "executing"} /\ r = exec.run /\ run' = run
      BY <2>1, <2>4 DEF Launch, Finish, Raise, ModelRunCancelled, Goto, Exec, db
    <3> QED
      BY <3>1 DEF WorkInv
  <2>5. CASE Transition("queued", "probing", "starting") \/ Transition("probing", "starting", "running")
    BY <2>1, <2>5 DEF Transition, Goto, Exec
  <2>6. CASE \/ \E x \in Runs : ClaimNext(x)
             \/ StartRefusedStep \/ CompleteClaimed \/ FailClaimed \/ WaitResourceClaimed
             \/ ReleaseClaimed \/ SubmitFails \/ \E released \in BOOLEAN : Down(released)
    <3>1. \A pc \in DOMAIN AfterFault : AfterFault[pc] \in {"fail", "release"}
      BY DEF AfterFault
    <3>2. ASSUME NEW x \in Runs, ClaimNext(x) PROVE exec'.pc = "read"
      BY <3>2 DEF ClaimNext, Idle
    <3>3. ASSUME SubmitFails PROVE exec'.pc \in {"idle", "fail", "release"}
      BY <2>1, <3>1, <3>3 DEF SubmitFails, Goto, Exec, Idle
    <3>4. ASSUME StartRefusedStep \/ CompleteClaimed \/ FailClaimed \/ WaitResourceClaimed
          PROVE  exec'.pc \in {"fail", "release"}
      BY <2>1, <3>4
      DEF StartRefusedStep, CompleteClaimed, FailClaimed, WaitResourceClaimed, Goto, Exec
    <3>5. ASSUME ReleaseClaimed \/ \E released \in BOOLEAN : Down(released) PROVE exec'.pc = "idle"
      BY <3>5 DEF ReleaseClaimed, Down, Idle
    <3> QED
      BY <2>6, <3>2, <3>3, <3>4, <3>5
  <2>7. Executor \/ SubmitFails \/ \E released \in BOOLEAN : Down(released)
    BY <1>2
    DEF Next, User, StartRun, CancelRuns, CancelFails, ResumeRun, ReplaceEmployee,
        LeaseHeartbeat, CleanupLeases, RecoverStaleRuns, Tick, vars
  <2> QED
    BY <2>2, <2>3, <2>4, <2>5, <2>6, <2>7 DEF Executor
<1> QED
  BY <1>1, <1>2

(***************************************************************************)
(* Whoever writes it, the status of a run moves along the AgentRun table   *)
(* or by one of the three exceptions; a finished run only becomes lost.    *)
(***************************************************************************)
THEOREM RunsFollowTheTable == Spec => RunsFollowTable
<1>1. Init => TypeOK /\ WorkInv
  BY TypeInit DEF Init, WorkInv, Idle
<1>2. TypeOK /\ WorkInv /\ [Next]_vars => (TypeOK /\ WorkInv)'
  BY TypeStep, WorkStep
<1>3. TypeOK /\ WorkInv /\ [Next]_vars =>
        [\A r \in Runs : FollowsTable(run[r].status, run'[r].status)]_vars
  BY FollowStep
<1> QED
  BY <1>1, <1>2, <1>3, PTL DEF Spec, RunsFollowTable

-----------------------------------------------------------------------------
(***************************************************************************)
(* Leases and launches.  NoReplay is not inductive: that a claimed run has *)
(* not been launched rests on what the queue row says of the run, which is *)
(* what recovery, the reaper and cancel_run keep up between them.          *)
(***************************************************************************)
RowInv(r) ==
    /\ run[r].status = "absent" <=> queue[r] = "none"
    /\ queue[r] = "leased" => lease[r] # NoLease
    /\ lease[r] # NoLease => queue[r] \in {"leased", "cancelled"}
    /\ launches[r] \in {0, 1}
    /\ run[r].status \in NotLaunched => launches[r] = 0
    /\ queue[r] = "ready" => run[r].status \in Terminal \cup {"queued"}
    /\ AtWork(r) => run[r].status # "absent"
    /\ queue[r] = "ready" /\ AtWork(r) => run[r].status \in Terminal
    /\ exec.pc = "read" /\ exec.run = r => run[r].status \in Terminal \cup {"queued"}
    /\ exec.pc = "launch" /\ exec.run = r => launches[r] = 0 /\ run[r].status \notin NotLaunched

ClaimInv == \A r \in Runs : RowInv(r)

LEMMA ClaimInit == Init => ClaimInv
  BY DEF Init, ClaimInv, RowInv, Idle, AtWork

\* A step that leaves the rows and the launches of a run alone keeps RowInv if the executor
\* goes elsewhere, or goes on with the run but not to read or launch it.
LEMMA RowKept ==
    ASSUME NEW q \in Runs, RowInv(q),
           run'[q].status = run[q].status, queue'[q] = queue[q], launches'[q] = launches[q],
           (lease'[q] = NoLease) <=> (lease[q] = NoLease),
           \/ exec' = exec
           \/ exec'.pc = "idle" \/ exec'.run # q
           \/ exec.pc # "idle" /\ exec.run = q /\ exec'.run = q /\ exec'.pc \notin {"read", "launch"}
    PROVE  RowInv(q)'
  BY DEF RowInv, AtWork

LEMMA ClaimStep == TypeOK /\ Unborn /\ ClaimInv /\ [Next]_vars => ClaimInv'
<1> SUFFICES ASSUME TypeOK, Unborn, ClaimInv, [Next]_vars, NEW q \in Runs PROVE RowInv(q)'
  BY DEF ClaimInv
<1>inv. RowInv(q)
  BY DEF ClaimInv
<1>row. run[q] \in RunRow
  BY DEF TypeOK
<1>idle. Idle.pc = "idle"
  BY DEF Idle
<1>1. ASSUME NEW r \in Runs, StartRun(r) PROVE RowInv(q)'
  <2>1. UNCHANGED <<lease, launches, exec>>
    BY <1>1 DEF StartRun, StartAccepted
  <2>2. CASE q # r
    <3>1. run'[q] = run[q] /\ queue'[q] = queue[q]
      BY <1>1, <2>2 DEF StartRun, StartAccepted, TypeOK
    <3> QED
      BY <1>inv, <2>1, <3>1, RowKept
  <2>3. CASE q = r
    <3>1. run[q].status = "absent" /\ run'[q] = Bump(run[q], "queued") /\ queue'[q] = "ready"
      BY <1>1, <2>3 DEF StartRun, StartAccepted, TypeOK
    <3>2. run'[q].status = "queued"
      BY <1>row, <3>1, BumpType DEF Statuses, Unfinished
    <3>3. ~AtWork(q)
      BY <1>inv, <3>1 DEF RowInv
    <3> QED
      BY <1>inv, <2>1, <3>1, <3>2, <3>3 DEF RowInv, AtWork, NotLaunched
  <2> QED
    BY <2>2, <2>3
<1>2. ASSUME NEW r \in Runs, ClaimNext(r) PROVE RowInv(q)'
  <2>1. /\ UNCHANGED <<run, launches>> /\ exec.pc = "idle"
        /\ exec'.pc = "read" /\ exec'.run = r /\ queue[r] = "ready"
    BY <1>2 DEF ClaimNext, Idle
  <2>2. CASE q # r
    <3>1. lease'[q] = lease[q] /\ queue'[q] = queue[q]
      BY <1>2, <2>2 DEF ClaimNext, TypeOK
    <3> QED
      BY <1>inv, <2>1, <2>2, <3>1, RowKept
  <2>3. CASE q = r
    <3>1. queue'[q] = "leased" /\ lease'[q] # NoLease
      BY <1>2, <2>3, LeaseType DEF ClaimNext, TypeOK
    <3>2. run[q].status \in Terminal \cup {"queued"} /\ run[q].status # "absent"
      BY <1>inv, <2>1, <2>3 DEF RowInv
    <3> QED
      BY <1>inv, <2>1, <2>3, <3>1, <3>2 DEF RowInv, AtWork
  <2> QED
    BY <2>2, <2>3
<1>3. ASSUME NEW available \in BOOLEAN, ReadRun(available) PROVE RowInv(q)'
  <2>1. /\ UNCHANGED <<run, queue, lease, launches>> /\ exec.pc = "read"
        /\ exec'.run = exec.run
    BY <1>3 DEF ReadRun, TypeOK, Exec, db
  <2>2. exec'.pc # "read"
    BY <1>3 DEF ReadRun, TypeOK, Exec
  <2>3. exec'.run = q => exec'.pc # "launch"
    <3>1. exec.run = q => run[q].status # "running"
      BY <1>inv, <2>1 DEF RowInv, Terminal
    <3> QED
      BY <1>3, <2>1, <3>1 DEF ReadRun, TypeOK, Exec
  <2> QED
    BY <1>inv, <2>1, <2>2, <2>3, RowKept
<1>4. ASSUME NEW from \in {"queued", "probing", "starting"},
             NEW to \in {"probing", "starting", "running"},
             NEW next \in {"starting", "running", "launch"},
             next = "launch" => to = "running", Transition(from, to, next)
      PROVE  RowInv(q)'
  <2> DEFINE r == exec.run
  <2>1. UNCHANGED <<queue, lease, launches>> /\ r \in Runs /\ exec.pc = to
    BY <1>4 DEF Transition, TypeOK, rows
  <2>2. CASE UNCHANGED run /\ Goto("release")
    <3>1. exec'.run = exec.run /\ exec'.pc = "release"
      BY <2>1, <2>2, GotoType DEF PCs
    <3> QED
      BY <1>inv, <2>1, <2>2, <3>1, RowKept
  <2>3. CASE /\ Matches(r, from, exec.version)
             /\ run' = [run EXCEPT ![r] = Bump(@, to)]
             /\ exec' = [exec EXCEPT !.pc = next, !.version = @ + 1]
    <3>1. exec'.run = exec.run /\ exec'.pc = next
      BY <2>3 DEF TypeOK, Exec
    <3>2. CASE q # r
      BY <1>inv, <2>1, <2>3, <3>1, <3>2, RowKept DEF TypeOK
    <3>3. CASE q = r
      <4>1. run'[q] = Bump(run[q], to) /\ run[q].status = from
        BY <2>1, <2>3, <3>3 DEF TypeOK, Matches
      <4>2. run'[q].status = to
        BY <1>row, <4>1, BumpType DEF Statuses, Unfinished
      <4>3. launches[q] = 0 /\ AtWork(q) /\ queue[q] # "none" /\ queue[q] # "ready"
        BY <1>inv, <2>1, <3>3, <4>1 DEF RowInv, AtWork, NotLaunched, Terminal
      <4> QED
        BY <1>4, <1>inv, <2>1, <3>1, <3>3, <4>2, <4>3 DEF RowInv, AtWork, NotLaunched
    <3> QED
      BY <3>2, <3>3
  <2> QED
    BY <1>4, <2>2, <2>3 DEF Transition
<1>5. ASSUME NEW loaded \in BOOLEAN, Launch(loaded) PROVE RowInv(q)'
  <2>1. UNCHANGED <<run, queue, lease>> /\ exec.pc = "launch" /\ exec.run \in Runs
    BY <1>5 DEF Launch, TypeOK, db
  <2>2. exec'.run = exec.run /\ exec'.pc \in {"executing", "fail"}
    BY <1>5, GotoType DEF Launch, PCs
  <2>3. CASE launches'[q] = launches[q]
    BY <1>inv, <2>1, <2>2, <2>3, RowKept
  <2>4. CASE q = exec.run /\ launches'[q] = launches[q] + 1
    BY <1>inv, <2>1, <2>2, <2>4 DEF RowInv, AtWork
  <2> QED
    BY <1>5, <2>1, <2>3, <2>4 DEF Launch, TypeOK
<1>6. ASSUME UNCHANGED <<run, queue, lease, launches>>, exec.pc # "idle", exec'.run = exec.run,
             exec'.pc \notin {"read", "launch"}
      PROVE  RowInv(q)'
  BY <1>6, <1>inv, RowKept
<1>7. ASSUME NEW result \in Results, Finish(result) PROVE RowInv(q)'
  <2>1. exec'.run = exec.run /\ exec'.pc = "complete"
    BY <1>7 DEF Finish, TypeOK, Exec
  <2> QED
    BY <1>6, <1>7, <2>1 DEF Finish, db
<1>8. ASSUME NEW handler \in {"fail", "wait", "release"}, Raise(handler) PROVE RowInv(q)'
  <2>1. exec'.run = exec.run /\ exec'.pc = handler
    BY <1>8, GotoType DEF Raise, PCs
  <2> QED
    BY <1>6, <1>8, <2>1 DEF Raise, db
<1>9. ASSUME StartRefusedStep PROVE RowInv(q)'
  <2>1. exec'.run = exec.run /\ exec'.pc = "fail"
    BY <1>9, GotoType DEF StartRefusedStep, PCs
  <2> QED
    BY <1>6, <1>9, <2>1 DEF StartRefusedStep, db
<1>10. ASSUME UNCHANGED <<queue, lease, launches>>, exec.pc \in {"unavailable", "complete", "fail", "wait"},
              Goto("release"), run'[q] = run[q] \/ (exec.run = q /\ Moved(q)),
              run'[q] = run[q] \/ run'[q].status \in Terminal \cup Waiting
       PROVE  RowInv(q)'
  <2>1. exec'.run = exec.run /\ exec'.pc = "release"
    BY <1>10, GotoType DEF PCs
  <2>2. CASE run'[q] = run[q]
    BY <1>inv, <1>10, <2>1, <2>2, RowKept
  <2>3. CASE exec.run = q /\ Moved(q) /\ run'[q].status \in Terminal \cup Waiting
    <3>1. AtWork(q) /\ queue[q] # "none"
      BY <1>inv, <1>10, <2>3 DEF RowInv, AtWork
    <3>2. queue[q] = "ready" => run'[q].status \in Terminal
      BY <1>inv, <2>3, <3>1 DEF RowInv, Moved, Terminal
    <3> QED
      BY <1>inv, <1>10, <2>1, <2>3, <3>1, <3>2 DEF RowInv, AtWork, NotLaunched, Terminal, Waiting
  <2> QED
    BY <1>10, <2>2, <2>3
<1>11. ASSUME CompleteClaimed PROVE RowInv(q)'
  <2>1. exec.run \in Runs /\ exec.result \in Results
    BY <1>11 DEF CompleteClaimed, TypeOK
  <2>2. run'[q] = run[q] \/ (exec.run = q /\ run'[q] = Bump(run[q], exec.result))
    BY <1>11, <2>1 DEF CompleteClaimed, TypeOK
  <2>3. run'[q] = run[q] \/ (exec.run = q /\ run'[q].status \in Terminal /\ run'[q] # run[q])
    BY <1>row, <2>1, <2>2, BumpType DEF Results, Statuses, Terminal, RunRow
  <2>4. Kept(q) \/ Moved(q)
    BY RunStep
  <2> QED
    BY <1>10, <1>11, <2>3, <2>4 DEF CompleteClaimed, Kept, rows
<1>12. ASSUME FailClaimed PROVE RowInv(q)'
  <2>1. exec.run \in Runs
    BY <1>12 DEF FailClaimed, TypeOK
  <2>2. run'[q] = run[q] \/ (exec.run = q /\ run'[q] = Bump(run[q], "failed"))
    BY <1>12, <2>1 DEF FailClaimed, TypeOK
  <2>3. run'[q] = run[q] \/ (exec.run = q /\ run'[q].status \in Terminal)
    BY <1>row, <2>2, BumpType DEF Statuses, Terminal
  <2>4. Kept(q) \/ Moved(q)
    BY RunStep
  <2> QED
    BY <1>10, <1>12, <2>3, <2>4 DEF FailClaimed, Kept, rows
<1>13. ASSUME WaitResourceClaimed PROVE RowInv(q)'
  <2>1. exec.run \in Runs
    BY <1>13 DEF WaitResourceClaimed, TypeOK
  <2> DEFINE row == Bump(run[q], "waiting_resource")
  <2>2. row \in RunRow /\ row.status \in Waiting
    BY <1>row, BumpType DEF Statuses, Waiting
  <2>3. run'[q] = run[q] \/ (exec.run = q /\ run'[q] = [row EXCEPT !.resume = TRUE])
    BY <1>13, <2>1 DEF WaitResourceClaimed, TypeOK
  <2>4. run'[q] = run[q] \/ (exec.run = q /\ run'[q].status \in Waiting)
    BY <2>2, <2>3 DEF RunRow
  <2>5. Kept(q) \/ Moved(q)
    BY RunStep
  <2> QED
    BY <1>10, <1>13, <2>4, <2>5 DEF WaitResourceClaimed, Kept, rows
<1>14. ASSUME NEW r \in Runs, exec.pc # "idle", exec.run = r, UNCHANGED <<run, launches>>, exec' = Idle,
              queue' = [queue EXCEPT ![r] = IF @ = "cancelled" THEN "cancelled" ELSE "completed"],
              lease' = [lease EXCEPT ![r] = NoLease]
       PROVE  RowInv(q)'
  <2>1. CASE q # r
    BY <1>inv, <1>idle, <1>14, <2>1, RowKept DEF TypeOK
  <2>2. CASE q = r
    <3>1. queue'[q] \in {"cancelled", "completed"} /\ lease'[q] = NoLease /\ exec'.pc = "idle"
      BY <1>14, <1>idle, <2>2 DEF TypeOK
    <3>2. AtWork(q)
      BY <1>14, <2>2 DEF AtWork
    <3> QED
      BY <1>inv, <1>14, <3>1, <3>2 DEF RowInv, AtWork
  <2> QED
    BY <2>1, <2>2
<1>15. ASSUME ReleaseClaimed PROVE RowInv(q)'
  <2>1. exec.pc # "idle" /\ exec.run \in Runs
    BY <1>15 DEF ReleaseClaimed, TypeOK
  <2> QED
    BY <1>14, <1>15, <2>1 DEF ReleaseClaimed
<1>16. ASSUME NEW released \in BOOLEAN, Down(released) PROVE RowInv(q)'
  <2>1. exec' = Idle /\ UNCHANGED <<run, launches>>
    BY <1>16 DEF Down
  <2>2. CASE UNCHANGED <<queue, lease>>
    BY <1>inv, <1>idle, <2>1, <2>2, RowKept
  <2>3. CASE /\ exec.pc # "idle"
             /\ queue' = [queue EXCEPT ![exec.run] = IF @ = "cancelled" THEN "cancelled" ELSE "completed"]
             /\ lease' = [lease EXCEPT ![exec.run] = NoLease]
    <3>1. exec.run \in Runs
      BY <2>3 DEF TypeOK
    <3> QED
      BY <1>14, <2>1, <2>3, <3>1
  <2> QED
    BY <1>16, <2>2, <2>3 DEF Down
<1>17. ASSUME SubmitFails PROVE RowInv(q)'
  <2>1. UNCHANGED <<run, queue, lease, launches>>
    BY <1>17 DEF SubmitFails, db
  <2>2. CASE exec' = Idle
    BY <1>inv, <1>idle, <2>1, <2>2, RowKept
  <2>3. CASE exec.pc \in DOMAIN AfterFault /\ Goto(AfterFault[exec.pc])
    <3>1. AfterFault[exec.pc] \in {"fail", "release"} /\ exec.pc # "idle"
      BY <2>3 DEF AfterFault
    <3>2. exec'.run = exec.run /\ exec'.pc \in {"fail", "release"}
      BY <2>3, <3>1, GotoType DEF PCs
    <3> QED
      BY <1>6, <2>1, <3>1, <3>2
  <2> QED
    BY <1>17, <2>2, <2>3 DEF SubmitFails
<1>18. ASSUME LeaseHeartbeat PROVE RowInv(q)'
  <2>1. /\ UNCHANGED <<run, queue, launches, exec>> /\ lease[exec.run] # NoLease
        /\ lease' = [lease EXCEPT ![exec.run] = NewLease(now)]
    BY <1>18 DEF LeaseHeartbeat
  <2>2. lease'[q] = NoLease <=> lease[q] = NoLease
    BY <2>1, LeaseType DEF TypeOK
  <2> QED
    BY <1>inv, <2>1, <2>2, RowKept
<1>19. ASSUME NEW S \in SUBSET Runs, CancelRuns(S) PROVE RowInv(q)'
  <2>1. UNCHANGED <<lease, launches, exec>>
    BY <1>19 DEF CancelRuns
  <2>2. CASE q \notin S
    BY <1>19, <1>inv, <2>1, <2>2, RowKept DEF CancelRuns
  <2>3. CASE q \in S
    <3>1. run'[q] = Bump(run[q], "cancelled") /\ run[q].status # "absent"
      BY <1>19, <2>3 DEF CancelRuns, CancelAccepted
    <3>2. run'[q].status = "cancelled"
      BY <1>row, <3>1, BumpType DEF Statuses, Terminal
    <3>3. queue'[q] = "cancelled"
      BY <1>19, <1>inv, <2>3, <3>1 DEF CancelRuns, RowInv
    <3> QED
      BY <1>inv, <2>1, <3>2, <3>3 DEF RowInv, AtWork, NotLaunched, Terminal
  <2> QED
    BY <2>2, <2>3
<1>20. ASSUME NEW r \in Runs, ResumeRun(r) PROVE RowInv(q)'
  <2>1. RowInv(r) /\ run[r].status \in Waiting
    BY <1>20 DEF ResumeRun, ClaimInv
  <2>2. ResumeOutcome(r) # "ok"
    BY <2>1 DEF RowInv, ResumeOutcome, Waiting
  <2> QED
    BY <1>20, <1>inv, <2>2, RowKept DEF ResumeRun
<1>21. ASSUME CleanupLeases PROVE RowInv(q)'
  <2>1. UNCHANGED <<launches, exec>>
    BY <1>21 DEF CleanupLeases
  <2>2. CASE ~Expired(q)
    BY <1>21, <1>inv, <2>1, <2>2, RowKept DEF CleanupLeases
  <2>3. CASE Expired(q)
    <3>1. /\ run'[q] = Bump(run[q], "lost") /\ lease'[q] = NoLease
          /\ queue'[q] = IF queue[q] = "leased" THEN "ready" ELSE queue[q]
      BY <1>21, <2>3 DEF CleanupLeases, ReapedRow, ReapedQueue
    <3>2. run'[q].status = "lost"
      BY <1>row, <3>1, BumpType DEF Statuses, Terminal
    <3>3. queue[q] \in {"leased", "cancelled"}
      BY <1>inv, <2>3 DEF RowInv, Expired
    <3> QED
      BY <1>inv, <2>1, <3>1, <3>2, <3>3 DEF RowInv, AtWork, NotLaunched, Terminal
  <2> QED
    BY <2>2, <2>3
<1>22. ASSUME RecoverStaleRuns PROVE RowInv(q)'
  <2>1. UNCHANGED <<launches, exec>>
    BY <1>22 DEF RecoverStaleRuns
  <2>2. CASE run[q].status \notin Stale
    BY <1>22, <1>inv, <2>1, <2>2, RowKept DEF RecoverStaleRuns
  <2>3. CASE run[q].status \in Stale
    <3>1. /\ run'[q] = Bump(run[q], "failed") /\ lease'[q] = NoLease
          /\ queue'[q] = IF Active(q) THEN "cancelled" ELSE queue[q]
      BY <1>22, <2>3 DEF RecoverStaleRuns
    <3>2. run'[q].status = "failed"
      BY <1>row, <3>1, BumpType DEF Statuses, Terminal
    <3>3. queue'[q] \notin {"none", "ready", "leased"}
      BY <1>inv, <2>3, <3>1 DEF RowInv, Active, Stale
    <3> QED
      BY <1>inv, <2>1, <3>1, <3>2, <3>3 DEF RowInv, AtWork, NotLaunched, Terminal
  <2> QED
    BY <2>2, <2>3
<1>23. ASSUME UNCHANGED <<run, queue, lease, launches, exec>> PROVE RowInv(q)'
  BY <1>23, <1>inv, RowKept
<1>24. ASSUME Executor PROVE RowInv(q)'
  BY <1>24, <1>2, <1>3, <1>4, <1>5, <1>7, <1>8, <1>9, <1>11, <1>12, <1>13, <1>15
  DEF Executor, ModelRunCancelled
<1>25. ASSUME User PROVE RowInv(q)'
  <2>1. \A e \in Employees : UnfinishedOf(e) \in SUBSET Runs
    BY DEF UnfinishedOf
  <2> QED
    BY <1>25, <2>1, <1>1, <1>19, <1>20, <1>23 DEF User, CancelFails, ReplaceEmployee, rows, db
<1> QED
  BY <1>16, <1>17, <1>18, <1>21, <1>22, <1>23, <1>24, <1>25 DEF Next, Tick, vars, db

LEMMA ClaimsCorrect == Spec => [](TypeOK /\ EventInv /\ ClaimInv)
<1>1. Init => ClaimInv
  BY ClaimInit
<1>2. TypeOK /\ EventInv /\ ClaimInv /\ [Next]_vars => ClaimInv'
  BY ClaimStep DEF EventInv
<1> QED
  BY <1>1, <1>2, EventsCorrect, PTL DEF Spec

(***************************************************************************)
(* The rows of runtime_queue and runtime_leases never contradict each      *)
(* other, whatever cancel_run, the reaper, recovery and faults do.         *)
(***************************************************************************)
THEOREM LeasesMatch == Spec => []LeaseMatchesQueue
<1>1. ClaimInv => LeaseMatchesQueue
  BY DEF ClaimInv, RowInv, LeaseMatchesQueue
<1> QED
  BY <1>1, ClaimsCorrect, PTL

(***************************************************************************)
(* No run is replayed: its agent is started at most once per attempt.      *)
(***************************************************************************)
THEOREM RunsAreNotReplayed == Spec => []NoReplay
<1>1. TypeOK /\ ClaimInv => NoReplay
  <2> SUFFICES ASSUME TypeOK, ClaimInv, NEW r \in Runs PROVE launches[r] <= run[r].attempt
    BY DEF NoReplay
  <2>1. launches[r] \in {0, 1}
    BY DEF ClaimInv, RowInv
  <2>2. run[r].attempt \in 1..MaxAttempt
    BY DEF TypeOK, RunRow
  <2> QED
    BY <2>1, <2>2 DEF MaxAttempt
<1> QED
  BY <1>1, ClaimsCorrect, PTL

-----------------------------------------------------------------------------
(* Expiry as text. *)

\* A later time is not on an earlier day.
LEMMA DayOrder ==
    ASSUME NEW a \in Nat, NEW b \in Nat, a <= b
    PROVE  a \div DayLen <= b \div DayLen
<1> DEFINE x == a \div DayLen
           y == b \div DayLen
           d == DayLen
<1>1. d \in Nat /\ d > 0
  BY BoundAssumption
<1>2. /\ x \in Nat /\ y \in Nat /\ a % d \in Nat /\ b % d \in Nat
      /\ a = d * x + (a % d) /\ b = d * y + (b % d)
      /\ a % d < d /\ b % d < d
  BY <1>1
<1> HIDE DEF x, y, d
<1>3. SUFFICES ASSUME x > y PROVE FALSE
  BY <1>2 DEF x, y
<1>4. x >= y + 1
  BY <1>2, <1>3
<1>5. d * x >= d * (y + 1) /\ d * (y + 1) = d * y + d
  BY <1>1, <1>2, <1>4
<1> QED
  BY <1>1, <1>2, <1>5

\* A lease that ended before now sorts before now, whatever the day.
LEMMA TextExpires ==
    ASSUME NEW t \in Nat, NEW u \in Nat, t < u
    PROVE  TextLess(SqliteDatetime(t), IsoNow(u))
<1>1. t \div DayLen <= u \div DayLen /\ t \div DayLen \in Nat /\ u \div DayLen \in Nat
  BY DayOrder, BoundAssumption
<1> QED
  BY <1>1 DEF TextLess, SqliteDatetime, IsoNow, Blank, LetterT

\* Every lease row holds the expiry that its heartbeat gave it.
LeaseText ==
    \A r \in Runs : lease[r] # NoLease =>
        lease[r].expires_at = SqliteDatetime(lease[r].heartbeat_at + LeaseLen)

LEMMA LeaseTextStep == TypeOK /\ LeaseText /\ [Next]_vars => LeaseText'
<1> SUFFICES ASSUME TypeOK, LeaseText, [Next]_vars, NEW q \in Runs, lease'[q] # NoLease
             PROVE  lease'[q].expires_at = SqliteDatetime(lease'[q].heartbeat_at + LeaseLen)
  BY DEF LeaseText
<1>1. lease'[q] = lease[q] \/ lease'[q] = NewLease(now)
  <2>1. ASSUME Executor PROVE lease'[q] = lease[q] \/ lease'[q] = NewLease(now)
    <3>1. ASSUME NEW r \in Runs, ClaimNext(r) PROVE lease'[q] = lease[q] \/ lease'[q] = NewLease(now)
      BY <3>1 DEF ClaimNext, TypeOK
    <3>2. ASSUME ReleaseClaimed PROVE lease'[q] = lease[q]
      BY <3>2 DEF ReleaseClaimed, TypeOK
    <3> QED
      BY <2>1, <3>1, <3>2
      DEF Executor, ReadRun, Transition, StartRefusedStep, Launch, Finish, Raise, ModelRunCancelled,
          CompleteClaimed, FailClaimed, WaitResourceClaimed, rows, db
  <2>2. ASSUME LeaseHeartbeat PROVE lease'[q] = lease[q] \/ lease'[q] = NewLease(now)
    BY <2>2 DEF LeaseHeartbeat, TypeOK
  <2>3. ASSUME CleanupLeases \/ RecoverStaleRuns PROVE lease'[q] = lease[q]
    BY <2>3 DEF CleanupLeases, RecoverStaleRuns
  <2>4. ASSUME NEW released \in BOOLEAN, Down(released) PROVE lease'[q] = lease[q]
    <3>1. lease' = lease \/ lease' = [lease EXCEPT ![exec.run] = NoLease]
      BY <2>4 DEF Down
    <3> QED
      BY <3>1 DEF TypeOK
  <2>5. ASSUME User PROVE lease' = lease
    BY <2>5 DEF User, StartRun, StartAccepted, CancelRuns, CancelFails, ResumeRun, ReplaceEmployee, rows, db
  <2> QED
    BY <2>1, <2>2, <2>3, <2>4, <2>5 DEF Next, SubmitFails, Tick, vars, db
<1>2. CASE lease'[q] = lease[q]
  BY <1>2 DEF LeaseText
<1>3. CASE lease'[q] = NewLease(now)
  BY <1>3 DEF NewLease
<1> QED
  BY <1>1, <1>2, <1>3

(***************************************************************************)
(* The reaper sees every overdue lease: comparing datetime()'s text with   *)
(* Python's never makes a silent holder look alive, for any length of day  *)
(* and lease.  (The converse fails: see LeaseHonoured.)                    *)
(***************************************************************************)
THEOREM OverdueLeasesExpire == Spec => []OverdueIsExpired
<1>1. Init => LeaseText
  BY DEF Init, LeaseText
<1>2. TypeOK /\ LeaseText => OverdueIsExpired
  <2> SUFFICES ASSUME TypeOK, LeaseText, NEW r \in Runs, lease[r] # NoLease,
                      now > lease[r].heartbeat_at + LeaseLen
               PROVE  Expired(r)
    BY DEF OverdueIsExpired
  <2>1. lease[r].heartbeat_at + LeaseLen \in Nat /\ now \in Nat
    BY BoundAssumption DEF TypeOK, LeaseRow
  <2> QED
    BY <2>1, TextExpires DEF LeaseText, Expired
<1> QED
  BY <1>1, <1>2, LeaseTextStep, TypeCorrect, PTL DEF Spec
-----------------------------------------------------------------------------
(***************************************************************************)
(* Nothing is forgotten.  What the executor counts on is still there, or   *)
(* the run has been ended by somebody else: so a compare-and-set that      *)
(* fails, and every release that no fault has brought about, leaves no     *)
(* unfinished run behind.                                                  *)
(***************************************************************************)
Expects == [probing |-> "queued", starting |-> "probing", running |-> "starting",
            launch |-> "running", executing |-> "running", complete |-> "running"]

OnTrack ==
    \/ run[exec.run].status \notin Unfinished
    \/ run[exec.run].status = Expects[exec.pc] /\ run[exec.run].version = exec.version

TrackInv ==
    /\ stopped \subseteq ApiModel
    /\ exec.pc \in DOMAIN Expects => OnTrack
    /\ exec.pc = "release" /\ faults = 0 /\ exec.run \notin ApiModel =>
         run[exec.run].status \notin Unfinished

\* What the others do to the run at work: nothing, or they end it.
LEMMA OthersEnd ==
    ASSUME TypeOK, ClaimInv, [Next]_vars, exec' = exec, exec.pc # "idle"
    PROVE  run'[exec.run] = run[exec.run] \/ run'[exec.run].status \notin Unfinished
<1> DEFINE r == exec.run
<1>0. r \in Runs /\ run[r] \in RunRow /\ AtWork(r)
  BY DEF TypeOK, AtWork
<1>row. run[r].status # "absent" /\ queue[r] # "none"
  BY <1>0 DEF ClaimInv, RowInv
<1>b. ASSUME NEW t \in {"failed", "cancelled", "lost"}, run'[r] = Bump(run[r], t)
      PROVE  run'[r].status \notin Unfinished
  <2>1. t \in Statuses /\ t \notin Unfinished
    BY DEF Statuses, Terminal, Unfinished
  <2>2. run'[r].status = t
    BY <1>0, <1>b, <2>1, BumpType
  <2> QED
    BY <2>1, <2>2
<1>1. ASSUME NEW x \in Runs, StartRun(x) PROVE run'[r] = run[r]
  BY <1>0, <1>row, <1>1 DEF StartRun, StartAccepted, TypeOK
<1>2. ASSUME NEW S \in SUBSET Runs, CancelRuns(S)
      PROVE  run'[r] = run[r] \/ run'[r] = Bump(run[r], "cancelled")
  BY <1>0, <1>2 DEF CancelRuns
<1>3. ASSUME NEW x \in Runs, ResumeRun(x) PROVE run'[r] = run[r]
  <2>1. queue[x] # "none"
    BY <1>3 DEF ResumeRun, ClaimInv, RowInv, Waiting
  <2>2. ResumeOutcome(x) # "ok"
    BY <2>1 DEF ResumeOutcome
  <2> QED
    BY <1>3, <2>2 DEF ResumeRun
<1>4. ASSUME CleanupLeases PROVE run'[r] = run[r] \/ run'[r] = Bump(run[r], "lost")
  BY <1>0, <1>4 DEF CleanupLeases, ReapedRow
<1>5. ASSUME RecoverStaleRuns PROVE run'[r] = run[r] \/ run'[r] = Bump(run[r], "failed")
  BY <1>0, <1>5 DEF RecoverStaleRuns
<1>6. ASSUME User PROVE run'[r] = run[r] \/ run'[r] = Bump(run[r], "cancelled")
  <2>1. \A e \in Employees : UnfinishedOf(e) \in SUBSET Runs
    BY DEF UnfinishedOf
  <2> QED
    BY <1>6, <2>1, <1>1, <1>2, <1>3 DEF User, CancelFails, ReplaceEmployee, db
<1>7. ASSUME Executor PROVE FALSE
  <2>1. exec \in Exec
    BY DEF TypeOK
  <2>2. ~(\E x \in Runs : ClaimNext(x)) /\ ~ReleaseClaimed
    <3>1. exec.pc # Idle.pc
      BY DEF Idle
    <3> QED
      BY <3>1 DEF ClaimNext, ReleaseClaimed
  <2>3. ~(\E available \in BOOLEAN : ReadRun(available))
    BY <2>1 DEF ReadRun, Exec
  <2>4. ASSUME NEW from, NEW to \in {"probing", "starting", "running"},
               NEW next \in {"starting", "running", "launch"}, next # to
        PROVE  ~Transition(from, to, next)
    BY <2>1, <2>4 DEF Transition, Goto, Exec
  <2>5. /\ ~StartRefusedStep /\ ~(\E loaded \in BOOLEAN : Launch(loaded))
        /\ ~(\E result \in Results : Finish(result))
    BY <2>1 DEF StartRefusedStep, Launch, Finish, Goto, Exec
  <2>6. ~Raise("fail") /\ ~Raise("wait") /\ ~ModelRunCancelled
    BY <2>1 DEF Raise, ModelRunCancelled, Goto, Exec
  <2>7. ~CompleteClaimed /\ ~FailClaimed /\ ~WaitResourceClaimed
    BY <2>1 DEF CompleteClaimed, FailClaimed, WaitResourceClaimed, Goto, Exec
  <2> QED
    BY <1>7, <2>2, <2>3, <2>4, <2>5, <2>6, <2>7 DEF Executor
<1> QED
  BY <1>b, <1>4, <1>5, <1>6, <1>7 DEF Next, SubmitFails, LeaseHeartbeat, Down, Tick, vars, db
\* Where the executor is after it takes a run up and after it lets go of one.
LEMMA IdleSteps ==
    /\ \A x \in Runs : ClaimNext(x) => exec'.pc = "read" /\ exec'.run = x
    /\ ReleaseClaimed \/ (\E released \in BOOLEAN : Down(released)) => exec'.pc = "idle"
<1>1. ASSUME NEW x \in Runs, ClaimNext(x) PROVE exec'.pc = "read" /\ exec'.run = x
  BY <1>1 DEF ClaimNext, Idle
<1>2. ASSUME ReleaseClaimed \/ (\E released \in BOOLEAN : Down(released)) PROVE exec'.pc = "idle"
  BY <1>2 DEF ReleaseClaimed, Down, Idle
<1> QED
  BY <1>1, <1>2

LEMMA TrackStep == TypeOK /\ ClaimInv /\ TrackInv /\ [Next]_vars => TrackInv'
<1> SUFFICES ASSUME TypeOK, ClaimInv, TrackInv, [Next]_vars PROVE TrackInv'
  OBVIOUS
<1> DEFINE r == exec.run
<1>0. exec \in Exec /\ (exec.pc # "idle" => r \in Runs)
  BY DEF TypeOK
<1>1. (stopped \subseteq ApiModel)'
  <2>1. \A S \in SUBSET Runs : HostCancels(S) \subseteq ApiModel
    BY DEF HostCancels
  <2>2. \A e \in Employees : UnfinishedOf(e) \in SUBSET Runs
    BY DEF UnfinishedOf
  <2>3. ASSUME User PROVE stopped' \subseteq ApiModel
    BY <2>1, <2>2, <2>3 DEF User, StartRun, CancelRuns, CancelFails, ResumeRun, ReplaceEmployee, TrackInv
  <2>4. ASSUME Executor PROVE stopped' \subseteq ApiModel
    BY <2>4
    DEF Executor, ClaimNext, ReadRun, Transition, StartRefusedStep, Launch, Finish, Raise,
        ModelRunCancelled, CompleteClaimed, FailClaimed, WaitResourceClaimed, ReleaseClaimed, TrackInv
  <2> QED
    BY <2>3, <2>4
    DEF Next, SubmitFails, LeaseHeartbeat, CleanupLeases, Down, RecoverStaleRuns, Tick, vars, TrackInv
<1>2. (exec.pc \in DOMAIN Expects => OnTrack)'
  <2> SUFFICES ASSUME exec'.pc \in DOMAIN Expects PROVE OnTrack'
    OBVIOUS
  <2>1. CASE exec' = exec
    <3>1. exec.pc # "idle" /\ OnTrack
      BY <2>1 DEF Expects, TrackInv
    <3> QED
      BY <2>1, <3>1, OthersEnd DEF OnTrack
  <2>2. ASSUME NEW from, NEW to, NEW next, Transition(from, to, next),
               <<from, to, next>> \in {<<"queued", "probing", "starting">>,
                                       <<"probing", "starting", "running">>,
                                       <<"starting", "running", "launch">>}
        PROVE  OnTrack'
    <3>1. r \in Runs /\ run[r] \in RunRow
      BY <1>0, <2>2 DEF Transition, TypeOK
    <3>2. Matches(r, from, exec.version)
      BY <1>0, <2>2 DEF Transition, Goto, Exec, Expects
    <3>3. run'[r] = Bump(run[r], to) /\ to \in Statuses
      BY <2>2, <3>1, <3>2 DEF Transition, TypeOK, Statuses, Unfinished
    <3>4. run'[r].status = to /\ run'[r].version = exec.version + 1
      BY <3>1, <3>2, <3>3, BumpType DEF Matches
    <3>5. exec'.run = r /\ exec'.version = exec.version + 1 /\ exec'.pc = next
      BY <1>0, <2>2, <3>2 DEF Transition, Exec
    <3> QED
      BY <2>2, <3>4, <3>5 DEF OnTrack, Expects
  <2>3. ASSUME NEW available \in BOOLEAN, ReadRun(available) PROVE OnTrack'
    <3>1. run' = run /\ exec'.run = r /\ exec'.version = run[r].version
      BY <1>0, <2>3 DEF ReadRun, Exec, db
    <3>2. <<run[r].status, exec'.pc>> \in {<<"queued", "probing">>, <<"running", "launch">>}
      BY <1>0, <2>3 DEF ReadRun, Exec, Expects
    <3> QED
      BY <3>1, <3>2 DEF OnTrack, Expects
  <2>4. ASSUME (\E loaded \in BOOLEAN : Launch(loaded)) \/ (\E result \in Results : Finish(result))
        PROVE  OnTrack'
    <3>1. /\ run' = run /\ exec'.run = r /\ exec'.version = exec.version
          /\ exec.pc \in {"launch", "executing"} /\ exec'.pc \in {"executing", "complete"}
      BY <1>0, <2>4 DEF Launch, Finish, Goto, Exec, Expects, db
    <3> QED
      BY <3>1 DEF OnTrack, Expects, TrackInv
  <2>5. ASSUME exec'.pc \in {"idle", "read", "fail", "wait", "release"} PROVE FALSE
    BY <2>5 DEF Expects
  <2>6. ASSUME (\E x \in Runs : ClaimNext(x)) \/ ReleaseClaimed \/ (\E released \in BOOLEAN : Down(released))
        PROVE  exec'.pc \in {"idle", "read"}
    BY <2>6, IdleSteps
  <2>7. ASSUME \/ StartRefusedStep \/ CompleteClaimed \/ FailClaimed \/ WaitResourceClaimed
               \/ Raise("fail") \/ Raise("wait") \/ ModelRunCancelled
        PROVE  exec'.pc \in {"fail", "wait", "release"}
    BY <1>0, <2>7
    DEF StartRefusedStep, CompleteClaimed, FailClaimed, WaitResourceClaimed, Raise, ModelRunCancelled,
        Goto, Exec
  <2>8. ASSUME SubmitFails PROVE exec'.pc \in {"idle", "fail", "release"}
    <3>1. \A pc \in DOMAIN AfterFault : AfterFault[pc] \in {"fail", "release"}
      BY DEF AfterFault
    <3> QED
      BY <1>0, <2>8, <3>1 DEF SubmitFails, Goto, Exec, Idle
  <2>9. ASSUME Executor PROVE OnTrack'
    <3>1. ASSUME \/ Transition("queued", "probing", "starting") \/ Transition("probing", "starting", "running")
                 \/ Transition("starting", "running", "launch")
          PROVE  OnTrack'
      BY <3>1, <2>2
    <3> QED
      BY <2>9, <3>1, <2>3, <2>4, <2>5, <2>6, <2>7 DEF Executor
  <2>10. Executor \/ SubmitFails \/ (\E released \in BOOLEAN : Down(released)) \/ exec' = exec
    BY DEF Next, User, StartRun, CancelRuns, CancelFails, ResumeRun, ReplaceEmployee,
           LeaseHeartbeat, CleanupLeases, RecoverStaleRuns, Tick, vars
  <2> QED
    BY <2>1, <2>5, <2>6, <2>8, <2>9, <2>10
<1>3. (exec.pc = "release" /\ faults = 0 /\ exec.run \notin ApiModel =>
         run[exec.run].status \notin Unfinished)'
  <2> SUFFICES ASSUME exec'.pc = "release", faults' = 0, exec'.run \notin ApiModel
               PROVE  run'[exec'.run].status \notin Unfinished
    OBVIOUS
  <2>1. ~SubmitFails
    BY DEF SubmitFails, TypeOK
  <2>2. CASE exec' = exec
    <3>1. exec.pc # "idle" /\ faults = 0
      BY <2>1, <2>2
      DEF Next, Executor, ClaimNext, ReadRun, Transition, StartRefusedStep, Launch, Finish, Raise,
          ModelRunCancelled, CompleteClaimed, FailClaimed, WaitResourceClaimed, ReleaseClaimed,
          User, StartRun, CancelRuns, CancelFails, ResumeRun, ReplaceEmployee,
          LeaseHeartbeat, CleanupLeases, Down, RecoverStaleRuns, Tick, vars, env
    <3> QED
      BY <2>2, <3>1, OthersEnd DEF TrackInv
  <2>3. ASSUME NEW from, NEW to, NEW next, Transition(from, to, next),
               <<from, to, next>> \in {<<"queued", "probing", "starting">>,
                                       <<"probing", "starting", "running">>,
                                       <<"starting", "running", "launch">>}
        PROVE  run'[exec'.run].status \notin Unfinished
    <3>1. ~Matches(r, from, exec.version) /\ run' = run /\ exec'.run = r /\ exec.pc = to
      BY <1>0, <2>3 DEF Transition, Goto, Exec
    <3> QED
      BY <2>3, <3>1 DEF TrackInv, OnTrack, Expects, Matches
  <2>4. ASSUME NEW available \in BOOLEAN, ReadRun(available)
        PROVE  run'[exec'.run].status \notin Unfinished
    <3>1. run' = run /\ exec'.run = r /\ exec.pc = "read" /\ run[r].status # "queued"
      BY <1>0, <2>4 DEF ReadRun, Exec, Terminal, db
    <3>2. run[r].status \in Terminal \cup {"queued"}
      BY <1>0, <3>1 DEF ClaimInv, RowInv
    <3> QED
      BY <3>1, <3>2 DEF Terminal, Unfinished
  <2>5. ASSUME CompleteClaimed PROVE run'[exec'.run].status \notin Unfinished
    <3>1. exec'.run = r /\ r \in Runs /\ exec.pc = "complete" /\ run[r] \in RunRow /\ exec.result \in Results
      BY <1>0, <2>5 DEF CompleteClaimed, Goto, Exec, TypeOK
    <3>2. CASE Matches(r, "running", exec.version)
      <4>1. run'[r] = Bump(run[r], exec.result) /\ exec.result \in Statuses \ Unfinished
        BY <2>5, <3>1, <3>2 DEF CompleteClaimed, TypeOK, Results, Statuses, Terminal, Unfinished
      <4> QED
        BY <3>1, <4>1, BumpType
    <3>3. CASE ~Matches(r, "running", exec.version)
      <4>1. run' = run
        BY <2>5, <3>3 DEF CompleteClaimed
      <4> QED
        BY <3>1, <3>3, <4>1 DEF TrackInv, OnTrack, Expects, Matches
    <3> QED
      BY <3>2, <3>3
  <2>6. ASSUME FailClaimed PROVE run'[exec'.run].status \notin Unfinished
    <3>1. exec'.run = r /\ r \in Runs /\ run[r] \in RunRow
      BY <1>0, <2>6 DEF FailClaimed, Goto, Exec, TypeOK
    <3>2. \/ run'[r] = Bump(run[r], "failed")
          \/ run'[r] = run[r] /\ run[r].status \in Terminal
      BY <2>6, <3>1 DEF FailClaimed, Failable, TypeOK
    <3>3. "failed" \in Statuses \ Unfinished /\ Terminal \cap Unfinished = {}
      BY DEF Statuses, Terminal, Unfinished
    <3> QED
      BY <3>1, <3>2, <3>3, BumpType
  <2>7. ASSUME WaitResourceClaimed PROVE run'[exec'.run].status \notin Unfinished
    <3>1. exec'.run = r /\ r \in Runs /\ run[r] \in RunRow
      BY <1>0, <2>7 DEF WaitResourceClaimed, Goto, Exec, TypeOK
    <3>2. \/ run'[r] = [Bump(run[r], "waiting_resource") EXCEPT !.resume = TRUE]
          \/ run'[r] = run[r] /\ run[r].status \in Terminal
      BY <2>7, <3>1 DEF WaitResourceClaimed, Failable, TypeOK
    <3>3. Terminal \cap Unfinished = {} /\ "waiting_resource" \notin Unfinished
      BY DEF Terminal, Unfinished
    <3> QED
      BY <3>1, <3>2, <3>3 DEF Bump, RunRow
  <2>8. ASSUME ModelRunCancelled PROVE FALSE
    <3>1. exec'.run = exec.run
      BY <1>0, <2>8 DEF ModelRunCancelled, Raise, Goto, Exec
    <3> QED
      BY <2>8, <3>1 DEF ModelRunCancelled, TrackInv
  <2>9. ASSUME (\E x \in Runs : ClaimNext(x)) \/ ReleaseClaimed \/ (\E released \in BOOLEAN : Down(released))
        PROVE  FALSE
    BY <2>9, IdleSteps
  <2>10. ASSUME \/ StartRefusedStep \/ (\E loaded \in BOOLEAN : Launch(loaded))
                \/ (\E result \in Results : Finish(result)) \/ Raise("fail") \/ Raise("wait")
         PROVE  FALSE
    BY <1>0, <2>10 DEF StartRefusedStep, Launch, Finish, Raise, Goto, Exec
  <2>11. ASSUME Executor PROVE run'[exec'.run].status \notin Unfinished
    <3>1. ASSUME \/ Transition("queued", "probing", "starting") \/ Transition("probing", "starting", "running")
                 \/ Transition("starting", "running", "launch")
          PROVE  run'[exec'.run].status \notin Unfinished
      BY <3>1, <2>3
    <3> QED
      BY <2>11, <3>1, <2>4, <2>5, <2>6, <2>7, <2>8, <2>9, <2>10 DEF Executor
  <2>12. Executor \/ (\E released \in BOOLEAN : Down(released)) \/ exec' = exec
    BY <2>1 DEF Next, User, StartRun, CancelRuns, CancelFails, ResumeRun, ReplaceEmployee,
           LeaseHeartbeat, CleanupLeases, RecoverStaleRuns, Tick, vars
  <2> QED
    BY <2>2, <2>9, <2>11, <2>12
<1> QED
  BY <1>1, <1>2, <1>3 DEF TrackInv
LEMMA ForgetStep ==
    TypeOK /\ ClaimInv /\ TrackInv /\ NothingForgotten /\ [Next]_vars => NothingForgotten'
<1> SUFFICES ASSUME TypeOK, ClaimInv, TrackInv, NothingForgotten, [Next]_vars,
                    up', faults' = 0, NEW r \in Runs \ ApiModel, run'[r].status \in Unfinished
             PROVE  queue'[r] = "ready" \/ AtWork(r)'
  BY DEF NothingForgotten
<1> USE DEF AtWork
<1>0. exec \in Exec /\ (exec.pc # "idle" => exec.run \in Runs) /\ run[r] \in RunRow
  BY DEF TypeOK
<1>b. \A t \in {"failed", "cancelled", "lost"} \cup Results : Bump(run[r], t).status \notin Unfinished
  <2> TAKE t \in {"failed", "cancelled", "lost"} \cup Results
  <2>1. t \in Statuses \ Unfinished
    BY DEF Statuses, Terminal, Unfinished, Results
  <2> QED
    BY <1>0, <2>1, BumpType
<1>1. ASSUME RecoverStaleRuns PROVE FALSE
  BY <1>1, <1>b DEF RecoverStaleRuns, Stale, Unfinished
<1>2. ASSUME SubmitFails \/ (\E released \in BOOLEAN : Down(released)) PROVE FALSE
  BY <1>2 DEF SubmitFails, Down, TypeOK
<1>3. up /\ faults = 0
  BY <1>1, <1>2
  DEF Next, Executor, ClaimNext, ReadRun, Transition, StartRefusedStep, Launch, Finish, Raise,
      ModelRunCancelled, CompleteClaimed, FailClaimed, WaitResourceClaimed, ReleaseClaimed,
      User, StartRun, CancelRuns, CancelFails, ResumeRun, ReplaceEmployee,
      LeaseHeartbeat, CleanupLeases, Tick, vars, env
<1>old. run[r].status \in Unfinished => queue[r] = "ready" \/ AtWork(r)
  BY <1>3 DEF NothingForgotten
\* A step that leaves the row and the status alone, with the executor still on its run.
<1>4. ASSUME run'[r].status = run[r].status, queue'[r] = queue[r],
             exec' = exec \/ (exec'.run = exec.run /\ exec'.pc # "idle")
      PROVE  queue'[r] = "ready" \/ AtWork(r)'
  BY <1>4, <1>old
<1>5. ASSUME NEW x \in Runs, StartRun(x) PROVE queue'[r] = "ready" \/ AtWork(r)'
  BY <1>4, <1>5 DEF StartRun, TypeOK
<1>6. ASSUME NEW S \in SUBSET Runs, CancelRuns(S) PROVE queue'[r] = "ready" \/ AtWork(r)'
  <2>1. r \notin S
    BY <1>6, <1>b DEF CancelRuns
  <2> QED
    BY <1>4, <1>6, <2>1 DEF CancelRuns
<1>7. ASSUME NEW x \in Runs, ResumeRun(x) PROVE queue'[r] = "ready" \/ AtWork(r)'
  BY <1>4, <1>7 DEF ResumeRun, TypeOK
<1>8. ASSUME CleanupLeases PROVE queue'[r] = "ready" \/ AtWork(r)'
  <2>1. ~Expired(r)
    BY <1>8, <1>b DEF CleanupLeases, ReapedRow
  <2> QED
    BY <1>4, <1>8, <2>1 DEF CleanupLeases
<1>9. ASSUME NEW x \in Runs, ClaimNext(x) PROVE queue'[r] = "ready" \/ AtWork(r)'
  <2>1. CASE x = r
    BY <1>9, <2>1, IdleSteps
  <2>2. CASE x # r
    <3>1. run' = run /\ exec.pc = "idle" /\ queue'[r] = queue[r]
      BY <1>9, <2>2 DEF ClaimNext, TypeOK
    <3> QED
      BY <3>1, <1>old
  <2> QED
    BY <2>1, <2>2
<1>10. ASSUME ReleaseClaimed PROVE queue'[r] = "ready" \/ AtWork(r)'
  <2>1. run' = run /\ exec.pc = "release"
    BY <1>10 DEF ReleaseClaimed
  <2>2. exec.run # r
    BY <1>3, <2>1 DEF TrackInv
  <2>3. queue'[r] = queue[r]
    BY <1>10, <2>2 DEF ReleaseClaimed, TypeOK
  <2> QED
    BY <2>1, <2>2, <2>3, <1>old
<1>11. ASSUME NEW from \in Unfinished, NEW to, NEW next \in {"starting", "running", "launch"},
              Transition(from, to, next)
       PROVE  queue'[r] = "ready" \/ AtWork(r)'
  <2>1. queue' = queue /\ exec'.run = exec.run /\ exec'.pc # "idle"
    BY <1>0, <1>11 DEF Transition, Goto, Exec, rows
  <2>2. run'[r] = run[r] \/ run[r].status = from
    BY <1>11 DEF Transition, Matches, TypeOK
  <2> QED
    BY <1>old, <2>1, <2>2
<1>12. ASSUME CompleteClaimed \/ FailClaimed \/ WaitResourceClaimed
       PROVE  queue'[r] = "ready" \/ AtWork(r)'
  <2>1. queue' = queue /\ exec'.run = exec.run /\ exec'.pc # "idle"
    BY <1>0, <1>12 DEF CompleteClaimed, FailClaimed, WaitResourceClaimed, Goto, Exec, rows
  <2>2. run'[r] = run[r]
    <3>1. CASE CompleteClaimed
      <4>1. exec.result \in Results
        BY <3>1 DEF CompleteClaimed, TypeOK
      <4>2. run'[r] = run[r] \/ run'[r] = Bump(run[r], exec.result)
        BY <1>0, <3>1 DEF CompleteClaimed, TypeOK
      <4> QED
        BY <1>b, <4>1, <4>2
    <3>2. CASE FailClaimed
      BY <1>0, <1>b, <3>2 DEF FailClaimed, TypeOK
    <3>3. CASE WaitResourceClaimed
      <4>1. \/ run'[r] = run[r]
            \/ run'[r] = [Bump(run[r], "waiting_resource") EXCEPT !.resume = TRUE]
        BY <1>0, <3>3 DEF WaitResourceClaimed, TypeOK
      <4>2. [Bump(run[r], "waiting_resource") EXCEPT !.resume = TRUE].status = "waiting_resource"
        BY <1>0 DEF Bump, RunRow
      <4> QED
        BY <4>1, <4>2 DEF Unfinished
    <3> QED
      BY <1>12, <3>1, <3>2, <3>3
  <2> QED
    BY <1>4, <2>1, <2>2
<1>13. ASSUME \/ \E available \in BOOLEAN : ReadRun(available)
              \/ StartRefusedStep
              \/ \E loaded \in BOOLEAN : Launch(loaded)
              \/ \E result \in Results : Finish(result)
              \/ Raise("fail") \/ Raise("wait") \/ ModelRunCancelled
       PROVE  queue'[r] = "ready" \/ AtWork(r)'
  <2>1. run' = run /\ queue' = queue
    BY <1>13 DEF ReadRun, StartRefusedStep, Launch, Finish, Raise, ModelRunCancelled, db
  <2>2. exec'.run = exec.run /\ exec'.pc # "idle"
    BY <1>0, <1>13 DEF ReadRun, StartRefusedStep, Launch, Finish, Raise, ModelRunCancelled, Goto, Exec
  <2> QED
    BY <1>4, <2>1, <2>2
<1>14. ASSUME Executor PROVE queue'[r] = "ready" \/ AtWork(r)'
  <2>1. {"queued", "probing", "starting"} \subseteq Unfinished
    BY DEF Unfinished
  <2> HIDE DEF AtWork
  <2> QED
    BY <1>14, <2>1, <1>9, <1>10, <1>11, <1>12, <1>13 DEF Executor
<1>15. ASSUME User PROVE queue'[r] = "ready" \/ AtWork(r)'
  <2>1. \A e \in Employees : UnfinishedOf(e) \in SUBSET Runs
    BY DEF UnfinishedOf
  <2>2. ASSUME UNCHANGED <<run, queue, exec>> PROVE queue'[r] = "ready" \/ AtWork(r)'
    BY <2>2, <1>4
  <2> HIDE DEF AtWork
  <2> QED
    BY <1>15, <2>1, <2>2, <1>5, <1>6, <1>7 DEF User, CancelFails, ReplaceEmployee, db, rows
<1>16. ASSUME UNCHANGED <<run, queue, exec>> PROVE queue'[r] = "ready" \/ AtWork(r)'
  BY <1>16, <1>4
<1> HIDE DEF AtWork
<1> QED
  BY <1>1, <1>2, <1>8, <1>14, <1>15, <1>16 DEF Next, LeaseHeartbeat, Tick, vars, db

(***************************************************************************)
(* As long as submissions succeed, an unfinished CLI run is queued or at   *)
(* work, through every cancel, reaped lease, crash, stop and recovery, for *)
(* any number of runs.                                                     *)
(***************************************************************************)
THEOREM NothingIsForgotten == Spec => []NothingForgotten
<1>1. Init => TrackInv /\ NothingForgotten
  BY DEF Init, TrackInv, NothingForgotten, Expects, Idle, Unfinished
<1>2. TypeOK /\ ClaimInv /\ TrackInv /\ NothingForgotten /\ [Next]_vars =>
        (TrackInv /\ NothingForgotten)'
  BY TrackStep, ForgetStep
<1> QED
  BY <1>1, <1>2, ClaimsCorrect, PTL DEF Spec

(***************************************************************************)
(* Tasks are started by their runs.  The step to running dispatches        *)
(* StartEmployeeTask before its compare-and-set; when that fails, what the *)
(* executor counted on tells that the run has ended, or waits and has been *)
(* started.                                                                *)
(***************************************************************************)
BegunInv == \A r \in Runs : run[r].status \notin NotLaunched \cup Terminal => Started(events[r])

LEMMA LogGrows ==
    ASSUME TypeOK, Unborn, [Next]_vars, NEW q \in Runs
    PROVE  /\ Started(events[q]) => Started(events'[q])
           /\ run[q].status \in Terminal => run'[q].status \in Terminal
<1>1. Kept(q) \/ Moved(q)
  BY RunStep
<1>2. events[q] \subseteq events'[q]
  BY <1>1 DEF Kept, Moved
<1> QED
  BY <1>1, <1>2 DEF Kept, Moved, Started, Terminal

LEMMA BegunStep == TypeOK /\ Unborn /\ WorkInv /\ BegunInv /\ [Next]_vars => BegunInv'
  BY FollowStep, LogGrows DEF BegunInv

LEMMA StartedStep ==
    TypeOK /\ Unborn /\ ClaimInv /\ TrackInv /\ BegunInv /\ StartedByItsRun /\ [Next]_vars =>
        StartedByItsRun'
<1> SUFFICES ASSUME TypeOK, Unborn, ClaimInv, TrackInv, BegunInv, StartedByItsRun, [Next]_vars,
                    NEW t \in Tasks, task'[t] = "running"
             PROVE  \E r \in Runs : /\ WorkItem[r] = t
                                    /\ run'[r].status \in Terminal \/ Started(events'[r])
  BY DEF StartedByItsRun, Started
<1>1. CASE task[t] = "running"
  <2>1. PICK r \in Runs : WorkItem[r] = t /\ (run[r].status \in Terminal \/ Started(events[r]))
    BY <1>1 DEF StartedByItsRun, Started
  <2> QED
    BY <2>1, LogGrows
<1>2. CASE task[t] # "running"
  <2> DEFINE r == exec.run
  <2>1. Transition("starting", "running", "launch") /\ task' = StartEmployeeTask(r)
    <3>1. ASSUME NEW i \in Tasks, ReplaceEmployee(i) PROVE FALSE
      BY <1>2, <3>1 DEF ReplaceEmployee, TypeOK
    <3>2. task' # task
      BY <1>2
    <3>3. ASSUME Executor PROVE Transition("starting", "running", "launch") /\ task' = StartEmployeeTask(r)
      BY <3>2, <3>3
      DEF Executor, ClaimNext, ReadRun, Transition, StartRefusedStep, Launch, Finish, Raise,
          ModelRunCancelled, CompleteClaimed, FailClaimed, WaitResourceClaimed, ReleaseClaimed, db
    <3> QED
      BY <3>1, <3>2, <3>3
      DEF Next, User, StartRun, CancelRuns, CancelFails, ResumeRun, SubmitFails, LeaseHeartbeat,
          CleanupLeases, Down, RecoverStaleRuns, Tick, vars, db
  <2>2. r \in Runs /\ exec.pc = "running" /\ AtWork(r)
    BY <2>1 DEF Transition, TypeOK, AtWork
  <2>3. WorkItem[r] = t
    BY <1>2, <2>1, <2>2 DEF StartEmployeeTask, HasTask, TypeOK
  <2>4. CASE Matches(r, "starting", exec.version)
    <3> DEFINE new == [type |-> "run.started", version |-> exec.version + 1]
    <3>1. events'[r] = events[r] \cup {new} /\ new.type = "run.started"
      BY <2>1, <2>2, <2>4 DEF Transition, Emit, TypeOK
    <3> QED
      BY <2>2, <2>3, <3>1 DEF Started
  <2>5. CASE ~Matches(r, "starting", exec.version)
    <3>1. run[r].status \notin Unfinished /\ run[r].status # "absent" /\ run[r] \in RunRow
      BY <2>2, <2>5 DEF TrackInv, OnTrack, Expects, Matches, ClaimInv, RowInv, TypeOK
    <3>2. run[r].status \in Terminal \/ run[r].status \notin NotLaunched \cup Terminal
      BY <3>1 DEF NotLaunched, Unfinished
    <3> QED
      BY <2>2, <2>3, <3>2, LogGrows DEF BegunInv
  <2> QED
    BY <2>4, <2>5
<1> QED
  BY <1>1, <1>2

(***************************************************************************)
(* A running employee task has a run that was started for it, or one that  *)
(* somebody has ended, whatever cancels and reapings come between the      *)
(* executor's read and its writes.                                         *)
(***************************************************************************)
THEOREM TasksAreStartedByRuns == Spec => []StartedByItsRun
<1>1. Init => WorkInv /\ TrackInv /\ BegunInv /\ StartedByItsRun
  <2> SUFFICES ASSUME Init PROVE WorkInv /\ TrackInv /\ BegunInv /\ StartedByItsRun
    OBVIOUS
  <2>1. WorkInv /\ TrackInv
    BY DEF Init, WorkInv, TrackInv, Expects, Idle
  <2>2. BegunInv
    BY DEF Init, BegunInv, NotLaunched
  <2>3. StartedByItsRun
    BY DEF Init, StartedByItsRun
  <2> QED
    BY <2>1, <2>2, <2>3
<1>2. TypeOK /\ EventInv /\ ClaimInv /\ WorkInv /\ TrackInv /\ BegunInv /\ StartedByItsRun /\ [Next]_vars =>
        (WorkInv /\ TrackInv /\ BegunInv /\ StartedByItsRun)'
  BY WorkStep, TrackStep, BegunStep, StartedStep DEF EventInv
<1> QED
  BY <1>1, <1>2, ClaimsCorrect, PTL DEF Spec

-----------------------------------------------------------------------------
(* Fairness between companies.  Whoever was served since the last turn of  *)
(* a company carries a later stamp, so nobody is served twice before it.   *)

Later(c) == {d \in Companies : lastDispatch[c] < lastDispatch[d]}

FairInv ==
    /\ passed \in [Companies -> Nat]
    /\ \A c \in Companies : /\ lastDispatch[c] <= dispatches
                            /\ passed[c] <= Cardinality(Later(c))

LEMMA LaterBound ==
    ASSUME NEW c \in Companies, TypeOK
    PROVE  /\ IsFiniteSet(Later(c)) /\ Cardinality(Later(c)) \in Nat
           /\ Cardinality(Later(c)) <= Cardinality(Companies) - 1
<1>1. lastDispatch[c] \in Nat
  BY DEF TypeOK
<1>2. c \notin Later(c) /\ Later(c) \subseteq Companies \ {c}
  BY <1>1 DEF Later
<1>3. IsFiniteSet(Companies \ {c}) /\ Cardinality(Companies \ {c}) = Cardinality(Companies) - 1
  BY CompanyAssumption, FS_RemoveElement
<1>4. IsFiniteSet(Later(c)) /\ Cardinality(Later(c)) <= Cardinality(Companies \ {c})
  BY <1>2, <1>3, FS_Subset
<1>5. Cardinality(Later(c)) \in Nat
  BY <1>4, FS_CardinalityType
<1> QED
  BY <1>3, <1>4, <1>5

\* Only a claim moves a stamp.
LEMMA OnlyClaims ==
    ASSUME [Next]_vars
    PROVE  (\E r \in Runs : ClaimNext(r)) \/ UNCHANGED <<lastDispatch, dispatches>>
<1>1. ASSUME Executor, ~ \E r \in Runs : ClaimNext(r) PROVE UNCHANGED <<lastDispatch, dispatches>>
  BY <1>1
  DEF Executor, ReadRun, Transition, StartRefusedStep, Launch, Finish, Raise, ModelRunCancelled,
      CompleteClaimed, FailClaimed, WaitResourceClaimed, ReleaseClaimed, rows, db
<1>2. ASSUME User PROVE UNCHANGED <<lastDispatch, dispatches>>
  BY <1>2 DEF User, StartRun, StartAccepted, CancelRuns, CancelFails, ResumeRun, ReplaceEmployee, rows, db
<1>3. ASSUME \/ LeaseHeartbeat \/ CleanupLeases \/ RecoverStaleRuns \/ SubmitFails \/ Tick
             \/ \E released \in BOOLEAN : Down(released)
      PROVE  UNCHANGED <<lastDispatch, dispatches>>
  BY <1>3 DEF LeaseHeartbeat, CleanupLeases, RecoverStaleRuns, SubmitFails, Tick, Down, rows, db
<1> QED
  BY <1>1, <1>2, <1>3 DEF Next, vars

\* The company that is served was served before every other that has a run ready.
LEMMA ClaimStamps ==
    ASSUME TypeOK, FairInv, NEW r \in Runs, ClaimNext(r), NEW c \in Companies, c # CompanyOf[r], HasReady(c)
    PROVE  /\ CompanyOf[r] \notin Later(c) /\ Later(c)' = Later(c) \cup {CompanyOf[r]}
           /\ Cardinality(Later(c)') = Cardinality(Later(c)) + 1
<1> DEFINE d == CompanyOf[r]
<1>1. d \in Companies /\ lastDispatch \in [Companies -> Nat] /\ dispatches \in Nat
  BY RunAssumption DEF TypeOK
<1>2. PICK q \in Runs : CompanyOf[q] = c /\ queue[q] = "ready"
  BY DEF HasReady
<1>3. ~(lastDispatch[c] < lastDispatch[d])
  BY <1>2 DEF ClaimNext, ClaimedBefore
<1>4. d \notin Later(c)
  BY <1>3 DEF Later
<1>5. /\ lastDispatch'[d] = dispatches + 1 /\ \A e \in Companies : e # d => lastDispatch'[e] = lastDispatch[e]
  BY <1>1 DEF ClaimNext
<1>6. lastDispatch[c] <= dispatches /\ lastDispatch[c] \in Nat
  BY <1>1 DEF FairInv
<1>7. Later(c)' = Later(c) \cup {d}
  BY <1>1, <1>5, <1>6 DEF Later
<1>8. Cardinality(Later(c) \cup {d}) = Cardinality(Later(c)) + 1
  BY <1>4, LaterBound, FS_AddElement
<1> QED
  BY <1>4, <1>7, <1>8

LEMMA FairStep ==
    ASSUME TypeOK, TypeOK', FairInv, [FairnessNext]_<<vars, passed>>
    PROVE  FairInv'
<1>1. CASE UNCHANGED <<vars, passed>>
  <2>1. UNCHANGED <<lastDispatch, dispatches, passed>>
    BY <1>1 DEF vars
  <2> QED
    BY <2>1 DEF FairInv, Later
<1>2. CASE FairnessNext
  <2>1. Next /\ CountPassed
    BY <1>2 DEF FairnessNext
  <2>2. \A c \in Companies : passed[c] \in Nat
    BY DEF FairInv
  <2>3. passed' \in [Companies -> Nat]
    BY <2>1, <2>2 DEF CountPassed
  <2>4. ASSUME NEW c \in Companies PROVE lastDispatch'[c] <= dispatches'
    <3>1. lastDispatch[c] <= dispatches /\ dispatches \in Nat /\ lastDispatch \in [Companies -> Nat]
      BY DEF FairInv, TypeOK
    <3>2. CASE \E r \in Runs : ClaimNext(r)
      <4>1. PICK r \in Runs : ClaimNext(r)
        BY <3>2
      <4>2. lastDispatch'[c] = dispatches + 1 \/ lastDispatch'[c] = lastDispatch[c]
        BY <3>1, <4>1 DEF ClaimNext
      <4>3. dispatches' = dispatches + 1
        BY <4>1 DEF ClaimNext
      <4>4. lastDispatch[c] \in Nat
        BY <3>1
      <4> QED
        BY <3>1, <4>2, <4>3, <4>4
    <3>3. CASE UNCHANGED <<lastDispatch, dispatches>>
      BY <3>1, <3>3
    <3> QED
      BY <2>1, <3>2, <3>3, OnlyClaims
  <2>5. ASSUME NEW c \in Companies PROVE (passed[c] <= Cardinality(Later(c)))'
    <3>1. passed[c] <= Cardinality(Later(c)) /\ passed[c] \in Nat /\ Cardinality(Later(c)) \in Nat
      BY <2>2, LaterBound DEF FairInv
    <3>2. Cardinality(Later(c)') \in Nat
      <4>1. Later(c)' \subseteq Companies
        BY DEF Later
      <4> QED
        BY <4>1, CompanyAssumption, FS_Subset, FS_CardinalityType
    <3>3. CASE Dispatched(c) \/ ~HasReady(c)
      BY <2>1, <3>2, <3>3 DEF CountPassed
    <3>4. CASE ~Dispatched(c) /\ HasReady(c) /\ \E r \in Runs : ClaimNext(r)
      <4>1. PICK r \in Runs : ClaimNext(r)
        BY <3>4
      <4>2. c # CompanyOf[r]
        BY <3>4, <4>1 DEF Dispatched
      <4>3. Cardinality(Later(c)') = Cardinality(Later(c)) + 1
        BY <3>4, <4>1, <4>2, ClaimStamps
      <4>4. passed'[c] \in {passed[c], passed[c] + 1}
        BY <2>1, <3>4 DEF CountPassed
      <4> QED
        BY <3>1, <4>3, <4>4
    <3>5. CASE ~Dispatched(c) /\ HasReady(c) /\ ~ \E r \in Runs : ClaimNext(r)
      <4>1. UNCHANGED lastDispatch
        BY <2>1, <3>5, OnlyClaims
      <4>2. Later(c)' = Later(c)
        BY <4>1 DEF Later
      <4>3. passed'[c] = passed[c]
        BY <2>1, <3>5 DEF CountPassed, Dispatched
      <4> QED
        BY <3>1, <4>2, <4>3
    <3> QED
      BY <3>3, <3>4, <3>5
  <2> QED
    BY <2>3, <2>4, <2>5 DEF FairInv
<1> QED
  BY <1>1, <1>2

\* No company starves: between two turns of a company with a ready run every
\* other company is served at most once (_claim_next), for any companies, runs
\* and priorities.
THEOREM NoCompanyIsStarved == FairnessSpec => []NoCompanyStarves
<1>1. FairnessInit => TypeOK /\ FairInv
  <2> SUFFICES ASSUME FairnessInit PROVE FairInv
    BY TypeInit DEF FairnessInit
  <2>1. TypeOK
    BY TypeInit DEF FairnessInit
  <2>2. \A c \in Companies : Cardinality(Later(c)) \in Nat
    BY <2>1, LaterBound
  <2> QED
    BY <2>2 DEF FairInv, FairnessInit, Init
<1>2. TypeOK /\ FairInv /\ [FairnessNext]_<<vars, passed>> => TypeOK' /\ FairInv'
  <2> SUFFICES ASSUME TypeOK, FairInv, [FairnessNext]_<<vars, passed>> PROVE TypeOK' /\ FairInv'
    OBVIOUS
  <2>1. [Next]_vars
    BY DEF FairnessNext
  <2>2. TypeOK'
    BY <2>1, TypeStep
  <2> QED
    BY <2>2, FairStep
<1>3. TypeOK /\ FairInv => NoCompanyStarves
  <2> SUFFICES ASSUME TypeOK, FairInv, NEW c \in Companies PROVE passed[c] <= Cardinality(Companies) - 1
    BY DEF NoCompanyStarves
  <2>1. passed[c] <= Cardinality(Later(c)) /\ passed[c] \in Nat
    BY DEF FairInv
  <2>2. Cardinality(Later(c)) \in Nat /\ Cardinality(Later(c)) <= Cardinality(Companies) - 1 /\ Cardinality(Companies) \in Nat
    BY LaterBound, CompanyAssumption, FS_CardinalityType
  <2> QED
    BY <2>1, <2>2
<1> QED
  BY <1>1, <1>2, <1>3, PTL DEF FairnessSpec
=============================================================================
