# A verification project for iBreeze

iBreeze is a desktop application in which a user runs "companies" of AI
employees. This directory models its three programs in TLA+: the Sidecar, the
Python process that owns the data and runs the agents; the Rust host that
supervises it and does what touches the system; and the backend API. TLC checks
the models on small instances, and TLAPS proves every safety property that the
runs check for all instances. All paths below are relative to `src/`; `ib/` stands for
`sidecar/ibreeze/`, `host/` for `apps/desktop-core/src/` and `api/` for
`apps/backend-api/src/ibreeze_backend/`.

## 1. Inventory of the system

| Part | Code | State | Hard behaviour | What makes it correct | Module |
|---|---|---|---|---|---|
| Runtime execution | `ib/runtime/{run_executor,service,gateway,recovery}.py`, `ib/workers/{runtime,analysis}.py` | `agent_runs`, `runtime_queue`, `runtime_leases`, `runtime_company_fairness`; the executor's memory | every step of the executor is a transaction of its own, and users, the clean-up, a stop or a crash act in between | a run is started once per attempt; results and events agree; nothing is forgotten; leases are honoured | `RuntimeExecution` |
| Single writer | `ib/persistence/{write_queue,unit_of_work,idempotency}.py`, `ib/application/lifecycle.py` | a queue of 32 envelopes, Futures, one SQLite write connection, `idempotency` | callers give up or retry; BEGIN, COMMIT and ROLLBACK fail; stop cancels the worker in mid-transaction; crash | at most one effect per key; truthful answers; barrier means drained | `WriteQueue`, `ExactlyOnce` |
| Outbox and domain events | `ib/events`, `ib/workers/outbox.py` | `domain_events`, `outbox_events` | a failing handler; commands run later than the state they were sent for | each command is run once, in order, and none is forgotten | `TaskLifecycle` |
| Task lifecycle and completion gates | `ib/task/service.py`, `ib/application/completion_handlers.py` | `company_tasks`, `department_tasks`, `employee_tasks` | gates read several tables after the fact | a parent completes only when its children have | `TaskLifecycle` |
| Planning and dispatch | `ib/orchestration` | plan versions, dispatch specifications | segments that wait for other segments | each segment is dispatched once, after its upstream | `TaskLifecycle` |
| State machines | `ib/state_machine.py` | the transition tables | direct SQL status updates go around the tables | every status change is an edge, or a known shortcut | `StateTables` |
| Review | `ib/application/{review_handlers,review_aggregation}.py`, `ib/domain/review`, `ib/artifacts/service.py` | artifacts, assignments, reports, issues, verdicts, reviewer statistics | a new version or a new round while reviews are open | a round closes on all its reviews; the gate opens on a decided deliverable | `Review` |
| Model routing | `ib/runtime/transport.py`, `ib/routing` | decisions, attempts, circuit health | concurrent proposers, retries, fallbacks, cancellation and restart in the middle of a turn | only authorised calls; nothing left open | `Routing` |
| Model broker | `ib/runtime/transport.py`, `host/broker/http.rs`, `host/rpc/reverse.rs` | event queues, active requests, the host's request table | a cancel before the request has an id; late events | a cancel reaches the request | `ModelBroker` |
| Managed processes | `host/process/mod.rs`, `host/rpc/sidecar.rs`, `ib/runtime/process_supervisor.py` | run index, records, egress leases, merged output | start, deadline, cancel, reset and a lost connection at every await | every process is released; output without gaps | `ManagedProcess` |
| Organisation and base profiles | `ib/company.py`, `ib/employee.py`, `ib/profile`, `ib/application/public_rpc.py` | companies, departments, employees, profile versions | long sequences of legal commands through two layers with different rules | archived means closed | `Organisation` |
| Provider credentials | `host/commands.rs`, `host/broker/{credential,credential_index,credential_idempotency,snapshot_authorization,lease}.rs`, `host/rpc/reverse.rs`, `getReferences` of the Sidecar | index file, Keychain versions, snapshots, leases | an update or a delete against runs that register and send; failure between file and Keychain | the secret in force is there; none is deleted under a run | `Credentials` |
| Approvals and external writes | `ib/approvals`, `host/security/{external_write,grant_store}.rs` | approvals, grants, staged files, receipts | overlapping retries, a crash between write and receipt | at most once, and an answer is final | `ExternalWrite`, `TaskLifecycle` |
| Application update | `host/commands/updater.rs`, `host/update/rollback.rs` | data directory, backups, markers | commands that overlap without a lock; a crash or a failure between any two changes on the disk | an update that is not finished can be undone | `AppUpdate` |
| Backend accounts | `api/auth`, `api/users`, `api/dependencies.py` | users, refresh families, tokens | concurrent refreshes, logins and password changes at READ COMMITTED | sessions bounded, none survives a password | `BackendAuth` |
| Backend publishing | `api/skills`, `api/releases`, `api/middleware/idempotency.py` | resources, versions, releases, object store, keys | concurrent publishers; the store is outside the transaction | once per key; releases in order; packages present | `BackendPublishing` |
| Backend catalogue | `api/catalog` | agents, models and providers with their ranges and bindings | two administrators on the same row; refused input that is committed; two orders of versions | a release of a validated agent lies in one range; a version names its content | `Catalogue` |
| Worker supervisor | `ib/workers/{supervisor,spec}.py` | the supervising task of each worker, the times of its failures | failures counted in a sliding window while back-offs run | a failing worker is restarted a bounded number of times in any window | `Workers` |
| Sidecar start and profile | `ib/application/{lifecycle,app}.py`, `ib/persistence/{migrator,profile}.py` | lock file, `schema_migrations`, `local_profile` | a start while another process is ending; a kill between two statements of a script | who writes holds a lock, a migrated schema and the right owner | `SidecarStart` |
| Backup and restore | `ib/backup` | backup records, archives | snapshot between writes | | barrier in `WriteQueue` |
| Sidecar RPC server | `ib/rpc`, the reverse session of `ib/runtime/transport.py` | connection, session, dispatch tasks, heartbeat, pending calls | a connection is lost while a handshake, a command or a call is at an await; a late reply | only an authenticated session is used; the loss of the link wakes every caller | `SidecarServer` |
| Knowledge, workspace, security, observability | `ib/{knowledge,workspace,security,observability}` | files, git worktrees, indexes, logs | | | only what gates and reviews see of artifacts and workspaces: `TaskLifecycle`, `Review` |
| Front ends | `apps/desktop`, `apps/admin-web`, `packages/ui` | view state | | | not modelled |

How the parts meet: every public write (`ib/application/public_rpc.py`) and every
write of a worker is one envelope of the WriteQueue, executed in one SQLite
transaction on one connection. Reads go to a pool of read connections and see
committed states. Domain events are inserted in the transaction of the change they
describe; the OutboxWorker delivers them to internal commands. The RuntimeWorker and
the AnalysisWorker are asyncio tasks of the same process. The Rust host starts the
Sidecar when the user opens a profile, and runs the agents' processes and model
requests on its behalf; it never restarts one that died. The two talk over one
socket in both directions. The backend serves the catalogue and the accounts over
HTTP and shares no state with the desktop.

The consequence for modelling: in the Sidecar a database change is atomic, and
the interesting interleavings are between transactions. `WriteQueue` justifies
the atomic actions of every other Sidecar module: it shows that an envelope
takes effect entirely or not at all. In the backend a transaction is not
atomic (READ COMMITTED with row locks), so its modules have one action per
statement that waits or reads.

`PROJECT.json` lists the hazards of this code, at their lines, with the
properties that would catch them.

## 2. Modules

### `RuntimeExecution`: the life of an agent run

State: one record per run for its `agent_runs` row (`run`), the status and
arrival position of its `runtime_queue` row (`queue`, `queuedAt`), its lease
(`lease`), the turn of each company (`lastDispatch`), the employee tasks that
runs start (`task`), the domain events of the run (`events`), the memory of the
executor (`exec`: program counter, claimed run, the version it counts on, the
result at hand), and the model requests that the host has cancelled
(`stopped`). `launches` is a history variable.

| Actor | Actions | Code |
|---|---|---|
| RuntimeWorker | `ClaimNext`, `ReadRun`, `Transition`, `StartRefusedStep`, `Launch`, `Finish`, `Raise`, `ModelRunCancelled`, `CompleteClaimed`, `FailClaimed`, `WaitResourceClaimed`, `ReleaseClaimed`, `LeaseHeartbeat`, `SubmitFails` | `ib/runtime/run_executor.py` |
| User | `StartRun`, `CancelRuns`, `CancelFails`, `ResumeRun`, `ReplaceEmployee` | `ib/runtime/{gateway,service}.py`, `ib/application/public_rpc.py`, `ib/task/service.py` |
| AnalysisWorker | `CleanupLeases` | `ib/workers/analysis.py` |
| Process | `Down`, `RecoverStaleRuns` | `ib/runtime/recovery.py`, `ib/application/lifecycle.py` |

Faithfulness notes:

* The worker loop calls `work()` and awaits it, so one run is executed at a
  time although a semaphore of 4 exists; `exec` is one record.
* Timestamps are compared as text. `IsoNow` and `SqliteDatetime` keep the three
  parts that decide the comparison: the date, the separator, the time of day.
  A day has `DayLen` units.
* The schema constraints that refuse statements are guards: the unique index on
  active work items (`StartRun`), UNIQUE `run_id` of `runtime_queue`
  (`ResumeOutcome`), and the CHECK that ties `resume_state` to the waiting
  statuses (`ResumeCheck`).
* `Transition` commits the start of the employee task although its
  compare-and-set of the run failed, as the code does.
* A run waits for a resource only in the model path, so `Raise` ends in "wait" for
  API-model runs only.
* Statuses that no code path writes to a run (`waiting_approval`, `verifying`,
  `retrying`) are left out. `agent_run_events`, payloads and failure codes are
  data no property needs.

* `RunsFollowTable` compares the moves with the table `AgentRun` of
  `ib/state_machine.py`. The code makes three moves that the table does not
  list: running → succeeded (no verifying), queued → failed, and whatever → lost
  by the clean-up.

`CompanyFairness` adds the history variable `passed` to this machine: the number
of claims for other companies since a company with ready runs had its turn.

### `WriteQueue`: the single writer

State: the asyncio queue, `_running`, the Future and the answer of each
envelope, the worker task (program counter and envelope), the open transaction
`tx` of the connection (uncommitted writes and idempotency row), the committed
writes `applied` and rows `idem`, and the phase of `Lifecycle.stop`. `accepted`
is a history variable.

`Submit`, `Barrier`, `GiveUp` and `Expire` are the callers; `Get`, `Begin`,
`Execute`, `Commit`, `Rollback` with their failing variants are the worker;
`StopBegins`, `StopCancels`, `CloseWriter` are the shutdown; `Restart` is a
crash, or the next start. The effect of a command is abstracted to the envelope
itself. Three pieces of the code's behaviour carry the weight:

* a failing ROLLBACK is swallowed, so a transaction may stay open and the next
  BEGIN IMMEDIATE fails; the rollback after that failure clears it;
* `CancelledError` is not an `Exception`: a worker cancelled by `stop()` neither
  rolls back nor settles the Future, and a COMMIT already handed to the
  connection's thread may still happen (`StopCancels(late)`);
* a cancelled Future is never executed nor settled, an expired one is settled
  without being executed.

### `ExactlyOnce`: what the writer promises

Two variables: what has taken effect and what the callers know. A request takes
effect at most once per key; `ok` means that the effect of its key is there; a
refusal means that this request has no effect, then or ever. `WriteQueue!Promise`
is the refinement mapping (`applied` and `Heard`), `KeepsPromise` the property.

### `TaskLifecycle` and `StateTables`: tasks, gates and the outbox

State: the rows of the company task, its plan, the department and the employee tasks
(status and `resume_state`), the run of each employee task, the pending outbox rows,
the topics of failed rows, and the evidence that the gates look for, as tokens.
`UserStep` has the plan and task commands of `ib/task/service.py`, with the confirm
transaction of `ib/orchestration/confirm_plan.py` (`ConfirmPlan`, `ConfirmWaits`)
and the replacement of an employee; `EmployeeStep` has what runs do to their tasks;
`Deliver` is one transaction of the OutboxWorker: a batch of rows, in the order of
commits, each of which runs the command of its topic (submission, acceptance, graph
advance, department and company readiness) and posts the events which that command
writes. A handler that raises in SQL rolls the whole batch back. Evidence of
artifacts and workspaces comes and goes with `PublishArtifact` and `ProvideEvidence`
(a report, an applied or an abandoned workspace); two other kinds of it,
`verifications` and `ceo_confirmed_at`, are written by nobody. The check of merge
tasks in the department gate is left out: a confirmed plan has standard tasks only,
and `ib/orchestration/collaboration.py`, which would make others, has no caller.
`StateTables` holds the tables of `ib/state_machine.py` as data. The writers do not
consult them, which is why `TasksFollowTables` is a question at all; its `Shortcut`
lists the edges the writers have and the tables do not.

### `Review`: rounds, reports and the verdict

State: artifacts (none, current, superseded), one assignment per artifact,
reviewer and round with its report, issue and score, the fused verdict, and the
statistics of the reviewers. `SubmitReview` is the whole transaction: the
report, the fusion, the automatic next round and the credit of the reviewers.
Weights are in thousandths because the code rounds to three places, and
`Confidence` rounds as the code does. The rework handlers are registered
nowhere and are not modelled.

### `Routing`: one model turn

State: the health rows and each run's copy of them, the coroutine `complete()`
(`turn`), its requests (`slot`: slot 0 is the one it awaits, the others are the
proposer tasks), and the `route_attempts` rows. `PlanTurn`, `RegisterDecision`,
`SendAttempt`, `Accepted`, `Streaming`, `Answered`, `Failed`, `Cancelled` follow a
request; `Settle`, `StopWaiting`, `Conclude` are the coroutine around them;
`RestartSidecar` is a crash with the recovery of interrupted decisions. Scores and
capability gates are an input (`Orders`, `AbleSets`), and the proposers are any
line-up of different candidates headed by the best one (`Lineups`), because the
choice by diversity depends on the scores. A row that cannot be written ends the
request (`AuditFails`). A request counts as under way while the Sidecar awaits it:
the host may work on it longer (`ModelBroker`). Time is abstracted: a deadline may
pass, and a bench may expire, at any step. `Keep` is the filter by which the
candidates of a list are taken in its order. A `fallback_order` that lists a
candidate twice would appear twice in the model and once in the code, where a
dictionary is popped; the instance lists none twice, and the theorems do not depend
on it.

### `ModelBroker`: a request between Sidecar and host

State: the coroutine of each request, the entry by which a cancel finds it, the
queues by request id and by run id, the request in the host, and the cancels on
their way. `cancel_model_run` is cut as in the code: `MarkRequests` marks every
entry under the lock, `TellHost` tells the host of one after the other, `TellFails`
ends the loop with the rest marked and untold, and `HttpCancelLost` is a cancel that
the host never reads. The history `missed` remembers whose cancel that was.
`Withdraw` is the request's own cancel after an error, which may fail too;
`TaskCancel` is a coroutine that is cancelled and tells nobody. Everything that may
fail or be late between the two processes is an action: a start without an answer, a
row that cannot be written, a cancel before the id is known, a full queue, a
forwarder past its deadline.

### `SidecarServer`: connections, sessions and calls to the host

State: `_handle_client` of each connection, the flags and ids by which the server
knows its session, the dispatch task of each frame, the holder of the handshake
lock, the heartbeat task, the table of pending calls of each connection and the
calls themselves, and how far `stop()` has come. `proved` is the history of the
connections on which the startup token was proved. A session id is abstracted to the
connection it was made for, because each is a fresh uuid. `AcceptClient`,
`Receive`, `Response`, `End` and `Cleanup` are the reader; `BeginHandshake`,
`FinishHandshake`, `BeginCommand`, `FinishCommand`, `Shutdown` and the refusals
are the dispatch tasks; `Obtain`, `Register`, `Written`, `GiveUp`, `Return` and
`CallerCancelled` are `IpcSession.call` cut at its awaits.

### `SidecarStart`: lock, migrations, identity

State: where each process is, its lock file and whether it holds an flock, the
inode behind the path of the lock, the migrations it has still to apply, the
ledger and how much of each script was executed, the owner of the profile.
Processes overlap and may be killed at any step. `CloseLock` and `UnlinkLock` are
two steps as in `ib/persistence/profile.py:31` and `:36`: between them another
process may lock the file that is about to be removed, and a third one then
locks a new file. `WritesOwnMigratedProfile` is what holds nevertheless.

### `Workers`: the supervisor

State: the clock of the event loop, where the supervising task of each worker is,
the times of its failures in the window, when its sleep ends, and the history of
its restarts. Time is explicit because the property counts events in a window;
sleeps end when they are due, so a lag of the event loop is left out, and work
may take any time. The workers that exist catch their exceptions in `work()`, so
only failures outside of that reach the supervisor; the heartbeat that `health()`
compares with 15 s is set at the start of an iteration only, so a longer `work()`
is reported as failed. Both are the code's; neither steers anything here.

### `ManagedProcess`: agent processes

State: per start the task in the host and whether its process lives, the index
of runs, records and egress leases, the link, the notifications on the wire, and
what the Sidecar has merged. A start is cut at each await: checked, leased,
probed, spawned, registering, running. `Deadline`, `Escalate`, `Cancel`,
`FinishCancelAll`, `CloseProfile`, `ReaderEof` and `Lose` interleave with it.
`mute` says that one of the two readers of a process may have gone silent; the two are
merged. The sandbox profile and the egress proxy are data and left out.

### `Organisation`: companies, departments, employees, profiles

State: the four tables, the company tasks (`work`), the employees with an unfinished
employee task (`busy`) and with a run that has not ended (`engaged`). Each action is
one command with the conditions of the layer that serves it: those of
`ib/company.py` and `ib/employee.py`, or the SQL of `public_rpc.py` where the public
method does not call them. `SupersedeTask` and `ReplaceEmployee` never look at the
company, and `StartRun` asks for an active employee only: they are the commands that
`ArchivedIsClosed` is about. The first company comes with the database, because
neither a company nor a profile can be created without the other.

### `Credentials`: provider secrets

State: the index file, the versions in the Keychain, the requests and the
recorded answers, the command that holds the lock with its locals
(`mutation`), and, for the runs, the credentials that profile versions name,
the snapshots, the host's authorisation table and leases. A command is cut at
each file write, Keychain call and await: `CreateBegins`, `UpdateBegins`,
`DeleteBegins` and `ProbeBegins` take the lock, the steps of `Command` follow,
`CommandFails` and `HostCrashes` end it anywhere. A registration reads the index
(`CredentialsChecked`) before it takes the lock of the table
(`SnapshotRegistered`). `Save` is guarded by the validation of the index. Secrets,
labels and the provider's answer are data; a version stands for the secret.

### `ExternalWrite`: approved writes of the host

State: the targets, grants, staged sources, receipts in memory and on disk, and
two overlapping calls cut at the points where the code leaves its lock.
`CloseStores`, `OpenStores` and `HostDies` are the profile and the crash; `Edit`
is another program. The removal of the staged source, the writing of the receipts
and the fsync of a directory after its rename may each fail on their own; `kept` and
`revoked` are the histories of the first two. Path and link checks are left out.

### `AppUpdate`: self-update

State: the data directory as a tree with the marker, the backups and the health
observation in it, the trees moved aside by exchanges, and the commands at work.
Nothing keeps two commands apart, so any number may run together; `overlapped` is the
history of that. Each change on the disk is an action, every file operation may fail,
the rename back after a failure too, and `UpdaterDies` may come between any two.

### `BackendAuth`: sessions of the backend

State: accounts, refresh families with their tokens, the order of last use, the
open transaction of each request with what it has read, and the row locks. A
request arrives, runs its `SELECT ... FOR UPDATE` statements one row at a time
(`NextStatement`, `LockRow`), and commits, is refused, or is aborted. What it
read earlier stays in the session: that is how a stale copy is used after a
wait. A caller's session is checked as `dependencies.py` does, revocation included. An
endpoint that raises rolls back, so the failed-login counter and the
revocations made just before a raise do not persist; the model therefore has no
such writes.

### `BackendPublishing`: catalogue writes behind idempotency keys

State: resources with their versions, the sequences of releases and of emergency
disables, the object store, the committed keys, and the transactions. The
middleware's insert of the key (`EnterKey`) waits for a transaction that holds the
same key; endpoint and key commit or roll back together; the object store does
neither. A refusal that `_sign_version` raises after a flush becomes a 4xx answer
and is committed: `RefuseAdd` and `RefuseClone` leave the rows that were made until
then.

### `Catalogue`: agents, models and providers

State: the committed rows with their ranges and bindings, and the open
transaction of each session with the row it locks and the row it writes. Each
endpoint of `api/catalog/router.py` is an action that locks and computes;
`CommitTx` checks the unique and foreign keys, `RollbackTx` gives up. The transaction is
that of the idempotency middleware, which commits after a 4xx: `RefuseUpdate` is
`update_model` with values that it assigns and then refuses. A version is a triple of
core, prerelease and build; `Before` is the order of `_semver`, in which
`validate_agent` compares ranges, and `Supports` the order of the host's `semver`
crate, in which a release is looked up. No endpoint
publishes a row, so published rows are the ones installed at the start, which
are assumed validated (`InstalledAssumption`). A text is stored in a normal form
(`Normal`); a provider URL with an IPv6 address loses its brackets there and is
refused when it is validated again, which the instance includes.

## 3. Runs

| Run | Instance | Shows |
|---|---|---|
| `runtime_execution` | two runs (a CLI run of an employee task, an API-model turn), a day of 3 units, clock up to 3, one failing submission, one crash or stop | six safety properties of the execution of runs, the table of its states included |
| `runtime_liveness` | the same runs, no failing submission, two crashes or stops, after each of which the Sidecar may stay down | `QueuedSettles` |
| `write_queue` | two sets of callers: a request, its retry and a conflicting reuse of its key, with one restart; and a request, a worker's write and a barrier; capacity 2, two database faults | `AllOrNothing`, `AnswerIsTrue`, `BarrierMeansDrained`, refinement of `ExactlyOnce`, `QueueMoves` |
| `tasks` | three plans (a deferred segment, two departments, departments that depend on each other), a spare employee task, two pending outbox rows, two review events | no segment forgotten, completion bottom up, dispatch once and in order, the tables |
| `services` | `Review`: two versions, two reviewers and an author who is one of them, three rounds; `Routing`: three candidates of which two share an account, five kinds of failure; `ModelBroker`: two requests of one run, queues of one event; `SidecarServer`: two connections, two frames, two calls to the host, a table of one | seven properties of reviews, turns, requests and the link |
| `records` | `Organisation`: two companies, departments, employees and profiles; `BackendAuth`: one user, two families, limit 1, two requests; `BackendPublishing`: two writes, three keys, two resources, three sequences; `ExternalWrite`: one approval, two calls, two grants; `AppUpdate`: two commands at once, three versions, two backups; `Credentials`: two references, four requests, one run, one failure; `SidecarStart`: two processes, two migrations, two lock files, one kill; `Catalogue`: two agents of which one is published, a model, a provider, four version points, one of them a prerelease and one with build metadata, two sessions | thirteen properties of what is kept on disk or in a database |
| `processes` | `ManagedProcess`: two starts of the same run, up to two chunks, one reopening, a wire of one notification; `CompanyFairness`: three runs of two companies; `Workers`: one worker, two restarts in a window of five, back-offs of one and two, clock up to 14 | output without gaps, every process is released, `NoCompanyStarves`, `RestartsBounded` |

`MCServices`, `MCRecords` and `MCProcesses` put machines that share no variable side
by side. The variable `part` is chosen in the initial state and says which of them
moves, so the reachable states are the disjoint union of those of the parts, and
each property is checked on its own machine in full; nothing is claimed of their
interleaving, which could show nothing new. Where the actors of
a part are interchangeable (requests, frames, writes, jobs, calls, processes,
sessions), the same two values stand for them in every part, so that one
permutation is the symmetry of all.

Why the bounds are enough. In `RuntimeExecution` the instances differ in the two
dimensions in which the code distinguishes runs. The executor handles one run at a
time, so a third run adds only more of the claim order, which the part `companies`
of `processes` examines. One crash reaches a crash in every state, and recovery is
complete in one step; the liveness run has two, so that recovery is followed by
another crash. With a clock of 3 and a day of 3, leases are written and compared on
both sides of midnight. In `WriteQueue`, two faults are a failing COMMIT followed by
a failing ROLLBACK, the shortest way to leave a transaction open; capacity 2 with
three envelopes reaches a full queue; the callers with a barrier meet no restart,
because a restart forgets barriers and what they waited for. In `TaskLifecycle`, two
pending rows are enough for a command to be overtaken by a second event of the same
or of another topic, and two review events let an accepted task be accepted again.
In `Review`, three rounds exceed the two the deliverable allows, so the limit is met
by the code and not by the bound. In `Routing`, two proposers, one retry and one
fallback are the smallest turn in which a proposer is cancelled while another is
retried; one turn suffices for the properties, which speak of one turn and the
restart after it. In `ModelBroker` two requests share the run's key. In
`BackendAuth` two concurrent requests on one user are what every race in it needs;
the limit of one family makes the eviction happen at the second login. In
`BackendPublishing` three sequences and two writers allow two releases and an
insertion that raced. In `ExternalWrite` the approval may be of any of the four
operations, and the second grant is the one after a restart. In `AppUpdate` a third
version is an update of an update, and two commands are what an overlap needs. In
`Credentials` four requests are a creation, a probe, an update and a deletion; both
references have the same label, so the second one meets the check of labels; one
failure leaves the index in each of its states of transition. In `SidecarServer` two
connections are a loss and a reconnection, and a table of one is full with the
second call; the limit of frames in flight (256 in the code, 2 here) is not reached
by two frames, so its back-pressure is not examined. In `SidecarStart` two lock
files are what the race between close and unlink needs, and the theorem covers any
number. In `Catalogue` two sessions meet on the same row, and four points allow
ranges that touch, that overlap, and that the two orders of versions judge
differently. In `Workers` a clock of 14 covers two windows and the back-offs between
them.

Deadlock is not checked: the bounded counters stop every behaviour in the end,
and an idle system really has nothing to do. The refusals that PostgreSQL makes
to break a deadlock are modelled as `AbortRequest`.

Fairness. `RuntimeExecution!FairSpec` asks weak fairness of the executor (the worker
loop polls every second, processes and requests have deadlines) and of nothing else.
No code of the host restarts a Sidecar that died, so a start (`RecoverStaleRuns`)
may never come, and `QueuedSettles` excepts a Sidecar that is down for good. Nothing
is asked of users, of the clock or of the lease clean-up either.
`WriteQueue!FairSpec` (`MCSpec` of `MCWriteQueue` for its two sets of callers) asks
weak fairness of the worker task and of the steps of a stop that has begun: they are
asyncio tasks of a running event loop, and the waits in them have timeouts.
`ManagedProcess!ProcFairness` asks weak fairness of the tasks of a start, of the
task that waits for a process, of its deadline and its escalation to SIGKILL, and of
a `cancel_all` that has begun: they are tokio tasks with timers, and SIGKILL ends a
process. Nothing is asked of the Sidecar, the user, the link or the agent program.
The other modules have safety properties only.

### Disagreements between the code and what is said of it

Each is a run that TLC must find violated.

| Run | What is said | What happens |
|---|---|---|
| `LeaseHonoured` | a lease lasts 5 minutes and is renewed (`README.md:143`, `docs/部署文档.md:252`) | the expiry `2026-01-01 12:05:00` sorts before now, `2026-01-01T12:00:00…Z`: every lease that ends today is expired at once, and the clean-up takes the run from its executor |
| `WaitingCanLeave` | a waiting run is queued again when the user resumes it (`README.md:161`, `docs/部署文档.md:257`) | the second queue row violates UNIQUE `run_id`, and a cancel violates the CHECK on `resume_state`: a waiting run can go nowhere |
| `AnswerRecorded` | an attempt goes from created over accepted and streaming to succeeded (`docs/设计方案/iBreeze智能聚合路由设计方案.md:614`) | `succeed()` writes created → succeeded first, which the repository refuses, so an answered attempt is not recorded as succeeded |
| `UsesNamedVersion` | the host loads only the Keychain entry of the version that the snapshot names (`docs/设计方案/iBreeze智能聚合路由设计方案.md:227`) | the entry of that version is only looked for; `HttpBroker::start` (`host/broker/http.rs:84`) and the probe (`host/rpc/reverse.rs:785`) load version 1, so after an update that did not drop it the old secret is sent |
| `InterruptedIsRerun` | a start that finds a running migration executes its script again (`docs/设计方案/AI公司桌面应用设计方案.md:2827`) | the row of the interrupted migration is still there, the INSERT that begins it again violates the primary key (`ib/persistence/migrator.py:70`), and every later start fails the same way |

### Deviations seen while modelling

No run states these; most of them are visible in the actions of the models.

* Runtime: the clean-up sets a finished run to `lost` (`RunsFollowTable` allows
  exactly that); an employee task becomes `running` although its run was
  cancelled in the same moment; the executor drops a cancelled model run that
  nobody recorded (`run_executor.py:273`); one waiting run with an expired lease
  makes every clean-up roll back (`ib/workers/analysis.py:56`).
* Writer: `stop()` swallows its join timeout and closes the writer with queued
  writes (`write_queue.py:96`, `docs/部署文档.md:299`). `backup.create` waits for
  the barrier from inside the only writer and always times out.
* Start: closing the lock file before removing it lets two processes hold a lock
  of the same profile (`ib/persistence/profile.py:31`).
* Supervision: nothing restarts a Sidecar that died. `SidecarSupervisor.start`
  (`host/rpc/sidecar.rs:85`) is called when a user opens a profile
  (`host/commands.rs:1338`, `:1454`), refuses while the dead child is registered
  (`:94`), and the heartbeat constants are used nowhere.
* Events: past 10 000 old rows, the DELETE of domain events (`ib/workers/spec.py:190`)
  fails on the foreign keys of the tables that refer to them, and the compaction
  with it.
* Tasks: only `ib/runtime/service.py:286` consults the transition tables; a task is
  accepted, superseded or replaced from any status; cancelling a paused task
  violates the CHECK; a dependency between departments makes the confirm fail
  because the INSERT omits `resume_state`; review events evaluate the first
  employee task only; the gates ignore runs that are `starting`; a replacement
  gets no run; `verifications` and `ceo_confirmed_at` have no producer; one
  failing row rolls back its whole outbox batch.
* Review: the gate reads every report on the current artifact, so a needs_changes
  of an early round blocks for ever; when the next round has no eligible
  reviewer the scores are never finalised; starting a review and moving an issue
  have no producer.
* Routing: the quorum fallback may take the sequence number of a proposer's
  retry; quorum and aggregator fallbacks may be pairs the host was not told of;
  a cancelled slow proposer counts as a timeout; concurrent runs overwrite each
  other's health; a fallback may follow visible content, against the design
  document; a cancelled proposer ends with `CancelledError`, which `except Exception`
  (`ib/runtime/transport.py:509`) does not catch, so its request in the host runs on,
  though `docs/设计方案/iBreeze智能聚合路由设计方案.md:428` wants it cancelled.
* Broker: the first proposer to finish unregisters the run's queue, and events found
  only by it are dropped; `cancel_model_run` marks all requests as told and then
  tells the host of one after the other (`ib/runtime/transport.py:203`): when a call
  fails the rest is not told, and a second cancel skips them.
* Processes: a failing second start of a run removes the directory of the live
  one; a start that registers between the copy of `cancel_all` and the reset
  loses its record; the disconnect hook is bound after the reader has started;
  an egress lease is never renewed.
* Backend: revocations and counters written before a raise are rolled back;
  `change_password` uses a copy read before its lock; a skill package is removed
  before the commit (`VersionsHavePackages` excepts exactly the interrupted
  ones); refresh takes its locks in the opposite order of login; a clone that
  `_sign_version` refuses (`api/skills/service.py:114`) is committed in part.
* Catalogue: the design document (`docs/设计方案/AI公司桌面应用设计方案.md:2269`) wants the range
  of a binding inside a declared range of the agent; `validate_agent` does not look
  at bindings. `_semver` (`api/catalog/service.py:65`) puts a release before its
  prereleases and drops the build metadata, while the host compares with the
  `semver` crate (`host/commands.rs:1760`, `host/process/mod.rs:1049`): `[0.9.0,
  1.0.0)` and `[1.0.0-alpha, 2.0.0)` are validated together although a prerelease of
  1.0.0 is in both, and a release is in two ranges where one ends with build
  metadata of it. `update_model` assigns its values before it validates them
  (`api/catalog/service.py:397`): refused ones are committed under the same version.
* Organisation: the manager may be moved or the office archived through the
  public methods, so what `create_company` asserts does not last; `task.supersede`
  (`ib/application/public_rpc.py:1067`) opens a draft in an archived company; publishing
  preflight selects a column that does not exist; `employee.archive` and
  retiring a profile with a draft are refused by CHECKs.
* Credentials: nothing repairs an entry that a failure left creating, updating or
  deleting, which the design document (:225) asks for; a run that was checked before
  an update and registered after its count loses its version, which the comment at
  `host/commands.rs:909` excludes; a deletion removes the secret in force only, so
  a version that could not be dropped stays; `getReferences` counts every
  snapshot ever made, so a credential that was used can never be deleted; after
  an update that did drop version 1 the probe finds no credential.
* External writes: a receipt is visible before it is persisted; the request hash
  includes a grant id that lives in memory only, so persisted receipts cannot be
  used after a restart; when the removal of the source fails, which is ignored
  (`host/security/external_write.rs:588`), and an overlapping retry that cannot persist
  takes the receipt back (`:82`), a request is carried out again after its answer.
* Update: an installation replaces the whole data directory; a crash between the
  two renames leaves no data directory at its place; a stale stable marker skips
  the health observation; commands share no lock, and two that overlap can leave a
  marker without its backup; a finished installation has neither the marker nor the
  backup, though `docs/设计方案/AI公司桌面应用设计方案.md:4965` wants the previous version
  to be restorable.

## 4. Proofs

Every safety invariant and every action property that a passing run checks is
also a theorem: it holds for every value of the constants that the named
assumptions of its module allow. Below, per proof module, the theorems and the
inductive invariant each of them needs.

**`RuntimeExecutionProofs`** (any finite set of runs, any companies, items, lengths
of day and lease, numbers of faults and crashes)

* `TypeCorrect`: `TypeOK` is inductive.
* `VersionsAreUnique`, `ResultsAreTold`. The lemma `RunStep` says that every step
  either leaves a run and its events alone (`Kept`) or moves it (`Moved`): the
  version grows by one, at most one event with the new version is added. With
  `Unborn` (a run that does not exist has no events) this makes `EventInv` inductive.
* `RunsFollowTheTable`. Whether a waiting or failed run follows the table depends on
  where the executor is: `WorkInv` says that a run it executes has been launched and
  was not taken back, and each move is then looked up in the table.
* `LeasesMatch`, `RunsAreNotReplayed`. `NoReplay` says nothing about who may
  launch, so it is not inductive. `ClaimInv` adds, for each run (`RowInv`), how
  the queue row, the lease, the executor's program counter and the run's status
  go together: a ready row belongs to a run that was never launched or is
  finished, and an executor that is about to launch holds a run that was not.
* `NothingIsForgotten`, from `ClaimInv` and `TrackInv`: the executor is on track
  (`OnTrack`: its run has the status and version it counts on, or was ended by
  somebody else), so a compare-and-set that fails, and a release without a failed
  submission, leaves no unfinished run behind.
* `TasksAreStartedByRuns`, from `BegunInv`: a run past its launch has its
  run.started event.
* `OverdueLeasesExpire`: `LeaseText` says that the expiry of a lease is the text
  of its heartbeat plus `LeaseLen`; the rest is arithmetic of `\div` and `%`.
* `NoCompanyIsStarved` (of `CompanyFairness`, finitely many companies). The count
  of a waiting company is not bounded by itself: `FairInv` bounds it by the number
  of companies whose last turn is later than its own (`Later`), a set that gains the
  company just served and never the waiting one.

**`WriteQueueProofs`** (any envelopes, keys, capacity, faults, restarts)

* `TypeCorrect`, and from `WriteInv` `EffectAndRowTogether`, `AnswersAreTrue` and
  `WritePathKeepsPromise`. `WriteInv` says where an envelope may be (at most once in
  the queue, or with the worker, never both, and pending or given up while there:
  `PlaceInv`), what the open transaction may hold (`TxInv`), what each phase of the
  stop implies (`StopInv`), that a row names a committed envelope of its key
  (`RowsInv`), and that an `ok` answer is committed (`OkInv`). The last theorem is
  the refinement of `ExactlyOnce`, with one case per action.
* `BarriersDrain`. `OrderInv` says that the queue is the tail of the accepted
  sequence, that the worker has the envelope before it, and that those before that
  one are settled or given up; `NothingHeldBack` that a transaction left open by a
  failed ROLLBACK holds nothing from before a barrier that returned.

**`SidecarProofs`** (any processes, identities, migrations; any tables)

* `WritersOwnTheProfile`. The lock does not exclude, so the proof cannot use it.
  `ScriptInv` says that the primary key of the ledger gives each running script to
  one process; `DoneInv` that what a process no longer has to apply is completed,
  and that what is completed is whole.
* `ArchivedStaysClosed`, from `OrgInv`: the property with the types of the tables. No
  employee of an archived company is active, so nothing that is opened there can run.

**`HostProofs`** (any versions, backups, approvals, grants, credentials, runs)

* `UnfinishedUpdatesCanBeUndone`, from `UpdateInv`. `MovedAside`, that a directory is
  somewhere, holds whatever overlaps. The rest holds while one command is at work at
  a time (`Alone`): a backup holds a whole directory with the backups and the marker of
  its time, so `TreesRestorable` speaks of every tree there is, those inside backups
  too; `JobKnows` says which directories exist at each step.
* `ReceiptsAreTrue`, from `CarriedInv`: every receipt, and every copy of one on the
  way to the disk, names an approval that was carried out.
  `AnswersAreFinal`, from `SpentInv`: the staged source of an answered request is
  gone, or its removal failed and its receipt is there or was taken back, or the
  grant in its hash is unusable for good.
* `SecretsInForceAreStored`, `RunsKeepTheirCredential`. `IndexInv` (entries are
  valid and have their secret), `LiveInv` (a run past its check has its entry and
  its secret) and `MutationInv` (the command at work knows its entry; a delete that
  counted no use knows that no run can pass the check any more).

**`BackendProofs`** (any accounts, sessions, requests, keys, releases, rows)

* `KeysTakeEffectOnce` (`KeysInv`: a key in flight belongs to one request and is not
  committed, and only committed keys were applied), `ReleasesInOrder`
  (`ReleasesInv`: a release exists, or is about to be committed, only where all
  earlier ones are published), `PackagesAreThere` (`LocksApart`, `CommitsReady`: a
  request that is about to commit holds the rows it writes, alone, and has stored
  the packages it adds).
* `SessionsEndWithPassword`. `SessionsLocked` says what a request that has come to
  a given statement holds: a password change has the account and every
  session of it before it commits.
* `ValidatedAgentsAreSound`, `VersionsNameContent`, from `CatInv`: the row a
  transaction will write was computed from the row it still locks. The first also
  needs `SharedReleaseOverlaps`: two ranges in which the host finds the same release
  overlap in the order of `_semver`, unless one ends with build metadata of it. The
  second excepts the values that `update_model` refused.

**`ServicesProofs`** (any calls, connections, frames, policies, rankings, health)

* `CancelsReachTheHost`, from `EntryFollows` (the entry by which a cancel finds a
  request goes with the coroutine and with the request in the host) and
  `Accounted`: a request that is marked as told is told, about to be, done or missed.
* `ReverseSessionsAuthenticated` (`LinkInv`), `LossesWakeCallers` (`PendInv`: a call
  that waits is in the table of its own connection, or has its answer).
* `TurnsAreClosed`. `RoutingInv` relates, for each turn, the coroutine to its
  requests (`SlotsFit`), each request to its row (`RowsHeld`, `RowsThere`) and the
  rows to the decision (`TurnFits`); `Overlooked` says that the safety errors of
  proposers are those of tasks that were dropped.
* `SingleCallsAreAuthorised`. The fallbacks are computed twice, when the decision is
  registered and again after a failure, from lists that health has
  changed in between. `CallsInv` says that both are taken from `Backups`, and
  `KeepList` says what the filter returns.

**`TaskProofs`** (any plans, departments, tasks, artifacts, reviewers, rounds)

* `ReviewsFollowTheArtifact`, from `ReviewInv`; `GatesOpenOnDecisions`, from that and
  from what one submission decides (`SubmitDecides`).
* `SegmentsAreRemembered`, `WorkCompletesBottomUp`, `SegmentsDispatchedOnce`,
  `TasksFollowTheTables`. A step of the outbox is a fold over a batch, and what
  holds between two steps does not hold between two rows of it. `TxInv` is the
  invariant of the transaction after n rows, with the rest of the batch still
  to come; `BatchTx` carries it along the batch, and its last instance gives
  `TaskInv`. `GoodStep` gathers what the three action properties ask of a step.

**`ProcessProofs`** (any starts, runs, chunks; any window, limit, growing back-offs)

* `OutputIsMergedInOrder`, from `ProcInv`: a frame on the wire carries a number its
  process has reached, and what was merged has no gap.
* `RestartsStayBounded`. The code counts failures and the property counts restarts.
  `WorkersInv` ties them twice: a restart comes at most the longest delay after its
  failure (`Own`), and each but the last is followed by a failure (`Followed`).

The library's induction theorems have an operator parameter and cannot be used with
the installed provers. Two proofs need one, over the rows of a batch and over the
elements of a list, and a third the maximum of a set of rounds. They use the lemma
`LeastNumber`, the least element of a nonempty set of numbers, which is proved from
the well-founded order of the naturals stated for sets; a recursive function is
first shown to exist (`BatchUnfolds`, `KeepUnfolds`) by taking the longest beginning
of it that does.

Assumptions. The constants that stand for "none" (`NoRun`, `NoCred`, `NoRow`,
`NoId`, `NoArtifact`, `NoConn`...) are not among what they are told from
(`UpdateAssumption`, `BrokerAssumption` and others); bounds and limits are numbers;
maps have their domains (`RunAssumption`, `ExternalAssumption`, `ProcessAssumption`,
`RoutingAssumption`); runs, companies, frames and calls are finite (`RunAssumption`,
`CompanyAssumption`, `ServerAssumption`); back-offs do not shrink
(`BackoffAssumption`); the kinds of catalogue rows are disjoint, versions are
triples of numbers and installed rows are validated (`CatalogueAssumption`,
`InstalledAssumption`); normalising a text again changes nothing or is refused
(`NormalAssumption`). TLC evaluates all of them on the runs.

Only model-checked: the liveness properties `QueuedSettles`, `QueueMoves` and
`EveryProcessReleased`, because fairness and ENABLED are out of the prover's reach;
and the five disagreements, which are counterexamples.

Properties that earlier versions checked and that are not among the runs now:
`TypeOK`, `OneEventPerVersion` and `OverdueIsExpired` of the runtime, which the
theorems above state in full.

## 5. Plan

1. Done: all modules of section 2, model-checked, and proofs of all their safety
   properties.
2. Left: the abstract specification of a run (queued, running, settled) that
   `RuntimeExecution` implements; the composition of `RuntimeExecution` with
   `ManagedProcess`, in which a lost connection meets the recovery of runs; the
   back-pressure of `SidecarServer`.

## 6. Not modelled

The front ends, which keep no protocol state; backup and restore, which cannot get
past the barrier (above) and whose packaging is file I/O; the framing of RPC
messages; knowledge, workspace and git operations, search, encryption, roles and
logs, which are I/O without protocol state; the content of prompts, results and
payloads; provider dialects; reads through the read pool that change nothing; the
content of migrations; code that nothing calls (the rework handlers,
`ib/review/service.py`, `RoutingService`, `request_*` of the approvals). Inside the
modelled parts the `note` of each component in `PROJECT.json` says what is left out.
