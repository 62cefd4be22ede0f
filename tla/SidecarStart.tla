---------------------------- MODULE SidecarStart ----------------------------
(***************************************************************************)
(* How a Sidecar process opens and closes a profile: the file lock, the    *)
(* migrations, the identity of the profile, and the order of start and     *)
(* stop (application/lifecycle.py, application/app.py,                     *)
(* persistence/migrator.py, persistence/profile.py).                       *)
(*                                                                         *)
(* Processes may overlap, since the host starts one while another is still *)
(* ending, and any of them may be killed at any step.  The lock is an      *)
(* flock on a file that its last holder removes, so the file behind the    *)
(* path can change: it is modelled by its inode.  A script is a sequence   *)
(* of statements that each commit by themselves, abstracted to none, part  *)
(* or all of it.                                                           *)
(***************************************************************************)
EXTENDS Integers, FiniteSets

CONSTANTS
    Procs,       \* Sidecar processes of the profile
    Identities,  \* backend, user and device that a process is started for
    NoOwner,     \* local_profile has no row
    LastVersion, \* the number of the last migration
    MaxInodes,   \* how many lock files may be created (bound)
    MaxKills     \* how many processes may be killed (bound)

ASSUME StartAssumption ==
    NoOwner \notin Identities /\ LastVersion \in Nat \ {0} /\ MaxInodes \in Nat /\ MaxKills \in Nat

Migrations == 1..LastVersion
NoFile == 0

VARIABLES
    proc,      \* where each process is
    identity,  \* what it was started for: the identity and the profile mode
    fd,        \* its lock file
    flocked,   \* the processes that hold an flock
    todo,      \* the migrations it has still to apply
    lockFile,  \* the inode behind the path of the lock
    inodes,    \* inodes created so far
    ledger,    \* schema_migrations.status of each version
    schema,    \* how much of the script of each version was executed
    owner,     \* local_profile
    kills      \* processes killed so far

startVars == <<proc, identity, fd, flocked, todo, lockFile, inodes, ledger, schema, owner, kills>>
dbVars == <<ledger, schema, owner>>
lockVars == <<fd, flocked, lockFile, inodes>>

\* With open connections to the database, and among those the ones after the
\* checks of a start.
Writing == {"writer", "recovering", "serving", "closing"}

Move(p, from, to) == proc[p] = from /\ proc' = [proc EXCEPT ![p] = to]

\* The host starts a Sidecar, which accepts its startup token.
LaunchProcess(p, i, mode) ==
    /\ Move(p, "down", "launched")
    /\ identity' = [identity EXCEPT ![p] = [id |-> i, mode |-> mode]]
    /\ UNCHANGED <<lockVars, todo, dbVars, kills>>

----------------------------------------------------------------------------
(* ProfileFileLock. *)

\* os.open with O_CREAT.
OpenLock(p) ==
    /\ Move(p, "launched", "opened")
    /\ lockFile = NoFile => inodes < MaxInodes
    /\ lockFile' = IF lockFile = NoFile THEN inodes + 1 ELSE lockFile
    /\ inodes' = IF lockFile = NoFile THEN inodes + 1 ELSE inodes
    /\ fd' = [fd EXCEPT ![p] = lockFile']
    /\ UNCHANGED <<identity, flocked, todo, dbVars, kills>>

Taken(p) == \E q \in flocked : fd[q] = fd[p]

\* flock(LOCK_EX | LOCK_NB).
Flock(p) ==
    /\ Move(p, "opened", "locked")
    /\ ~Taken(p)
    /\ flocked' = flocked \union {p}
    /\ UNCHANGED <<identity, fd, todo, lockFile, inodes, dbVars, kills>>

LockRefused(p) ==
    /\ Move(p, "opened", "down")
    /\ Taken(p)
    /\ fd' = [fd EXCEPT ![p] = NoFile]
    /\ UNCHANGED <<identity, flocked, todo, lockFile, inodes, dbVars, kills>>

\* release: the descriptor is closed, which frees the lock ...
CloseLock(p) ==
    /\ Move(p, "unlock", "unlink")
    /\ flocked' = flocked \ {p}
    /\ fd' = [fd EXCEPT ![p] = NoFile]
    /\ UNCHANGED <<identity, todo, lockFile, inodes, dbVars, kills>>

\* ... and then whatever is behind the path is removed.
UnlinkLock(p) ==
    /\ Move(p, "unlink", "down")
    /\ lockFile' = NoFile
    /\ UNCHANGED <<identity, fd, flocked, todo, inodes, dbVars, kills>>

----------------------------------------------------------------------------
(* MigrationRunner.apply_all. *)

\* verify_sqlite_capabilities: the library has no FTS5, JSON or the like.
CapabilitiesMissing(p) ==
    /\ Move(p, "locked", "unlock")
    /\ UNCHANGED <<identity, lockVars, todo, dbVars, kills>>

\* Deliberately wrong: every row of the ledger counts as applied.
ReadLedgerAnyRow(p) ==
    /\ Move(p, "locked", "migrating")
    /\ todo' = [todo EXCEPT ![p] = {v \in Migrations : ledger[v] = "none"}]
    /\ UNCHANGED <<identity, lockVars, dbVars, kills>>

\* The ledger is created unless it is there, and read once.
ReadLedger(p) ==
    /\ Move(p, "locked", "migrating")
    /\ todo' = [todo EXCEPT ![p] = {v \in Migrations : ledger[v] # "completed"}]
    /\ UNCHANGED <<identity, lockVars, dbVars, kills>>

NextVersion(p) == CHOOSE v \in todo[p] : \A w \in todo[p] : v <= w

\* The row is inserted, and executescript commits it before the first statement.
BeginMigration(p) ==
    /\ Move(p, "migrating", "script")
    /\ todo[p] # {} /\ ledger[NextVersion(p)] = "none"
    /\ ledger' = [ledger EXCEPT ![NextVersion(p)] = "running"]
    /\ UNCHANGED <<identity, lockVars, todo, schema, owner, kills>>

\* The version is the primary key: with a row of an earlier start the insert
\* fails, outside of the try statement.
MigrationRefused(p) ==
    /\ Move(p, "migrating", "unlock")
    /\ todo[p] # {} /\ ledger[NextVersion(p)] # "none"
    /\ UNCHANGED <<identity, lockVars, todo, dbVars, kills>>

\* Some statements of the script, then the rest.
RunStatements(p) ==
    LET v == NextVersion(p)
    IN  /\ proc[p] = "script" /\ schema[v] # "all"
        /\ schema' = [schema EXCEPT ![v] = IF @ = "none" THEN "part" ELSE "all"]
        /\ UNCHANGED <<proc, identity, lockVars, todo, ledger, owner, kills>>

\* The foreign keys and the integrity are good.
EndMigration(p) ==
    /\ Move(p, "script", "migrating")
    /\ schema[NextVersion(p)] = "all"
    /\ ledger' = [ledger EXCEPT ![NextVersion(p)] = "completed"]
    /\ todo' = [todo EXCEPT ![p] = @ \ {NextVersion(p)}]
    /\ UNCHANGED <<identity, lockVars, schema, owner, kills>>

\* A statement or a check fails; prepare releases the lock.
MigrationFails(p) ==
    /\ Move(p, "script", "unlock")
    /\ ledger' = [ledger EXCEPT ![NextVersion(p)] = "failed"]
    /\ UNCHANGED <<identity, lockVars, todo, schema, owner, kills>>

----------------------------------------------------------------------------
(* ApplicationLifecycle. *)

\* The writer, the pool of readers and the write queue.
OpenWriter(p) ==
    /\ Move(p, "migrating", "writer")
    /\ todo[p] = {}
    /\ UNCHANGED <<identity, lockVars, todo, dbVars, kills>>

\* _ensure_profile_identity, one write transaction.
VerifyIdentity(p) ==
    /\ Move(p, "writer", "recovering")
    /\ \/ owner = NoOwner /\ identity[p].mode = "online" /\ owner' = identity[p].id
       \/ owner = identity[p].id /\ UNCHANGED owner
    /\ UNCHANGED <<identity, lockVars, todo, ledger, schema, kills>>

\* PROFILE_NOT_FOUND or PROFILE_IDENTITY_MISMATCH: the process ends through stop.
IdentityRefused(p) ==
    /\ Move(p, "writer", "closing")
    /\ IF owner = NoOwner THEN identity[p].mode # "online" ELSE owner # identity[p].id
    /\ UNCHANGED <<identity, lockVars, todo, dbVars, kills>>

\* _reconcile_startup_state, then handlers, workers and the RPC server.
Serve(p) ==
    /\ Move(p, "recovering", "serving")
    /\ UNCHANGED <<identity, lockVars, todo, dbVars, kills>>

RecoveryFails(p) ==
    /\ Move(p, "recovering", "closing")
    /\ UNCHANGED <<identity, lockVars, todo, dbVars, kills>>

\* app.stop: server, workers and write queue have ended.
StopServing(p) ==
    /\ Move(p, "serving", "closing")
    /\ UNCHANGED <<identity, lockVars, todo, dbVars, kills>>

\* Checkpoint; the readers and the writer are closed before the lock goes.
CloseConnections(p) ==
    /\ Move(p, "closing", "unlock")
    /\ UNCHANGED <<identity, lockVars, todo, dbVars, kills>>

\* The process is killed: the system closes its files and frees its lock.
Kill(p) ==
    /\ proc[p] # "down" /\ kills < MaxKills
    /\ proc' = [proc EXCEPT ![p] = "down"]
    /\ fd' = [fd EXCEPT ![p] = NoFile]
    /\ flocked' = flocked \ {p}
    /\ kills' = kills + 1
    /\ UNCHANGED <<identity, todo, lockFile, inodes, dbVars>>

----------------------------------------------------------------------------
StartInit ==
    /\ proc = [p \in Procs |-> "down"]
    /\ identity = [p \in Procs |-> [id |-> NoOwner, mode |-> "offline"]]
    /\ fd = [p \in Procs |-> NoFile]
    /\ flocked = {}
    /\ todo = [p \in Procs |-> {}]
    /\ lockFile = NoFile /\ inodes = 0
    /\ ledger = [v \in Migrations |-> "none"]
    /\ schema = [v \in Migrations |-> "none"]
    /\ owner = NoOwner
    /\ kills = 0

StartNext ==
    \E p \in Procs :
      \/ \E i \in Identities, mode \in {"online", "offline"} : LaunchProcess(p, i, mode)
      \/ OpenLock(p) \/ Flock(p) \/ LockRefused(p) \/ CloseLock(p) \/ UnlinkLock(p)
      \/ CapabilitiesMissing(p) \/ ReadLedger(p)
      \/ BeginMigration(p) \/ MigrationRefused(p) \/ RunStatements(p) \/ EndMigration(p) \/ MigrationFails(p)
      \/ OpenWriter(p) \/ VerifyIdentity(p) \/ IdentityRefused(p) \/ Serve(p) \/ RecoveryFails(p)
      \/ StopServing(p) \/ CloseConnections(p) \/ Kill(p)

StartSpec == StartInit /\ [][StartNext]_startVars

----------------------------------------------------------------------------
(* Properties. *)

(***************************************************************************)
(* A process that writes to the profile holds a lock, has every migration  *)
(* completed with its whole script, and once past the identity check works *)
(* for the owner of the profile: whatever was killed or failed before, and *)
(* even when the removal of the lock file lets two processes in.           *)
(***************************************************************************)
WritesOwnMigratedProfile ==
    \A p \in Procs :
        /\ proc[p] \in Writing => p \in flocked
        /\ proc[p] \in Writing => \A v \in Migrations : ledger[v] = "completed" /\ schema[v] = "all"
        /\ proc[p] \in {"recovering", "serving"} => owner = identity[p].id

\* A script that a killed process left unfinished.
Interrupted(v) == ledger[v] = "running" /\ \A q \in Procs : proc[q] = "script" => NextVersion(q) # v

(***************************************************************************)
(* The design document: a start that finds a running row takes the last    *)
(* one for interrupted and executes the script again.  So a start is never *)
(* refused for the row of an interrupted migration.                        *)
(***************************************************************************)
InterruptedIsRerun ==
    [][\A p \in Procs : proc[p] = "migrating" /\ todo[p] # {} /\ Interrupted(NextVersion(p))
                        => proc'[p] # "unlock"]_startVars
=============================================================================
