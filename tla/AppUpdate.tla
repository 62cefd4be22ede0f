----------------------------- MODULE AppUpdate -----------------------------
(***************************************************************************)
(* Self-update of the desktop application (apps/desktop-core: commands/    *)
(* updater.rs, update/rollback.rs).  The directory that is updated is the  *)
(* application data directory itself: it holds the profiles, the marker of *)
(* a pending update, the backups, the stable marker and the start of the   *)
(* health observation, and an installation replaces it as a whole.         *)
(*                                                                         *)
(* updaterInstall, updaterVerifyLaunch and updaterRestoreStable are        *)
(* independent asynchronous commands and share no lock: any number of them *)
(* may be at work, every file operation may fail and the application may   *)
(* die between any two changes on the disk.                                *)
(***************************************************************************)
EXTENDS Naturals

CONSTANTS
    Jobs,          \* the commands that may be at work together
    Backups,       \* backup ids
    MaxVersion,    \* bound: versions of the application
    NoTree,        \* no directory
    NoMarker

AppVersions == 1..MaxVersion

\* What a data directory holds.
Package == [profiles |-> FALSE, marker |-> NoMarker, backups |-> {}, stable |-> FALSE,
            observed |-> "no"]
FirstTree == [Package EXCEPT !.profiles = TRUE]

Markers == [to : AppVersions, backup : Backups] \cup {NoMarker}
DataTree == [profiles : BOOLEAN, marker : Markers, backups : SUBSET Backups, stable : BOOLEAN,
             observed : {"no", "recently", "long ago"}]

ASSUME UpdateAssumption == NoTree \notin DataTree

VARIABLES
    app,        \* version of the running application
    running,
    base,       \* the data directory
    old,        \* per command, the directory that its exchange has moved aside
    aside,      \* such a directory was left behind, by a crash or a failed removal
    archive,    \* the contents of the backups ever made
    job,        \* the commands at work
    overlapped  \* history: a command began while another one was at work

updateVars == <<app, running, base, old, aside, archive, job, overlapped>>

NoJob == [pc |-> "idle", kind |-> "none", source |-> NoTree, to |-> 1, backup |-> NoTree]
To(j, pc) == job' = [job EXCEPT ![j].pc = pc]
Done(j) == job' = [job EXCEPT ![j] = NoJob]

\* A command starts, while others may be at work.
Begins(j) ==
    /\ running /\ job[j] = NoJob
    /\ overlapped' = (overlapped \/ \E k \in Jobs : job[k] # NoJob)

\* ensure_dirs makes a missing directory again; a change of files in a directory
\* that is missing is skipped or fails.
EnsureDirs == IF base = NoTree THEN Package ELSE base
Change(tree) == base' = IF base = NoTree THEN NoTree ELSE tree

UpdateInit ==
    /\ app = 1 /\ running = TRUE
    /\ base = FirstTree /\ old = [j \in Jobs |-> NoTree] /\ aside = FALSE
    /\ archive = [b \in Backups |-> NoTree]
    /\ job = [j \in Jobs |-> NoJob] /\ overlapped = FALSE
-----------------------------------------------------------------------------
(* updater_install: a newer signed package has been downloaded and checked. *)

\* validate_manifest: a newer version, signed with a trusted key of the open
\* profile.
Installable(v) == base # NoTree /\ base.profiles /\ v > app

InstallBegins(j, v) ==
    /\ Begins(j) /\ Installable(v)
    /\ job' = [job EXCEPT ![j] = [NoJob EXCEPT !.pc = "backup", !.kind = "install",
                                               !.source = Package, !.to = v]]
    /\ UNCHANGED <<app, running, base, old, aside, archive>>

\* The directory for the download is made, also where nothing is installed then.
InstallRefused(j) ==
    /\ Begins(j)
    /\ base = NoTree /\ base' = Package
    /\ UNCHANGED <<app, running, old, aside, archive, job>>

\* cache_current_install packs the directory into a new backup inside it.
CacheCurrentInstall(j, b) ==
    /\ job[j].pc = "backup" /\ archive[b] = NoTree
    /\ archive' = [archive EXCEPT ![b] = EnsureDirs]
    /\ base' = [EnsureDirs EXCEPT !.backups = @ \cup {b}]
    /\ job' = [job EXCEPT ![j].pc = "marker", ![j].backup = b]
    /\ UNCHANGED <<app, running, old, aside, overlapped>>

CreatePendingMarker(j) ==
    /\ job[j].pc = "marker"
    /\ base' = [EnsureDirs EXCEPT !.marker = [to |-> job[j].to, backup |-> job[j].backup]]
    /\ To(j, "extract")
    /\ UNCHANGED <<app, running, old, aside, archive, overlapped>>
-----------------------------------------------------------------------------
(* safe_extract: the package or a backup takes the place of the directory. *)

\* The archive is listed, unpacked beside the directory and checked.  A backup must
\* still be there; the package of an installation is taken to be.
Extracted(j) ==
    /\ job[j].pc = "extract"
    /\ job[j].kind = "restore" => base # NoTree /\ job[j].backup \in base.backups
    /\ To(j, "aside")
    /\ UNCHANGED <<app, running, base, old, aside, archive, overlapped>>

MoveAside(j) ==
    /\ job[j].pc = "aside"
    /\ old' = [old EXCEPT ![j] = base] /\ base' = NoTree
    /\ To(j, "place")
    /\ UNCHANGED <<app, running, aside, archive, overlapped>>

\* A directory is not renamed over one that another command has made meanwhile.
Place(j) ==
    /\ job[j].pc = "place" /\ base = NoTree
    /\ base' = job[j].source
    /\ To(j, "drop")
    /\ UNCHANGED <<app, running, old, aside, archive, overlapped>>

\* The second rename fails: the first one is taken back, unless that fails too.
PlaceFails(j, back) ==
    /\ job[j].pc = "place"
    /\ back => base = NoTree
    /\ base' = IF back THEN old[j] ELSE base
    /\ aside' = (aside \/ (~back /\ old[j] # NoTree))
    /\ old' = [old EXCEPT ![j] = NoTree]
    /\ Done(j)
    /\ UNCHANGED <<app, running, archive, overlapped>>

\* A failing removal of the old directory is not noticed.
DropOld(j, removed) ==
    /\ job[j].pc = "drop"
    /\ aside' = (aside \/ (~removed /\ old[j] # NoTree))
    /\ old' = [old EXCEPT ![j] = NoTree]
    /\ IF job[j].kind = "restore" THEN To(j, "unmark") ELSE Done(j)
    /\ UNCHANGED <<app, running, base, archive, overlapped>>
-----------------------------------------------------------------------------
(* updater_restore_stable *)

\* restore_backup needs the archive that the marker names.
HasBackup == base.marker.backup \in base.backups

RestoreBegins(j) ==
    /\ Begins(j) /\ base # NoTree /\ base.marker # NoMarker /\ HasBackup
    /\ job' = [job EXCEPT ![j] = [NoJob EXCEPT !.pc = "extract", !.kind = "restore",
                                               !.source = archive[base.marker.backup],
                                               !.backup = base.marker.backup]]
    /\ UNCHANGED <<app, running, base, old, aside, archive>>

\* delete_pending_marker, after a restore and at the end of a verification.
DeletePendingMarker(j) ==
    /\ job[j].pc = "unmark"
    /\ Change([base EXCEPT !.marker = NoMarker])
    /\ \/ job[j].kind = "restore" /\ Done(j)
       \/ job[j].kind = "stable" /\ To(j, "drop_backup")
       \/ job[j].kind = "unhealthy" /\ To(j, "forget")
    /\ UNCHANGED <<app, running, old, aside, archive, overlapped>>
-----------------------------------------------------------------------------
(* verify_pending_update; with no marker, no Sidecar or another version it *)
(* changes nothing.                                                        *)

Verifiable == base # NoTree /\ base.marker # NoMarker /\ base.marker.to = app

AlreadyStable(j) ==
    /\ Begins(j) /\ Verifiable /\ base.stable
    /\ base' = [base EXCEPT !.marker = NoMarker]
    /\ UNCHANGED <<app, running, old, aside, archive, job>>

ObservationStarts(j) ==
    /\ Begins(j) /\ Verifiable /\ ~base.stable /\ base.observed = "no"
    /\ base' = [base EXCEPT !.observed = "recently"]
    /\ UNCHANGED <<app, running, old, aside, archive, job>>

\* Thirty seconds pass.
ObservationIsDue ==
    /\ base # NoTree /\ base.observed = "recently"
    /\ base' = [base EXCEPT !.observed = "long ago"]
    /\ UNCHANGED <<app, running, old, aside, archive, job, overlapped>>

\* The marker has been read and the health checks wait for the Sidecar.
VerifyBegins(j) ==
    /\ Begins(j) /\ Verifiable /\ ~base.stable /\ base.observed = "long ago"
    /\ job' = [job EXCEPT ![j] = [NoJob EXCEPT !.pc = "check", !.backup = base.marker.backup]]
    /\ UNCHANGED <<app, running, base, old, aside, archive>>

HealthChecksPassBackupFirst(j) ==  \* mutant: the backup goes before the marker
    /\ job[j].pc = "check"
    /\ base' = [EnsureDirs EXCEPT !.stable = TRUE]
    /\ job' = [job EXCEPT ![j].pc = "drop_backup", ![j].kind = "stable"]
    /\ UNCHANGED <<app, running, old, aside, archive, overlapped>>

\* The health checks pass: mark_stable, then the pending marker, the backup and
\* the observation are removed.
HealthChecksPass(j) ==
    /\ job[j].pc = "check"
    /\ base' = [EnsureDirs EXCEPT !.stable = TRUE]
    /\ job' = [job EXCEPT ![j].pc = "unmark", ![j].kind = "stable"]
    /\ UNCHANGED <<app, running, old, aside, archive, overlapped>>

DeleteBackup(j) ==
    /\ job[j].pc = "drop_backup"
    /\ Change([base EXCEPT !.backups = @ \ {job[j].backup}])
    /\ To(j, "forget")
    /\ UNCHANGED <<app, running, old, aside, archive, overlapped>>

\* trigger_rollback only removes the marker and the observation.
HealthChecksFail(j) ==
    /\ job[j].pc = "check"
    /\ job' = [job EXCEPT ![j].pc = "unmark", ![j].kind = "unhealthy"]
    /\ UNCHANGED <<app, running, base, old, aside, archive, overlapped>>

ForgetObservation(j) ==
    /\ job[j].pc = "forget"
    /\ Change([base EXCEPT !.observed = "no"])
    /\ Done(j)
    /\ UNCHANGED <<app, running, old, aside, archive, overlapped>>
-----------------------------------------------------------------------------
\* A file operation fails: the command ends with its error.
FileStepFails(j) ==
    /\ job[j].pc \in {"backup", "marker", "extract", "aside", "check", "unmark", "drop_backup"}
    /\ Done(j)
    /\ UNCHANGED <<app, running, base, old, aside, archive, overlapped>>

UpdaterDies ==
    /\ running
    /\ running' = FALSE /\ job' = [j \in Jobs |-> NoJob]
    /\ aside' = (aside \/ \E j \in Jobs : old[j] # NoTree)
    /\ old' = [j \in Jobs |-> NoTree]
    /\ UNCHANGED <<app, base, archive, overlapped>>

\* LocalStore::initialize makes a new data directory where there is none.  The
\* application may have been replaced by hand in between.
Launch(v) ==
    /\ ~running /\ v >= app
    /\ running' = TRUE /\ app' = v
    /\ base' = EnsureDirs
    /\ UNCHANGED <<old, aside, archive, job, overlapped>>

CommandStep(j) ==
    \/ \E v \in AppVersions : InstallBegins(j, v)
    \/ InstallRefused(j)
    \/ \E b \in Backups : CacheCurrentInstall(j, b)
    \/ CreatePendingMarker(j)
    \/ Extracted(j) \/ MoveAside(j) \/ Place(j)
    \/ \E back \in BOOLEAN : PlaceFails(j, back)
    \/ \E removed \in BOOLEAN : DropOld(j, removed)
    \/ RestoreBegins(j) \/ DeletePendingMarker(j)
    \/ AlreadyStable(j) \/ ObservationStarts(j) \/ VerifyBegins(j)
    \/ HealthChecksPass(j) \/ DeleteBackup(j) \/ HealthChecksFail(j) \/ ForgetObservation(j)
    \/ FileStepFails(j)

UpdateNext ==
    \/ \E j \in Jobs : CommandStep(j)
    \/ ObservationIsDue
    \/ UpdaterDies
    \/ \E v \in AppVersions : Launch(v)

UpdateSpec == UpdateInit /\ [][UpdateNext]_updateVars
-----------------------------------------------------------------------------
(***************************************************************************)
(* An update that is not finished can be undone, whatever failed           *)
(* installations, restores, verifications and crashes led there.  When     *)
(* there is no data directory, one that was moved aside is still on the    *)
(* disk: this holds although commands overlap.  As long as the marker of   *)
(* an update is in the data directory, so is the backup it names, if no    *)
(* command has begun while another one was at work.                        *)
(* (create_pending_marker comes after cache_current_install, delete_backup *)
(* after delete_pending_marker, and safe_extract removes the old directory *)
(* last.  A finished installation is not covered: the new directory has    *)
(* neither the marker nor the backup.)                                     *)
(***************************************************************************)
UnfinishedUpdateCanBeUndone ==
    IF base = NoTree THEN aside \/ \E j \in Jobs : old[j] # NoTree
    ELSE base.marker # NoMarker => overlapped \/ HasBackup
=============================================================================
