----------------------------- MODULE HostProofs -----------------------------
(***************************************************************************)
(* The parts of the desktop host that change files, for any number of      *)
(* backups, calls, approvals, credentials and runs: self-update, approved  *)
(* writes outside the workspace, and provider credentials.                 *)
(***************************************************************************)
EXTENDS AppUpdate, ExternalWrite, Credentials, Integers, TLAPS

-----------------------------------------------------------------------------
(* AppUpdate.  Whatever the order of the commands, the directories that    *)
(* exist, the ones inside backups too, hold only backups that were made    *)
(* (TreesSound), and a missing data directory was moved aside by an        *)
(* exchange that is not yet at its end, or was left behind (MovedAside).   *)
(* As long as no two commands have overlapped, at most one is at work      *)
(* (OneAtWork), the marker in every directory names a backup that it holds *)
(* (TreesRestorable), and the command at work knows which directories      *)
(* exist at its step (JobKnows).                                           *)

JobRow == [pc : {"idle", "backup", "marker", "extract", "aside", "place", "drop", "check",
                 "unmark", "drop_backup", "forget"},
           kind : {"none", "install", "restore", "stable", "unhealthy"},
           source : DataTree \cup {NoTree}, to : AppVersions \cup {1},
           backup : Backups \cup {NoTree}]

Trees == DataTree \cup {NoTree}

UpdateTypeOK ==
    /\ base \in Trees /\ old \in [Jobs -> Trees]
    /\ aside \in BOOLEAN /\ running \in BOOLEAN /\ overlapped \in BOOLEAN
    /\ archive \in [Backups -> Trees]
    /\ job \in [Jobs -> JobRow]

Made == {b \in Backups : archive[b] # NoTree}

\* A directory that exists and holds no backup but the ones that were made.
Sound(tree, made) == tree \in DataTree /\ tree.backups \subseteq made

TreesSound ==
    /\ base # NoTree => Sound(base, Made)
    /\ \A j \in Jobs : old[j] # NoTree => Sound(old[j], Made)
    /\ \A b \in Made : Sound(archive[b], Made)

\* What a command keeps for its later steps.
RowSound(row, made) ==
    /\ row.pc \in {"backup", "marker", "extract", "aside", "place", "drop"} => Sound(row.source, made)
    /\ row.pc \in {"backup", "marker"} => row.to \in AppVersions
    /\ row.pc = "marker" => row.backup \in Backups
JobsSound == \A j \in Jobs : RowSound(job[j], Made)

MovedAside == base = NoTree => aside \/ \E j \in Jobs : job[j].pc = "place" /\ old[j] # NoTree

OneAtWork == \A j, k \in Jobs : job[j].pc # "idle" /\ job[k].pc # "idle" => j = k

\* A directory whose update can be undone.
Restorable(tree) == tree.marker # NoMarker => tree.marker.backup \in tree.backups

TreesRestorable ==
    /\ base # NoTree => Restorable(base)
    /\ \A j \in Jobs : old[j] # NoTree => Restorable(old[j])
    /\ \A b \in Made : Restorable(archive[b])

RowKnows(row, tree) ==
    /\ row.pc \notin {"idle", "place"} => tree # NoTree
    /\ row.pc \in {"backup", "marker", "extract", "aside", "place", "drop"} => Restorable(row.source)
    /\ row.pc = "marker" => row.backup \in tree.backups
    /\ row.pc = "drop_backup" => tree.marker = NoMarker
JobKnows == \A j \in Jobs : RowKnows(job[j], base)

Alone == OneAtWork /\ TreesRestorable /\ JobKnows

UpdateInv == UpdateTypeOK /\ TreesSound /\ JobsSound /\ MovedAside /\ (~overlapped => Alone)

\* A directory with another set of backups.
LEMMA BackupsUpdate ==
    ASSUME NEW t \in DataTree, NEW B \in SUBSET Backups
    PROVE  LET u == [t EXCEPT !.backups = B]
           IN  u \in DataTree /\ u.marker = t.marker /\ u.backups = B
BY DEF DataTree

\* What the commands do to a directory.
LEMMA TreeUpdates ==
    /\ Package \in DataTree /\ FirstTree \in DataTree
    /\ Package.marker = NoMarker /\ Package.backups = {}
    /\ FirstTree.marker = NoMarker /\ FirstTree.backups = {}
    /\ \A t \in DataTree, b \in Backups :
          LET u == [t EXCEPT !.backups = @ \cup {b}]
          IN  u \in DataTree /\ u.marker = t.marker /\ u.backups = t.backups \cup {b}
    /\ \A t \in DataTree, B \in SUBSET Backups :
          LET u == [t EXCEPT !.backups = B]
          IN  u \in DataTree /\ u.marker = t.marker /\ u.backups = B
    /\ \A t \in DataTree, m \in Markers :
          LET u == [t EXCEPT !.marker = m]
          IN  u \in DataTree /\ u.marker = m /\ u.backups = t.backups
    /\ \A t \in DataTree :
          LET u == [t EXCEPT !.stable = TRUE]
          IN  u \in DataTree /\ u.marker = t.marker /\ u.backups = t.backups
    /\ \A t \in DataTree, o \in {"no", "recently", "long ago"} :
          LET u == [t EXCEPT !.observed = o]
          IN  u \in DataTree /\ u.marker = t.marker /\ u.backups = t.backups
  BY DEF DataTree, Package, FirstTree, Markers

LEMMA NoJobRow == NoJob \in JobRow /\ NoJob.pc = "idle"
  BY DEF JobRow, NoJob

\* To and Done change one row.
LEMMA JobMoves ==
    ASSUME job \in [Jobs -> JobRow], NEW j \in Jobs,
           NEW pc \in {"extract", "aside", "place", "drop", "unmark", "drop_backup", "forget"},
           To(j, pc)
    PROVE  /\ job' \in [Jobs -> JobRow]
           /\ \A k \in Jobs \ {j} : job'[k] = job[k]
           /\ job'[j].pc = pc /\ job'[j].source = job[j].source
<1> DEFINE row == [job[j] EXCEPT !.pc = pc]
<1>1. row \in JobRow /\ row.pc = pc /\ row.source = job[j].source
  BY DEF JobRow
<1>2. job' = [job EXCEPT ![j] = row]
  BY DEF To
<1> HIDE DEF row
<1> QED
  BY <1>1, <1>2

LEMMA JobEnds ==
    ASSUME job \in [Jobs -> JobRow], NEW j \in Jobs, Done(j)
    PROVE  /\ job' \in [Jobs -> JobRow]
           /\ \A k \in Jobs \ {j} : job'[k] = job[k]
           /\ job'[j].pc = "idle"
  BY NoJobRow DEF Done

\* Until commands overlap, a command begins when none is at work.
LEMMA BeginsAlone ==
    ASSUME UpdateInv, NEW j \in Jobs, Begins(j), ~overlapped'
    PROVE  ~overlapped /\ Alone /\ \A k \in Jobs : job[k].pc = "idle"
  BY NoJobRow DEF Begins, UpdateInv

LEMMA WorksAlone ==
    ASSUME UpdateInv, NEW j \in Jobs, job[j].pc # "idle", ~overlapped
    PROVE  Alone /\ \A k \in Jobs \ {j} : job[k].pc = "idle"
  BY DEF UpdateInv, Alone, OneAtWork

\* A step of one command that moves no directory and makes no backup.
LEMMA StepInPlace ==
    ASSUME UpdateInv, NEW j \in Jobs,
           job' \in [Jobs -> JobRow], \A k \in Jobs \ {j} : job'[k] = job[k],
           UNCHANGED <<running, old, aside, archive>>,
           overlapped' \in BOOLEAN, ~overlapped' => ~overlapped,
           base' = NoTree \/ Sound(base', Made), base' = NoTree => base = NoTree,
           job[j].pc # "place", RowSound(job'[j], Made),
           ~overlapped' =>
              /\ \A k \in Jobs \ {j} : job[k].pc = "idle"
              /\ base' # NoTree => Restorable(base')
              /\ RowKnows(job'[j], base')
    PROVE  UpdateInv'
<1>0. Made' = Made
  BY DEF Made
<1>1. UpdateTypeOK'
  BY DEF UpdateInv, UpdateTypeOK, Trees, Sound
<1>2. TreesSound'
  BY <1>0 DEF UpdateInv, TreesSound
<1>3. JobsSound'
  BY <1>0 DEF UpdateInv, JobsSound
<1>4. MovedAside'
  BY DEF UpdateInv, MovedAside
<1>5. ASSUME ~overlapped' PROVE Alone'
  <2>1. OneAtWork'
    BY <1>5 DEF OneAtWork
  <2>2. TreesRestorable'
    BY <1>0, <1>5 DEF TreesRestorable, UpdateInv, Alone
  <2>3. \A k \in Jobs \ {j} : RowKnows(job'[k], base')
    BY <1>5 DEF RowKnows
  <2>4. JobKnows'
    BY <1>5, <2>3 DEF JobKnows
  <2> QED
    BY <2>1, <2>2, <2>4 DEF Alone
<1> QED
  BY <1>1, <1>2, <1>3, <1>4, <1>5 DEF UpdateInv

\* The steps with which a command begins.
LEMMA BeginningKeepsInv ==
    ASSUME UpdateInv, NEW j \in Jobs,
           \/ \E v \in AppVersions : InstallBegins(j, v)
           \/ InstallRefused(j) \/ RestoreBegins(j)
           \/ AlreadyStable(j) \/ ObservationStarts(j) \/ VerifyBegins(j)
    PROVE  UpdateInv'
<1> USE UpdateAssumption, NoJobRow
<1>0. /\ Begins(j) /\ UNCHANGED <<running, old, aside, archive>>
      /\ job \in [Jobs -> JobRow] /\ base \in Trees /\ job[j].pc = "idle"
      /\ overlapped' \in BOOLEAN /\ (~overlapped' => ~overlapped)
  BY DEF InstallBegins, InstallRefused, RestoreBegins, AlreadyStable, ObservationStarts, VerifyBegins,
         Begins, UpdateInv, UpdateTypeOK
<1>a. ~overlapped' => Alone /\ \A k \in Jobs : job[k].pc = "idle"
  BY <1>0, BeginsAlone
<1>b. base # NoTree => Sound(base, Made) /\ (~overlapped' => Restorable(base))
  BY <1>a DEF UpdateInv, TreesSound, Alone, TreesRestorable
<1>c. Sound(Package, Made) /\ Restorable(Package) /\ Package # NoTree
  BY TreeUpdates DEF Sound, Restorable
<1>1. ASSUME NEW v \in AppVersions, InstallBegins(j, v) PROVE UpdateInv'
  <2> DEFINE new == [NoJob EXCEPT !.pc = "backup", !.kind = "install", !.source = Package, !.to = v]
  <2>1. /\ new \in JobRow /\ new.pc = "backup" /\ new.source = Package /\ new.to = v
    BY TreeUpdates DEF JobRow, NoJob
  <2>2. job' = [job EXCEPT ![j] = new] /\ base' = base /\ base # NoTree
    BY <1>1 DEF InstallBegins, Installable
  <2> HIDE DEF new
  <2>3. RowSound(new, Made) /\ RowKnows(new, base)
    BY <1>c, <2>1, <2>2 DEF RowSound, RowKnows
  <2> QED
    BY <1>0, <1>a, <1>b, <2>1, <2>2, <2>3, StepInPlace
<1>2. CASE InstallRefused(j)
  <2>1. base' = Package /\ job' = job
    BY <1>2 DEF InstallRefused
  <2>2. RowSound(job[j], Made) /\ RowKnows(job[j], Package)
    BY <1>0, <1>c DEF RowSound, RowKnows
  <2> QED
    BY <1>0, <1>a, <1>c, <2>1, <2>2, StepInPlace
<1>3. CASE RestoreBegins(j)
  <2> DEFINE source == archive[base.marker.backup]
             new == [NoJob EXCEPT !.pc = "extract", !.kind = "restore", !.source = source,
                                  !.backup = base.marker.backup]
  <2>1. /\ base # NoTree /\ base.marker.backup \in base.backups
        /\ job' = [job EXCEPT ![j] = new] /\ base' = base
    BY <1>3 DEF RestoreBegins, HasBackup
  <2>2. base.marker.backup \in Made
    BY <1>b, <2>1 DEF Sound
  <2>3. Sound(source, Made) /\ (~overlapped' => Restorable(source))
    BY <1>a, <2>2 DEF UpdateInv, TreesSound, Alone, TreesRestorable
  <2>4. new \in JobRow /\ new.pc = "extract" /\ new.source = source
    <3>1. source \in DataTree /\ base.marker.backup \in Backups
      BY <2>2, <2>3 DEF Sound, Made
    <3> HIDE DEF source
    <3> QED
      BY <3>1 DEF JobRow, NoJob
  <2> HIDE DEF source, new
  <2>5. RowSound(new, Made) /\ (~overlapped' => RowKnows(new, base))
    BY <2>1, <2>3, <2>4 DEF RowSound, RowKnows
  <2> QED
    BY <1>0, <1>a, <1>b, <2>1, <2>4, <2>5, StepInPlace
<1>4. CASE AlreadyStable(j) \/ ObservationStarts(j)
  <2>1. base # NoTree /\ job' = job
    BY <1>4 DEF AlreadyStable, ObservationStarts, Verifiable
  <2>2. base \in DataTree
    BY <1>b, <2>1 DEF Sound
  <2>3. /\ base' \in DataTree /\ base'.backups = base.backups
        /\ base'.marker = base.marker \/ base'.marker = NoMarker
    <3>1. CASE AlreadyStable(j)
      <4>1. NoMarker \in Markers
        BY DEF Markers
      <4> QED
        BY <2>2, <3>1, <4>1, TreeUpdates DEF AlreadyStable
    <3>2. CASE ObservationStarts(j)
      BY <2>2, <3>2, TreeUpdates DEF ObservationStarts
    <3> QED
      BY <1>4, <3>1, <3>2
  <2>4. Sound(base', Made) /\ base' # NoTree /\ (~overlapped' => Restorable(base'))
    BY <1>b, <2>1, <2>3 DEF Sound, Restorable
  <2>5. RowSound(job[j], Made) /\ RowKnows(job[j], base')
    BY <1>0 DEF RowSound, RowKnows
  <2> QED
    BY <1>0, <1>a, <2>1, <2>4, <2>5, StepInPlace
<1>5. CASE VerifyBegins(j)
  <2> DEFINE new == [NoJob EXCEPT !.pc = "check", !.backup = base.marker.backup]
  <2>1. /\ base # NoTree /\ base.marker # NoMarker
        /\ job' = [job EXCEPT ![j] = new] /\ base' = base
    BY <1>5 DEF VerifyBegins, Verifiable
  <2>2. base.marker.backup \in Backups
    BY <1>b, <2>1 DEF Sound, DataTree, Markers
  <2>3. new \in JobRow /\ new.pc = "check"
    BY <2>2 DEF JobRow, NoJob
  <2> HIDE DEF new
  <2>4. RowSound(new, Made) /\ RowKnows(new, base)
    BY <2>1, <2>3 DEF RowSound, RowKnows
  <2> QED
    BY <1>0, <1>a, <1>b, <2>1, <2>3, <2>4, StepInPlace
<1> QED
  BY <1>1, <1>2, <1>3, <1>4, <1>5

\* The steps of a command at work that leave the directories where they are.
LEMMA WorkInPlaceKeepsInv ==
    ASSUME UpdateInv, NEW j \in Jobs,
           \/ CreatePendingMarker(j) \/ Extracted(j) \/ DeletePendingMarker(j)
           \/ HealthChecksPass(j) \/ DeleteBackup(j) \/ HealthChecksFail(j) \/ ForgetObservation(j)
           \/ FileStepFails(j)
    PROVE  UpdateInv'
<1> USE UpdateAssumption, NoJobRow
<1>0. /\ UNCHANGED <<running, old, aside, archive, overlapped>> /\ overlapped \in BOOLEAN
      /\ job \in [Jobs -> JobRow] /\ job[j].pc \notin {"idle", "place"} /\ RowSound(job[j], Made)
  BY DEF CreatePendingMarker, Extracted, DeletePendingMarker, HealthChecksPass, DeleteBackup,
         HealthChecksFail, ForgetObservation, FileStepFails, UpdateInv, UpdateTypeOK, JobsSound
<1>a. ~overlapped => Alone /\ base # NoTree /\ RowKnows(job[j], base)
                     /\ \A k \in Jobs \ {j} : job[k].pc = "idle"
  BY <1>0, WorksAlone DEF Alone, JobKnows, RowKnows
<1>b. base # NoTree => base \in DataTree /\ Sound(base, Made) /\ (~overlapped => Restorable(base))
  BY <1>a DEF UpdateInv, TreesSound, Alone, TreesRestorable, Sound
<1>c. /\ EnsureDirs \in DataTree /\ Sound(EnsureDirs, Made) /\ (~overlapped => EnsureDirs = base)
  BY <1>a, <1>b, TreeUpdates DEF EnsureDirs, Sound
<1>d. NoMarker \in Markers
  BY DEF Markers
<1>1. CASE CreatePendingMarker(j)
  <2> DEFINE m == [to |-> job[j].to, backup |-> job[j].backup]
  <2>1. job[j].pc = "marker" /\ base' = [EnsureDirs EXCEPT !.marker = m] /\ To(j, "extract")
    BY <1>1 DEF CreatePendingMarker
  <2>2. m \in Markers /\ m.backup = job[j].backup
    BY <1>0, <2>1 DEF Markers, RowSound
  <2> HIDE DEF m
  <2>3. base' \in DataTree /\ base'.marker = m /\ base'.backups = EnsureDirs.backups
    BY <1>c, <2>1, <2>2, TreeUpdates
  <2>4. base' # NoTree /\ Sound(base', Made) /\ (~overlapped => Restorable(base'))
    BY <1>a, <1>c, <2>1, <2>2, <2>3 DEF Sound, Restorable, RowKnows
  <2>5. /\ job' \in [Jobs -> JobRow] /\ (\A k \in Jobs \ {j} : job'[k] = job[k])
        /\ job'[j].pc = "extract" /\ job'[j].source = job[j].source
    BY <1>0, <2>1, JobMoves
  <2>6. RowSound(job'[j], Made) /\ (~overlapped => RowKnows(job'[j], base'))
    BY <1>0, <1>a, <2>1, <2>4, <2>5 DEF RowSound, RowKnows
  <2> QED
    BY <1>0, <1>a, <2>4, <2>5, <2>6, StepInPlace
<1>2. CASE Extracted(j)
  <2>1. job[j].pc = "extract" /\ base' = base /\ To(j, "aside")
    BY <1>2 DEF Extracted
  <2>2. /\ job' \in [Jobs -> JobRow] /\ (\A k \in Jobs \ {j} : job'[k] = job[k])
        /\ job'[j].pc = "aside" /\ job'[j].source = job[j].source
    BY <1>0, <2>1, JobMoves
  <2>3. RowSound(job'[j], Made) /\ (~overlapped => RowKnows(job'[j], base'))
    BY <1>0, <1>a, <2>1, <2>2 DEF RowSound, RowKnows
  <2> QED
    BY <1>0, <1>a, <1>b, <2>1, <2>2, <2>3, StepInPlace
<1>3. CASE DeletePendingMarker(j) \/ DeleteBackup(j) \/ ForgetObservation(j)
  <2>1. /\ base = NoTree => base' = NoTree
        /\ base # NoTree => /\ base' \in DataTree /\ base'.backups \subseteq base.backups
                            /\ base'.marker \in {base.marker, NoMarker}
                            /\ job[j].pc # "drop_backup" => base'.backups = base.backups
                            /\ job[j].pc = "unmark" => base'.marker = NoMarker
    <3>1. CASE DeletePendingMarker(j)
      BY <1>b, <1>d, <3>1, TreeUpdates DEF DeletePendingMarker, Change
    <3>2. CASE DeleteBackup(j)
      <4> DEFINE rest == base.backups \ {job[j].backup}
                 tree == [base EXCEPT !.backups = rest]
      <4>1. base # NoTree => rest \in SUBSET Backups /\ rest \subseteq base.backups
        BY <1>b DEF DataTree
      <4>2. base' = (IF base = NoTree THEN NoTree ELSE tree) /\ job[j].pc = "drop_backup"
        BY <3>2 DEF DeleteBackup, Change
      <4> HIDE DEF rest
      <4>3. base # NoTree => tree \in DataTree /\ tree.marker = base.marker /\ tree.backups = rest
        BY <1>b, <4>1, BackupsUpdate
      <4> HIDE DEF tree
      <4> QED
        BY <4>1, <4>2, <4>3
    <3>3. CASE ForgetObservation(j)
      BY <1>b, <3>3, TreeUpdates DEF ForgetObservation, Change
    <3> QED
      BY <1>3, <3>1, <3>2, <3>3
  <2>2. /\ base' = NoTree \/ Sound(base', Made)
        /\ base' = NoTree => base = NoTree
        /\ ~overlapped => Restorable(base')
    BY <1>a, <1>b, <2>1 DEF Sound, Restorable, RowKnows
  <2>3. /\ job' \in [Jobs -> JobRow] /\ (\A k \in Jobs \ {j} : job'[k] = job[k])
        /\ job'[j].pc \in {"idle", "drop_backup", "forget"}
        /\ job'[j].pc = "drop_backup" => job[j].pc = "unmark"
    <3>1. Done(j) \/ (To(j, "drop_backup") /\ job[j].pc = "unmark") \/ To(j, "forget")
      BY <1>3 DEF DeletePendingMarker, DeleteBackup, ForgetObservation
    <3> QED
      BY <1>0, <3>1, JobMoves, JobEnds
  <2>4. RowSound(job'[j], Made) /\ (~overlapped => RowKnows(job'[j], base'))
    BY <1>a, <2>1, <2>2, <2>3 DEF RowSound, RowKnows
  <2> QED
    BY <1>0, <1>a, <2>2, <2>3, <2>4, StepInPlace
<1>4. CASE HealthChecksPass(j) \/ HealthChecksFail(j)
  <2>1. /\ base' = NoTree \/ Sound(base', Made)
        /\ base' = NoTree => base = NoTree
        /\ ~overlapped => base' # NoTree /\ Restorable(base')
    <3>1. CASE HealthChecksPass(j)
      <4>1. /\ base' \in DataTree /\ base'.marker = EnsureDirs.marker
            /\ base'.backups = EnsureDirs.backups
        BY <1>c, <3>1, TreeUpdates DEF HealthChecksPass
      <4> QED
        BY <1>a, <1>b, <1>c, <4>1 DEF Sound, Restorable
    <3>2. CASE HealthChecksFail(j)
      BY <1>a, <1>b, <3>2 DEF HealthChecksFail
    <3> QED
      BY <1>4, <3>1, <3>2
  <2>2. PICK kind \in {"stable", "unhealthy"} : job' = [job EXCEPT ![j].pc = "unmark", ![j].kind = kind]
    BY <1>4 DEF HealthChecksPass, HealthChecksFail
  <2> DEFINE row == [job[j] EXCEPT !.pc = "unmark", !.kind = kind]
  <2>3. row \in JobRow /\ row.pc = "unmark"
    BY <1>0 DEF JobRow
  <2>4. job' = [job EXCEPT ![j] = row]
    BY <2>2
  <2> HIDE DEF row
  <2>5. /\ job' \in [Jobs -> JobRow] /\ (\A k \in Jobs \ {j} : job'[k] = job[k])
        /\ job'[j].pc = "unmark"
    BY <1>0, <2>3, <2>4
  <2>6. RowSound(job'[j], Made) /\ (~overlapped => RowKnows(job'[j], base'))
    BY <2>1, <2>5 DEF RowSound, RowKnows
  <2> QED
    BY <1>0, <1>a, <2>1, <2>5, <2>6, StepInPlace
<1>5. CASE FileStepFails(j)
  <2>1. base' = base /\ Done(j)
    BY <1>5 DEF FileStepFails
  <2>2. /\ job' \in [Jobs -> JobRow] /\ (\A k \in Jobs \ {j} : job'[k] = job[k])
        /\ job'[j].pc = "idle"
    BY <1>0, <2>1, JobEnds
  <2>3. RowSound(job'[j], Made) /\ RowKnows(job'[j], base')
    BY <2>2 DEF RowSound, RowKnows
  <2> QED
    BY <1>0, <1>a, <1>b, <2>1, <2>2, <2>3, StepInPlace
<1> QED
  BY <1>1, <1>2, <1>3, <1>4, <1>5

\* A backup that is made keeps every directory sound.
LEMMA SoundMonotone ==
    ASSUME NEW t, NEW S, NEW T, Sound(t, S), S \subseteq T
    PROVE  Sound(t, T)
  BY DEF Sound

\* cache_current_install.
LEMMA CacheKeepsInv ==
    ASSUME UpdateInv, NEW j \in Jobs, NEW b \in Backups, CacheCurrentInstall(j, b)
    PROVE  UpdateInv'
<1> USE UpdateAssumption
<1> DEFINE row == [job[j] EXCEPT !.pc = "marker", !.backup = b]
<1>1. /\ job[j].pc = "backup" /\ job \in [Jobs -> JobRow] /\ RowSound(job[j], Made)
      /\ archive \in [Backups -> Trees] /\ archive[b] = NoTree
  BY DEF CacheCurrentInstall, UpdateInv, UpdateTypeOK, JobsSound
<1>2. /\ row \in JobRow /\ row.pc = "marker" /\ row.backup = b
      /\ row.source = job[j].source /\ row.to = job[j].to
  BY <1>1 DEF JobRow
<1>3. /\ base' = [EnsureDirs EXCEPT !.backups = @ \cup {b}]
      /\ archive' = [archive EXCEPT ![b] = EnsureDirs]
      /\ job' = [job EXCEPT ![j] = row]
      /\ UNCHANGED <<running, old, aside, overlapped>>
  BY DEF CacheCurrentInstall
<1> HIDE DEF row
<1>4. ~overlapped => Alone /\ base # NoTree /\ Restorable(job[j].source)
                     /\ \A k \in Jobs \ {j} : job[k].pc = "idle"
  BY <1>1, WorksAlone DEF Alone, JobKnows, RowKnows
<1>5. /\ Sound(EnsureDirs, Made) /\ EnsureDirs \in DataTree
      /\ ~overlapped => Restorable(EnsureDirs)
  BY <1>4, TreeUpdates DEF EnsureDirs, UpdateInv, TreesSound, Alone, TreesRestorable, Sound
<1>6. /\ base' \in DataTree /\ base'.marker = EnsureDirs.marker
      /\ base'.backups = EnsureDirs.backups \cup {b}
  BY <1>3, <1>5, TreeUpdates
<1>7. /\ job' \in [Jobs -> JobRow] /\ (\A k \in Jobs \ {j} : job'[k] = job[k]) /\ job'[j] = row
      /\ base' # NoTree /\ EnsureDirs # NoTree
  BY <1>1, <1>2, <1>3, <1>5, <1>6
<1>8. Made' = Made \cup {b}
  BY <1>1, <1>3, <1>7 DEF Made
<1>9. UpdateTypeOK'
  BY <1>1, <1>3, <1>5, <1>6, <1>7 DEF UpdateInv, UpdateTypeOK, Trees
<1>10. TreesSound'
  <2>1. Sound(base', Made')
    BY <1>5, <1>6, <1>8 DEF Sound
  <2>2. \A k \in Jobs : old'[k] # NoTree => Sound(old'[k], Made')
    BY <1>3, <1>8, SoundMonotone DEF UpdateInv, TreesSound
  <2>3. \A x \in Made' : Sound(archive'[x], Made')
    BY <1>1, <1>3, <1>5, <1>8, SoundMonotone DEF UpdateInv, TreesSound, Made
  <2> QED
    BY <2>1, <2>2, <2>3 DEF TreesSound
<1>11. JobsSound'
  <2>1. RowSound(row, Made')
    BY <1>1, <1>2, <1>8 DEF RowSound, Sound
  <2>2. \A k \in Jobs : RowSound(job[k], Made')
    BY <1>8, SoundMonotone DEF UpdateInv, JobsSound, RowSound
  <2> QED
    BY <1>7, <2>1, <2>2 DEF JobsSound
<1>12. MovedAside'
  BY <1>7 DEF MovedAside
<1>13. ASSUME ~overlapped' PROVE Alone'
  <2>0. ~overlapped
    BY <1>3, <1>13
  <2>1. OneAtWork'
    BY <1>4, <1>7, <2>0 DEF OneAtWork
  <2>2. TreesRestorable'
    <3>1. Restorable(base')
      BY <1>5, <1>6, <2>0 DEF Restorable
    <3>2. \A x \in Made' : Restorable(archive'[x])
      BY <1>1, <1>3, <1>4, <1>5, <1>8, <2>0 DEF Alone, TreesRestorable, Made
    <3> QED
      BY <1>3, <1>4, <2>0, <3>1, <3>2 DEF Alone, TreesRestorable
  <2>3. RowKnows(row, base')
    BY <1>2, <1>4, <1>6, <1>7, <2>0 DEF RowKnows
  <2>4. \A k \in Jobs \ {j} : RowKnows(job[k], base')
    BY <1>4, <2>0 DEF RowKnows
  <2>5. JobKnows'
    BY <1>7, <2>3, <2>4 DEF JobKnows
  <2> QED
    BY <2>1, <2>2, <2>5 DEF Alone
<1> QED
  BY <1>9, <1>10, <1>11, <1>12, <1>13 DEF UpdateInv

\* The exchange of the directories.
LEMMA ExchangeKeepsInv ==
    ASSUME UpdateInv, NEW j \in Jobs,
           \/ MoveAside(j) \/ Place(j)
           \/ \E back \in BOOLEAN : PlaceFails(j, back)
           \/ \E removed \in BOOLEAN : DropOld(j, removed)
    PROVE  UpdateInv'
<1> USE UpdateAssumption, NoJobRow
<1>0. /\ UNCHANGED <<running, archive, overlapped>> /\ Made' = Made
      /\ job \in [Jobs -> JobRow] /\ job[j].pc \in {"aside", "place", "drop"}
      /\ RowSound(job[j], Made) /\ old \in [Jobs -> Trees] /\ base \in Trees
  BY DEF MoveAside, Place, PlaceFails, DropOld, UpdateInv, UpdateTypeOK, JobsSound, Made
<1>a. ~overlapped => Alone /\ RowKnows(job[j], base) /\ \A k \in Jobs \ {j} : job[k].pc = "idle"
  BY <1>0, WorksAlone DEF Alone, JobKnows
<1>b. /\ Sound(job[j].source, Made) /\ job[j].source # NoTree
      /\ ~overlapped => Restorable(job[j].source)
  BY <1>0, <1>a DEF RowSound, RowKnows, Sound
<1>1. \* what the step does to the rows
      /\ job' \in [Jobs -> JobRow] /\ (\A k \in Jobs \ {j} : job'[k] = job[k])
      /\ RowSound(job'[j], Made) /\ job'[j].pc \in {"place", "drop", "unmark", "idle"}
      /\ job'[j].pc \in {"place", "drop"} => job'[j].source = job[j].source
  <2>1. CASE MoveAside(j)
    BY <1>0, <2>1, JobMoves DEF MoveAside, RowSound
  <2>2. CASE Place(j)
    BY <1>0, <2>2, JobMoves DEF Place, RowSound
  <2>3. CASE \E back \in BOOLEAN : PlaceFails(j, back)
    BY <1>0, <2>3, JobEnds DEF PlaceFails, RowSound
  <2>4. CASE \E removed \in BOOLEAN : DropOld(j, removed)
    BY <1>0, <2>4, JobMoves, JobEnds DEF DropOld, RowSound
  <2> QED
    BY <2>1, <2>2, <2>3, <2>4
<1>2. \* and to the directories
      /\ old' \in [Jobs -> Trees] /\ aside' \in BOOLEAN /\ (aside => aside')
      /\ (\A k \in Jobs \ {j} : old'[k] = old[k])
      /\ base' \in {base, NoTree, old[j], job[j].source}
      /\ old'[j] \in {base, old[j], NoTree}
  <2>1. CASE MoveAside(j)
    BY <1>0, <2>1 DEF MoveAside, UpdateInv, UpdateTypeOK
  <2>2. CASE Place(j)
    BY <1>0, <2>2 DEF Place, UpdateInv, UpdateTypeOK
  <2>3. CASE \E back \in BOOLEAN : PlaceFails(j, back)
    BY <1>0, <2>3 DEF PlaceFails, UpdateInv, UpdateTypeOK, Trees
  <2>4. CASE \E removed \in BOOLEAN : DropOld(j, removed)
    BY <1>0, <2>4 DEF DropOld, UpdateInv, UpdateTypeOK, Trees
  <2> QED
    BY <2>1, <2>2, <2>3, <2>4
<1>3. UpdateTypeOK'
  <2>1. base' \in Trees
    BY <1>0, <1>b, <1>2 DEF Trees, Sound
  <2> QED
    BY <1>0, <1>1, <1>2, <2>1 DEF UpdateInv, UpdateTypeOK
<1>4. TreesSound'
  BY <1>0, <1>b, <1>2 DEF UpdateInv, TreesSound
<1>5. JobsSound'
  BY <1>0, <1>1 DEF UpdateInv, JobsSound
<1>6. MovedAside'
  <2> SUFFICES ASSUME base' = NoTree, ~aside'
               PROVE  \E k \in Jobs : job'[k].pc = "place" /\ old'[k] # NoTree
    BY DEF MovedAside
  <2>1. CASE base # NoTree
    \* the directory goes: it is the one that this command moves aside
    <3>1. old'[j] = base /\ job'[j].pc = "place"
      <4>1. CASE MoveAside(j)
        BY <1>0, <4>1, JobMoves DEF MoveAside
      <4>2. CASE Place(j)
        BY <1>b, <2>1, <4>2 DEF Place
      <4>3. CASE \E back \in BOOLEAN : PlaceFails(j, back)
        BY <2>1, <4>3 DEF PlaceFails
      <4>4. CASE \E removed \in BOOLEAN : DropOld(j, removed)
        BY <2>1, <4>4 DEF DropOld
      <4> QED
        BY <4>1, <4>2, <4>3, <4>4
    <3> QED
      BY <2>1, <3>1
  <2>2. CASE base = NoTree
    \* another command has moved it aside, and is still at that step
    <3>1. PICK k \in Jobs : job[k].pc = "place" /\ old[k] # NoTree
      BY <1>2, <2>2 DEF UpdateInv, MovedAside
    <3>2. k # j
      <4>1. CASE MoveAside(j)
        BY <3>1, <4>1 DEF MoveAside
      <4>2. CASE Place(j)
        BY <1>b, <4>2 DEF Place
      <4>3. CASE \E back \in BOOLEAN : PlaceFails(j, back)
        BY <2>2, <3>1, <4>3 DEF PlaceFails
      <4>4. CASE \E removed \in BOOLEAN : DropOld(j, removed)
        BY <3>1, <4>4 DEF DropOld
      <4> QED
        BY <4>1, <4>2, <4>3, <4>4
    <3> QED
      BY <1>1, <1>2, <3>1, <3>2
  <2> QED
    BY <2>1, <2>2
<1>7. ASSUME ~overlapped' PROVE Alone'
  <2>0. ~overlapped
    BY <1>0, <1>7
  <2>1. OneAtWork'
    BY <1>1, <1>a, <2>0 DEF OneAtWork
  <2>2. TreesRestorable'
    BY <1>0, <1>a, <1>b, <1>2, <2>0 DEF Alone, TreesRestorable
  <2>3. job'[j].pc \in {"drop", "unmark"} => base' # NoTree
    <3>1. CASE MoveAside(j)
      BY <1>0, <3>1, JobMoves DEF MoveAside
    <3>2. CASE Place(j)
      BY <1>b, <3>2 DEF Place
    <3>3. CASE \E back \in BOOLEAN : PlaceFails(j, back)
      BY <1>0, <3>3, JobEnds DEF PlaceFails
    <3>4. CASE \E removed \in BOOLEAN : DropOld(j, removed)
      BY <1>a, <2>0, <3>4 DEF DropOld, RowKnows
    <3> QED
      BY <3>1, <3>2, <3>3, <3>4
  <2>4. RowKnows(job'[j], base')
    BY <1>b, <1>1, <2>0, <2>3 DEF RowKnows
  <2>5. \A k \in Jobs \ {j} : RowKnows(job[k], base')
    BY <1>a, <2>0 DEF RowKnows
  <2>6. JobKnows'
    BY <1>1, <2>4, <2>5 DEF JobKnows
  <2> QED
    BY <2>1, <2>2, <2>6 DEF Alone
<1> QED
  BY <1>3, <1>4, <1>5, <1>6, <1>7 DEF UpdateInv

LEMMA UpdateInvInductive ==
    UpdateInv /\ [UpdateNext]_updateVars => UpdateInv'
<1> SUFFICES ASSUME UpdateInv, [UpdateNext]_updateVars PROVE UpdateInv'
  OBVIOUS
<1> USE UpdateAssumption, NoJobRow
<1>0. CASE UNCHANGED updateVars
  BY <1>0 DEF updateVars, UpdateInv, UpdateTypeOK, TreesSound, JobsSound, MovedAside, Alone, OneAtWork,
              TreesRestorable, JobKnows, Made
<1>1. ASSUME NEW j \in Jobs, CommandStep(j) PROVE UpdateInv'
  BY <1>1, BeginningKeepsInv, CacheKeepsInv, WorkInPlaceKeepsInv, ExchangeKeepsInv DEF CommandStep
<1>2. CASE ObservationIsDue
  <2>1. /\ base # NoTree /\ base' = [base EXCEPT !.observed = "long ago"]
        /\ UNCHANGED <<running, old, aside, archive, job, overlapped>> /\ Made' = Made
    BY <1>2 DEF ObservationIsDue, Made
  <2>2. base \in DataTree
    BY <2>1 DEF UpdateInv, TreesSound, Sound
  <2>3. base' \in DataTree /\ base'.marker = base.marker /\ base'.backups = base.backups
    BY <2>1, <2>2, TreeUpdates
  <2>4. UpdateTypeOK' /\ TreesSound' /\ JobsSound' /\ MovedAside'
    BY <2>1, <2>3 DEF UpdateInv, UpdateTypeOK, Trees, TreesSound, Sound, JobsSound, MovedAside
  <2>5. ~overlapped => OneAtWork' /\ TreesRestorable' /\ JobKnows'
    BY <2>1, <2>3 DEF UpdateInv, Alone, OneAtWork, TreesRestorable, Restorable, JobKnows, RowKnows
  <2> QED
    BY <2>1, <2>4, <2>5 DEF UpdateInv, Alone
<1>3. CASE UpdaterDies
  <2>1. /\ job' = [j \in Jobs |-> NoJob] /\ old' = [j \in Jobs |-> NoTree] /\ running' = FALSE
        /\ aside' = (aside \/ \E j \in Jobs : old[j] # NoTree)
        /\ UNCHANGED <<base, archive, overlapped>> /\ Made' = Made
    BY <1>3 DEF UpdaterDies, Made
  <2>2. UpdateTypeOK'
    BY <2>1 DEF UpdateInv, UpdateTypeOK, Trees
  <2>3. TreesSound' /\ JobsSound' /\ MovedAside'
    BY <2>1 DEF UpdateInv, TreesSound, JobsSound, RowSound, MovedAside
  <2>4. ~overlapped => OneAtWork' /\ TreesRestorable' /\ JobKnows'
    BY <2>1 DEF UpdateInv, Alone, OneAtWork, TreesRestorable, JobKnows, RowKnows
  <2> QED
    BY <2>1, <2>2, <2>3, <2>4 DEF UpdateInv, Alone
<1>4. ASSUME NEW v \in AppVersions, Launch(v) PROVE UpdateInv'
  <2>1. /\ base' = EnsureDirs /\ running' = TRUE
        /\ UNCHANGED <<old, aside, archive, job, overlapped>> /\ Made' = Made
    BY <1>4 DEF Launch, Made
  <2>2. /\ base' # NoTree /\ Sound(base', Made) /\ (~overlapped => Restorable(base'))
        /\ base # NoTree => base' = base
    BY <2>1, TreeUpdates DEF EnsureDirs, UpdateInv, TreesSound, Sound, Alone, TreesRestorable, Restorable
  <2>3. UpdateTypeOK' /\ TreesSound' /\ JobsSound' /\ MovedAside'
    BY <2>1, <2>2 DEF UpdateInv, UpdateTypeOK, Trees, TreesSound, Sound, JobsSound, MovedAside
  <2>4. ~overlapped => OneAtWork' /\ TreesRestorable' /\ JobKnows'
    BY <2>1, <2>2 DEF UpdateInv, Alone, OneAtWork, TreesRestorable, JobKnows, RowKnows
  <2> QED
    BY <2>1, <2>3, <2>4 DEF UpdateInv, Alone
<1> QED
  BY <1>0, <1>1, <1>2, <1>3, <1>4 DEF UpdateNext

(***************************************************************************)
(* An update that is not finished can be undone after any sequence of      *)
(* installations, restores, verifications, failures and crashes, with any  *)
(* number of commands, backups and versions: a missing data directory is   *)
(* still beside its place whatever overlaps, and a marker has its backup   *)
(* until commands overlap (update/rollback.rs, commands/updater.rs).       *)
(***************************************************************************)
THEOREM UnfinishedUpdatesCanBeUndone == UpdateSpec => []UnfinishedUpdateCanBeUndone
<1>1. UpdateInit => UpdateInv
  <2> SUFFICES ASSUME UpdateInit PROVE UpdateInv
    OBVIOUS
  <2>1. UpdateTypeOK /\ Made = {} /\ base = FirstTree /\ base # NoTree
    BY UpdateAssumption, TreeUpdates, NoJobRow DEF UpdateInit, UpdateTypeOK, Made, Trees
  <2>2. TreesSound /\ JobsSound /\ MovedAside
    BY <2>1, TreeUpdates, NoJobRow DEF UpdateInit, TreesSound, Sound, JobsSound, RowSound, MovedAside
  <2>3. OneAtWork /\ TreesRestorable /\ JobKnows
    BY <2>1, TreeUpdates, NoJobRow DEF UpdateInit, OneAtWork, TreesRestorable, Restorable, JobKnows, RowKnows
  <2> QED
    BY <2>1, <2>2, <2>3 DEF UpdateInv, Alone
<1>2. UpdateInv => UnfinishedUpdateCanBeUndone
  BY DEF UpdateInv, MovedAside, Alone, TreesRestorable, Restorable, UnfinishedUpdateCanBeUndone, HasBackup
<1> QED
  BY <1>1, <1>2, UpdateInvInductive, PTL DEF UpdateSpec

-----------------------------------------------------------------------------
(* ExternalWrite.  A receipt names an approval that was carried out: the   *)
(* calls past the write know it, and so do the copies on their way to the  *)
(* disk (CarriedInv).  A request that comes back after its answer finds    *)
(* its staged source gone, or the grant in its hash unusable for good,     *)
(* because the profile was closed meanwhile, or, when the removal failed,  *)
(* its receipt, unless that was taken back (SpentInv).                     *)

Receipt == [hash : Approvals \X Grants, state : FileStates]

CallRow == [pc : {"idle", "write", "record", "persist", "answer"}, approval : Approvals \cup {NoCall},
            grant : Grants \cup {0}, snapshot : SUBSET Receipt, late : BOOLEAN]

ExternalTypeOK ==
    /\ operation \in [Approvals -> Operations]
    /\ file \in [Targets -> FileStates]
    /\ grants \in [Grants -> {"none", "workspace", "unusable"}]
    /\ bound \in BOOLEAN
    /\ receipts \subseteq Receipt /\ persisted \subseteq Receipt
    /\ call \in [Calls -> CallRow]
    /\ answered \subseteq [hash : Approvals \X Grants, by : {"execution", "receipt"}]
    /\ \A c \in Calls : call[c].pc # "idle" => call[c].approval \in Approvals /\ call[c].grant \in Grants

\* Who has a receipt, and who is about to get one, was carried out.
CarriedInv ==
    /\ \A r \in receipts \cup persisted : r.hash[1] \in carried
    /\ \A w \in answered : w.hash[1] \in carried
    /\ \A c \in Calls : /\ \A r \in call[c].snapshot : r.hash[1] \in carried
                        /\ call[c].pc \in {"record", "persist", "answer"} => call[c].approval \in carried
    /\ \A a \in Sourced \ carried : a \in staged

\* A receipt was written and, if it is gone, taken back.
Noted(h) == HasReceipt(h) \/ h \in revoked

\* A request that was executed and answered is accepted again only after both failures.
SpentInv ==
    /\ \A a \in Sourced, g \in Grants :
          [hash |-> Hash(a, g), by |-> "execution"] \in answered =>
             \/ grants[g] = "unusable"
             \/ /\ bound /\ grants[g] # "none"
                /\ a \notin staged \/ (a \in kept /\ Noted(Hash(a, g)))
    /\ \A c \in Calls : call[c].pc # "idle" =>
          /\ grants[call[c].grant] # "none"
          /\ call[c].approval \in Sourced =>
                \/ grants[call[c].grant] = "unusable"
                \/ /\ bound
                   /\ call[c].pc \in {"persist", "answer"} => Noted(Hash(call[c].approval, call[c].grant))
    /\ AnsweredIsFinal

ExternalInv == ExternalTypeOK /\ CarriedInv /\ SpentInv

\* The row of a task that is over.
LEMMA IdleRow ==
    IdleCall \in CallRow /\ IdleCall.pc = "idle" /\ IdleCall.snapshot = {} /\ IdleCall.late = FALSE
  BY DEF CallRow, IdleCall

\* The steps that touch neither the tasks nor what they have recorded.
ExternalQuiet ==
    \/ \E kind \in {"workspace", "readonly_file"} : CreateGrant(kind)
    \/ \E g \in Grants : ReplaceRoot(g)
    \/ \E a \in Approvals : IsExpired(a)
    \/ \E t \in Targets, s \in FileStates : Edit(t, s)

LEMMA ExternalInvInductive ==
    ExternalInv /\ [ExternalNext]_ewVars => ExternalInv'
<1> SUFFICES ASSUME ExternalInv, [ExternalNext]_ewVars PROVE ExternalInv'
  OBVIOUS
<1> USE ExternalAssumption DEF failures
<1>0. CASE UNCHANGED ewVars
  BY <1>0 DEF ewVars, ExternalInv, ExternalTypeOK, CarriedInv, SpentInv, AnsweredIsFinal, Sourced, Noted, HasReceipt
<1>1. CASE ExternalQuiet
  <2>1. /\ UNCHANGED <<operation, bound, staged, receipts, persisted, call, carried, answered, kept, revoked>>
        /\ file' \in [Targets -> FileStates]
        /\ grants' \in [Grants -> {"none", "workspace", "unusable"}]
        /\ \A g \in Grants : /\ grants[g] = "unusable" => grants'[g] = "unusable"
                             /\ grants[g] # "none" => grants'[g] # "none"
    <3>1. ASSUME NEW kind \in {"workspace", "readonly_file"}, CreateGrant(kind) PROVE <2>1!1
      BY <3>1 DEF CreateGrant, ExternalInv, ExternalTypeOK
    <3> QED
      BY <1>1 DEF ExternalQuiet, CreateGrant, ReplaceRoot, IsExpired, Edit, ExternalInv, ExternalTypeOK
  <2> QED
    BY <2>1 DEF ExternalInv, ExternalTypeOK, CarriedInv, SpentInv, AnsweredIsFinal, Sourced, Noted, HasReceipt
<1>2. ASSUME NEW a \in Approvals, NEW g \in Grants, Replay(a, g) PROVE ExternalInv'
  <2>1. a \in carried
    BY <1>2 DEF Replay, Hash, ExternalInv, CarriedInv
  <2>2. /\ answered' = answered \cup {[hash |-> Hash(a, g), by |-> "receipt"]}
        /\ UNCHANGED <<operation, file, grants, bound, staged, receipts, persisted, call, carried, kept, revoked>>
    BY <1>2 DEF Replay
  <2>3. ExternalTypeOK' /\ CarriedInv'
    BY <2>1, <2>2 DEF Hash, ExternalInv, ExternalTypeOK, CarriedInv, Sourced
  <2>4. \A h : [hash |-> h, by |-> "execution"] \in answered' => [hash |-> h, by |-> "execution"] \in answered
    BY <2>2
  <2>5. SpentInv'
    BY <2>2, <2>4 DEF ExternalInv, SpentInv, AnsweredIsFinal, Sourced, Noted, HasReceipt
  <2> QED
    BY <2>3, <2>5 DEF ExternalInv
<1>3. ASSUME NEW c \in Calls, NEW a \in Approvals, NEW g \in Grants, Execute(c, a, g) PROVE ExternalInv'
  <2> DEFINE late == [hash |-> Hash(a, g), by |-> "execution"] \in answered
             row == [IdleCall EXCEPT !.pc = "write", !.approval = a, !.grant = g, !.late = late]
  <2>1. /\ call' = [call EXCEPT ![c] = row]
        /\ grants[g] = "workspace" /\ ~HasReceipt(Hash(a, g)) /\ (a \in Sourced => bound /\ a \in staged)
        /\ UNCHANGED <<operation, file, grants, bound, staged, receipts, persisted, carried, answered, kept, revoked>>
    BY <1>3 DEF Execute, Accept, ResolveWorkspaceGrant, SourceLoaded
  <2>2. a \in Sourced /\ late => a \in kept /\ Hash(a, g) \in revoked
    BY <2>1 DEF ExternalInv, SpentInv, Noted
  <2>3. /\ row \in CallRow /\ row.pc = "write" /\ row.approval = a /\ row.grant = g
        /\ row.late = late /\ row.snapshot = {}
    <3>0. late \in BOOLEAN
      OBVIOUS
    <3>1. CASE late = TRUE
      <4>1. row = [IdleCall EXCEPT !.pc = "write", !.approval = a, !.grant = g, !.late = TRUE]
        BY <3>1
      <4> HIDE DEF row, late
      <4> QED
        BY <3>1, <4>1 DEF CallRow, IdleCall
    <3>2. CASE late = FALSE
      <4>1. row = [IdleCall EXCEPT !.pc = "write", !.approval = a, !.grant = g, !.late = FALSE]
        BY <3>2
      <4> HIDE DEF row, late
      <4> QED
        BY <3>2, <4>1 DEF CallRow, IdleCall
    <3> HIDE DEF row, late
    <3> QED
      BY <3>0, <3>1, <3>2
  <2> HIDE DEF row, late
  <2>4. ExternalTypeOK'
    BY <2>1, <2>3 DEF ExternalInv, ExternalTypeOK
  <2>5. CarriedInv'
    BY <2>1, <2>3 DEF ExternalInv, ExternalTypeOK, CarriedInv, Sourced
  <2>6. SpentInv'
    BY <2>1, <2>2, <2>3 DEF ExternalInv, ExternalTypeOK, SpentInv, AnsweredIsFinal, Sourced, Noted, HasReceipt
  <2> QED
    BY <2>4, <2>5, <2>6 DEF ExternalInv
<1>4. ASSUME NEW c \in Calls, WriteTarget(c) PROVE ExternalInv'
  <2> DEFINE a == call[c].approval
             row == [call[c] EXCEPT !.pc = "record"]
  <2>1. /\ call[c].pc = "write" /\ call' = [call EXCEPT ![c] = row]
        /\ file' = [file EXCEPT ![TargetOf[a]] = Result(a)] /\ carried' = carried \cup {a}
        /\ UNCHANGED <<operation, grants, bound, staged, receipts, persisted, answered, kept, revoked>>
    BY <1>4 DEF WriteTarget
  <2>2. call[c] \in CallRow /\ a \in Approvals
    BY <2>1 DEF ExternalInv, ExternalTypeOK
  <2>3. /\ row \in CallRow /\ row.pc = "record" /\ row.approval = a /\ row.grant = call[c].grant
        /\ row.late = call[c].late /\ row.snapshot = call[c].snapshot
    BY <2>2 DEF CallRow
  <2>4. Result(a) \in FileStates
    BY DEF Result, FileStates
  <2> HIDE DEF row, a
  <2>5. ExternalTypeOK'
    BY <2>1, <2>2, <2>3, <2>4 DEF ExternalInv, ExternalTypeOK
  <2>6. CarriedInv'
    BY <2>1, <2>2, <2>3 DEF a, ExternalInv, ExternalTypeOK, CarriedInv, Sourced
  <2>7. SpentInv'
    BY <2>1, <2>2, <2>3 DEF a, ExternalInv, ExternalTypeOK, SpentInv, AnsweredIsFinal, Sourced, Noted, HasReceipt
  <2> QED
    BY <2>5, <2>6, <2>7 DEF ExternalInv
<1>5. ASSUME NEW c \in Calls, NEW changed \in BOOLEAN, WriteFails(c, changed) PROVE ExternalInv'
  <2> DEFINE a == call[c].approval
  <2>1. /\ call[c].pc = "write" /\ call' = [call EXCEPT ![c] = IdleCall]
        /\ file' \in {file, [file EXCEPT ![TargetOf[a]] = Result(a)]} /\ carried \subseteq carried'
        /\ UNCHANGED <<operation, grants, bound, staged, receipts, persisted, answered, kept, revoked>>
    BY <1>5 DEF WriteFails, failures
  <2>2. a \in Approvals /\ Result(a) \in FileStates
    BY <2>1 DEF ExternalInv, ExternalTypeOK, Result, FileStates
  <2> HIDE DEF a
  <2>3. ExternalTypeOK'
    BY <2>1, <2>2, IdleRow DEF ExternalInv, ExternalTypeOK
  <2>4. CarriedInv'
    BY <2>1, IdleRow DEF ExternalInv, ExternalTypeOK, CarriedInv, Sourced
  <2>5. SpentInv'
    BY <2>1, IdleRow DEF ExternalInv, ExternalTypeOK, SpentInv, AnsweredIsFinal, Sourced, Noted, HasReceipt
  <2> QED
    BY <2>3, <2>4, <2>5 DEF ExternalInv
<1>6. ASSUME NEW c \in Calls, InsertReceipt(c) PROVE ExternalInv'
  <2> DEFINE h == Hash(call[c].approval, call[c].grant)
             receipt == [hash |-> h, state |-> file[TargetOf[call[c].approval]]]
             new == {r \in receipts : r.hash # h} \cup {receipt}
             row == [[call[c] EXCEPT !.pc = "persist"] EXCEPT !.snapshot = new]
  <2>1. /\ call[c].pc = "record" /\ receipts' = new /\ call' = [call EXCEPT ![c] = row]
        /\ UNCHANGED <<operation, file, grants, bound, staged, persisted, carried, answered, kept, revoked>>
    BY <1>6 DEF InsertReceipt
  <2>2. call[c] \in CallRow /\ call[c].approval \in Approvals /\ call[c].grant \in Grants
    BY <2>1 DEF ExternalInv, ExternalTypeOK
  <2>3. receipt \in Receipt /\ receipt.hash[1] = call[c].approval
    BY <2>2 DEF ExternalInv, ExternalTypeOK, Receipt, Hash
  <2> HIDE DEF receipt
  <2>4. new \in SUBSET Receipt /\ \A r \in new : r.hash[1] \in carried
    BY <2>1, <2>2, <2>3 DEF ExternalInv, ExternalTypeOK, CarriedInv
  <2> HIDE DEF new
  <2>5. /\ row \in CallRow /\ row.pc = "persist" /\ row.approval = call[c].approval /\ row.grant = call[c].grant
        /\ row.late = call[c].late /\ row.snapshot = new
    BY <2>2, <2>4 DEF CallRow
  <2> HIDE DEF row
  <2>6. ExternalTypeOK'
    BY <2>1, <2>2, <2>4, <2>5 DEF ExternalInv, ExternalTypeOK
  <2>7. CarriedInv'
    BY <2>1, <2>2, <2>4, <2>5 DEF ExternalInv, ExternalTypeOK, CarriedInv, Sourced
  <2>9. ASSUME NEW k, k = h \/ Noted(k) PROVE Noted(k)'
    <3>1. receipt.hash = h
      BY DEF receipt
    <3>2. CASE k = h
      BY <2>1, <3>1, <3>2 DEF new, Noted, HasReceipt
    <3>3. CASE k # h
      BY <2>1, <2>9, <3>3 DEF new, Noted, HasReceipt
    <3> QED
      BY <3>2, <3>3
  <2>8. SpentInv'
    BY <2>1, <2>2, <2>5, <2>9 DEF ExternalInv, ExternalTypeOK, SpentInv, AnsweredIsFinal, Sourced
  <2> QED
    BY <2>6, <2>7, <2>8 DEF ExternalInv
<1>7. ASSUME NEW c \in Calls, PersistReceipts(c) PROVE ExternalInv'
  <2> DEFINE row == [[call[c] EXCEPT !.pc = "answer"] EXCEPT !.snapshot = {}]
  <2>1. /\ call[c].pc = "persist" /\ call' = [call EXCEPT ![c] = row]
        /\ persisted' \in {call[c].snapshot, persisted}
        /\ UNCHANGED <<operation, file, grants, bound, staged, receipts, carried, answered, kept, revoked>>
    BY <1>7 DEF PersistReceipts
  <2>2. call[c] \in CallRow /\ call[c].snapshot \in SUBSET Receipt
    BY <2>1 DEF ExternalInv, ExternalTypeOK, CallRow
  <2>3. /\ row \in CallRow /\ row.pc = "answer" /\ row.approval = call[c].approval /\ row.grant = call[c].grant
        /\ row.late = call[c].late /\ row.snapshot = {}
    BY <2>2 DEF CallRow
  <2> HIDE DEF row
  <2>4. ExternalTypeOK'
    BY <2>1, <2>2, <2>3 DEF ExternalInv, ExternalTypeOK
  <2>5. CarriedInv'
    BY <2>1, <2>2, <2>3 DEF ExternalInv, ExternalTypeOK, CarriedInv, Sourced
  <2>6. SpentInv'
    BY <2>1, <2>2, <2>3 DEF ExternalInv, ExternalTypeOK, SpentInv, AnsweredIsFinal, Sourced, Noted, HasReceipt
  <2> QED
    BY <2>4, <2>5, <2>6 DEF ExternalInv
<1>8. ASSUME NEW c \in Calls, PersistFails(c) PROVE ExternalInv'
  <2> DEFINE h == Hash(call[c].approval, call[c].grant)
  <2>1. /\ receipts' = {r \in receipts : r.hash # h} /\ call' = [call EXCEPT ![c] = IdleCall]
        /\ revoked' = revoked \cup {h}
        /\ UNCHANGED <<operation, file, grants, bound, staged, persisted, carried, answered, kept>>
    BY <1>8 DEF PersistFails
  <2>2. \A k : Noted(k) => Noted(k)'
    BY <2>1 DEF Noted, HasReceipt
  <2>3. ExternalTypeOK'
    BY <2>1, IdleRow DEF ExternalInv, ExternalTypeOK
  <2>4. CarriedInv'
    BY <2>1, IdleRow DEF ExternalInv, ExternalTypeOK, CarriedInv, Sourced
  <2>5. SpentInv'
    BY <2>1, <2>2, IdleRow DEF ExternalInv, ExternalTypeOK, SpentInv, AnsweredIsFinal, Sourced
  <2> QED
    BY <2>3, <2>4, <2>5 DEF ExternalInv
<1>9. ASSUME NEW c \in Calls, NEW removed \in BOOLEAN, Answer(c, removed) PROVE ExternalInv'
  <2> DEFINE h == Hash(call[c].approval, call[c].grant)
  <2>1. /\ call[c].pc = "answer" /\ call' = [call EXCEPT ![c] = IdleCall]
        /\ staged' = IF bound /\ removed THEN staged \ {call[c].approval} ELSE staged
        /\ kept' = IF bound /\ ~removed THEN kept \cup {call[c].approval} ELSE kept
        /\ answered' = answered \cup {[hash |-> h, by |-> "execution"]}
        /\ UNCHANGED <<operation, file, grants, bound, receipts, persisted, carried, revoked>>
    BY <1>9 DEF Answer
  <2>2. call[c].approval \in Approvals /\ call[c].grant \in Grants
    BY <2>1 DEF ExternalInv, ExternalTypeOK
  <2>3. h \in Approvals \X Grants /\ h[1] = call[c].approval
    BY <2>2 DEF Hash
  <2>4. ExternalTypeOK'
    BY <2>1, <2>2, <2>3, IdleRow DEF ExternalInv, ExternalTypeOK
  <2>5. CarriedInv'
    BY <2>1, <2>2, <2>3, IdleRow DEF ExternalInv, ExternalTypeOK, CarriedInv, Sourced
  <2>6. SpentInv'
    BY <2>1, <2>2, <2>3, IdleRow DEF Hash, ExternalInv, ExternalTypeOK, SpentInv, AnsweredIsFinal, Sourced, Noted, HasReceipt
  <2> QED
    BY <2>4, <2>5, <2>6 DEF ExternalInv
<1>10. CASE CloseStores \/ HostDies
  <2>1. /\ receipts' = {} /\ bound' = FALSE
        /\ grants' = [g \in Grants |-> IF grants[g] = "none" THEN "none" ELSE "unusable"]
        /\ call' = call \/ call' = [c \in Calls |-> IdleCall]
        /\ UNCHANGED <<operation, file, staged, persisted, carried, answered, kept, revoked>>
    BY <1>10 DEF CloseStores, HostDies, Cleared
  <2>2. /\ call' \in [Calls -> CallRow]
        /\ \A c \in Calls : /\ call'[c].snapshot \subseteq call[c].snapshot
                            /\ call'[c] = call[c] \/ call'[c] = IdleCall
    BY <2>1, IdleRow DEF ExternalInv, ExternalTypeOK
  <2> QED
    BY <2>1, <2>2, IdleRow DEF ExternalInv, ExternalTypeOK, CarriedInv, SpentInv, AnsweredIsFinal, Sourced, Noted, HasReceipt
<1>11. CASE OpenStores
  BY <1>11 DEF OpenStores, ExternalInv, ExternalTypeOK, CarriedInv, SpentInv, AnsweredIsFinal, Sourced, Noted, HasReceipt
<1> QED
  BY <1>0, <1>1, <1>2, <1>3, <1>4, <1>5, <1>6, <1>7, <1>8, <1>9, <1>10, <1>11
  DEF ExternalNext, ExternalQuiet

LEMMA ExternalInvInitially == ExternalInit => ExternalInv
<1> SUFFICES ASSUME ExternalInit PROVE ExternalInv
  OBVIOUS
<1>1. ExternalTypeOK
  BY ExternalAssumption, IdleRow DEF ExternalInit, ExternalTypeOK, FileStates
<1>2. CarriedInv
  BY IdleRow DEF ExternalInit, CarriedInv
<1>3. SpentInv
  BY IdleRow DEF ExternalInit, SpentInv, AnsweredIsFinal
<1> QED
  BY <1>1, <1>2, <1>3 DEF ExternalInv

(***************************************************************************)
(* An answered execution is final unless the removal of its source and a   *)
(* retry's persist_receipts both fail, for any approvals, targets,         *)
(* workspaces and overlapping calls (handle_external_write_execute).       *)
(***************************************************************************)
THEOREM AnswersAreFinal == ExternalSpec => []AnsweredIsFinal
<1>1. ExternalInv => AnsweredIsFinal
  BY DEF ExternalInv, SpentInv
<1> QED
  BY <1>1, ExternalInvInitially, ExternalInvInductive, PTL DEF ExternalSpec

(***************************************************************************)
(* No receipt lies and no failure uses an approval up, for any approvals,  *)
(* targets, workspaces and overlapping calls (ReceiptStore,                *)
(* handle_external_write_execute).                                         *)
(***************************************************************************)
THEOREM ReceiptsAreTrue == ExternalSpec => []ReceiptMeansApplied
<1>1. ExternalInv => ReceiptMeansApplied
  BY DEF ExternalInv, CarriedInv, ReceiptMeansApplied
<1> QED
  BY <1>1, ExternalInvInitially, ExternalInvInductive, PTL DEF ExternalSpec

-----------------------------------------------------------------------------
(* Credentials.  The index has valid entries with their secrets            *)
(* (IndexInv); a run past the check of its credential finds it there       *)
(* (LiveInv); and the command at work knows the state of its entry, and,   *)
(* once a delete has counted no use, that no such run has it (MutationInv):*)
(* an entry that is being deleted passes no check any more.                *)

ItemRow == [state : {"unused", "removed", "creating", "updating", "deleting"} \cup Stable,
            resume : {"none"} \cup Stable, meta : Int, active : Nat, pending : Nat]
AskRow == [method : Methods, ref : Refs \cup {NoCred}, expected : Int]
MutationRow ==
    [key : Asks \cup {NoCred}, ref : Refs \cup {NoCred},
     at : {"idle", "references", "snapshots", "leases", "store", "switch", "drop", "erase", "remove",
           "probe", "record"} \cup Stable,
     prior : {"none"} \cup Stable, inUse : BOOLEAN]

CredTypeOK ==
    /\ item \in [Refs -> ItemRow]
    /\ ask \in [Asks -> AskRow \cup {NoCred}]
    /\ \A k \in Asks : ask[k] # NoCred /\ ask[k].method # "credential.create" => ask[k].ref \in Refs
    /\ policies \subseteq Refs \X Nat
    /\ snapshot \in [CredRuns -> SnapshotRow \cup {NoCred}]
    /\ authorised \subseteq CredRuns

ValidItem(i) ==
    /\ ValidEntry(i)
    /\ i.state = "deleting" => i.resume \in Stable
    /\ i.state \in {"unused", "removed"} => i.active = 0

IndexInv == (\A c \in Refs : ValidItem(item[c])) /\ ActiveSecretStored

\* A run that has passed the check of its credential, or a run of this credential.
LiveRun(r) == snapshot[r] # NoCred /\ snapshot[r].at \in {"checked", "registered"}
NoLiveRun(c) == \A r \in CredRuns : LiveRun(r) => snapshot[r].ref # c

InForce == Stable \cup {"updating", "deleting"}
HasSecret(c) == <<c, item[c].active>> \in keychain

LiveInv ==
    /\ \A r \in CredRuns : LiveRun(r) => item[snapshot[r].ref].state \in InForce /\ HasSecret(snapshot[r].ref)
    /\ \A r \in authorised : snapshot[r] # NoCred /\ snapshot[r].at = "registered"

MutationInv ==
    LET c == mutation.ref
        at == mutation.at
        deletes == ask[mutation.key].method = "credential.delete"
    IN  /\ mutation \in MutationRow
        /\ at # "idle" => c \in Refs /\ mutation.key \in Asks /\ ask[mutation.key] # NoCred
        /\ at = "references" => deletes /\ item[c].state = "deleting" /\ HasSecret(c)
        /\ at \in {"snapshots", "leases"} /\ deletes =>
              item[c].state = "deleting" /\ HasSecret(c) /\ (mutation.inUse = FALSE => NoLiveRun(c))
        /\ at \in {"snapshots", "leases"} /\ ~deletes => item[c].state \in Stable /\ mutation.prior \in Stable
        /\ at \in {"store", "switch"} =>
              item[c].state = "creating" \/ (item[c].state = "updating" /\ mutation.prior \in Stable)
        /\ at = "switch" => <<c, item[c].pending>> \in keychain
        /\ at = "drop" => item[c].state \in Stable
        /\ at \in {"erase", "remove"} => item[c].state = "deleting" /\ NoLiveRun(c)

CredInv == CredTypeOK /\ IndexInv /\ LiveInv /\ MutationInv

-----------------------------------------------------------------------------
\* What an entry that validates says.
LEMMA EntryFacts ==
    ASSUME NEW i \in ItemRow, ValidEntry(i)
    PROVE  /\ i.state \in Stable => i.active # 0 /\ i.pending = 0 /\ i.resume = "none"
           /\ i.state = "creating" => i.active = 0 /\ i.pending = 1 /\ i.resume = "none"
           /\ i.state = "updating" => i.active # 0 /\ i.pending = i.active + 1 /\ i.resume # "none"
           /\ i.state = "deleting" => i.active # 0 /\ i.pending = 0 /\ i.resume # "none"
  BY DEF ValidEntry, Stable, ItemRow

\* The entries that the commands write.
WorkStates == {"creating", "updating", "deleting"} \cup Stable

CreatedWith(i, s, n, b) == [i EXCEPT !.state = s, !.meta = n, !.pending = b]
Probed(i, s, n) == [i EXCEPT !.state = s, !.meta = n]
Marked(i, s, resume, n) == [i EXCEPT !.state = s, !.resume = resume, !.meta = n]
Pending(i, s, resume, b, n) == [i EXCEPT !.state = s, !.resume = resume, !.pending = b, !.meta = n]
Switched(i, s, resume, a, b, n) ==
    [i EXCEPT !.state = s, !.resume = resume, !.active = a, !.pending = b, !.meta = n]

LEMMA CreatedItem ==
    ASSUME NEW i \in ItemRow, NEW n \in Int, NEW b \in Nat, NEW s \in WorkStates
    PROVE  LET j == CreatedWith(i, s, n, b) IN j \in ItemRow /\ j.state = s
  BY DEF ItemRow, WorkStates, CreatedWith

LEMMA ProbedItem ==
    ASSUME NEW i \in ItemRow, NEW n \in Int, NEW s \in WorkStates
    PROVE  LET j == Probed(i, s, n)
           IN  /\ j \in ItemRow /\ j.state = s /\ j.resume = i.resume /\ j.active = i.active
               /\ j.pending = i.pending
  BY DEF ItemRow, WorkStates, Probed

LEMMA MarkedItem ==
    ASSUME NEW i \in ItemRow, NEW n \in Int, NEW s \in WorkStates, NEW resume \in {"none"} \cup Stable
    PROVE  LET j == Marked(i, s, resume, n)
           IN  j \in ItemRow /\ j.state = s /\ j.resume = resume /\ j.active = i.active
  BY DEF ItemRow, WorkStates, Marked

LEMMA PendingItem ==
    ASSUME NEW i \in ItemRow, NEW n \in Int, NEW b \in Nat, NEW s \in WorkStates,
           NEW resume \in {"none"} \cup Stable
    PROVE  LET j == Pending(i, s, resume, b, n)
           IN  j \in ItemRow /\ j.state = s /\ j.resume = resume /\ j.active = i.active /\ j.pending = b
  BY DEF ItemRow, WorkStates, Pending

LEMMA SwitchedItem ==
    ASSUME NEW i \in ItemRow, NEW n \in Int, NEW a \in Nat, NEW b \in Nat, NEW s \in WorkStates,
           NEW resume \in {"none"} \cup Stable
    PROVE  LET j == Switched(i, s, resume, a, b, n)
           IN  j \in ItemRow /\ j.state = s /\ j.resume = resume /\ j.active = a /\ j.pending = b
<1> DEFINE k == [i EXCEPT !.state = s, !.resume = resume, !.active = a]
<1>1. k \in ItemRow /\ k.state = s /\ k.resume = resume /\ k.active = a
  BY DEF ItemRow, WorkStates
<1> HIDE DEF k
<1>2. LET j == [k EXCEPT !.pending = b, !.meta = n]
      IN  j \in ItemRow /\ j.state = s /\ j.resume = resume /\ j.active = a /\ j.pending = b
  BY <1>1 DEF ItemRow
<1> QED
  BY <1>2 DEF k, Switched

LEMMA UnusedRow == Unused \in ItemRow /\ Gone \in ItemRow
  BY DEF Unused, Gone, ItemRow

\* One entry of the index is written; nothing else that CredInv speaks of changes.
LEMMA EntryWritten ==
    ASSUME CredInv, NEW c \in Refs, NEW i \in ItemRow, Save(c, i),
           UNCHANGED <<keychain, ask, policies, snapshot, authorised>>,
           i.state = "deleting" => i.resume \in Stable,
           i.state \in {"unused", "removed"} => i.active = 0,
           i.state \in Stable \cup {"updating"} => <<c, i.active>> \in keychain,
           (i.state \in InForce /\ <<c, i.active>> \in keychain) \/ NoLiveRun(c)
    PROVE  CredTypeOK' /\ IndexInv' /\ LiveInv' /\ item'[c] = i
<1>1. item' = [item EXCEPT ![c] = i] /\ ValidEntry(i)
  BY DEF Save, CanSave
<1>2. CredTypeOK' /\ item'[c] = i
  BY <1>1 DEF CredInv, CredTypeOK
<1>3. IndexInv'
  BY <1>1 DEF CredInv, CredTypeOK, IndexInv, ValidItem, ActiveSecretStored
<1>4. LiveInv'
  BY <1>1 DEF CredInv, CredTypeOK, LiveInv, LiveRun, NoLiveRun, HasSecret
<1> QED
  BY <1>2, <1>3, <1>4

\* The entry of a run, and of a request.
LEMMA RunRef == ASSUME CredTypeOK, NEW r \in CredRuns, snapshot[r] # NoCred PROVE snapshot[r] \in SnapshotRow
  BY DEF CredTypeOK

LEMMA NoMutationRow == NoMutation \in MutationRow /\ NoMutation.at = "idle"
  BY DEF NoMutation, MutationRow

\* A command that ends leaves nothing to say about its entry.
LEMMA CommandOver == mutation' = NoMutation => MutationInv'
  BY NoMutationRow DEF MutationInv

\* The steps of the runs, and of the clock, that leave the index, the secrets, the
\* command and the checked runs alone.
CredQuiet ==
    \/ \E k \in Asks : AnswerExpires(k)
    \/ \E c \in Refs : CredentialNamed(c)
    \/ \E r \in CredRuns : RequestStarts(r) \/ SnapshotExpires(r)
    \/ \E l \in leases, refused \in BOOLEAN : LeaseRevoked(l, refused)

LEMMA CredQuietKeeps ==
    ASSUME CredInv, CredQuiet PROVE CredInv'
<1>1. /\ UNCHANGED <<item, keychain, ask, mutation, snapshot>>
      /\ policies' \subseteq Refs \X Nat /\ authorised' \subseteq authorised
  <2>1. CASE \E c \in Refs : CredentialNamed(c)
    BY <2>1 DEF CredentialNamed, hostVars, CredInv, CredTypeOK, ItemRow
  <2> QED
    BY <2>1 DEF CredQuiet, AnswerExpires, RequestStarts, SnapshotExpires, LeaseRevoked, hostVars, runVars,
                CredInv, CredTypeOK
<1> QED
  BY <1>1 DEF CredInv, CredTypeOK, IndexInv, ValidItem, ActiveSecretStored, LiveInv, LiveRun, HasSecret,
              MutationInv, NoLiveRun

\* A run moves: its snapshot keeps the credential, and it is live afterwards only if
\* it was, or if its credential is ready.
LEMMA RunMoves ==
    ASSUME CredInv, NEW r \in CredRuns, NEW s \in SnapshotRow, snapshot' = [snapshot EXCEPT ![r] = s],
           UNCHANGED <<item, keychain, ask, mutation, policies>>,
           authorised' \subseteq authorised \cup {r},
           r \in authorised' => s.at = "registered",
           s.at \in {"checked", "registered"} =>
              \/ LiveRun(r) /\ s.ref = snapshot[r].ref
              \/ item[s.ref].state = "ready"
    PROVE  CredInv'
<1> USE CredentialsAssumption
<1>1. CredTypeOK'
  BY DEF CredInv, CredTypeOK
<1>2. IndexInv'
  BY DEF CredInv, IndexInv, ValidItem, ActiveSecretStored
<1>3. s.ref \in Refs /\ (item[s.ref].state = "ready" => HasSecret(s.ref) /\ item[s.ref].state \in InForce)
  BY DEF SnapshotRow, CredInv, IndexInv, ActiveSecretStored, Stable, InForce, HasSecret
<1>4. LiveInv'
  BY <1>3 DEF CredInv, CredTypeOK, LiveInv, LiveRun, HasSecret
<1>5. \A c \in Refs : item[c].state = "deleting" /\ NoLiveRun(c) => NoLiveRun(c)'
  BY DEF CredInv, CredTypeOK, NoLiveRun, LiveRun
<1>6. MutationInv'
  BY <1>5 DEF CredInv, MutationInv, HasSecret
<1> QED
  BY <1>1, <1>2, <1>4, <1>6 DEF CredInv

LEMMA RunsKeep ==
    ASSUME CredInv, NEW r \in CredRuns,
           RunPlanned(r) \/ CredentialsChecked(r) \/ SnapshotRegistered(r) \/ SnapshotRevoked(r)
    PROVE  CredInv'
<1>0. /\ \A s \in SnapshotRow, at \in {"planned", "checked", "registered", "over"} :
           LET n == [s EXCEPT !.at = at] IN n \in SnapshotRow /\ n.at = at /\ n.ref = s.ref
      /\ \A q \in authorised : snapshot[q] # NoCred /\ snapshot[q].at = "registered"
  BY DEF SnapshotRow, CredInv, LiveInv
<1>1. CASE RunPlanned(r)
  <2>1. PICK p \in policies :
           snapshot' = [snapshot EXCEPT ![r] = [ref |-> p[1], version |-> p[2], at |-> "planned"]]
    BY <1>1 DEF RunPlanned
  <2> DEFINE s == [ref |-> p[1], version |-> p[2], at |-> "planned"]
  <2>2. s \in SnapshotRow /\ s.at = "planned"
    BY <2>1 DEF CredInv, CredTypeOK, SnapshotRow
  <2>3. UNCHANGED <<item, keychain, ask, mutation, policies, authorised>> /\ r \notin authorised
    BY <1>1, <1>0 DEF RunPlanned, hostVars
  <2> HIDE DEF s
  <2> QED
    BY <2>1, <2>2, <2>3, RunMoves DEF s
<1>2. CASE CredentialsChecked(r)
  <2> DEFINE i == item[snapshot[r].ref]
             at == IF i.state = "ready" /\ i.active = snapshot[r].version THEN "checked" ELSE "over"
             s == [snapshot[r] EXCEPT !.at = at]
  <2>1. /\ snapshot[r] # NoCred /\ snapshot[r].at = "planned" /\ snapshot' = [snapshot EXCEPT ![r] = s]
        /\ UNCHANGED <<item, keychain, ask, mutation, policies, authorised>>
    BY <1>2 DEF CredentialsChecked, RunIs, RunGoes, hostVars
  <2>2. snapshot[r] \in SnapshotRow /\ r \notin authorised /\ at \in {"checked", "over"}
    BY <2>1, <1>0, RunRef DEF CredInv
  <2>3. at = "checked" => i.state = "ready"
    OBVIOUS
  <2> HIDE DEF at
  <2>4. s \in SnapshotRow /\ s.at = at /\ s.ref = snapshot[r].ref
    BY <2>2 DEF SnapshotRow
  <2> HIDE DEF s
  <2> QED
    BY <2>1, <2>2, <2>3, <2>4, RunMoves
<1>3. CASE SnapshotRegistered(r)
  <2> DEFINE s == [snapshot[r] EXCEPT !.at = "registered"]
  <2>1. /\ snapshot[r] # NoCred /\ snapshot[r].at = "checked" /\ snapshot' = [snapshot EXCEPT ![r] = s]
        /\ UNCHANGED <<item, keychain, ask, mutation, policies>> /\ authorised' = authorised \cup {r}
    BY <1>3 DEF SnapshotRegistered, RunIs, RunGoes, hostVars
  <2>2. s \in SnapshotRow /\ s.at = "registered" /\ s.ref = snapshot[r].ref /\ LiveRun(r)
    BY <2>1, RunRef DEF CredInv, SnapshotRow, LiveRun
  <2> HIDE DEF s
  <2> QED
    BY <2>1, <2>2, RunMoves
<1>4. CASE SnapshotRevoked(r)
  <2> DEFINE s == [snapshot[r] EXCEPT !.at = "over"]
  <2>1. /\ snapshot[r] # NoCred /\ snapshot' = [snapshot EXCEPT ![r] = s]
        /\ UNCHANGED <<item, keychain, ask, mutation, policies>> /\ authorised' = authorised \ {r}
    BY <1>4 DEF SnapshotRevoked, RunIs, RunGoes, hostVars
  <2>2. s \in SnapshotRow /\ s.at = "over"
    BY <2>1, RunRef DEF CredInv, SnapshotRow
  <2> HIDE DEF s
  <2> QED
    BY <2>1, <2>2, RunMoves
<1> QED
  BY <1>1, <1>2, <1>3, <1>4

LEMMA CrashKeeps == ASSUME CredInv, HostCrashes PROVE CredInv'
<1>1. /\ authorised' = {} /\ mutation' = NoMutation /\ UNCHANGED <<item, keychain, ask, policies>>
      /\ \A r \in CredRuns : /\ snapshot'[r] \in SnapshotRow \cup {NoCred}
                             /\ ~(snapshot'[r] # NoCred /\ snapshot'[r].at \in {"checked", "registered"})
      /\ snapshot' \in [CredRuns -> SnapshotRow \cup {NoCred}]
  BY DEF HostCrashes, CredInv, CredTypeOK, SnapshotRow
<1> QED
  BY <1>1, CommandOver DEF CredInv, CredTypeOK, IndexInv, ValidItem, ActiveSecretStored, LiveInv, LiveRun

-----------------------------------------------------------------------------
\* A command goes on; the index and the runs stay as they are.
LEMMA StateKept ==
    ASSUME CredInv, UNCHANGED <<item, keychain, ask, policies, snapshot, authorised>>
    PROVE  CredTypeOK' /\ IndexInv' /\ LiveInv'
  BY DEF CredInv, CredTypeOK, IndexInv, ValidItem, ActiveSecretStored, LiveInv, LiveRun, HasSecret

LEMMA CommandsBegin ==
    ASSUME CredInv, NEW k \in Asks,
           CreateBegins(k) \/ UpdateBegins(k) \/ DeleteBegins(k) \/ ProbeBegins(k)
    PROVE  CredInv'
<1>1. CASE CreateBegins(k)
  <2> DEFINE c == CHOOSE d \in Refs : item[d] = Unused
             i == [Unused EXCEPT !.state = "creating", !.meta = 1, !.pending = 1]
             m == [NoMutation EXCEPT !.key = k, !.ref = c, !.at = "store"]
  <2>1. c \in Refs /\ item[c] = Unused
    BY <1>1 DEF CreateBegins
  <2>2. /\ Save(c, i) /\ mutation' = m /\ ask[k] # NoCred
        /\ UNCHANGED <<keychain, ask, policies, snapshot, authorised>>
    BY <1>1 DEF CreateBegins, Locks, Enter, runVars
  <2> HIDE DEF c
  <2>3. i \in ItemRow /\ i.state = "creating"
    <3>1. 1 \in Int /\ 1 \in Nat /\ "creating" \in WorkStates
      BY DEF WorkStates
    <3>2. i = CreatedWith(Unused, "creating", 1, 1)
      BY DEF CreatedWith
    <3> HIDE DEF i
    <3> QED
      BY <3>1, <3>2, UnusedRow, CreatedItem
  <2>4. NoLiveRun(c)
    BY <2>1 DEF CredInv, CredTypeOK, LiveInv, LiveRun, NoLiveRun, Unused, InForce, Stable
  <2>5. m \in MutationRow /\ m.key = k /\ m.ref = c /\ m.at = "store"
    BY <2>1 DEF NoMutation, MutationRow
  <2> HIDE DEF i, m
  <2>6. CredTypeOK' /\ IndexInv' /\ LiveInv' /\ item'[c] = i
    BY <2>1, <2>2, <2>3, <2>4, EntryWritten DEF Stable
  <2>7. MutationInv'
    BY <2>1, <2>2, <2>3, <2>5, <2>6 DEF MutationInv
  <2> QED
    BY <2>6, <2>7 DEF CredInv
<1>2. CASE UpdateBegins(k)
  <2> DEFINE c == ask[k].ref
             m == [NoMutation EXCEPT !.key = k, !.ref = c, !.at = "snapshots", !.prior = item[c].state]
  <2>1. /\ mutation' = m /\ ask[k] # NoCred /\ ask[k].method = "credential.updateSecret"
        /\ item[c].state \in Stable
        /\ UNCHANGED <<item, keychain, ask, policies, snapshot, authorised>>
    BY <1>2 DEF UpdateBegins, Enter, runVars
  <2>2. c \in Refs
    BY <2>1 DEF CredInv, CredTypeOK
  <2>3. m \in MutationRow /\ m.key = k /\ m.ref = c /\ m.at = "snapshots" /\ m.prior = item[c].state
    BY <2>1, <2>2 DEF NoMutation, MutationRow
  <2> HIDE DEF m, c
  <2>4. MutationInv'
    BY <2>1, <2>2, <2>3 DEF MutationInv
  <2> QED
    BY <2>1, <2>4, StateKept DEF CredInv
<1>3. CASE DeleteBegins(k)
  <2> DEFINE c == ask[k].ref
             i == [item[c] EXCEPT !.state = "deleting", !.resume = item[c].state, !.meta = @ + 1]
             m == [NoMutation EXCEPT !.key = k, !.ref = c, !.at = "references"]
  <2>1. /\ Save(c, i) /\ mutation' = m /\ ask[k] # NoCred /\ ask[k].method = "credential.delete"
        /\ item[c].state \in Stable
        /\ UNCHANGED <<keychain, ask, policies, snapshot, authorised>>
    BY <1>3 DEF DeleteBegins, Locks, Enter, runVars
  <2>2. c \in Refs /\ HasSecret(c)
    BY <2>1 DEF CredInv, CredTypeOK, IndexInv, ActiveSecretStored, HasSecret
  <2> HIDE DEF c
  <2>3. i \in ItemRow /\ i.state = "deleting" /\ i.resume \in Stable /\ i.active = item[c].active
    <3>1. item[c] \in ItemRow /\ item[c].meta + 1 \in Int /\ "deleting" \in WorkStates
      BY <2>2 DEF CredInv, CredTypeOK, ItemRow, WorkStates
    <3>2. i = Marked(item[c], "deleting", item[c].state, item[c].meta + 1)
      BY DEF Marked
    <3> HIDE DEF i
    <3> QED
      BY <2>1, <3>1, <3>2, MarkedItem
  <2>4. m \in MutationRow /\ m.key = k /\ m.ref = c /\ m.at = "references"
    BY <2>2 DEF NoMutation, MutationRow
  <2> HIDE DEF i, m
  <2>5. CredTypeOK' /\ IndexInv' /\ LiveInv' /\ item'[c] = i
    BY <2>1, <2>2, <2>3, EntryWritten DEF InForce, HasSecret, Stable
  <2>6. MutationInv'
    BY <2>1, <2>2, <2>3, <2>4, <2>5 DEF MutationInv, HasSecret
  <2> QED
    BY <2>5, <2>6 DEF CredInv
<1>4. CASE ProbeBegins(k)
  <2> DEFINE c == ask[k].ref
             m == [NoMutation EXCEPT !.key = k, !.ref = c, !.at = "probe"]
  <2>1. /\ mutation' = m /\ ask[k] # NoCred /\ ask[k].method = "credential.probe"
        /\ UNCHANGED <<item, keychain, ask, policies, snapshot, authorised>>
    BY <1>4 DEF ProbeBegins, Locks, Enter
  <2>2. c \in Refs
    BY <2>1 DEF CredInv, CredTypeOK
  <2>3. m \in MutationRow /\ m.key = k /\ m.ref = c /\ m.at = "probe"
    BY <2>2 DEF NoMutation, MutationRow
  <2> HIDE DEF m, c
  <2>4. MutationInv'
    BY <2>1, <2>2, <2>3 DEF MutationInv
  <2> QED
    BY <2>1, <2>4, StateKept DEF CredInv
<1> QED
  BY <1>1, <1>2, <1>3, <1>4

\* The command asks whether its credential is in use.
LEMMA CountsKeep ==
    ASSUME CredInv, ReferencesRead \/ SnapshotsCounted PROVE CredInv'
<1> DEFINE c == mutation.ref
<1>1. /\ UNCHANGED <<item, keychain, ask, policies, snapshot, authorised>>
      /\ mutation.at \in {"references", "snapshots"} /\ mutation \in MutationRow
  BY DEF ReferencesRead, SnapshotsCounted, runVars, CredInv, MutationInv
<1>2. /\ mutation' \in MutationRow /\ mutation'.ref = c /\ mutation'.key = mutation.key
      /\ mutation'.prior = mutation.prior /\ mutation'.at \in {"snapshots", "leases"}
      /\ mutation'.inUse = FALSE => IF mutation.at = "references" THEN ~References(c) ELSE mutation.inUse = FALSE
  <2>1. CASE ReferencesRead
    <3>1. mutation' = [mutation EXCEPT !.at = "snapshots", !.inUse = References(c)] /\ mutation.at = "references"
      BY <2>1 DEF ReferencesRead
    <3>2. CASE References(c)
      <4>1. mutation' = [mutation EXCEPT !.at = "snapshots", !.inUse = TRUE]
        BY <3>1, <3>2
      <4> QED
        BY <1>1, <4>1 DEF MutationRow
    <3>3. CASE ~References(c)
      <4>0. References(c) = FALSE
        BY <3>3 DEF References
      <4>1. mutation' = [mutation EXCEPT !.at = "snapshots", !.inUse = FALSE]
        BY <3>1, <4>0
      <4>2. mutation' \in MutationRow /\ mutation'.ref = c /\ mutation'.key = mutation.key
            /\ mutation'.prior = mutation.prior /\ mutation'.at = "snapshots"
        BY <1>1, <4>1 DEF MutationRow
      <4> QED
        BY <3>1, <3>3, <4>2
    <3> QED
      BY <3>2, <3>3
  <2>2. CASE SnapshotsCounted
    <3> DEFINE more == \E r \in authorised : snapshot[r].ref = c
    <3>1. mutation' = [mutation EXCEPT !.at = "leases", !.inUse = @ \/ more] /\ mutation.at = "snapshots"
      BY <2>2 DEF SnapshotsCounted
    <3>2. CASE mutation.inUse \/ more
      <4>1. mutation' = [mutation EXCEPT !.at = "leases", !.inUse = TRUE]
        BY <3>1, <3>2
      <4> QED
        BY <1>1, <4>1 DEF MutationRow
    <3>3. CASE ~(mutation.inUse \/ more)
      <4>1. mutation' = [mutation EXCEPT !.at = "leases", !.inUse = FALSE]
        BY <3>1, <3>3
      <4>2. mutation.inUse = FALSE
        BY <3>3, <1>1 DEF MutationRow
      <4>3. mutation' \in MutationRow /\ mutation'.ref = c /\ mutation'.key = mutation.key
            /\ mutation'.prior = mutation.prior /\ mutation'.at = "leases"
        BY <1>1, <4>1 DEF MutationRow
      <4> QED
        BY <3>1, <4>2, <4>3
    <3> QED
      BY <3>2, <3>3
  <2> QED
    BY <2>1, <2>2
<1>3. ~References(c) => NoLiveRun(c)
  BY DEF References, NoLiveRun, LiveRun
<1>5. MutationInv'
  BY <1>1, <1>2, <1>3 DEF CredInv, MutationInv, NoLiveRun, LiveRun, HasSecret
<1> QED
  BY <1>1, <1>5, StateKept DEF CredInv

\* A delete that must not go on: the entry has its secret still.
LEMMA RestoreKeeps ==
    ASSUME CredInv, NEW c \in Refs, item[c].state = "deleting", HasSecret(c), Save(c, Restored(item[c])),
           mutation' = NoMutation, UNCHANGED <<keychain, ask, policies, snapshot, authorised>>
    PROVE  CredInv'
<1> DEFINE i == Restored(item[c])
<1>1. item[c] \in ItemRow /\ item[c].meta + 1 \in Int /\ item[c].resume \in Stable
  BY DEF CredInv, CredTypeOK, ItemRow, IndexInv, ValidItem
<1>2. i = Marked(item[c], item[c].resume, "none", item[c].meta + 1)
  BY DEF Restored, Marked
<1>3. item[c].resume \in WorkStates
  BY <1>1 DEF WorkStates
<1>4. i \in ItemRow /\ i.state \in Stable /\ i.active = item[c].active
  <2> HIDE DEF i
  <2> QED
    BY <1>1, <1>2, <1>3, MarkedItem
<1> HIDE DEF i
<1>5. CredTypeOK' /\ IndexInv' /\ LiveInv'
  BY <1>4, EntryWritten DEF i, HasSecret, InForce, Stable
<1> QED
  BY <1>5, CommandOver DEF CredInv

LEMMA ReferencesUnknownKeeps ==
    ASSUME CredInv, ReferencesUnknown PROVE CredInv'
<1>1. mutation.ref \in Refs /\ item[mutation.ref].state = "deleting" /\ HasSecret(mutation.ref)
  BY DEF ReferencesUnknown, CredInv, MutationInv
<1> QED
  BY <1>1, RestoreKeeps DEF ReferencesUnknown, runVars

\* The next step of the command, with nothing else of it changed.
LEMMA MutationGoes ==
    ASSUME mutation \in MutationRow, NEW at \in {"store", "switch", "drop", "erase", "remove", "record"} \cup Stable
    PROVE  LET m == [mutation EXCEPT !.at = at]
           IN  /\ m \in MutationRow /\ m.at = at /\ m.ref = mutation.ref /\ m.key = mutation.key
               /\ m.prior = mutation.prior
  BY DEF MutationRow

LEMMA LeasesKeep ==
    ASSUME CredInv, LeasesCounted PROVE CredInv'
<1> DEFINE c == mutation.ref
           inUse == mutation.inUse \/ c \in LeasedRefs
           deleting == ask[mutation.key].method = "credential.delete"
<1>1. /\ mutation.at = "leases" /\ c \in Refs /\ mutation \in MutationRow
      /\ UNCHANGED <<keychain, ask, policies, snapshot, authorised>>
      /\ mutation.key \in Asks /\ ask[mutation.key] # NoCred
  BY DEF LeasesCounted, runVars, CredInv, MutationInv
<1>2. CASE inUse /\ deleting
  <2>1. Save(c, Restored(item[c])) /\ mutation' = NoMutation
    BY <1>2 DEF LeasesCounted
  <2>2. item[c].state = "deleting" /\ HasSecret(c)
    BY <1>1, <1>2 DEF CredInv, MutationInv
  <2> QED
    BY <1>1, <2>1, <2>2, RestoreKeeps
<1>3. CASE inUse /\ ~deleting
  <2>1. UNCHANGED item /\ mutation' = NoMutation
    BY <1>3 DEF LeasesCounted
  <2> QED
    BY <1>1, <2>1, StateKept, CommandOver DEF CredInv
<1>4. CASE ~inUse /\ deleting
  <2>1. UNCHANGED item /\ mutation' = [mutation EXCEPT !.at = "erase"]
    BY <1>4 DEF LeasesCounted, Goes
  <2>2. mutation.inUse = FALSE
    BY <1>1, <1>4 DEF MutationRow
  <2>3. item[c].state = "deleting" /\ NoLiveRun(c)
    BY <1>1, <1>4, <2>2 DEF CredInv, MutationInv
  <2>4. /\ mutation' \in MutationRow /\ mutation'.at = "erase" /\ mutation'.ref = c
        /\ mutation'.key = mutation.key
    BY <1>1, <2>1, MutationGoes
  <2>5. MutationInv'
    BY <1>1, <2>1, <2>3, <2>4 DEF MutationInv, NoLiveRun, LiveRun
  <2> QED
    BY <1>1, <2>1, <2>5, StateKept DEF CredInv
<1>5. CASE ~inUse /\ ~deleting
  <2> DEFINE i == [item[c] EXCEPT !.state = "updating", !.resume = "unverified",
                                   !.pending = item[c].active + 1, !.meta = @ + 1]
  <2>1. Save(c, i) /\ mutation' = [mutation EXCEPT !.at = "store"]
    BY <1>5 DEF LeasesCounted, Goes
  <2>2. item[c].state \in Stable /\ mutation.prior \in Stable
    BY <1>1, <1>5 DEF CredInv, MutationInv
  <2>3. i = Pending(item[c], "updating", "unverified", item[c].active + 1, item[c].meta + 1)
    BY DEF Pending
  <2>4. /\ item[c] \in ItemRow /\ item[c].active + 1 \in Nat /\ item[c].meta + 1 \in Int
        /\ "updating" \in WorkStates /\ "unverified" \in {"none"} \cup Stable /\ HasSecret(c)
    BY <1>1, <2>2 DEF CredInv, CredTypeOK, ItemRow, WorkStates, Stable, IndexInv, ActiveSecretStored, HasSecret
  <2> HIDE DEF i
  <2>5. i \in ItemRow /\ i.state = "updating" /\ i.active = item[c].active
    <3> DEFINE n == item[c].meta + 1
               b == item[c].active + 1
    <3>1. i = Pending(item[c], "updating", "unverified", b, n) /\ n \in Int /\ b \in Nat
      BY <2>3, <2>4
    <3> HIDE DEF n, b
    <3> QED
      BY <3>1, <2>4, PendingItem DEF WorkStates, Stable
  <2>6. CredTypeOK' /\ IndexInv' /\ LiveInv' /\ item'[c] = i
    BY <1>1, <2>1, <2>4, <2>5, EntryWritten DEF HasSecret, InForce, Stable
  <2>7. /\ mutation' \in MutationRow /\ mutation'.at = "store" /\ mutation'.ref = c
        /\ mutation'.key = mutation.key /\ mutation'.prior = mutation.prior
    BY <1>1, <2>1, MutationGoes
  <2>8. MutationInv'
    BY <1>1, <2>2, <2>5, <2>6, <2>7 DEF MutationInv
  <2> QED
    BY <2>6, <2>8 DEF CredInv
<1> QED
  BY <1>2, <1>3, <1>4, <1>5

\* A secret comes, or a secret goes that is of no use.
LEMMA SecretsKeep ==
    ASSUME CredInv, SecretStored \/ OldVersionDropped \/ SecretErased PROVE CredInv'
<1> DEFINE c == mutation.ref
<1>1. /\ c \in Refs /\ mutation \in MutationRow /\ item[c] \in ItemRow /\ item[c].active \in Nat
      /\ mutation.key \in Asks /\ ask[mutation.key] # NoCred
      /\ UNCHANGED <<item, ask, policies, snapshot, authorised>>
  BY DEF SecretStored, OldVersionDropped, SecretErased, runVars, CredInv, CredTypeOK, MutationInv, ItemRow
<1>2. CredTypeOK'
  BY <1>1 DEF CredInv, CredTypeOK
<1>3. CASE SecretStored
  <2>1. /\ keychain' = keychain \cup {<<c, item[c].pending>>} /\ mutation' = [mutation EXCEPT !.at = "switch"]
        /\ mutation.at = "store"
    BY <1>3 DEF SecretStored, Goes
  <2>2. /\ mutation' \in MutationRow /\ mutation'.at = "switch" /\ mutation'.ref = c
        /\ mutation'.key = mutation.key /\ mutation'.prior = mutation.prior
    BY <1>1, <2>1, MutationGoes
  <2>3. IndexInv' /\ LiveInv'
    BY <1>1, <2>1 DEF CredInv, IndexInv, ValidItem, ActiveSecretStored, LiveInv, LiveRun, HasSecret
  <2>4. MutationInv'
    BY <1>1, <2>1, <2>2 DEF CredInv, MutationInv
  <2> QED
    BY <1>2, <2>3, <2>4 DEF CredInv
<1>4. CASE OldVersionDropped
  <2>1. /\ keychain' = keychain \ {<<c, item[c].active - 1>>} /\ mutation' = [mutation EXCEPT !.at = "record"]
    BY <1>4 DEF OldVersionDropped, Goes
  <2>2. /\ mutation' \in MutationRow /\ mutation'.at = "record" /\ mutation'.ref = c
        /\ mutation'.key = mutation.key
    BY <1>1, <2>1, MutationGoes
  <2>3. \A d : HasSecret(d) => HasSecret(d)'
    BY <1>1, <2>1 DEF HasSecret
  <2>4. IndexInv' /\ LiveInv'
    BY <1>1, <2>3 DEF CredInv, IndexInv, ValidItem, ActiveSecretStored, LiveInv, LiveRun, HasSecret
  <2>5. MutationInv'
    BY <1>1, <2>2 DEF MutationInv
  <2> QED
    BY <1>2, <2>4, <2>5 DEF CredInv
<1>5. CASE SecretErased
  <2>1. /\ keychain' = keychain \ {<<c, item[c].active>>} /\ mutation' = [mutation EXCEPT !.at = "remove"]
        /\ mutation.at = "erase"
    BY <1>5 DEF SecretErased, Goes
  <2>2. /\ mutation' \in MutationRow /\ mutation'.at = "remove" /\ mutation'.ref = c
        /\ mutation'.key = mutation.key
    BY <1>1, <2>1, MutationGoes
  <2>3. \A d \in Refs \ {c} : HasSecret(d) => HasSecret(d)'
    BY <1>1, <2>1 DEF HasSecret
  <2>4. item[c].state = "deleting" /\ NoLiveRun(c)
    BY <2>1 DEF CredInv, MutationInv
  <2>5. IndexInv'
    BY <1>1, <2>3, <2>4 DEF CredInv, IndexInv, ValidItem, ActiveSecretStored, HasSecret, Stable
  <2>6. \A r \in CredRuns : LiveRun(r) => snapshot[r].ref \in Refs \ {c}
    BY <1>1, <2>4, RunRef DEF CredInv, NoLiveRun, LiveRun, SnapshotRow
  <2>7. LiveInv'
    BY <1>1, <2>3, <2>6 DEF CredInv, LiveInv, LiveRun, HasSecret
  <2>8. MutationInv'
    BY <1>1, <2>2, <2>4 DEF MutationInv, NoLiveRun, LiveRun
  <2> QED
    BY <1>2, <2>5, <2>7, <2>8 DEF CredInv
<1> QED
  BY <1>3, <1>4, <1>5

\* An entry that is being created has no run; a removed one has none either.
LEMMA NoRunYet ==
    ASSUME CredInv, NEW c \in Refs, item[c].state = "creating" PROVE NoLiveRun(c)
  BY DEF CredInv, LiveInv, NoLiveRun, InForce, Stable

LEMMA StoreFailsKeeps == ASSUME CredInv, StoreFails PROVE CredInv'
<1> DEFINE c == mutation.ref
<1>1. /\ c \in Refs /\ mutation \in MutationRow /\ item[c] \in ItemRow /\ item[c].meta - 1 \in Int
      /\ mutation' = NoMutation /\ UNCHANGED <<keychain, ask, policies, snapshot, authorised>>
  BY DEF StoreFails, runVars, CredInv, CredTypeOK, MutationInv, ItemRow
<1>2. CASE item[c].state = "creating"
  <2>1. Save(c, Gone)
    BY <1>2 DEF StoreFails
  <2>2. Gone \in ItemRow /\ Gone.state = "removed" /\ Gone.active = 0
    BY UnusedRow DEF Gone, Unused
  <2>3. CredTypeOK' /\ IndexInv' /\ LiveInv'
    BY <1>1, <1>2, <2>1, <2>2, NoRunYet, EntryWritten DEF Stable
  <2> QED
    BY <1>1, <2>3, CommandOver DEF CredInv
<1>3. CASE item[c].state # "creating"
  <2> DEFINE i == [item[c] EXCEPT !.state = mutation.prior, !.resume = "none", !.pending = 0, !.meta = @ - 1]
  <2>1. Save(c, i) /\ item[c].state = "updating" /\ mutation.at = "store"
    BY <1>3 DEF StoreFails
  <2>2. mutation.prior \in Stable /\ HasSecret(c)
    BY <1>1, <2>1 DEF CredInv, MutationInv, IndexInv, ActiveSecretStored, HasSecret, Stable
  <2>3. i \in ItemRow /\ i.state = mutation.prior /\ i.active = item[c].active
    <3> DEFINE n == item[c].meta - 1
    <3>1. i = Pending(item[c], mutation.prior, "none", 0, n) /\ n \in Int
      BY <1>1 DEF Pending
    <3> HIDE DEF i, n
    <3> QED
      BY <1>1, <2>2, <3>1 DEF Pending, ItemRow
  <2> HIDE DEF i
  <2>4. CredTypeOK' /\ IndexInv' /\ LiveInv'
    BY <1>1, <2>1, <2>2, <2>3, EntryWritten DEF Stable, InForce, HasSecret
  <2> QED
    BY <1>1, <2>4, CommandOver DEF CredInv
<1> QED
  BY <1>2, <1>3

LEMMA VersionSwitchedKeeps == ASSUME CredInv, VersionSwitched PROVE CredInv'
<1> DEFINE c == mutation.ref
           at == IF item[c].state = "updating" THEN "drop" ELSE "record"
           i == [item[c] EXCEPT !.state = "unverified", !.resume = "none",
                                !.active = item[c].pending, !.pending = 0, !.meta = @ + 1]
<1>1. /\ c \in Refs /\ mutation \in MutationRow /\ item[c] \in ItemRow /\ item[c].meta + 1 \in Int
      /\ item[c].pending \in Nat /\ mutation.key \in Asks /\ ask[mutation.key] # NoCred
      /\ <<c, item[c].pending>> \in keychain /\ Save(c, i) /\ mutation' = [mutation EXCEPT !.at = at]
      /\ UNCHANGED <<keychain, ask, policies, snapshot, authorised>>
  BY DEF VersionSwitched, Goes, runVars, CredInv, CredTypeOK, MutationInv, ItemRow
<1>2. i \in ItemRow /\ i.state = "unverified" /\ i.active = item[c].pending
  <2> DEFINE n == item[c].meta + 1
             a == item[c].pending
  <2>1. i = Switched(item[c], "unverified", "none", a, 0, n) /\ n \in Int /\ a \in Nat
    BY <1>1 DEF Switched
  <2> HIDE DEF i, n, a
  <2>2. i \in ItemRow /\ i.state = "unverified" /\ i.active = a
    <3> DEFINE zero == 0
    <3>1. i = Switched(item[c], "unverified", "none", a, zero, n) /\ zero \in Nat
      BY <2>1
    <3> HIDE DEF zero
    <3>2. "unverified" \in WorkStates /\ "none" \in {"none"} \cup Stable
      BY DEF WorkStates, Stable
    <3> QED
      BY <1>1, <2>1, <3>1, <3>2, SwitchedItem
  <2> QED
    BY <2>2 DEF a
<1> HIDE DEF i
<1>3. CredTypeOK' /\ IndexInv' /\ LiveInv' /\ item'[c] = i
  BY <1>1, <1>2, EntryWritten DEF Stable, InForce
<1>4. at \in {"drop", "record"}
  OBVIOUS
<1> HIDE DEF at
<1>5. /\ mutation' \in MutationRow /\ mutation'.at = at /\ mutation'.ref = c
      /\ mutation'.key = mutation.key
  BY <1>1, <1>4, MutationGoes
<1>6. MutationInv'
  BY <1>1, <1>2, <1>3, <1>4, <1>5 DEF MutationInv, Stable
<1> QED
  BY <1>3, <1>6 DEF CredInv

LEMMA EntryRemovedKeeps == ASSUME CredInv, EntryRemoved PROVE CredInv'
<1> DEFINE c == mutation.ref
<1>1. /\ c \in Refs /\ mutation \in MutationRow /\ NoLiveRun(c) /\ Save(c, Gone)
      /\ mutation.key \in Asks /\ ask[mutation.key] # NoCred /\ mutation' = [mutation EXCEPT !.at = "record"]
      /\ UNCHANGED <<keychain, ask, policies, snapshot, authorised>>
  BY DEF EntryRemoved, Goes, runVars, CredInv, MutationInv
<1>2. Gone \in ItemRow /\ Gone.state = "removed" /\ Gone.active = 0
  BY UnusedRow DEF Gone, Unused
<1>3. CredTypeOK' /\ IndexInv' /\ LiveInv'
  BY <1>1, <1>2, EntryWritten DEF Stable
<1>4. /\ mutation' \in MutationRow /\ mutation'.at = "record" /\ mutation'.ref = c
      /\ mutation'.key = mutation.key
  BY <1>1, MutationGoes
<1>5. MutationInv'
  BY <1>1, <1>4 DEF MutationInv
<1> QED
  BY <1>3, <1>5 DEF CredInv

LEMMA ProbeAnsweredKeeps ==
    ASSUME CredInv, NEW available \in BOOLEAN, ProbeAnswered(available) PROVE CredInv'
<1>1. PICK at \in Stable : mutation' = [mutation EXCEPT !.at = at]
  BY DEF ProbeAnswered, Goes, Stable
<1>2. /\ mutation \in MutationRow /\ mutation.at = "probe" /\ mutation.ref \in Refs
      /\ mutation.key \in Asks /\ ask[mutation.key] # NoCred
      /\ UNCHANGED <<item, keychain, ask, policies, snapshot, authorised>>
  BY DEF ProbeAnswered, CredInv, MutationInv
<1>3. /\ mutation' \in MutationRow /\ mutation'.at = at /\ mutation'.ref = mutation.ref
      /\ mutation'.key = mutation.key
  BY <1>1, <1>2, MutationGoes
<1>4. MutationInv'
  BY <1>2, <1>3 DEF MutationInv, Stable
<1> QED
  BY <1>2, <1>4, StateKept DEF CredInv

\* The verdict of a probe reaches the index only over a stable entry.
LEMMA ProbeSavedKeeps == ASSUME CredInv, ProbeSaved PROVE CredInv'
<1> DEFINE c == mutation.ref
           i == [item[c] EXCEPT !.state = mutation.at, !.meta = @ + 1]
<1>1. /\ c \in Refs /\ mutation \in MutationRow /\ item[c] \in ItemRow /\ item[c].meta + 1 \in Int
      /\ mutation.key \in Asks /\ ask[mutation.key] # NoCred /\ mutation.at \in Stable
      /\ UNCHANGED <<keychain, ask, policies, snapshot, authorised>>
  BY DEF ProbeSaved, runVars, CredInv, CredTypeOK, MutationInv, ItemRow, Stable
<1>2. /\ i \in ItemRow /\ i.state = mutation.at /\ i.resume = item[c].resume
      /\ i.active = item[c].active /\ i.pending = item[c].pending
  <2> DEFINE n == item[c].meta + 1
  <2>1. i = Probed(item[c], mutation.at, n) /\ n \in Int
    BY <1>1 DEF Probed
  <2> HIDE DEF i, n
  <2> QED
    BY <1>1, <2>1 DEF Probed, ItemRow
<1>3. CASE Save(c, i) /\ mutation' = [mutation EXCEPT !.at = "record"]
  <2> HIDE DEF i
  <2>1. ValidEntry(i) /\ ValidItem(item[c])
    BY <1>1, <1>3 DEF Save, CanSave, CredInv, IndexInv
  <2>2. i.active # 0 /\ i.pending = 0 /\ i.resume = "none"
    BY <1>1, <1>2, <2>1, EntryFacts
  <2>3. item[c].state \in Stable
    BY <1>1, <1>2, <2>1, <2>2, EntryFacts DEF ValidItem, ItemRow
  <2>4. HasSecret(c)
    BY <1>1, <2>3 DEF CredInv, IndexInv, ActiveSecretStored, HasSecret
  <2>5. CredTypeOK' /\ IndexInv' /\ LiveInv'
    BY <1>1, <1>2, <1>3, <2>4, EntryWritten DEF Stable, InForce, HasSecret
  <2>6. /\ mutation' \in MutationRow /\ mutation'.at = "record" /\ mutation'.ref = c
        /\ mutation'.key = mutation.key
    BY <1>1, <1>3, MutationGoes
  <2>7. MutationInv'
    BY <1>1, <2>6 DEF MutationInv
  <2> QED
    BY <2>5, <2>7 DEF CredInv
<1>4. CASE mutation' = NoMutation /\ UNCHANGED item
  BY <1>1, <1>4, StateKept, CommandOver DEF CredInv
<1> QED
  BY <1>3, <1>4 DEF ProbeSaved, Goes

\* A request is made; an earlier one is not overwritten.
LEMMA SubmitKeeps ==
    ASSUME CredInv, NEW k \in Asks, NEW m \in Methods, NEW c \in Refs, Submit(k, m, c) PROVE CredInv'
<1> DEFINE a == IF m = "credential.create" THEN [method |-> m, ref |-> NoCred, expected |-> 0]
                ELSE [method |-> m, ref |-> c, expected |-> item[c].meta]
<1>1. /\ ask[k] = NoCred /\ ask' = [ask EXCEPT ![k] = a]
      /\ UNCHANGED <<item, keychain, mutation, policies, snapshot, authorised>>
  BY DEF Submit, runVars
<1>2. a \in AskRow /\ (a.method # "credential.create" => a.ref \in Refs)
  BY DEF CredInv, CredTypeOK, ItemRow, AskRow
<1> HIDE DEF a
<1>3. CredTypeOK'
  BY <1>1, <1>2 DEF CredInv, CredTypeOK
<1>4. IndexInv' /\ LiveInv'
  BY <1>1 DEF CredInv, IndexInv, ValidItem, ActiveSecretStored, LiveInv, LiveRun, HasSecret
<1>5. mutation.at # "idle" => mutation.key \in Asks \ {k} /\ ask'[mutation.key] = ask[mutation.key]
  BY <1>1 DEF CredInv, CredTypeOK, MutationInv
<1>6. MutationInv'
  BY <1>1, <1>5 DEF CredInv, MutationInv, NoLiveRun, LiveRun, HasSecret
<1> QED
  BY <1>3, <1>4, <1>6 DEF CredInv

LEMMA CredInvInductive ==
    CredInv /\ [CredNext]_credVars => CredInv'
<1> SUFFICES ASSUME CredInv, [CredNext]_credVars PROVE CredInv'
  OBVIOUS
<1>1. CASE UNCHANGED credVars
  BY <1>1 DEF credVars, CredInv, CredTypeOK, IndexInv, ValidItem, ActiveSecretStored, LiveInv, LiveRun, HasSecret,
              MutationInv, NoLiveRun
<1>2. CASE AnswerKept \/ CommandFails
  <2>1. mutation' = NoMutation /\ UNCHANGED <<item, keychain, ask, policies, snapshot, authorised>>
    BY <1>2 DEF AnswerKept, CommandFails, runVars
  <2> QED
    BY <2>1, StateKept, CommandOver DEF CredInv
<1>3. CASE Command
  BY <1>2, <1>3, CountsKeep, ReferencesUnknownKeeps, LeasesKeep, SecretsKeep, StoreFailsKeeps, VersionSwitchedKeeps,
     EntryRemovedKeeps, ProbeAnsweredKeeps, ProbeSavedKeeps DEF Command
<1> QED
  BY <1>1, <1>3, SubmitKeeps, CommandsBegin, CrashKeeps, RunsKeep, CredQuietKeeps DEF CredNext, CredQuiet

LEMMA CredInvInitially == CredInit => CredInv
<1> SUFFICES ASSUME CredInit PROVE CredInv
  OBVIOUS
<1>1. CredTypeOK
  BY UnusedRow DEF CredInit, CredTypeOK
<1>2. Unused.state = "unused" /\ Unused.active = 0
  BY DEF Unused
<1>3. ValidItem(Unused)
  BY <1>2 DEF ValidItem, ValidEntry, Stable
<1>4. IndexInv
  BY <1>2, <1>3 DEF CredInit, IndexInv, ActiveSecretStored, Stable
<1>5. LiveInv /\ MutationInv
  BY NoMutationRow DEF CredInit, LiveInv, LiveRun, MutationInv
<1> QED
  BY <1>1, <1>4, <1>5 DEF CredInv

(***************************************************************************)
(* The secret in force is in the Keychain wherever a command fails or the  *)
(* host dies, for any credentials, requests and runs                       *)
(* (credential_update_impl and its siblings in commands.rs).               *)
(***************************************************************************)
THEOREM SecretsInForceAreStored == CredSpec => []ActiveSecretStored
<1>1. CredInv => ActiveSecretStored
  BY DEF CredInv, IndexInv
<1> QED
  BY <1>1, CredInvInitially, CredInvInductive, PTL DEF CredSpec

(***************************************************************************)
(* No credential is deleted under a run that is registered with it, for    *)
(* any credentials, requests and runs (credential_delete_impl against      *)
(* routing.snapshot.register).                                             *)
(***************************************************************************)
THEOREM RunsKeepTheirCredential == CredSpec => []AuthorisedIsKept
<1>1. CredInv => AuthorisedIsKept
  BY DEF CredInv, CredTypeOK, LiveInv, LiveRun, HasSecret, InForce, Stable, AuthorisedIsKept, Listed
<1> QED
  BY <1>1, CredInvInitially, CredInvInductive, PTL DEF CredSpec
=============================================================================
