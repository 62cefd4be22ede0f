----------------------------- MODULE Credentials -----------------------------
(***************************************************************************)
(* Provider credentials in the host: the index file of a profile, the      *)
(* versioned secrets in the Keychain, the four commands that change them   *)
(* (apps/desktop-core/src/commands.rs), and the runs of the Sidecar that   *)
(* use them through registered snapshots (rpc/reverse.rs).                 *)
(*                                                                         *)
(* Commands are serialised by credential_idempotency_lock, but each one is *)
(* a sequence of file writes, Keychain calls and awaits that may fail or   *)
(* be cut short anywhere; runs register, send and end in between.          *)
(* Nothing repairs the index when the host starts.                         *)
(*                                                                         *)
(* All credentials have the same provider and label.  A version of a       *)
(* secret stands for the secret.  Publishing a profile asks for a ready    *)
(* credential too, but that answer is not used again: the registration of  *)
(* a snapshot repeats the question, and only that is modelled.             *)
(***************************************************************************)
EXTENDS Naturals

CONSTANTS
    Refs,         \* credential_ref, each generated once
    Asks,         \* idempotency keys of the user's requests, numbered as they are made
    CredRuns,     \* runs, with one snapshot of one candidate each
    MaxBreaks,    \* bound on failures, crashes and expired records
    NoCred

SnapshotRow == [ref : Refs, version : Nat, at : {"planned", "checked", "registered", "over"}]

ASSUME CredentialsAssumption == NoCred \notin SnapshotRow

VARIABLES
    item,         \* provider-credentials.v1.json
    keychain,     \* the <<ref, version>> that have an entry
    ask,          \* the requests of the user
    mutation,     \* the command that holds the lock, and its locals
    answeredAsks, \* credential-idempotency.v1.json
    policies,     \* Sidecar: the <<ref, version>> that profile versions name
    snapshot,     \* Sidecar: the execution snapshot of a run, and how far the run is
    authorised,   \* SnapshotAuthorizationStore: live snapshots, by run
    leases,       \* CredentialLeaseManager: runs with a request, refs with a probe
    invalid,      \* Sidecar: refs whose deployments are benched as credential_invalid
    loaded,       \* history: the version whose secret the last request of a run carried
    breaks        \* failures, crashes and expired records so far

credVars == <<item, keychain, ask, mutation, answeredAsks, policies, snapshot,
              authorised, leases, invalid, loaded, breaks>>
hostVars == <<item, keychain, ask, mutation, answeredAsks>>
runVars == <<policies, snapshot, authorised, leases, invalid, loaded>>

Methods == {"credential.create", "credential.updateSecret", "credential.delete", "credential.probe"}
Stable == {"unverified", "ready"}

\* Versions start at 1; 0 stands for null.
Unused == [state |-> "unused", resume |-> "none", meta |-> 0, active |-> 0, pending |-> 0]
Gone == [Unused EXCEPT !.state = "removed"]
NoMutation == [key |-> NoCred, ref |-> NoCred, at |-> "idle", prior |-> "none", inUse |-> FALSE]

Listed(c) == item[c].state \notin {"unused", "removed"}

-----------------------------------------------------------------------------
(* The index: load, validate, save *)

ValidEntry(i) ==
    CASE i.state = "creating" -> i.active = 0 /\ i.pending = 1 /\ i.resume = "none"
      [] i.state = "updating" -> i.active # 0 /\ i.pending = i.active + 1 /\ i.resume # "none"
      [] i.state \in Stable -> i.active # 0 /\ i.pending = 0 /\ i.resume = "none"
      [] i.state = "deleting" -> i.active # 0 /\ i.pending = 0 /\ i.resume # "none"
      [] OTHER -> TRUE

HoldsLabel(i) == i.state \notin {"unused", "removed", "deleting"}

\* save refuses an index with an inconsistent entry or two live entries of a label.
CanSave(c, i) ==
    /\ ValidEntry(i)
    /\ HoldsLabel(i) => \A d \in Refs \ {c} : ~HoldsLabel(item[d])

Save(c, i) == CanSave(c, i) /\ item' = [item EXCEPT ![c] = i]

-----------------------------------------------------------------------------
(* Requests.  The lock is held from Enter to the answer. *)

Submit(k, m, c) ==
    /\ ask[k] = NoCred /\ \A j \in Asks : j < k => ask[j] # NoCred
    /\ m # "credential.create" => Listed(c)
    /\ ask' = [ask EXCEPT ![k] =
                  IF m = "credential.create"
                  THEN [method |-> m, ref |-> NoCred, expected |-> 0]
                  ELSE [method |-> m, ref |-> c, expected |-> item[c].meta]]
    /\ UNCHANGED <<item, keychain, mutation, answeredAsks, runVars, breaks>>

\* A request may be sent again with its key until it has a recorded answer.
Enter(k, m) ==
    /\ mutation = NoMutation
    /\ ask[k] # NoCred /\ ask[k].method = m
    /\ k \notin answeredAsks

VersionMatches(k) == Listed(ask[k].ref) /\ item[ask[k].ref].meta = ask[k].expected

Locks(k, c, at) == mutation' = [NoMutation EXCEPT !.key = k, !.ref = c, !.at = at]
Goes(at) == mutation' = [mutation EXCEPT !.at = at]

CreateBegins(k) ==
    /\ Enter(k, "credential.create")
    /\ \A d \in Refs : ~HoldsLabel(item[d])
    /\ \E d \in Refs : item[d] = Unused
    /\ LET c == CHOOSE d \in Refs : item[d] = Unused IN
         /\ Save(c, [Unused EXCEPT !.state = "creating", !.meta = 1, !.pending = 1])
         /\ Locks(k, c, "store")
    /\ UNCHANGED <<keychain, ask, answeredAsks, runVars, breaks>>

UpdateBegins(k) ==
    LET c == ask[k].ref IN
    /\ Enter(k, "credential.updateSecret")
    /\ VersionMatches(k)
    /\ item[c].state \in Stable
    /\ mutation' = [NoMutation EXCEPT !.key = k, !.ref = c, !.at = "snapshots", !.prior = item[c].state]
    /\ UNCHANGED <<item, keychain, ask, answeredAsks, runVars, breaks>>

\* Deliberately wrong: the references are counted first, the index is marked last.
DeleteBeginsUnmarked(k) ==
    LET c == ask[k].ref IN
    /\ Enter(k, "credential.delete")
    /\ VersionMatches(k)
    /\ item[c].state \in Stable
    /\ Locks(k, c, "references")
    /\ UNCHANGED <<item, keychain, ask, answeredAsks, runVars, breaks>>

DeleteBegins(k) ==
    LET c == ask[k].ref IN
    /\ Enter(k, "credential.delete")
    /\ VersionMatches(k)
    /\ item[c].state \in Stable
    /\ Save(c, [item[c] EXCEPT !.state = "deleting", !.resume = item[c].state, !.meta = @ + 1])
    /\ Locks(k, c, "references")
    /\ UNCHANGED <<keychain, ask, answeredAsks, runVars, breaks>>

\* load_keychain_credential: HttpBroker::start and the probe do not name a version.
LoadedVersion == 1

\* The probe takes a lease for its request if it finds a secret; in any state.
ProbeBegins(k) ==
    LET c == ask[k].ref IN
    /\ Enter(k, "credential.probe")
    /\ VersionMatches(k)
    /\ Locks(k, c, "probe")
    /\ leases' = IF <<c, LoadedVersion>> \in keychain THEN leases \cup {c} ELSE leases
    /\ UNCHANGED <<item, keychain, ask, answeredAsks, policies, snapshot,
                   authorised, invalid, loaded, breaks>>

-----------------------------------------------------------------------------
(* Is the credential in use?  Asked by update and delete. *)

\* credential.getReferences: profile versions of any status, snapshots of any run.
References(c) ==
    \/ \E p \in policies : p[1] = c
    \/ \E r \in CredRuns : snapshot[r] # NoCred /\ snapshot[r].ref = c

LeasedRefs == (leases \cap Refs) \cup {snapshot[r].ref : r \in leases \cap CredRuns}

\* A delete that must not go on gives the credential its state back.
Restored(i) == [i EXCEPT !.state = i.resume, !.resume = "none", !.meta = @ + 1]

ReferencesRead ==
    /\ mutation.at = "references"
    /\ mutation' = [mutation EXCEPT !.at = "snapshots", !.inUse = References(mutation.ref)]
    /\ UNCHANGED <<item, keychain, ask, answeredAsks, runVars, breaks>>

\* The Sidecar is not connected or does not answer.
ReferencesUnknown ==
    /\ mutation.at = "references"
    /\ Save(mutation.ref, Restored(item[mutation.ref]))
    /\ mutation' = NoMutation
    /\ UNCHANGED <<keychain, ask, answeredAsks, runVars, breaks>>

SnapshotsCounted ==
    /\ mutation.at = "snapshots"
    /\ mutation' = [mutation EXCEPT
                      !.at = "leases",
                      !.inUse = @ \/ \E r \in authorised : snapshot[r].ref = mutation.ref]
    /\ UNCHANGED <<item, keychain, ask, answeredAsks, runVars, breaks>>

\* The leases are counted and the verdict is acted on without another await.
LeasesCounted ==
    LET c == mutation.ref
        inUse == mutation.inUse \/ c \in LeasedRefs
        deleting == ask[mutation.key].method = "credential.delete"
    IN
    /\ mutation.at = "leases"
    /\ \/ inUse /\ deleting /\ Save(c, Restored(item[c])) /\ mutation' = NoMutation
       \/ inUse /\ ~deleting /\ mutation' = NoMutation /\ UNCHANGED item
       \/ ~inUse /\ deleting /\ Goes("erase") /\ UNCHANGED item
       \/ /\ ~inUse /\ ~deleting /\ Goes("store")
          /\ Save(c, [item[c] EXCEPT !.state = "updating", !.resume = "unverified",
                                     !.pending = item[c].active + 1, !.meta = @ + 1])
    /\ UNCHANGED <<keychain, ask, answeredAsks, runVars, breaks>>

-----------------------------------------------------------------------------
(* Secrets *)

\* Deliberately wrong: the old secret goes before the index names the new one.
SecretReplaced ==
    LET c == mutation.ref IN
    /\ mutation.at = "store"
    /\ keychain' = (keychain \ {<<c, item[c].active>>}) \cup {<<c, item[c].pending>>}
    /\ Goes("switch")
    /\ UNCHANGED <<item, ask, answeredAsks, runVars, breaks>>

SecretStored ==
    LET c == mutation.ref IN
    /\ mutation.at = "store"
    /\ keychain' = keychain \cup {<<c, item[c].pending>>}
    /\ Goes("switch")
    /\ UNCHANGED <<item, ask, answeredAsks, runVars, breaks>>

\* The Keychain refuses: a new entry disappears, an old one is as it was before.
StoreFails ==
    LET c == mutation.ref IN
    /\ mutation.at = "store"
    /\ breaks < MaxBreaks
    /\ \/ item[c].state = "creating" /\ Save(c, Gone)
       \/ /\ item[c].state = "updating"
          /\ Save(c, [item[c] EXCEPT !.state = mutation.prior, !.resume = "none",
                                     !.pending = 0, !.meta = @ - 1])
    /\ mutation' = NoMutation
    /\ breaks' = breaks + 1
    /\ UNCHANGED <<keychain, ask, answeredAsks, runVars>>

VersionSwitched ==
    LET c == mutation.ref IN
    /\ mutation.at = "switch"
    /\ Save(c, [item[c] EXCEPT !.state = "unverified", !.resume = "none",
                               !.active = item[c].pending, !.pending = 0, !.meta = @ + 1])
    /\ Goes(IF item[c].state = "updating" THEN "drop" ELSE "record")
    /\ UNCHANGED <<keychain, ask, answeredAsks, runVars, breaks>>

OldVersionDropped ==
    /\ mutation.at = "drop"
    /\ keychain' = keychain \ {<<mutation.ref, item[mutation.ref].active - 1>>}
    /\ Goes("record")
    /\ UNCHANGED <<item, ask, answeredAsks, runVars, breaks>>

\* Only the version in force is known to the index: an older one stays behind.
SecretErased ==
    /\ mutation.at = "erase"
    /\ keychain' = keychain \ {<<mutation.ref, item[mutation.ref].active>>}
    /\ Goes("remove")
    /\ UNCHANGED <<item, ask, answeredAsks, runVars, breaks>>

EntryRemoved ==
    /\ mutation.at = "remove"
    /\ Save(mutation.ref, Gone)
    /\ Goes("record")
    /\ UNCHANGED <<keychain, ask, answeredAsks, runVars, breaks>>

-----------------------------------------------------------------------------
(* The probe, and the end of a command *)

\* A secret that works is reported to the Sidecar first, whatever the entry says.
ProbeAnswered(available) ==
    LET c == mutation.ref IN
    /\ mutation.at = "probe"
    /\ available => c \in leases
    /\ invalid' = IF available THEN invalid \ {c} ELSE invalid
    /\ Goes(IF available THEN "ready" ELSE "unverified")
    /\ UNCHANGED <<item, keychain, ask, answeredAsks, policies, snapshot,
                   authorised, leases, loaded, breaks>>

\* The verdict is written over the state; an entry in transition does not validate then.
ProbeSaved ==
    LET c == mutation.ref
        entry == [item[c] EXCEPT !.state = mutation.at, !.meta = @ + 1]
    IN
    /\ mutation.at \in Stable
    /\ \/ Save(c, entry) /\ Goes("record")
       \/ ~CanSave(c, entry) /\ mutation' = NoMutation /\ UNCHANGED item
    /\ UNCHANGED <<keychain, ask, answeredAsks, runVars, breaks>>

AnswerKept ==
    /\ mutation.at = "record"
    /\ answeredAsks' = answeredAsks \cup {mutation.key}
    /\ mutation' = NoMutation
    /\ UNCHANGED <<item, keychain, ask, runVars, breaks>>

\* An error of the file system, the Keychain or the Sidecar ends the command where
\* it is; counting snapshots cannot fail.
CommandFails ==
    /\ mutation.at \notin {"idle", "snapshots"}
    /\ breaks < MaxBreaks
    /\ mutation' = NoMutation
    /\ breaks' = breaks + 1
    /\ UNCHANGED <<item, keychain, ask, answeredAsks, runVars>>

\* Records of answers live for 24 hours.
AnswerExpires(k) ==
    /\ k \in answeredAsks /\ mutation = NoMutation
    /\ breaks < MaxBreaks
    /\ answeredAsks' = answeredAsks \ {k}
    /\ breaks' = breaks + 1
    /\ UNCHANGED <<item, keychain, ask, mutation, runVars>>

\* The host dies with its memory; the runs of the Sidecar end with it.
HostCrashes ==
    /\ breaks < MaxBreaks
    /\ mutation' = NoMutation
    /\ authorised' = {} /\ leases' = {}
    /\ snapshot' = [r \in CredRuns |->
                      IF snapshot[r] = NoCred THEN NoCred ELSE [snapshot[r] EXCEPT !.at = "over"]]
    /\ breaks' = breaks + 1
    /\ UNCHANGED <<item, keychain, ask, answeredAsks, policies, invalid, loaded>>

-----------------------------------------------------------------------------
(* Runs *)

\* A profile version names a credential, with its version or with the default.
CredentialNamed(c) ==
    /\ Listed(c)
    /\ \E v \in {1, item[c].active} \ {0} : policies' = policies \cup {<<c, v>>}
    /\ UNCHANGED <<hostVars, snapshot, authorised, leases, invalid, loaded, breaks>>

RunPlanned(r) ==
    /\ snapshot[r] = NoCred
    /\ \E p \in policies :
         snapshot' = [snapshot EXCEPT ![r] = [ref |-> p[1], version |-> p[2], at |-> "planned"]]
    /\ UNCHANGED <<hostVars, policies, authorised, leases, invalid, loaded, breaks>>

RunGoes(r, at) == snapshot' = [snapshot EXCEPT ![r].at = at]
RunIs(r, at) == snapshot[r] # NoCred /\ snapshot[r].at = at

\* routing.snapshot.register reads the index, then takes the lock of the table.
CredentialsChecked(r) ==
    LET i == item[snapshot[r].ref] IN
    /\ RunIs(r, "planned")
    /\ RunGoes(r, IF i.state = "ready" /\ i.active = snapshot[r].version THEN "checked" ELSE "over")
    /\ UNCHANGED <<hostVars, policies, authorised, leases, invalid, loaded, breaks>>

SnapshotRegistered(r) ==
    /\ RunIs(r, "checked")
    /\ RunGoes(r, "registered")
    /\ authorised' = authorised \cup {r}
    /\ UNCHANGED <<hostVars, policies, leases, invalid, loaded, breaks>>

\* credential.http.start: the entry of the named version must exist, then
\* HttpBroker::start loads the one it sends.
RequestStarts(r) ==
    LET c == snapshot[r].ref IN
    /\ RunIs(r, "registered") /\ r \in authorised /\ r \notin leases
    /\ {<<c, snapshot[r].version>>, <<c, LoadedVersion>>} \subseteq keychain
    /\ loaded' = [loaded EXCEPT ![r] = LoadedVersion]
    /\ leases' = leases \cup {r}
    /\ UNCHANGED <<hostVars, policies, snapshot, authorised, invalid, breaks>>

\* The task of a request or a probe gives its lease back; the provider may have
\* refused the secret of a run.
LeaseRevoked(l, refused) ==
    /\ l \in leases
    /\ l \in Refs => mutation.at # "probe" \/ mutation.ref # l
    /\ leases' = leases \ {l}
    /\ refused => l \in CredRuns
    /\ invalid' = IF refused THEN invalid \cup {snapshot[l].ref} ELSE invalid
    /\ UNCHANGED <<hostVars, policies, snapshot, authorised, loaded, breaks>>

\* The run leaves execution: routing.snapshot.revoke.
SnapshotRevoked(r) ==
    /\ RunIs(r, "registered")
    /\ RunGoes(r, "over")
    /\ authorised' = authorised \ {r}
    /\ UNCHANGED <<hostVars, policies, leases, invalid, loaded, breaks>>

\* The deadline of the run passes, or a lost connection clears the table.
SnapshotExpires(r) ==
    /\ r \in authorised
    /\ authorised' = authorised \ {r}
    /\ UNCHANGED <<hostVars, policies, snapshot, leases, invalid, loaded, breaks>>

-----------------------------------------------------------------------------
CredInit ==
    /\ item = [c \in Refs |-> Unused] /\ keychain = {}
    /\ ask = [k \in Asks |-> NoCred] /\ mutation = NoMutation /\ answeredAsks = {}
    /\ policies = {} /\ snapshot = [r \in CredRuns |-> NoCred]
    /\ authorised = {} /\ leases = {} /\ invalid = {}
    /\ loaded = [r \in CredRuns |-> 0] /\ breaks = 0

Command ==
    \/ ReferencesRead \/ ReferencesUnknown \/ SnapshotsCounted \/ LeasesCounted
    \/ SecretStored \/ StoreFails \/ VersionSwitched \/ OldVersionDropped
    \/ SecretErased \/ EntryRemoved
    \/ \E available \in BOOLEAN : ProbeAnswered(available)
    \/ ProbeSaved \/ AnswerKept \/ CommandFails

CredNext ==
    \/ \E k \in Asks, m \in Methods, c \in Refs : Submit(k, m, c)
    \/ \E k \in Asks :
         \/ CreateBegins(k) \/ UpdateBegins(k) \/ DeleteBegins(k) \/ ProbeBegins(k)
         \/ AnswerExpires(k)
    \/ Command
    \/ HostCrashes
    \/ \E c \in Refs : CredentialNamed(c)
    \/ \E r \in CredRuns :
         \/ RunPlanned(r) \/ CredentialsChecked(r) \/ SnapshotRegistered(r)
         \/ RequestStarts(r) \/ SnapshotRevoked(r) \/ SnapshotExpires(r)
    \/ \E l \in leases, refused \in BOOLEAN : LeaseRevoked(l, refused)

CredSpec == CredInit /\ [][CredNext]_credVars

-----------------------------------------------------------------------------
(***************************************************************************)
(* The secret in force is there: an entry that can be used, or that an     *)
(* update left in the middle, names a version that the Keychain has,       *)
(* wherever the update failed or the host died.  (credential_update_impl   *)
(* stores, switches the index, and drops the old version last.)            *)
(***************************************************************************)
ActiveSecretStored ==
    \A c \in Refs :
        item[c].state \in Stable \cup {"updating"} => <<c, item[c].active>> \in keychain

(***************************************************************************)
(* A credential is not deleted under a run: a run with a live snapshot has *)
(* its credential in the index and a secret in force in the Keychain,      *)
(* although the delete counts references, snapshots and leases at          *)
(* different times and a registration checks the index before it counts.   *)
(***************************************************************************)
AuthorisedIsKept ==
    \A r \in authorised :
        LET c == snapshot[r].ref IN Listed(c) /\ <<c, item[c].active>> \in keychain

(***************************************************************************)
(* A request of a run carries the secret of the version that its snapshot  *)
(* names.  (The design: the host loads only the Keychain entry of that     *)
(* version.)                                                               *)
(***************************************************************************)
UsesNamedVersion ==
    \A r \in CredRuns : loaded[r] # 0 => loaded[r] = snapshot[r].version
=============================================================================
