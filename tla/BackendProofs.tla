--------------------------- MODULE BackendProofs ---------------------------
(***************************************************************************)
(* The Backend API, for any number of accounts, sessions, requests, keys,  *)
(* releases and catalog rows.                                              *)
(***************************************************************************)
EXTENDS BackendPublishing, BackendAuth, Catalogue, Integers, TLAPS

-----------------------------------------------------------------------------
(* BackendPublishing. *)

WriteRow == [kind : {"request"}, key : Keys, command : Commands,
             at : {"run", "insert", "commit"},
             locked : SUBSET (Resources \cup Tables), seq : 0..MaxSequence]

ResourceRow == [status : {"absent", "draft", "validated", "published", "deleted"},
                version : Nat, versions : SUBSET Versions]

PublishingTypeOK ==
    /\ resource \in [Resources -> ResourceRow]
    /\ sequence \in [Tables -> [Sequences -> {"absent", "publishing", "published"}]]
    /\ committed \subseteq Keys
    /\ write \in [Writes -> WriteRow \cup {Empty}]
    /\ applied \in [Keys -> Nat]
    /\ \A r \in Writes : InFlight(r) /\ write[r].at = "insert" =>
          write[r].command.kind = "insert"

\* A key in flight belongs to one request and is not committed, and only
\* committed keys were applied.
KeysInv ==
    /\ \A r, s \in Writes : r # s /\ InFlight(r) /\ InFlight(s) => write[r].key # write[s].key
    /\ \A r \in Writes : InFlight(r) => write[r].key \notin committed
    /\ \A k \in Keys : applied[k] = 0 \/ (applied[k] = 1 /\ k \in committed)

\* The requests that hold the lock of an inserted release.
InsertsRelease(r) == /\ InFlight(r)
                     /\ write[r].command.kind = "insert" /\ write[r].command.table = "release"

\* A release exists only where all earlier ones are published, and so does the
\* row that is about to be committed.
ReleasesInv ==
    /\ \A n, m \in Sequences :
          m < n /\ sequence["release"][n] # "absent" => sequence["release"][m] = "published"
    /\ \A r \in Writes : InsertsRelease(r) /\ write[r].at # "run" =>
          /\ write[r].seq \in Sequences
          /\ \A m \in Sequences : m < write[r].seq => sequence["release"][m] # "absent"
    /\ \A r \in Writes : InsertsRelease(r) /\ write[r].at = "commit" =>
          /\ sequence["release"][write[r].seq] = "absent"
          /\ \A m \in Sequences : m < write[r].seq => sequence["release"][m] = "published"
          /\ "release" \in write[r].locked
          /\ \A s \in Writes \ {r} : ~Holds(s, "release")

LocksApart ==
    /\ \A r, s \in Writes : r # s /\ InFlight(r) /\ InFlight(s) =>
          write[r].locked \cap write[s].locked = {}
    /\ \A r \in Writes : InFlight(r) /\ write[r].at # "commit" => write[r].locked = {}

\* A request that is about to commit holds the rows it writes, and has put the
\* packages it adds into the object store.
CommitsReady ==
    \A r \in Writes :
        LET c == write[r].command
        IN  InFlight(r) /\ write[r].at = "commit" /\ ResourceCommand(c) =>
              /\ c.at \in write[r].locked /\ write[r].locked \subseteq Resources
              /\ c.kind # "clone" => write[r].locked = {c.at}
              /\ c.kind = "add" => <<c.at, c.version>> \in objects
              /\ c.kind = "clone" => \A y \in write[r].locked \ {c.at} :
                                        \A v \in resource[c.at].versions : <<y, v>> \in objects

PackagesInv == LocksApart /\ CommitsReady /\ VersionsHavePackages

LEMMA CommandFacts ==
    ASSUME NEW c \in Commands
    PROVE  /\ ResourceCommand(c) => c.at \in Resources
           /\ c.kind \in {"add", "remove"} => c.version \in Versions
           /\ c.kind = "insert" => c.table \in Tables
           /\ c.kind \in {"publish", "reconcile"} => c.release \in Sequences
           /\ ResourceCommand(c) <=> c.kind \notin {"insert", "publish", "reconcile"}
BY DEF Commands, ResourceCommand

LEMMA RowsInFlight ==
    ASSUME PublishingTypeOK, NEW r \in Writes
    PROVE  /\ InFlight(r) <=> write[r] \in WriteRow
           /\ ~InFlight(r) <=> write[r] = Empty
           /\ InFlight(r) => write[r].command \in Commands
BY DEF PublishingTypeOK, InFlight, WriteRow, Empty

\* w is the requests after r has moved to a with the locks l and the sequence n.
Becomes(w, r, a, l, n) ==
    /\ w \in [Writes -> WriteRow \cup {Empty}] /\ w[r] \in WriteRow
    /\ w[r].key = write[r].key /\ w[r].command = write[r].command
    /\ w[r].at = a /\ w[r].locked = l /\ w[r].seq = n
    /\ \A s \in Writes \ {r} : w[s] = write[s]

LEMMA WriteMoves ==
    ASSUME PublishingTypeOK, NEW r \in Writes, InFlight(r),
           NEW a \in {"run", "insert", "commit"}, NEW l \in SUBSET (Resources \cup Tables),
           NEW n \in 0..MaxSequence
    PROVE  /\ Becomes([write EXCEPT ![r].at = a], r, a, write[r].locked, write[r].seq)
           /\ Becomes([write EXCEPT ![r].at = a, ![r].locked = l], r, a, l, write[r].seq)
           /\ Becomes([write EXCEPT ![r].at = a, ![r].seq = n], r, a, write[r].locked, n)
<1>1. write \in [Writes -> WriteRow \cup {Empty}] /\ write[r] \in WriteRow
  BY RowsInFlight DEF PublishingTypeOK
<1>2. Becomes([write EXCEPT ![r].at = a], r, a, write[r].locked, write[r].seq)
  BY <1>1 DEF WriteRow, Becomes
<1>3. Becomes([write EXCEPT ![r].at = a, ![r].locked = l], r, a, l, write[r].seq)
  BY <1>1 DEF WriteRow, Becomes
<1>4. Becomes([write EXCEPT ![r].at = a, ![r].seq = n], r, a, write[r].locked, n)
  BY <1>1 DEF WriteRow, Becomes
<1> QED
  BY <1>2, <1>3, <1>4

LEMMA WriteEnds ==
    ASSUME PublishingTypeOK, NEW r \in Writes, EndWrite(r)
    PROVE  /\ write' \in [Writes -> WriteRow \cup {Empty}] /\ write'[r] = Empty
           /\ \A s \in Writes \ {r} : write'[s] = write[s]
BY DEF PublishingTypeOK, EndWrite

LEMMA WriteEnters ==
    ASSUME PublishingTypeOK, NEW r \in Writes, NEW k \in Keys, NEW c \in Commands,
           EnterKey(r, k, c)
    PROVE  /\ write' \in [Writes -> WriteRow \cup {Empty}] /\ write'[r] \in WriteRow
           /\ write'[r].key = k /\ write'[r].command = c
           /\ write'[r].at = "run" /\ write'[r].locked = {}
           /\ \A s \in Writes \ {r} : write'[s] = write[s]
BY PublishingConstants DEF PublishingTypeOK, EnterKey, WriteRow

\* A request that moves on under its key.
Advances(r) ==
    /\ InFlight(r) /\ UNCHANGED <<resource, sequence, committed, applied>>
    /\ \E a \in {"run", "insert", "commit"}, l \in SUBSET (Resources \cup Tables),
          n \in 0..MaxSequence : Becomes(write', r, a, l, n)

LEMMA ReadSequenceWrites ==
    ASSUME PublishingTypeOK, NEW r \in Writes, ReadSequence(r)
    PROVE  /\ Advances(r) /\ write[r].command.kind = "insert"
           /\ \E n \in 0..(MaxSequence - 1) :
                /\ LastSequence(write[r].command.table, n)
                /\ Becomes(write', r, "insert", write[r].locked, n + 1)
<1>1. PICK n \in 0..(MaxSequence - 1) :
          /\ LastSequence(write[r].command.table, n)
          /\ write' = [write EXCEPT ![r].at = "insert", ![r].seq = n + 1]
  BY DEF ReadSequence
<1>2. InFlight(r) /\ write[r].command.kind = "insert" /\ n + 1 \in 0..MaxSequence
  BY PublishingConstants DEF ReadSequence
<1>3. Becomes(write', r, "insert", write[r].locked, n + 1)
  <2> DEFINE m == n + 1
  <2>1. m \in 0..MaxSequence
    BY <1>2
  <2>2. write' = [write EXCEPT ![r].at = "insert", ![r].seq = m]
    BY <1>1
  <2> HIDE DEF m
  <2>3. Becomes(write', r, "insert", write[r].locked, m)
    BY <2>1, <2>2, <1>2, WriteMoves
  <2> QED
    BY <2>3 DEF m
<1>4. Advances(r)
  BY <1>2, <1>3, RowsInFlight DEF Advances, ReadSequence, WriteRow
<1> QED
  BY <1>1, <1>2, <1>3, <1>4

LEMMA InsertSequenceWrites ==
    ASSUME PublishingTypeOK, NEW r \in Writes, InsertSequence(r)
    PROVE  /\ Advances(r) /\ write[r].command.kind = "insert"
           /\ Becomes(write', r, "commit", {write[r].command.table}, write[r].seq)
<1>1. /\ InFlight(r) /\ write[r].command.kind = "insert"
      /\ write[r].command.table \in Tables /\ write[r].seq \in 0..MaxSequence
  BY RowsInFlight, CommandFacts DEF InsertSequence, WriteRow, PublishingTypeOK
<1>2. write' = [write EXCEPT ![r].at = "commit", ![r].locked = {write[r].command.table}]
  BY DEF InsertSequence
<1>3. Becomes(write', r, "commit", {write[r].command.table}, write[r].seq)
  BY <1>1, <1>2, WriteMoves
<1> QED
  BY <1>1, <1>3 DEF Advances, InsertSequence

LEMMA ReleaseWrites ==
    ASSUME PublishingTypeOK, NEW r \in Writes,
           PublishRelease(r) \/ ReconcileRelease(r), ~Reject(r)
    PROVE  /\ Advances(r) /\ write[r].command.kind \in {"publish", "reconcile"}
           /\ Becomes(write', r, "commit", write[r].locked, write[r].seq)
<1>1. /\ InFlight(r) /\ write[r].command.kind \in {"publish", "reconcile"}
      /\ write' = [write EXCEPT ![r].at = "commit"]
      /\ UNCHANGED <<resource, sequence, committed, applied>>
  BY DEF PublishRelease, ReconcileRelease
<1>2. write[r].locked \in SUBSET (Resources \cup Tables) /\ write[r].seq \in 0..MaxSequence
  BY <1>1, RowsInFlight DEF WriteRow
<1>3. Becomes(write', r, "commit", write[r].locked, write[r].seq)
  BY <1>1, <1>2, WriteMoves
<1> QED
  BY <1>1, <1>2, <1>3 DEF Advances

LEMMA RunResourceWrites ==
    ASSUME PublishingTypeOK, NEW r \in Writes, RunResource(r), ~Reject(r)
    PROVE  /\ Advances(r) /\ ResourceCommand(write[r].command)
           /\ \E y \in NewIds(write[r].command) :
                /\ objects' = Stored(write[r].command, y)
                /\ Becomes(write', r, "commit", {write[r].command.at, y}, write[r].seq)
<1>1. /\ InFlight(r) /\ ResourceCommand(write[r].command)
      /\ UNCHANGED <<resource, sequence, committed, applied>>
  BY DEF RunResource
<1>2. PICK y \in NewIds(write[r].command) :
          /\ objects' = Stored(write[r].command, y)
          /\ write' = [write EXCEPT ![r].at = "commit", ![r].locked = {write[r].command.at, y}]
  BY DEF RunResource
<1>3. write[r].command.at \in Resources /\ y \in Resources
  BY <1>1, <1>2, RowsInFlight, CommandFacts DEF NewIds
<1>4. /\ write[r].seq \in 0..MaxSequence
      /\ {write[r].command.at, y} \in SUBSET (Resources \cup Tables)
  BY <1>1, <1>3, RowsInFlight DEF WriteRow
<1>5. Becomes(write', r, "commit", {write[r].command.at, y}, write[r].seq)
  BY <1>1, <1>2, <1>4, WriteMoves
<1> QED
  BY <1>1, <1>2, <1>3, <1>4, <1>5 DEF Advances

LEMMA ResourceRows ==
    ASSUME PublishingTypeOK, NEW x \in Resources
    PROVE  /\ Created(x) \in ResourceRow /\ Created(x).versions = resource[x].versions
           /\ Validated(x) \in ResourceRow /\ Validated(x).versions = resource[x].versions
           /\ Updated(x) \in ResourceRow /\ Updated(x).versions = resource[x].versions
           /\ Deleted(x) \in ResourceRow /\ Deleted(x).versions = {}
           /\ Cloned(x) \in ResourceRow /\ Cloned(x).versions = resource[x].versions
           /\ \A v \in Versions :
                /\ VersionAdded(x, v) \in ResourceRow
                /\ VersionAdded(x, v).versions = resource[x].versions \cup {v}
                /\ VersionRemoved(x, v) \in ResourceRow
                /\ VersionRemoved(x, v).versions = resource[x].versions \ {v}
<1>1. resource[x] \in ResourceRow
  BY DEF PublishingTypeOK
<1>2. \A vs \in SUBSET Versions :
        Changed(x, vs) \in ResourceRow /\ Changed(x, vs).versions = vs
  BY <1>1 DEF ResourceRow, Changed
<1>3. resource[x].versions \in SUBSET Versions
  BY <1>1 DEF ResourceRow
<1>4. /\ Created(x) \in ResourceRow /\ Created(x).versions = resource[x].versions
      /\ Validated(x) \in ResourceRow /\ Validated(x).versions = resource[x].versions
  BY <1>1 DEF ResourceRow, Created, Validated
<1>5. Deleted(x) \in ResourceRow /\ Deleted(x).versions = {}
  BY <1>1 DEF ResourceRow, Deleted
<1>6. Cloned(x) \in ResourceRow /\ Cloned(x).versions = resource[x].versions
  BY <1>1 DEF ResourceRow, Cloned
<1>7. Updated(x) \in ResourceRow /\ Updated(x).versions = resource[x].versions
  BY <1>2, <1>3 DEF Updated
<1>8. ASSUME NEW v \in Versions
      PROVE  /\ VersionAdded(x, v) \in ResourceRow
             /\ VersionAdded(x, v).versions = resource[x].versions \cup {v}
             /\ VersionRemoved(x, v) \in ResourceRow
             /\ VersionRemoved(x, v).versions = resource[x].versions \ {v}
  <2>1. resource[x].versions \cup {v} \in SUBSET Versions
    BY <1>3
  <2>2. resource[x].versions \ {v} \in SUBSET Versions
    BY <1>3
  <2> QED
    BY <1>2, <2>1, <2>2 DEF VersionAdded, VersionRemoved
<1> QED
  BY <1>4, <1>5, <1>6, <1>7, <1>8

\* The versions of the row that a command writes.
VersionsAfter(c, y) ==
    CASE c.kind = "delete" -> {}
      [] c.kind = "add"    -> resource[y].versions \cup {c.version}
      [] c.kind = "remove" -> resource[y].versions \ {c.version}
      [] c.kind = "clone"  -> resource[c.at].versions
      [] OTHER             -> resource[y].versions

LEMMA EffectRows ==
    ASSUME PublishingTypeOK, NEW c \in Commands, ResourceCommand(c), NEW y \in Resources,
           ResourceEffect(c, y)
    PROVE  /\ resource' \in [Resources -> ResourceRow]
           /\ resource'[y].versions = VersionsAfter(c, y)
           /\ \A x \in Resources \ {y} : resource'[x] = resource[x]
<1>1. resource \in [Resources -> ResourceRow] /\ c.at \in Resources
  BY CommandFacts DEF PublishingTypeOK
<1>2. c.kind \in {"add", "remove"} => c.version \in Versions
  BY CommandFacts
<1>3. ASSUME NEW d \in ResourceRow, d.versions = VersionsAfter(c, y),
             resource' = [resource EXCEPT ![y] = d]
      PROVE  /\ resource' \in [Resources -> ResourceRow]
             /\ resource'[y].versions = VersionsAfter(c, y)
             /\ \A x \in Resources \ {y} : resource'[x] = resource[x]
  BY <1>1, <1>3
<1>4. CASE c.kind = "create"
  <2>1. resource' = [resource EXCEPT ![y] = Created(y)]
    BY <1>4 DEF ResourceEffect
  <2> QED
    BY <1>3, <1>4, <2>1, ResourceRows DEF VersionsAfter
<1>5. CASE c.kind = "validate"
  <2>1. resource' = [resource EXCEPT ![y] = Validated(y)]
    BY <1>5 DEF ResourceEffect
  <2> QED
    BY <1>3, <1>5, <2>1, ResourceRows DEF VersionsAfter
<1>6. CASE c.kind = "update"
  <2>1. resource' = [resource EXCEPT ![y] = Updated(y)]
    BY <1>6 DEF ResourceEffect
  <2> QED
    BY <1>3, <1>6, <2>1, ResourceRows DEF VersionsAfter
<1>7. CASE c.kind = "delete"
  <2>1. resource' = [resource EXCEPT ![y] = Deleted(y)]
    BY <1>7 DEF ResourceEffect
  <2> QED
    BY <1>3, <1>7, <2>1, ResourceRows DEF VersionsAfter
<1>8. CASE c.kind = "add"
  <2>1. resource' = [resource EXCEPT ![y] = VersionAdded(y, c.version)]
    BY <1>8 DEF ResourceEffect
  <2> QED
    BY <1>2, <1>3, <1>8, <2>1, ResourceRows DEF VersionsAfter
<1>9. CASE c.kind = "remove"
  <2>1. resource' = [resource EXCEPT ![y] = VersionRemoved(y, c.version)]
    BY <1>9 DEF ResourceEffect
  <2> QED
    BY <1>2, <1>3, <1>9, <2>1, ResourceRows DEF VersionsAfter
<1>10. CASE c.kind = "clone"
  <2>1. resource' = [resource EXCEPT ![y] = Cloned(c.at)]
    BY <1>10 DEF ResourceEffect
  <2> QED
    BY <1>1, <1>3, <1>10, <2>1, ResourceRows DEF VersionsAfter
<1> QED
  BY <1>4, <1>5, <1>6, <1>7, <1>8, <1>9, <1>10 DEF ResourceCommand

\* What a step does, seen from its request.
Quits(r) ==
    /\ InFlight(r) /\ EndWrite(r) /\ UNCHANGED <<resource, sequence, applied>>
    /\ committed' = committed \/ committed' = committed \cup {write[r].key}

LEMMA PublishingSteps ==
    ASSUME PublishingTypeOK, PublishingNext
    PROVE  \E r \in Writes :
             \/ \E k \in Keys, c \in Commands : EnterKey(r, k, c)
             \/ RunResource(r) /\ ~Reject(r)
             \/ RefuseAdd(r)
             \/ RefuseClone(r)
             \/ ReadSequence(r)
             \/ InsertSequence(r)
             \/ PublishRelease(r) /\ ~Reject(r)
             \/ ReconcileRelease(r) /\ ~Reject(r)
             \/ CommitWrite(r)
             \/ FailWrite(r)
             \/ InFlight(r) /\ write[r].at = "run" /\ Reject(r)
BY DEF PublishingNext, RunResource, PublishRelease, ReconcileRelease

LEMMA RequestsQuit ==
    ASSUME NEW r \in Writes, FailWrite(r) \/ RefuseAdd(r) \/ (InFlight(r) /\ Reject(r))
    PROVE  Quits(r)
BY DEF FailWrite, RefuseAdd, Reject, Quits

\* A refused clone writes the row y, which no other request has, and its packages.
ClonesPartly(r, y) ==
    /\ resource' \in [Resources -> ResourceRow]
    /\ \A x \in Resources \ {y} : resource'[x] = resource[x]
    /\ \A s \in Writes \ {r} : ~Holds(s, y)
    /\ objects \subseteq objects'
    /\ \A v \in resource'[y].versions : <<y, v>> \in objects'

LEMMA RefusedClones ==
    ASSUME PublishingTypeOK, NEW r \in Writes, RefuseClone(r)
    PROVE  /\ InFlight(r) /\ write[r].at = "run" /\ EndWrite(r) /\ write[r].key \in Keys
           /\ UNCHANGED <<sequence, interrupted>>
           /\ committed' = committed \cup {write[r].key}
           /\ applied' = [applied EXCEPT ![write[r].key] = @ + 1]
           /\ \E y \in Resources : ClonesPartly(r, y)
<1> DEFINE c == write[r].command
<1>1. /\ InFlight(r) /\ write[r].at = "run" /\ EndWrite(r) /\ c.kind = "clone"
      /\ UNCHANGED <<sequence, interrupted>>
      /\ committed' = committed \cup {write[r].key}
      /\ applied' = [applied EXCEPT ![write[r].key] = @ + 1]
  BY DEF RefuseClone
<1>2. write[r].key \in Keys /\ c \in Commands /\ c.at \in Resources
  BY <1>1, RowsInFlight, CommandFacts DEF WriteRow, ResourceCommand
<1>3. PICK y \in NewIds(c), signed \in SUBSET resource[c.at].versions :
        \E v \in resource[c.at].versions \ signed :
          /\ objects' = objects \cup ({y} \X (signed \cup {v}))
          /\ resource' = [resource EXCEPT ![y] =
                           [status |-> "draft", version |-> 1, versions |-> signed]]
  BY DEF RefuseClone
<1>4. y \in Resources /\ \A s \in Writes : ~Holds(s, y)
  BY <1>1, <1>3 DEF NewIds
<1>5. signed \in SUBSET Versions
  BY <1>2, <1>3 DEF PublishingTypeOK, ResourceRow
<1> DEFINE d == [status |-> "draft", version |-> 1, versions |-> signed]
<1>6. d \in ResourceRow /\ d.versions = signed
  BY <1>5 DEF ResourceRow
<1>7. resource' = [resource EXCEPT ![y] = d]
  BY <1>3
<1> HIDE DEF d
<1>8. /\ resource' \in [Resources -> ResourceRow] /\ resource'[y].versions = signed
      /\ \A x \in Resources \ {y} : resource'[x] = resource[x]
  BY <1>4, <1>6, <1>7 DEF PublishingTypeOK
<1>9. objects \subseteq objects' /\ \A v \in signed : <<y, v>> \in objects'
  BY <1>3
<1> QED
  BY <1>1, <1>2, <1>4, <1>8, <1>9 DEF ClonesPartly

LEMMA PublishingTypes ==
    ASSUME PublishingTypeOK, [PublishingNext]_publishingVars
    PROVE  PublishingTypeOK'
<1>1. CASE UNCHANGED publishingVars
  BY <1>1 DEF publishingVars, PublishingTypeOK, InFlight
<1>2. CASE PublishingNext
  <2>1. PICK r \in Writes :
             \/ \E k \in Keys, c \in Commands : EnterKey(r, k, c)
             \/ RunResource(r) /\ ~Reject(r)
             \/ RefuseAdd(r)
             \/ RefuseClone(r)
             \/ ReadSequence(r)
             \/ InsertSequence(r)
             \/ PublishRelease(r) /\ ~Reject(r)
             \/ ReconcileRelease(r) /\ ~Reject(r)
             \/ CommitWrite(r)
             \/ FailWrite(r)
             \/ InFlight(r) /\ write[r].at = "run" /\ Reject(r)
    BY <1>2, PublishingSteps
  <2>2. ASSUME NEW k \in Keys, NEW c \in Commands, EnterKey(r, k, c)
        PROVE  PublishingTypeOK'
    BY <2>2, WriteEnters DEF PublishingTypeOK, EnterKey, InFlight
  <2>3. CASE Advances(r) /\ (write'[r].at = "insert" => write[r].command.kind = "insert")
    BY <2>3 DEF Advances, Becomes, PublishingTypeOK, InFlight
  <2>4. CASE RunResource(r) /\ ~Reject(r)
    BY <2>3, <2>4, RunResourceWrites DEF Becomes
  <2>5. CASE ReadSequence(r)
    BY <2>3, <2>5, ReadSequenceWrites DEF Becomes
  <2>6. CASE InsertSequence(r)
    BY <2>3, <2>6, InsertSequenceWrites DEF Becomes
  <2>7. CASE (PublishRelease(r) \/ ReconcileRelease(r)) /\ ~Reject(r)
    BY <2>3, <2>7, ReleaseWrites DEF Becomes
  <2>8. CASE Quits(r)
    <3>1. write[r].key \in Keys
      BY <2>8, RowsInFlight DEF Quits, WriteRow
    <3> QED
      BY <2>8, <3>1, WriteEnds DEF Quits, PublishingTypeOK, InFlight
  <2>9. CASE CommitWrite(r)
    <3>1. InFlight(r) /\ EndWrite(r) /\ write[r].key \in Keys /\ write[r].command \in Commands
      BY <2>9, RowsInFlight DEF CommitWrite, WriteRow
    <3>2. resource' \in [Resources -> ResourceRow]
      <4>1. CASE ~ResourceCommand(write[r].command)
        BY <2>9, <4>1 DEF CommitWrite, PublishingTypeOK
      <4>2. CASE ResourceCommand(write[r].command)
        <5>1. PICK y \in write[r].locked : ResourceEffect(write[r].command, y)
          BY <2>9, <4>2 DEF CommitWrite
        <5>2. CASE y \in Resources
          BY <3>1, <4>2, <5>1, <5>2, EffectRows
        <5>3. CASE y \notin Resources
          BY <5>1, <5>3 DEF ResourceEffect, PublishingTypeOK
        <5> QED
          BY <5>2, <5>3
      <4> QED
        BY <4>1, <4>2
    <3>3. sequence' \in [Tables -> [Sequences -> {"absent", "publishing", "published"}]]
      BY <2>9, <3>1, CommandFacts DEF CommitWrite, PublishingTypeOK, Tables
    <3>4. committed' \subseteq Keys /\ applied' \in [Keys -> Nat]
      BY <2>9, <3>1 DEF CommitWrite, PublishingTypeOK
    <3> QED
      BY <3>1, <3>2, <3>3, <3>4, WriteEnds DEF PublishingTypeOK, InFlight
  <2>10. CASE RefuseClone(r)
    <3>1. /\ EndWrite(r) /\ write[r].key \in Keys /\ UNCHANGED sequence
          /\ committed' = committed \cup {write[r].key}
          /\ applied' = [applied EXCEPT ![write[r].key] = @ + 1]
          /\ resource' \in [Resources -> ResourceRow]
      BY <2>10, RefusedClones DEF ClonesPartly
    <3> QED
      BY <3>1, WriteEnds DEF PublishingTypeOK, InFlight
  <2> QED
    BY <2>1, <2>2, <2>4, <2>5, <2>6, <2>7, <2>8, <2>9, <2>10, RequestsQuit
<1> QED
  BY <1>1, <1>2

LEMMA KeysStep ==
    ASSUME PublishingTypeOK, KeysInv, [PublishingNext]_publishingVars
    PROVE  KeysInv'
<1>1. CASE UNCHANGED publishingVars
  BY <1>1 DEF publishingVars, KeysInv, InFlight
<1>2. CASE PublishingNext
  <2>1. PICK r \in Writes :
             \/ \E k \in Keys, c \in Commands : EnterKey(r, k, c)
             \/ RunResource(r) /\ ~Reject(r)
             \/ RefuseAdd(r)
             \/ RefuseClone(r)
             \/ ReadSequence(r)
             \/ InsertSequence(r)
             \/ PublishRelease(r) /\ ~Reject(r)
             \/ ReconcileRelease(r) /\ ~Reject(r)
             \/ CommitWrite(r)
             \/ FailWrite(r)
             \/ InFlight(r) /\ write[r].at = "run" /\ Reject(r)
    BY <1>2, PublishingSteps
  <2>2. ASSUME NEW k \in Keys, NEW c \in Commands, EnterKey(r, k, c)
        PROVE  KeysInv'
    BY <2>2, WriteEnters DEF KeysInv, EnterKey, HoldsKey, InFlight
  <2>3. CASE Advances(r)
    BY <2>3 DEF Advances, Becomes, KeysInv, InFlight
  <2>4. CASE Quits(r)
    BY <2>4, WriteEnds DEF Quits, KeysInv, InFlight
  <2>5. CASE CommitWrite(r) \/ RefuseClone(r)
    <3>1. /\ InFlight(r) /\ EndWrite(r) /\ write[r].key \in Keys
          /\ committed' = committed \cup {write[r].key}
          /\ applied' = [applied EXCEPT ![write[r].key] = @ + 1]
      BY <2>5, RowsInFlight, RefusedClones DEF CommitWrite, WriteRow
    <3>2. applied[write[r].key] = 0
      BY <3>1 DEF KeysInv
    <3>3. \A k \in Keys : applied'[k] = IF k = write[r].key THEN 1 ELSE applied[k]
      BY <3>1, <3>2 DEF PublishingTypeOK
    <3> QED
      BY <3>1, <3>3, WriteEnds DEF KeysInv, InFlight
  <2> QED
    BY <2>1, <2>2, <2>3, <2>4, <2>5, RequestsQuit, RunResourceWrites, ReadSequenceWrites,
       InsertSequenceWrites, ReleaseWrites
<1> QED
  BY <1>1, <1>2

LEMMA ReleasesStep ==
    ASSUME PublishingTypeOK, ReleasesInv, [PublishingNext]_publishingVars
    PROVE  ReleasesInv'
<1>1. CASE UNCHANGED publishingVars
  BY <1>1 DEF publishingVars, ReleasesInv, InsertsRelease, Holds, InFlight
<1>2. CASE PublishingNext
  <2>1. PICK r \in Writes :
             \/ \E k \in Keys, c \in Commands : EnterKey(r, k, c)
             \/ RunResource(r) /\ ~Reject(r)
             \/ RefuseAdd(r)
             \/ RefuseClone(r)
             \/ ReadSequence(r)
             \/ InsertSequence(r)
             \/ PublishRelease(r) /\ ~Reject(r)
             \/ ReconcileRelease(r) /\ ~Reject(r)
             \/ CommitWrite(r)
             \/ FailWrite(r)
             \/ InFlight(r) /\ write[r].at = "run" /\ Reject(r)
    BY <1>2, PublishingSteps
  <2>2. ASSUME NEW k \in Keys, NEW c \in Commands, EnterKey(r, k, c)
        PROVE  ReleasesInv'
    BY <2>2, WriteEnters DEF ReleasesInv, EnterKey, InsertsRelease, Holds, InFlight
  <2>3. CASE Quits(r)
    BY <2>3, WriteEnds DEF Quits, ReleasesInv, InsertsRelease, Holds, InFlight
  \* No lock on releases is taken and no release inserted.
  <2>4. ASSUME Advances(r), write[r].command.kind # "insert",
               "release" \in write'[r].locked => "release" \in write[r].locked
        PROVE  ReleasesInv'
    BY <2>4 DEF Advances, Becomes, ReleasesInv, InsertsRelease, Holds, InFlight
  <2>5. CASE RunResource(r) /\ ~Reject(r)
    <3>1. write[r].command.at \in Resources /\ write[r].command.kind # "insert"
      BY <2>5, RunResourceWrites, RowsInFlight, CommandFacts DEF Advances
    <3>2. \A y \in NewIds(write[r].command) : "release" \notin {write[r].command.at, y}
      BY <3>1, PublishingConstants DEF NewIds
    <3> QED
      BY <2>4, <2>5, <3>1, <3>2, RunResourceWrites DEF Becomes
  <2>6. CASE (PublishRelease(r) \/ ReconcileRelease(r)) /\ ~Reject(r)
    BY <2>4, <2>6, ReleaseWrites DEF Becomes
  <2>7. CASE ReadSequence(r)
    <3>1. Advances(r) /\ write[r].command.kind = "insert" /\ write[r].at = "run"
      BY <2>7, ReadSequenceWrites DEF ReadSequence
    <3>2. PICK n \in 0..(MaxSequence - 1) :
            /\ LastSequence(write[r].command.table, n)
            /\ Becomes(write', r, "insert", write[r].locked, n + 1)
      BY <2>7, ReadSequenceWrites
    <3>3. n + 1 \in Sequences
      BY PublishingConstants DEF Sequences
    <3>4. ASSUME write[r].command.table = "release", NEW m \in Sequences, m < n + 1
          PROVE  sequence["release"][m] # "absent"
      BY <3>2, <3>4, PublishingConstants DEF LastSequence, ReleasesInv, Sequences
    <3> DEFINE i == n + 1
    <3>5. /\ i \in Sequences /\ Becomes(write', r, "insert", write[r].locked, i)
          /\ \A m \in Sequences : m < i /\ write[r].command.table = "release" =>
                                  sequence["release"][m] # "absent"
      BY <3>2, <3>3, <3>4
    <3> HIDE DEF i
    <3>6. UNCHANGED sequence /\ InFlight(r)
      BY <3>1 DEF Advances
    <3> QED
      BY <3>1, <3>5, <3>6 DEF Becomes, ReleasesInv, InsertsRelease, Holds, InFlight
  <2>8. CASE InsertSequence(r)
    <3>1. /\ Advances(r) /\ write[r].command.kind = "insert"
          /\ Becomes(write', r, "commit", {write[r].command.table}, write[r].seq)
      BY <2>8, InsertSequenceWrites
    <3>2. /\ InFlight(r) /\ write[r].at = "insert" /\ UNCHANGED sequence
          /\ \A s \in Writes \ {r} : ~Holds(s, write[r].command.table)
          /\ UniqueRelease(write[r].command.table, write[r].seq)
      BY <2>8 DEF InsertSequence
    <3>3. CASE write[r].command.table # "release"
      BY <3>1, <3>2, <3>3 DEF Becomes, ReleasesInv, InsertsRelease, Holds, InFlight
    <3>4. CASE write[r].command.table = "release"
      <4>1. InsertsRelease(r)
        BY <3>1, <3>2, <3>4 DEF InsertsRelease
      <4>2. /\ sequence["release"][write[r].seq] = "absent"
            /\ \A m \in Sequences : m < write[r].seq => sequence["release"][m] = "published"
        BY <3>2, <3>4, <4>1 DEF UniqueRelease, ReleasesInv, PublishingTypeOK, Tables
      <4>3. \A s \in Writes \ {r} : ~(InsertsRelease(s) /\ write[s].at = "commit")
        BY <3>2, <3>4 DEF ReleasesInv, Holds, InsertsRelease
      <4> QED
        BY <3>1, <3>2, <3>4, <4>1, <4>2, <4>3
           DEF Becomes, ReleasesInv, InsertsRelease, Holds, InFlight
    <3> QED
      BY <3>3, <3>4
  <2>9. CASE CommitWrite(r)
    <3> DEFINE c == write[r].command
    <3>1. InFlight(r) /\ EndWrite(r) /\ c \in Commands /\ write[r].at = "commit"
      BY <2>9, RowsInFlight DEF CommitWrite
    <3>2. CASE c.kind = "insert" /\ c.table = "release"
      <4>1. sequence' = [sequence EXCEPT !["release"][write[r].seq] = "publishing"]
        BY <2>9, <3>2 DEF CommitWrite
      <4>2. InsertsRelease(r)
        BY <3>1, <3>2 DEF InsertsRelease
      <4>3. write[r].seq \in Sequences /\ sequence["release"][write[r].seq] = "absent"
        BY <3>1, <4>2 DEF ReleasesInv
      <4>4. \A m \in Sequences : sequence'["release"][m] =
               IF m = write[r].seq THEN "publishing" ELSE sequence["release"][m]
        BY <4>1, <4>3 DEF PublishingTypeOK, Tables
      <4>5. \A s \in Writes \ {r} : ~(InsertsRelease(s) /\ write[s].at = "commit")
        BY <3>1, <4>2 DEF ReleasesInv, Holds, InsertsRelease
      <4>6. \A n, m \in Sequences :
              m < n /\ sequence'["release"][n] # "absent" => sequence'["release"][m] = "published"
        BY <3>1, <4>2, <4>3, <4>4 DEF ReleasesInv
      <4>7. \A s \in Writes \ {r} : InsertsRelease(s) /\ write[s].at # "run" =>
              /\ write[s].seq \in Sequences
              /\ \A m \in Sequences : m < write[s].seq => sequence'["release"][m] # "absent"
        BY <4>4 DEF ReleasesInv
      <4> QED
        BY <3>1, <4>5, <4>6, <4>7, WriteEnds DEF ReleasesInv, InsertsRelease, Holds, InFlight
    <3>3. CASE c.kind = "publish"
      <4>1. /\ sequence' = [sequence EXCEPT !["release"][c.release] = "published"]
            /\ sequence["release"][c.release] = "publishing" /\ c.release \in Sequences
        BY <2>9, <3>1, <3>3, CommandFacts DEF CommitWrite
      <4>2. \A m \in Sequences : sequence'["release"][m] =
               IF m = c.release THEN "published" ELSE sequence["release"][m]
        BY <4>1 DEF PublishingTypeOK, Tables
      <4> QED
        BY <3>1, <4>1, <4>2, WriteEnds DEF ReleasesInv, InsertsRelease, Holds, InFlight
    <3>4. CASE ~(c.kind = "insert" /\ c.table = "release") /\ c.kind # "publish"
      <4>1. sequence'["release"] = sequence["release"]
        BY <2>9, <3>1, <3>4, CommandFacts DEF CommitWrite, PublishingTypeOK, Tables
      <4> QED
        BY <3>1, <4>1, WriteEnds DEF ReleasesInv, InsertsRelease, Holds, InFlight
    <3> QED
      BY <3>2, <3>3, <3>4
  <2>10. CASE RefuseClone(r)
    BY <2>10, RefusedClones, WriteEnds DEF ReleasesInv, InsertsRelease, Holds, InFlight
  <2> QED
    BY <2>1, <2>2, <2>3, <2>5, <2>6, <2>7, <2>8, <2>9, <2>10, RequestsQuit
<1> QED
  BY <1>1, <1>2

\* The version v of x is removed by r.
Removes(r, x, v) ==
    /\ InFlight(r) /\ write[r].at = "commit" /\ write[r].command.at = x
    /\ \/ write[r].command.kind = "remove" /\ v = write[r].command.version
       \/ write[r].command.kind = "delete" /\ v \in resource[x].versions

LEMMA RemovingIs ==
    ASSUME NEW r \in Writes, NEW x \in Resources, NEW v
    PROVE  /\ <<x, v>> \in Removing(r) <=> Removes(r, x, v)
           /\ <<x, v>> \in Removing(r)' <=> Removes(r, x, v)'
BY DEF Removing, Removes, PackagesOf

LEMMA PackagesAre ==
    /\ VersionsHavePackages <=>
         \A x \in Resources : \A v \in resource[x].versions :
           <<x, v>> \in objects \/ <<x, v>> \in interrupted \/ \E r \in Writes : Removes(r, x, v)
    /\ VersionsHavePackages' <=>
         \A x \in Resources : \A v \in resource'[x].versions :
           <<x, v>> \in objects' \/ <<x, v>> \in interrupted' \/ \E r \in Writes : Removes(r, x, v)'
BY RemovingIs DEF VersionsHavePackages

\* What a command may do to the object store.
LEMMA StoredIs ==
    ASSUME PublishingTypeOK, NEW c \in Commands, ResourceCommand(c), NEW y
    PROVE  /\ \A x \in Resources : \A v : <<x, v>> \in objects /\ <<x, v>> \notin Stored(c, y) =>
                /\ x = c.at
                /\ \/ c.kind = "remove" /\ v = c.version
                   \/ c.kind = "delete" /\ v \in resource[x].versions
           /\ c.kind = "add" => <<c.at, c.version>> \in Stored(c, y)
           /\ c.kind = "clone" => \A v \in resource[c.at].versions : <<y, v>> \in Stored(c, y)
BY DEF Stored, PackagesOf, ResourceCommand

LEMMA LocksStep ==
    ASSUME PublishingTypeOK, LocksApart, [PublishingNext]_publishingVars
    PROVE  LocksApart'
<1>1. CASE UNCHANGED publishingVars
  BY <1>1 DEF publishingVars, LocksApart, InFlight
<1>2. CASE PublishingNext
  <2>1. PICK r \in Writes :
             \/ \E k \in Keys, c \in Commands : EnterKey(r, k, c)
             \/ RunResource(r) /\ ~Reject(r)
             \/ RefuseAdd(r)
             \/ RefuseClone(r)
             \/ ReadSequence(r)
             \/ InsertSequence(r)
             \/ PublishRelease(r) /\ ~Reject(r)
             \/ ReconcileRelease(r) /\ ~Reject(r)
             \/ CommitWrite(r)
             \/ FailWrite(r)
             \/ InFlight(r) /\ write[r].at = "run" /\ Reject(r)
    BY <1>2, PublishingSteps
  <2>2. ASSUME NEW k \in Keys, NEW c \in Commands, EnterKey(r, k, c)
        PROVE  LocksApart'
    BY <2>2, WriteEnters DEF LocksApart, InFlight
  <2>3. CASE EndWrite(r)
    BY <2>3, WriteEnds DEF LocksApart, InFlight
  <2>4. CASE RunResource(r) /\ ~Reject(r)
    <3>1. PICK y \in NewIds(write[r].command) :
            Becomes(write', r, "commit", {write[r].command.at, y}, write[r].seq)
      BY <2>4, RunResourceWrites
    <3>2. \A s \in Writes \ {r} : InFlight(s) => write[s].locked \cap {write[r].command.at, y} = {}
      BY <2>4 DEF RunResource, NewIds, Holds
    <3> QED
      BY <3>1, <3>2 DEF LocksApart, InFlight, Becomes
  <2>5. CASE ReadSequence(r)
    <3>1. write[r].locked = {} /\ InFlight(r)
      BY <2>5 DEF ReadSequence, LocksApart
    <3> QED
      BY <3>1, <2>5, ReadSequenceWrites DEF LocksApart, InFlight, Becomes
  <2>6. CASE InsertSequence(r)
    <3>1. \A s \in Writes \ {r} : InFlight(s) => write[s].locked \cap {write[r].command.table} = {}
      BY <2>6 DEF InsertSequence, Holds
    <3> QED
      BY <2>6, <3>1, InsertSequenceWrites DEF LocksApart, InFlight, Becomes
  <2>7. CASE (PublishRelease(r) \/ ReconcileRelease(r)) /\ ~Reject(r)
    <3>1. InFlight(r)
      BY <2>7 DEF PublishRelease, ReconcileRelease
    <3> QED
      BY <2>7, <3>1, ReleaseWrites DEF LocksApart, InFlight, Becomes
  <2> QED
    BY <2>1, <2>2, <2>3, <2>4, <2>5, <2>6, <2>7 
       DEF CommitWrite, FailWrite, RefuseAdd, RefuseClone, Reject
<1> QED
  BY <1>1, <1>2

\* Requests that do not run a resource command leave packages and rows alone.
LEMMA ReleaseStorage ==
    ASSUME PublishingTypeOK, NEW r \in Writes,
           PublishRelease(r) \/ ReconcileRelease(r), ~Reject(r)
    PROVE  \A x \in Resources : \A v : <<x, v>> \in objects => <<x, v>> \in objects'
BY PublishingConstants DEF PublishRelease, ReconcileRelease, Uploads, Dangling, Bundle

LEMMA CommitWrites ==
    ASSUME PublishingTypeOK, CommitsReady, NEW r \in Writes, CommitWrite(r),
           ResourceCommand(write[r].command)
    PROVE  \E y \in write[r].locked \cap Resources :
             /\ resource' \in [Resources -> ResourceRow]
             /\ resource'[y].versions = VersionsAfter(write[r].command, y)
             /\ \A x \in Resources \ {y} : resource'[x] = resource[x]
             /\ write[r].command.kind = "clone" => y # write[r].command.at
<1>1. InFlight(r) /\ write[r].at = "commit" /\ write[r].command \in Commands
  BY RowsInFlight DEF CommitWrite
<1>2. PICK y \in write[r].locked : /\ write[r].command.kind = "clone" => y # write[r].command.at
                                   /\ ResourceEffect(write[r].command, y)
  BY DEF CommitWrite
<1>3. y \in Resources
  BY <1>1, <1>2 DEF CommitsReady
<1> QED
  BY <1>1, <1>2, <1>3, EffectRows

LEMMA ReadyStep ==
    ASSUME PublishingTypeOK, LocksApart, CommitsReady, [PublishingNext]_publishingVars
    PROVE  CommitsReady'
<1>1. CASE UNCHANGED publishingVars
  BY <1>1 DEF publishingVars, CommitsReady, InFlight
<1>2. CASE PublishingNext
  <2>1. PICK r \in Writes :
             \/ \E k \in Keys, c \in Commands : EnterKey(r, k, c)
             \/ RunResource(r) /\ ~Reject(r)
             \/ RefuseAdd(r)
             \/ RefuseClone(r)
             \/ ReadSequence(r)
             \/ InsertSequence(r)
             \/ PublishRelease(r) /\ ~Reject(r)
             \/ ReconcileRelease(r) /\ ~Reject(r)
             \/ CommitWrite(r)
             \/ FailWrite(r)
             \/ InFlight(r) /\ write[r].at = "run" /\ Reject(r)
    BY <1>2, PublishingSteps
  <2>2. ASSUME NEW k \in Keys, NEW c \in Commands, EnterKey(r, k, c)
        PROVE  CommitsReady'
    BY <2>2, WriteEnters DEF CommitsReady, EnterKey, InFlight
  <2>3. CASE FailWrite(r) \/ (InFlight(r) /\ Reject(r))
    BY <2>3, WriteEnds DEF FailWrite, Reject, CommitsReady, InFlight
  <2>4. CASE RunResource(r) /\ ~Reject(r)
    <3> DEFINE c == write[r].command
    <3>1. PICK y \in NewIds(c) : /\ objects' = Stored(c, y)
                                 /\ Becomes(write', r, "commit", {c.at, y}, write[r].seq)
      BY <2>4, RunResourceWrites
    <3>2. c \in Commands /\ ResourceCommand(c) /\ UNCHANGED resource
      BY <2>4, RowsInFlight DEF RunResource
    <3>3. c.at \in Resources /\ y \in Resources /\ (c.kind # "clone" => y = c.at)
      BY <3>1, <3>2, CommandFacts DEF NewIds
    \* Of the other requests at work none has the row of this one.
    <3>4. ASSUME NEW s \in Writes \ {r}, InFlight(s), write[s].at = "commit",
                 ResourceCommand(write[s].command),
                 NEW x \in write[s].locked, NEW v, <<x, v>> \in objects
          PROVE  <<x, v>> \in objects'
      <4>1. x \in Resources /\ x # c.at
        BY <2>4, <3>4 DEF RunResource, Holds, CommitsReady
      <4> QED
        BY <3>1, <3>2, <3>4, <4>1, StoredIs
    <3>5. ASSUME NEW s \in Writes, InFlight(s)', write'[s].at = "commit",
                 ResourceCommand(write'[s].command)
          PROVE  LET d == write'[s].command
                 IN  /\ d.at \in write'[s].locked /\ write'[s].locked \subseteq Resources
                     /\ d.kind # "clone" => write'[s].locked = {d.at}
                     /\ d.kind = "add" => <<d.at, d.version>> \in objects'
                     /\ d.kind = "clone" => \A z \in write'[s].locked \ {d.at} :
                           \A v \in resource'[d.at].versions : <<z, v>> \in objects'
      <4>1. CASE s = r
        BY <3>1, <3>2, <3>3, <4>1, StoredIs DEF Becomes
      <4>2. CASE s # r
        <5>1. write'[s] = write[s] /\ InFlight(s)
          BY <3>1, <3>5, <4>2 DEF Becomes, InFlight
        <5> QED
          BY <3>2, <3>4, <3>5, <4>2, <5>1 DEF CommitsReady
      <4> QED
        BY <4>1, <4>2
    <3> QED
      BY <3>5 DEF CommitsReady
  <2>5. CASE ReadSequence(r)
    BY <2>5, ReadSequenceWrites DEF ReadSequence, Advances, Becomes, CommitsReady, InFlight
  <2>6. CASE InsertSequence(r)
    <3>1. /\ ~ResourceCommand(write[r].command) /\ UNCHANGED <<resource, objects>>
          /\ Becomes(write', r, "commit", {write[r].command.table}, write[r].seq)
      BY <2>6, InsertSequenceWrites DEF InsertSequence, ResourceCommand
    <3> QED
      BY <3>1 DEF Becomes, CommitsReady, InFlight
  <2>7. CASE (PublishRelease(r) \/ ReconcileRelease(r)) /\ ~Reject(r)
    <3>1. \A x \in Resources : \A v : <<x, v>> \in objects => <<x, v>> \in objects'
      BY <2>7, ReleaseStorage
    <3>2. /\ ~ResourceCommand(write[r].command) /\ UNCHANGED resource
          /\ Becomes(write', r, "commit", write[r].locked, write[r].seq)
      BY <2>7, ReleaseWrites DEF Advances, ResourceCommand
    <3>3. ASSUME NEW s \in Writes, InFlight(s)', write'[s].at = "commit",
                 ResourceCommand(write'[s].command)
          PROVE  s # r /\ InFlight(s) /\ write'[s] = write[s]
      BY <3>2, <3>3 DEF Becomes, InFlight
    <3>4. ASSUME NEW s \in Writes, InFlight(s), write[s].at = "commit",
                 ResourceCommand(write[s].command)
          PROVE  LET d == write[s].command
                 IN  /\ d.at \in write[s].locked /\ write[s].locked \subseteq Resources
                     /\ d.kind # "clone" => write[s].locked = {d.at}
                     /\ d.kind = "add" => <<d.at, d.version>> \in objects'
                     /\ d.kind = "clone" => \A z \in write[s].locked \ {d.at} :
                           \A v \in resource[d.at].versions : <<z, v>> \in objects'
      <4>1. write[s].command.at \in write[s].locked /\ write[s].locked \subseteq Resources
        BY <3>4 DEF CommitsReady
      <4>2. write[s].command.kind = "add" =>
                <<write[s].command.at, write[s].command.version>> \in objects'
        BY <3>1, <3>4, <4>1 DEF CommitsReady
      <4>3. ASSUME write[s].command.kind = "clone", NEW z \in write[s].locked,
                   z # write[s].command.at, NEW v \in resource[write[s].command.at].versions
            PROVE  <<z, v>> \in objects'
        BY <3>1, <3>4, <4>1, <4>3 DEF CommitsReady
      <4> QED
        BY <3>4, <4>1, <4>2, <4>3 DEF CommitsReady
    <3> QED
      BY <3>2, <3>3, <3>4 DEF CommitsReady
  <2>8. CASE CommitWrite(r)
    <3> DEFINE c == write[r].command
    <3>1. InFlight(r) /\ write[r].at = "commit" /\ EndWrite(r) /\ UNCHANGED objects
      BY <2>8 DEF CommitWrite
    <3>2. ASSUME NEW s \in Writes \ {r}, InFlight(s), write[s].at = "commit",
                 ResourceCommand(write[s].command)
          PROVE  resource'[write[s].command.at] = resource[write[s].command.at]
      <4>1. CASE ~ResourceCommand(c)
        BY <2>8, <4>1 DEF CommitWrite
      <4>2. CASE ResourceCommand(c)
        <5>1. PICK y \in write[r].locked \cap Resources :
                 \A x \in Resources \ {y} : resource'[x] = resource[x]
          BY <2>8, <4>2, CommitWrites
        <5>2. write[s].command.at \in write[s].locked /\ write[s].command.at \in Resources
          BY <3>2 DEF CommitsReady
        <5>3. write[r].locked \cap write[s].locked = {}
          BY <3>1, <3>2 DEF LocksApart
        <5> QED
          BY <5>1, <5>2, <5>3
      <4> QED
        BY <4>1, <4>2
    <3> QED
      BY <3>1, <3>2, WriteEnds DEF CommitsReady, InFlight
  <2>9. CASE RefuseAdd(r)
    <3>1. EndWrite(r) /\ UNCHANGED resource /\ objects \subseteq objects'
      BY <2>9 DEF RefuseAdd, Stored
    <3> QED
      BY <3>1, WriteEnds DEF CommitsReady, InFlight
  <2>10. CASE RefuseClone(r)
    <3>1. PICK y \in Resources : ClonesPartly(r, y)
      BY <2>10, RefusedClones
    <3>2. EndWrite(r) /\ objects \subseteq objects'
      BY <2>10, <3>1, RefusedClones DEF ClonesPartly
    <3>3. ASSUME NEW s \in Writes \ {r}, InFlight(s), write[s].at = "commit",
                 ResourceCommand(write[s].command)
          PROVE  resource'[write[s].command.at] = resource[write[s].command.at]
      <4>1. write[s].command.at \in write[s].locked /\ write[s].locked \subseteq Resources
        BY <3>3 DEF CommitsReady
      <4> QED
        BY <3>1, <3>3, <4>1 DEF ClonesPartly, Holds
    <3> QED
      BY <3>2, <3>3, WriteEnds DEF CommitsReady, InFlight
  <2> QED
    BY <2>1, <2>2, <2>3, <2>4, <2>5, <2>6, <2>7, <2>8, <2>9, <2>10
<1> QED
  BY <1>1, <1>2

LEMMA PackagesStep ==
    ASSUME PublishingTypeOK, PackagesInv, [PublishingNext]_publishingVars
    PROVE  VersionsHavePackages'
<1> USE DEF PackagesInv
<1>1. CASE UNCHANGED publishingVars
  BY <1>1 DEF publishingVars, VersionsHavePackages, Removing, InFlight, PackagesOf
<1>2. CASE PublishingNext
  <2>1. PICK r \in Writes :
             \/ \E k \in Keys, c \in Commands : EnterKey(r, k, c)
             \/ RunResource(r) /\ ~Reject(r)
             \/ RefuseAdd(r)
             \/ RefuseClone(r)
             \/ ReadSequence(r)
             \/ InsertSequence(r)
             \/ PublishRelease(r) /\ ~Reject(r)
             \/ ReconcileRelease(r) /\ ~Reject(r)
             \/ CommitWrite(r)
             \/ FailWrite(r)
             \/ InFlight(r) /\ write[r].at = "run" /\ Reject(r)
    BY <1>2, PublishingSteps
  \* No package is deleted, none of the removals ends, and no version appears.
  <2>2. ASSUME UNCHANGED <<resource, interrupted>>,
               \A x \in Resources : \A v : <<x, v>> \in objects => <<x, v>> \in objects',
               \A s \in Writes, x \in Resources : \A v : Removes(s, x, v) => Removes(s, x, v)'
        PROVE  VersionsHavePackages'
    BY <2>2, PackagesAre
  <2>3. ASSUME NEW k \in Keys, NEW c \in Commands, EnterKey(r, k, c)
        PROVE  VersionsHavePackages'
    BY <2>2, <2>3, WriteEnters DEF EnterKey, Removes, InFlight
  <2>4. CASE InFlight(r) /\ write[r].at = "run" /\ Reject(r)
    BY <2>2, <2>4, WriteEnds DEF Reject, Removes, InFlight
  <2>5. CASE FailWrite(r)
    <3>1. /\ UNCHANGED <<resource, objects>> /\ interrupted' = interrupted \cup Removing(r)
          /\ EndWrite(r)
      BY <2>5 DEF FailWrite
    <3>2. \A s \in Writes \ {r}, x \in Resources : \A v : Removes(s, x, v) => Removes(s, x, v)'
      BY <3>1, WriteEnds DEF Removes, InFlight
    <3>3. \A x \in Resources : \A v : Removes(r, x, v) => <<x, v>> \in interrupted'
      BY <3>1, RemovingIs
    <3> QED
      BY <3>1, <3>2, <3>3, PackagesAre
  <2>6. CASE ReadSequence(r)
    <3>1. write[r].at = "run" /\ UNCHANGED <<resource, objects, interrupted>>
      BY <2>6 DEF ReadSequence
    <3>2. \A s \in Writes \ {r} : write'[s] = write[s]
      BY <2>6, ReadSequenceWrites DEF Becomes
    <3> QED
      BY <2>2, <3>1, <3>2 DEF Removes, InFlight
  <2>7. CASE InsertSequence(r)
    <3>1. write[r].at = "insert" /\ UNCHANGED <<resource, objects, interrupted>>
      BY <2>7 DEF InsertSequence
    <3>2. \A s \in Writes \ {r} : write'[s] = write[s]
      BY <2>7, InsertSequenceWrites DEF Becomes
    <3> QED
      BY <2>2, <3>1, <3>2 DEF Removes, InFlight
  <2>8. CASE (PublishRelease(r) \/ ReconcileRelease(r)) /\ ~Reject(r)
    <3>1. write[r].at = "run" /\ UNCHANGED <<resource, interrupted>>
      BY <2>8 DEF PublishRelease, ReconcileRelease
    <3>2. \A s \in Writes \ {r} : write'[s] = write[s]
      BY <2>8, ReleaseWrites DEF Becomes
    <3> QED
      BY <2>2, <2>8, <3>1, <3>2, ReleaseStorage DEF Removes, InFlight
  <2>9. CASE RunResource(r) /\ ~Reject(r)
    <3> DEFINE c == write[r].command
    <3>1. PICK y \in NewIds(c) : /\ objects' = Stored(c, y)
                                 /\ Becomes(write', r, "commit", {c.at, y}, write[r].seq)
      BY <2>9, RunResourceWrites
    <3>2. /\ c \in Commands /\ ResourceCommand(c) /\ UNCHANGED <<resource, interrupted>>
          /\ write[r].at = "run"
      BY <2>9, RowsInFlight DEF RunResource
    <3>3. \A s \in Writes, x \in Resources : \A v : Removes(s, x, v) => Removes(s, x, v)'
      BY <3>1, <3>2 DEF Becomes, Removes, InFlight
    <3>4. ASSUME NEW x \in Resources, NEW v \in resource[x].versions,
                 <<x, v>> \in objects, <<x, v>> \notin objects'
          PROVE  Removes(r, x, v)'
      <4>1. InFlight(r)' /\ write'[r].command = c /\ write'[r].at = "commit"
        BY <3>1 DEF Becomes, WriteRow, InFlight, Empty
      <4>2. /\ x = c.at
            /\ \/ c.kind = "remove" /\ v = c.version
               \/ c.kind = "delete" /\ v \in resource[x].versions
        BY <3>1, <3>2, <3>4, StoredIs
      <4> QED
        BY <3>2, <4>1, <4>2 DEF Removes
    <3> QED
      BY <3>2, <3>3, <3>4, PackagesAre
  <2>10. CASE CommitWrite(r)
    <3> DEFINE c == write[r].command
    <3>1. /\ InFlight(r) /\ write[r].at = "commit" /\ EndWrite(r)
          /\ UNCHANGED <<objects, interrupted>> /\ c \in Commands
      BY <2>10, RowsInFlight DEF CommitWrite
    <3>2. CASE ~ResourceCommand(c)
      <4>1. UNCHANGED resource /\ c.kind \notin {"remove", "delete"}
        BY <2>10, <3>2 DEF CommitWrite, ResourceCommand
      <4>2. \A s \in Writes \ {r} : write'[s] = write[s]
        BY <3>1, WriteEnds
      <4> QED
        BY <2>2, <3>1, <4>1, <4>2 DEF Removes, InFlight
    <3>3. CASE ResourceCommand(c)
      <4>1. PICK y \in write[r].locked \cap Resources :
             /\ resource'[y].versions = VersionsAfter(c, y)
             /\ \A x \in Resources \ {y} : resource'[x] = resource[x]
             /\ c.kind = "clone" => y # c.at
        BY <2>10, <3>3, CommitWrites
      <4>2. /\ c.at \in write[r].locked
            /\ c.kind # "clone" => y = c.at
            /\ c.kind = "add" => <<c.at, c.version>> \in objects
            /\ c.kind = "clone" => \A v \in resource[c.at].versions : <<y, v>> \in objects
        BY <3>1, <3>3, <4>1 DEF CommitsReady
      \* The others remove packages of other rows.
      <4>3. ASSUME NEW s \in Writes \ {r}, NEW x \in Resources, NEW v, Removes(s, x, v)
            PROVE  Removes(s, x, v)'
        <5>1. x \in write[s].locked
          BY <4>3 DEF Removes, CommitsReady, ResourceCommand
        <5>2. write[r].locked \cap write[s].locked = {}
          BY <3>1, <4>3 DEF Removes, LocksApart
        <5>3. resource'[x] = resource[x]
          BY <4>1, <5>1, <5>2
        <5>4. write'[s] = write[s]
          BY <3>1, WriteEnds
        <5> QED
          BY <4>3, <5>3, <5>4 DEF Removes, InFlight
      \* A version that is kept is not the one that was removed.
      <4>4. ASSUME NEW x \in Resources, NEW v \in resource'[x].versions, v \in resource[x].versions
            PROVE  ~Removes(r, x, v)
        BY <4>1, <4>2, <4>4 DEF Removes, VersionsAfter
      <4>5. ASSUME NEW x \in Resources, NEW v \in resource'[x].versions,
                   v \notin resource[x].versions
            PROVE  <<x, v>> \in objects
        BY <4>1, <4>2, <4>5 DEF VersionsAfter
      <4> QED
        BY <3>1, <4>3, <4>4, <4>5, PackagesAre
    <3> QED
      BY <3>2, <3>3
  <2>11. CASE RefuseAdd(r)
    <3>1. /\ EndWrite(r) /\ UNCHANGED <<resource, interrupted>> /\ write[r].at = "run"
          /\ objects \subseteq objects'
      BY <2>11 DEF RefuseAdd, Stored
    <3> QED
      BY <2>2, <3>1, WriteEnds DEF Removes, InFlight
  <2>12. CASE RefuseClone(r)
    <3>1. PICK y \in Resources : ClonesPartly(r, y)
      BY <2>12, RefusedClones
    <3>2. EndWrite(r) /\ UNCHANGED interrupted /\ write[r].at = "run"
      BY <2>12, RefusedClones
    <3>3. ASSUME NEW s \in Writes, NEW x \in Resources \ {y}, NEW v, Removes(s, x, v)
          PROVE  Removes(s, x, v)'
      <4>1. s # r /\ write'[s] = write[s] /\ resource'[x] = resource[x]
        BY <3>1, <3>2, <3>3, WriteEnds DEF Removes, ClonesPartly
      <4> QED
        BY <3>3, <4>1 DEF Removes, InFlight
    <3>4. \A x \in Resources \ {y} : resource'[x] = resource[x]
      BY <3>1 DEF ClonesPartly
    <3>5. objects \subseteq objects' /\ \A v \in resource'[y].versions : <<y, v>> \in objects'
      BY <3>1 DEF ClonesPartly
    <3> QED
      BY <3>2, <3>3, <3>4, <3>5, PackagesAre
  <2> QED
    BY <2>1, <2>3, <2>4, <2>5, <2>6, <2>7, <2>8, <2>9, <2>10, <2>11, <2>12
<1> QED
  BY <1>1, <1>2

PublishingInv == PublishingTypeOK /\ KeysInv /\ ReleasesInv /\ PackagesInv

LEMMA PublishingInductive == PublishingSpec => []PublishingInv
<1>1. PublishingInit => PublishingInv
  <2> SUFFICES ASSUME PublishingInit
               PROVE  PublishingInv
    OBVIOUS
  <2>1. PublishingTypeOK
    <3>1. resource \in [Resources -> ResourceRow]
      BY DEF PublishingInit, ResourceRow
    <3> QED
      BY <3>1 DEF PublishingInit, PublishingTypeOK, InFlight, Tables
  <2>2. \A r \in Writes : ~InFlight(r)
    BY DEF PublishingInit, InFlight
  <2>3. KeysInv
    BY <2>2 DEF PublishingInit, KeysInv
  <2>4. ReleasesInv
    BY <2>2 DEF PublishingInit, ReleasesInv, InsertsRelease, Tables
  <2>5. LocksApart /\ CommitsReady
    BY <2>2 DEF LocksApart, CommitsReady
  <2>6. VersionsHavePackages
    BY DEF PublishingInit, VersionsHavePackages
  <2> QED
    BY <2>1, <2>3, <2>4, <2>5, <2>6 DEF PublishingInv, PackagesInv
<1>2. PublishingInv /\ [PublishingNext]_publishingVars => PublishingInv'
  BY PublishingTypes, KeysStep, ReleasesStep, LocksStep, ReadyStep, PackagesStep
     DEF PublishingInv, PackagesInv
<1> QED
  BY <1>1, <1>2, PTL DEF PublishingSpec

(***************************************************************************)
(* An idempotency key takes effect at most once, for any number of         *)
(* concurrent requests with it, of failures and of retries: the row        *)
(* reserved by the middleware is committed with the effect or not at all.  *)
(***************************************************************************)
THEOREM KeysTakeEffectOnce == PublishingSpec => []EffectOncePerKey
<1>1. PublishingInv => EffectOncePerKey
  BY DEF PublishingInv, KeysInv, EffectOncePerKey
<1> QED
  BY <1>1, PublishingInductive, PTL

(***************************************************************************)
(* Releases are published in the order of their sequences, for any number  *)
(* of releases and of requests that create, publish and fail at once.      *)
(***************************************************************************)
THEOREM ReleasesInOrder == PublishingSpec => []PublishedInOrder
<1>1. PublishingInv => PublishedInOrder
  BY DEF PublishingInv, ReleasesInv, PublishedInOrder
<1> QED
  BY <1>1, PublishingInductive, PTL

(***************************************************************************)
(* Every version of every catalog resource has its package, but for those  *)
(* that are being removed or whose removal was interrupted: the row locks  *)
(* keep a removal, an upload and a clone of the same resource apart.       *)
(***************************************************************************)
THEOREM PackagesAreThere == PublishingSpec => []VersionsHavePackages
<1>1. PublishingInv => VersionsHavePackages
  BY DEF PublishingInv, PackagesInv
<1> QED
  BY <1>1, PublishingInductive, PTL

-----------------------------------------------------------------------------
(* BackendAuth. *)

AccountRow == [status : {"absent", "active", "disabled", "deleted"}, password : Nat,
               must : BOOLEAN]

FamilyRow == [user : Users, revoked : BOOLEAN, password : Nat, issued : Nat,
              consumed : SUBSET Tokens]

\* Operations that lock the account first and its sessions last.
SessionOperations == {"login", "change", "reset", "disable", "delete", "revoke"}

RequestRow == [op : SessionOperations \cup {"refresh", "logout", "logoutAll", "enable"},
               user : Users, fam : Families \cup {NoRow}, token : Tokens,
               password : 1..MaxPasswords, seen : AccountRow \cup {NoRow},
               at : 0..3, wanted : SUBSET Rows]

AuthTypeOK ==
    /\ account \in [Users -> AccountRow]
    /\ family \in [Families -> FamilyRow \cup {NoFamily}]
    /\ request \in [Requests -> RequestRow \cup {Idle}]
    /\ holder \in [Rows -> Requests \cup {NoRow}]
    /\ \A r \in Requests : request[r] # Idle =>
          /\ request[r].op \in {"refresh", "change", "logout"} => request[r].fam \in Families
          /\ request[r].at <= Len(Statements(request[r].op))

\* A session operation past its first statement holds the account, and in its last
\* statement it holds, or still waits for, every session of it.
SessionsLocked(r) ==
    LET q == request[r]
    IN  q # Idle /\ q.op \in SessionOperations =>
          /\ q.at = 1 => q.user \in q.wanted \/ holder[q.user] = r
                         \/ account[q.user].status = "deleted"
          /\ q.at > 1 => holder[q.user] = r
          /\ q.at = Len(Statements(q.op)) =>
                \A f \in SessionsOf(q.user) : f \in q.wanted \/ holder[f] = r

AuthInv == AuthTypeOK /\ (\A r \in Requests : SessionsLocked(r)) /\ SessionsFollowPassword

LEMMA StatementFacts ==
    /\ \A op \in SessionOperations :
          /\ Len(Statements(op)) \in 2..3
          /\ Statements(op)[1] = "user"
          /\ Statements(op)[Len(Statements(op))] = "families"
          /\ \A i \in 1..Len(Statements(op)) :
                Statements(op)[i] = "families" => i = Len(Statements(op))
    /\ Len(Statements("refresh")) = 3
    /\ Len(Statements("logout")) = 1
    /\ Len(Statements("logoutAll")) = 1
    /\ Len(Statements("enable")) = 1 /\ Statements("enable")[1] = "user"
    /\ Statements("refresh")[1] = "token"
BY DEF Statements, SessionOperations

LEMMA RequestIsRow ==
    ASSUME AuthTypeOK, NEW r \in Requests
    PROVE  request[r] # Idle <=> request[r] \in RequestRow
BY DEF AuthTypeOK, RequestRow, Idle, SessionOperations

LEMMA FamilyIsRow ==
    ASSUME AuthTypeOK, NEW f \in Families
    PROVE  Exists(f) <=> family[f] \in FamilyRow
BY BackendAuthConstants DEF AuthTypeOK, FamilyRow, NoFamily, Exists

\* F has no session that is new or has another owner or password.
Shrunk(F) ==
    /\ F \in [Families -> FamilyRow \cup {NoFamily}]
    /\ \A f \in Families : F[f].user # NoRow /\ ~F[f].revoked =>
          Unrevoked(f) /\ F[f].user = family[f].user /\ F[f].password = family[f].password

LEMMA RevokedFacts ==
    ASSUME AuthTypeOK, NEW fs
    PROVE  /\ Shrunk(Revoked(fs))
           /\ \A f \in Families : f \in fs /\ Revoked(fs)[f].user # NoRow => Revoked(fs)[f].revoked
<1> DEFINE R(f) == [family[f] EXCEPT !.revoked = TRUE, !.password = 0]
<1>1. ASSUME NEW f \in Families, Exists(f)
      PROVE  R(f) \in FamilyRow /\ R(f).revoked /\ R(f).user = family[f].user
  <2>1. family[f] \in FamilyRow
    BY <1>1, FamilyIsRow
  <2> QED
    BY <2>1 DEF FamilyRow
<1>2. ASSUME NEW f \in Families, ~Exists(f)
      PROVE  R(f) = NoFamily
  <2>1. family[f] = NoFamily
    BY <1>2, FamilyIsRow DEF AuthTypeOK
  <2> QED
    BY <2>1 DEF NoFamily
<1>3. NoFamily.user = NoRow
  BY DEF NoFamily
<1> HIDE DEF R
<1>4. Revoked(fs) = [f \in Families |-> IF f \in fs THEN R(f) ELSE family[f]]
  BY DEF Revoked, R
<1>5. ASSUME NEW f \in Families
      PROVE  /\ Revoked(fs)[f] \in FamilyRow \cup {NoFamily}
             /\ f \notin fs => Revoked(fs)[f] = family[f]
             /\ f \in fs /\ Revoked(fs)[f].user # NoRow => Revoked(fs)[f].revoked
  <2>1. Revoked(fs)[f] = IF f \in fs THEN R(f) ELSE family[f]
    BY <1>4
  <2>2. family[f] \in FamilyRow \cup {NoFamily}
    BY DEF AuthTypeOK
  <2>3. CASE f \in fs /\ Exists(f)
    BY <1>1, <2>1, <2>3
  <2>4. CASE f \in fs /\ ~Exists(f)
    BY <1>2, <1>3, <2>1, <2>4
  <2>5. CASE f \notin fs
    BY <2>1, <2>2, <2>5
  <2> QED
    BY <2>3, <2>4, <2>5
<1>6. Revoked(fs) \in [Families -> FamilyRow \cup {NoFamily}]
  BY <1>4, <1>5
<1>7. ASSUME NEW f \in Families, Revoked(fs)[f].user # NoRow, ~Revoked(fs)[f].revoked
      PROVE  /\ Unrevoked(f) /\ Revoked(fs)[f].user = family[f].user
             /\ Revoked(fs)[f].password = family[f].password
  BY <1>5, <1>7 DEF Unrevoked, Exists
<1> QED
  BY <1>5, <1>6, <1>7 DEF Shrunk

LEMMA AddFamilyFacts ==
    ASSUME AuthTypeOK, NEW F, Shrunk(F), NEW u \in Users, NEW p \in Nat, AddFamily(F, u, p)
    PROVE  \E g \in Families :
             /\ family' \in [Families -> FamilyRow \cup {NoFamily}]
             /\ family'[g].user = u /\ family'[g].password = p
             /\ \A f \in Families \ {g} : family'[f] = F[f]
<1> DEFINE new == [user |-> u, revoked |-> FALSE, password |-> p, issued |-> 1, consumed |-> {}]
           g == NewFamily
<1>1. new \in FamilyRow /\ new.user = u /\ new.password = p
  BY DEF FamilyRow
<1>2. g \in Families
  BY DEF AddFamily, NewFamily
<1>3. family' = [F EXCEPT ![g] = new]
  BY DEF AddFamily
<1>4. F \in [Families -> FamilyRow \cup {NoFamily}]
  BY DEF Shrunk
<1> HIDE DEF new, g
<1>5. family' \in [Families -> FamilyRow \cup {NoFamily}] /\ family'[g] = new
      /\ \A f \in Families \ {g} : family'[f] = F[f]
  BY <1>1, <1>2, <1>3, <1>4
<1> QED
  BY <1>1, <1>2, <1>5

\* The accounts after an operation on u.
AccountAfter(u) ==
    /\ account' \in [Users -> AccountRow]
    /\ \A v \in Users \ {u} : account'[v] = account[v]

LEMMA AccountFacts ==
    ASSUME AuthTypeOK, NEW u \in Users
    PROVE  /\ \A m \in BOOLEAN :
                account' = [account EXCEPT ![u].password = @ + 1, ![u].must = m] =>
                  /\ AccountAfter(u) /\ account'[u].status = account[u].status
                  /\ account'[u].password = account[u].password + 1
           /\ \A st \in {"active", "disabled", "deleted"} :
                account' = [account EXCEPT ![u].status = st] =>
                  /\ AccountAfter(u) /\ account'[u].status = st
                  /\ account'[u].password = account[u].password
<1>1. account \in [Users -> AccountRow] /\ account[u] \in AccountRow
  BY DEF AuthTypeOK
<1>2. ASSUME NEW st \in {"active", "disabled", "deleted"},
             account' = [account EXCEPT ![u].status = st]
      PROVE  /\ AccountAfter(u) /\ account'[u].status = st
             /\ account'[u].password = account[u].password
  BY <1>1, <1>2 DEF AccountRow, AccountAfter
<1>3. ASSUME NEW m \in BOOLEAN,
             account' = [account EXCEPT ![u].password = @ + 1, ![u].must = m]
      PROVE  /\ AccountAfter(u) /\ account'[u].status = account[u].status
             /\ account'[u].password = account[u].password + 1
  <2> DEFINE n == account[u].password + 1
             row1 == [account[u] EXCEPT !.password = n, !.must = m]
  <2>1. n \in Nat
    BY <1>1 DEF AccountRow
  <2>2. account' = [account EXCEPT ![u] = row1]
    BY <1>1, <1>3
  <2> HIDE DEF n
  <2>3. row1 \in AccountRow
    <3>1. CASE m = TRUE
      BY <1>1, <2>1, <3>1 DEF AccountRow
    <3>2. CASE m = FALSE
      BY <1>1, <2>1, <3>2 DEF AccountRow
    <3> QED
      BY <3>1, <3>2
  <2>4. row1.status = account[u].status /\ row1.password = n
    BY <1>1 DEF AccountRow
  <2> HIDE DEF row1
  <2> QED
    BY <1>1, <2>2, <2>3, <2>4 DEF AccountAfter, n
<1> QED
  BY <1>2, <1>3

LEMMA GrantedFacts ==
    ASSUME AuthTypeOK, NEW r \in Requests, request[r] # Idle, Granted(r), request[r].at >= 1
    PROVE  /\ request[r].op \in SessionOperations \cup {"enable"} =>
                account[request[r].user].status # "deleted"
           /\ request[r].op = "refresh" => Exists(request[r].fam)
<1>1. request[r] \in RequestRow
  BY RequestIsRow
<1>2. request[r].at \in 1..3 /\ 1 \in 1..request[r].at
  BY <1>1 DEF RequestRow
<1>3. request[r].op \in SessionOperations \cup {"enable"} => Reached(r, "user")
  BY <1>2, StatementFacts DEF Reached
<1>4. request[r].op = "refresh" => Reached(r, "token")
  BY <1>2, StatementFacts DEF Reached
<1> QED
  BY <1>1, <1>3, <1>4 DEF Granted, SessionOperations, LoginAccepted, RequestRow

\* The effect of an operation on the sessions, without the one it opens.
LEMMA EffectFacts ==
    ASSUME AuthInv, NEW r \in Requests, Running(r), Granted(r), StatementsDone(r), Effect(r)
    PROVE  /\ account' \in [Users -> AccountRow]
           /\ family' \in [Families -> FamilyRow \cup {NoFamily}]
           /\ \A u \in Users : account[u].status = "deleted" => account'[u].status = "deleted"
           /\ \A u \in Users : \A f \in SessionsOf(u)' :
                f \in SessionsOf(u) \/ (u = request[r].user /\ request[r].op \in {"login", "change"})
           /\ SessionsFollowPassword'
<1> DEFINE q == request[r]
           u == request[r].user
<1>1. /\ q \in RequestRow /\ q # Idle /\ q.wanted = {} /\ u \in Users
      /\ q.at = Len(Statements(q.op)) /\ AuthTypeOK
  BY RequestIsRow DEF Running, StatementsDone, AuthInv, RequestRow
<1>2. /\ account \in [Users -> AccountRow] /\ account[u] \in AccountRow
      /\ family \in [Families -> FamilyRow \cup {NoFamily}] /\ account[u].password \in Nat
  BY <1>1 DEF AuthTypeOK, AccountRow
<1>3. \A v \in Users : \A f \in SessionsOf(v) : family[f].password = account[v].password
  BY DEF AuthInv, SessionsFollowPassword
<1>4. q.at >= 1
  BY <1>1, StatementFacts DEF RequestRow
<1>5. q.op \in SessionOperations \cup {"enable"} => account[u].status # "deleted"
  BY <1>1, <1>4, GrantedFacts
\* All sessions of the account are held by the operation.
<1>6. q.op \in SessionOperations => \A f \in SessionsOf(u) : f \in LockedSessions(r)
  BY <1>1 DEF AuthInv, SessionsLocked, LockedSessions
\* Sessions only end, and the passwords stay.
<1>7. ASSUME Shrunk(family'), account' \in [Users -> AccountRow],
             \A v \in Users : account'[v].password = account[v].password
      PROVE  /\ \A v \in Users : \A f \in SessionsOf(v)' : f \in SessionsOf(v)
             /\ SessionsFollowPassword'
  BY <1>3, <1>7 DEF Shrunk, SessionsOf, Unrevoked, Exists, SessionsFollowPassword
<1>8. CASE q.op = "login"
  <2>1. /\ AddFamily(Revoked(OverLimit(LockedSessions(r))), u, account[u].password)
        /\ UNCHANGED account
    BY <1>8 DEF Effect, Login
  <2>2. Shrunk(Revoked(OverLimit(LockedSessions(r))))
    BY <1>1, RevokedFacts
  <2>3. PICK g \in Families :
             /\ family' \in [Families -> FamilyRow \cup {NoFamily}]
             /\ family'[g].user = u /\ family'[g].password = account[u].password
             /\ \A f \in Families \ {g} : family'[f] = Revoked(OverLimit(LockedSessions(r)))[f]
    BY <1>1, <1>2, <2>1, <2>2, AddFamilyFacts
  <2>4. ASSUME NEW v \in Users, NEW f \in Families, f \in SessionsOf(v)', f # g
        PROVE  f \in SessionsOf(v) /\ family'[f].password = account[v].password
    BY <1>3, <2>2, <2>3, <2>4 DEF Shrunk, SessionsOf, Unrevoked, Exists
  <2>5. \A v \in Users : g \in SessionsOf(v)' => v = u
    BY <2>3 DEF SessionsOf
  <2>6. \A v \in Users : SessionsOf(v)' \subseteq Families
    BY DEF SessionsOf
  <2> QED
    BY <1>2, <1>8, <2>1, <2>3, <2>4, <2>5, <2>6 DEF SessionsFollowPassword
<1>9. CASE q.op = "change"
  <2> DEFINE p == account[u].password + 1
             R == Revoked(LockedSessions(r))
             m == account[u].must /\ ~q.seen.must
  <2>1. /\ AddFamily(R, u, p)
        /\ account' = [account EXCEPT ![u].password = @ + 1, ![u].must = m]
    BY <1>9 DEF Effect, ChangePassword
  <2>2. m \in BOOLEAN /\ p \in Nat
    BY <1>2
  <2>3. AccountAfter(u) /\ account'[u].status = account[u].status /\ account'[u].password = p
    <3> HIDE DEF m
    <3> QED
      BY <1>1, <2>1, <2>2, AccountFacts
  <2>4. Shrunk(R) /\ \A f \in LockedSessions(r) : R[f].user # NoRow => R[f].revoked
    BY <1>1, RevokedFacts DEF LockedSessions, SessionsOf
  <2> HIDE DEF p, R, m
  <2>5. PICK g \in Families :
             /\ family' \in [Families -> FamilyRow \cup {NoFamily}]
             /\ family'[g].user = u /\ family'[g].password = p
             /\ \A f \in Families \ {g} : family'[f] = R[f]
    BY <1>1, <2>1, <2>2, <2>4, AddFamilyFacts
  <2>6. ASSUME NEW v \in Users, NEW f \in Families, f \in SessionsOf(v)', f # g
        PROVE  /\ f \in SessionsOf(v) /\ v # u
               /\ family'[f].password = account[v].password
    <3>1. f \in SessionsOf(v) /\ family'[f].password = account[v].password
      BY <1>3, <2>4, <2>5, <2>6 DEF Shrunk, SessionsOf, Unrevoked, Exists
    <3>2. v # u
      BY <1>6, <1>9, <2>4, <2>5, <2>6, <3>1 DEF SessionsOf, SessionOperations, Unrevoked, Exists
    <3> QED
      BY <3>1, <3>2
  <2>7. \A v \in Users : g \in SessionsOf(v)' => v = u
    BY <2>5 DEF SessionsOf
  <2>8. \A v \in Users : SessionsOf(v)' \subseteq Families
    BY DEF SessionsOf
  <2>9. /\ account' \in [Users -> AccountRow]
        /\ \A v \in Users : account'[v].status = account[v].status
        /\ \A v \in Users \ {u} : account'[v].password = account[v].password
    BY <2>3 DEF AccountAfter
  <2> QED
    BY <1>9, <2>3, <2>5, <2>6, <2>7, <2>8, <2>9 DEF SessionsFollowPassword
<1>10. CASE q.op = "reset"
  <2>1. /\ account' = [account EXCEPT ![u].password = @ + 1, ![u].must = TRUE]
        /\ family' = Revoked(LockedSessions(r))
    BY <1>10 DEF Effect, ResetPassword
  <2>2. /\ AccountAfter(u) /\ account'[u].status = account[u].status
    BY <1>1, <2>1, AccountFacts
  <2>3. /\ Shrunk(family')
        /\ \A f \in LockedSessions(r) : family'[f].user # NoRow => family'[f].revoked
    BY <1>1, <2>1, RevokedFacts DEF LockedSessions, SessionsOf
  <2>4. ASSUME NEW v \in Users, NEW f \in Families, f \in SessionsOf(v)'
        PROVE  /\ f \in SessionsOf(v) /\ v # u
               /\ family'[f].password = account[v].password
    <3>1. f \in SessionsOf(v) /\ family'[f].password = account[v].password
      BY <1>3, <2>3, <2>4 DEF Shrunk, SessionsOf, Unrevoked, Exists
    <3>2. v # u
      BY <1>6, <1>10, <2>3, <2>4, <3>1 DEF SessionsOf, SessionOperations, Unrevoked, Exists
    <3> QED
      BY <3>1, <3>2
  <2>5. \A v \in Users : SessionsOf(v)' \subseteq Families
    BY DEF SessionsOf
  <2>6. /\ account' \in [Users -> AccountRow]
        /\ \A v \in Users : account'[v].status = account[v].status
        /\ \A v \in Users \ {u} : account'[v].password = account[v].password
    BY <2>2 DEF AccountAfter
  <2> QED
    BY <2>3, <2>4, <2>5, <2>6 DEF SessionsFollowPassword, Shrunk
<1>11. CASE q.op = "refresh"
  <2>1. /\ family' = [family EXCEPT ![q.fam].consumed = @ \cup {q.token},
                                    ![q.fam].issued = @ + 1]
        /\ UNCHANGED account
    BY <1>11 DEF Effect, Refresh
  <2>2. q.fam \in Families /\ family[q.fam] \in FamilyRow /\ q.token \in Tokens
    BY <1>1, <1>4, <1>11, GrantedFacts, FamilyIsRow DEF AuthTypeOK, RequestRow
  <2> DEFINE n == family[q.fam].issued + 1
             c == family[q.fam].consumed \cup {q.token}
             d == [family[q.fam] EXCEPT !.consumed = c, !.issued = n]
  <2>3. n \in Nat /\ c \in SUBSET Tokens
    BY <2>2 DEF FamilyRow
  <2>4. family' = [family EXCEPT ![q.fam] = d]
    BY <1>2, <2>1, <2>2
  <2> HIDE DEF n, c
  <2>5. /\ d \in FamilyRow /\ d.user = family[q.fam].user
        /\ d.revoked = family[q.fam].revoked /\ d.password = family[q.fam].password
    BY <2>2, <2>3 DEF FamilyRow
  <2> HIDE DEF d
  <2>6. Shrunk(family')
    BY <1>2, <2>2, <2>4, <2>5 DEF Shrunk, Unrevoked, Exists
  <2> QED
    BY <1>2, <1>7, <2>1, <2>6 DEF Shrunk
<1>12. CASE q.op = "logout"
  <2>1. family' = Revoked({q.fam}) /\ UNCHANGED account
    BY <1>12 DEF Effect, Logout
  <2>2. Shrunk(family')
    BY <1>1, <2>1, RevokedFacts
  <2> QED
    BY <1>2, <1>7, <2>1, <2>2 DEF Shrunk
<1>13. CASE q.op \in {"logoutAll", "revoke"}
  <2>1. family' = Revoked(LockedSessions(r)) /\ UNCHANGED account
    BY <1>13 DEF Effect, RevokeSessions
  <2>2. Shrunk(family')
    BY <1>1, <2>1, RevokedFacts
  <2> QED
    BY <1>2, <1>7, <2>1, <2>2 DEF Shrunk
<1>14. CASE q.op \in {"disable", "enable", "delete"}
  <2>1. PICK st \in {"active", "disabled", "deleted"} : account' = [account EXCEPT ![u].status = st]
    BY <1>14 DEF Effect, Disable, Enable, DeleteUser
  <2>2. Shrunk(family)
    BY <1>2 DEF Shrunk, Unrevoked, Exists
  <2>3. Shrunk(family')
    <3>1. CASE q.op \in {"disable", "enable"}
      <4>1. family' = family \/ family' = Revoked(LockedSessions(r))
        BY <1>14, <3>1 DEF Effect, Disable, Enable
      <4> QED
        BY <1>1, <2>2, <4>1, RevokedFacts
    <3>2. CASE q.op = "delete"
      <4> DEFINE gone == {f \in Families : Exists(f) /\ family[f].user = u}
      <4>1. family' = [f \in Families |-> IF f \in gone THEN NoFamily ELSE family[f]]
        BY <3>2 DEF Effect, DeleteUser
      <4> QED
        BY <1>2, <4>1 DEF Shrunk, Unrevoked, Exists, NoFamily
    <3> QED
      BY <1>14, <3>1, <3>2
  <2>4. /\ AccountAfter(u) /\ account'[u].password = account[u].password
    BY <1>1, <2>1, AccountFacts
  <2>5. /\ account' \in [Users -> AccountRow]
        /\ \A v \in Users : account'[v].password = account[v].password
        /\ \A v \in Users : account[v].status = "deleted" => account'[v].status = "deleted"
    BY <1>5, <1>14, <2>4 DEF AccountAfter, SessionOperations
  <2> QED
    BY <1>7, <2>3, <2>5 DEF Shrunk
<1>15. q.op \in SessionOperations \cup {"refresh", "logout", "logoutAll", "enable"}
  BY <1>1 DEF RequestRow
<1> QED
  BY <1>8, <1>9, <1>10, <1>11, <1>12, <1>13, <1>14, <1>15 DEF SessionOperations

\* w is the requests after r has moved to the statement a, with the rows ws to lock.
Turns(w, r, a, ws) ==
    /\ w \in [Requests -> RequestRow \cup {Idle}] /\ w[r] \in RequestRow /\ w[r] # Idle
    /\ w[r].op = request[r].op /\ w[r].user = request[r].user /\ w[r].fam = request[r].fam
    /\ w[r].at = a /\ w[r].wanted = ws
    /\ \A s \in Requests \ {r} : w[s] = request[s]

LEMMA RequestMoves ==
    ASSUME AuthTypeOK, NEW r \in Requests, request[r] # Idle,
           NEW a \in 0..3, NEW ws \in SUBSET Rows
    PROVE  /\ Turns([request EXCEPT ![r].at = a, ![r].wanted = ws], r, a, ws)
           /\ Turns([request EXCEPT ![r].wanted = ws], r, request[r].at, ws)
<1>1. request \in [Requests -> RequestRow \cup {Idle}] /\ request[r] \in RequestRow
  BY RequestIsRow DEF AuthTypeOK
<1> DEFINE q1 == [request[r] EXCEPT !.at = a, !.wanted = ws]
           q2 == [request[r] EXCEPT !.wanted = ws]
<1>2. q1 \in RequestRow /\ q1.op = request[r].op /\ q1.user = request[r].user
      /\ q1.fam = request[r].fam /\ q1.at = a /\ q1.wanted = ws
  BY <1>1 DEF RequestRow
<1>3. q2 \in RequestRow /\ q2.op = request[r].op /\ q2.user = request[r].user
      /\ q2.fam = request[r].fam /\ q2.at = request[r].at /\ q2.wanted = ws
  BY <1>1 DEF RequestRow
<1>4. \A q \in RequestRow : q # Idle
  BY DEF RequestRow, Idle, SessionOperations
<1>5. /\ [request EXCEPT ![r].at = a, ![r].wanted = ws] = [request EXCEPT ![r] = q1]
      /\ [request EXCEPT ![r].wanted = ws] = [request EXCEPT ![r] = q2]
  BY <1>1
<1> HIDE DEF q1, q2
<1> QED
  BY <1>1, <1>2, <1>3, <1>4, <1>5 DEF Turns

LEMMA RequestEnds ==
    ASSUME AuthTypeOK, NEW r \in Requests, EndOf(r)
    PROVE  /\ request' \in [Requests -> RequestRow \cup {Idle}] /\ request'[r] = Idle
           /\ \A s \in Requests \ {r} : request'[s] = request[s]
           /\ holder' \in [Rows -> Requests \cup {NoRow}]
           /\ \A s \in Requests \ {r}, x \in Rows : holder[x] = s => holder'[x] = s
BY DEF AuthTypeOK, EndOf

LEMMA RequestArrives ==
    ASSUME AuthTypeOK, NEW r \in Requests, NEW u \in Users, NEW f \in Families \cup {NoRow},
           NEW n \in Tokens, NEW p \in 1..MaxPasswords,
           NEW op \in SessionOperations \cup {"refresh", "logout", "logoutAll", "enable"},
           op \in {"refresh", "change", "logout"} => f \in Families,
           Arrive(r, op, u, f, n, p)
    PROVE  /\ request' \in [Requests -> RequestRow \cup {Idle}] /\ request'[r] # Idle
           /\ request'[r].at = 0 /\ 0 <= Len(Statements(request'[r].op))
           /\ request'[r].op \in {"refresh", "change", "logout"} => request'[r].fam \in Families
           /\ \A s \in Requests \ {r} : request'[s] = request[s]
           /\ UNCHANGED <<account, family, recency, holder>>
<1> DEFINE sn == IF op = "change" THEN account[u] ELSE NoRow
           q == [op |-> op, user |-> u, fam |-> f, token |-> n, password |-> p,
                 seen |-> sn, at |-> 0, wanted |-> {}]
<1>1. sn \in AccountRow \cup {NoRow}
  BY DEF AuthTypeOK
<1>2. request' = [request EXCEPT ![r] = q] /\ UNCHANGED <<account, family, recency, holder>>
  BY DEF Arrive
<1> HIDE DEF sn
<1>3. q \in RequestRow /\ q.at = 0 /\ q.op = op /\ q.fam = f
  BY <1>1 DEF RequestRow
<1>4. q # Idle
  BY <1>3 DEF RequestRow, Idle, SessionOperations
<1>5. 0 <= Len(Statements(op))
  BY StatementFacts
<1> HIDE DEF q
<1> QED
  BY <1>2, <1>3, <1>4, <1>5 DEF AuthTypeOK

LEMMA AuthStep ==
    ASSUME AuthInv, [AuthNext]_authVars
    PROVE  AuthInv'
<1>0. AuthTypeOK /\ SessionsFollowPassword /\ \A r \in Requests : SessionsLocked(r)
  BY DEF AuthInv
<1>1. CASE UNCHANGED authVars
  BY <1>0, <1>1 DEF authVars, AuthInv, AuthTypeOK, SessionsLocked, SessionsFollowPassword,
                    SessionsOf, Unrevoked, Exists
<1>2. ASSUME NEW u \in Users, RegisterUser(u)
      PROVE  AuthInv'
  <2>1. /\ account' = [account EXCEPT ![u].status = "active"]
        /\ account[u].status = "absent" /\ UNCHANGED <<family, recency, request, holder>>
    BY <1>2 DEF RegisterUser, CreateUser, IdentityAvailable
  <2>2. /\ AccountAfter(u) /\ account'[u].password = account[u].password
    BY <1>0, <2>1, AccountFacts
  <2>3. /\ account' \in [Users -> AccountRow]
        /\ \A v \in Users : account'[v].password = account[v].password
        /\ \A v \in Users : account[v].status = "deleted" => account'[v].status = "deleted"
    BY <2>1, <2>2 DEF AccountAfter
  <2>4. \A v \in Users : SessionsOf(v)' = SessionsOf(v)
    BY <2>1 DEF SessionsOf, Unrevoked, Exists
  <2>5. AuthTypeOK'
    BY <1>0, <2>1, <2>3 DEF AuthTypeOK
  <2>6. \A r \in Requests : request[r] # Idle => request[r].user \in Users
    BY <1>0, RequestIsRow DEF RequestRow
  <2>7. \A r \in Requests : SessionsLocked(r)'
    BY <1>0, <2>1, <2>3, <2>4, <2>6 DEF SessionsLocked
  <2> QED
    BY <1>0, <2>1, <2>3, <2>4, <2>5, <2>7 DEF AuthInv, SessionsFollowPassword
<1>3. ASSUME NEW r \in Requests, NEW u \in Users, NEW f \in Families \cup {NoRow},
             NEW n \in Tokens, NEW p \in 1..MaxPasswords,
             NEW op \in SessionOperations \cup {"refresh", "logout", "logoutAll", "enable"},
             op \in {"refresh", "change", "logout"} => f \in Families,
           Arrive(r, op, u, f, n, p)
      PROVE  AuthInv'
  <2>1. /\ request' \in [Requests -> RequestRow \cup {Idle}] /\ request'[r] # Idle
        /\ request'[r].at = 0 /\ 0 <= Len(Statements(request'[r].op))
        /\ request'[r].op \in {"refresh", "change", "logout"} => request'[r].fam \in Families
        /\ \A s \in Requests \ {r} : request'[s] = request[s]
        /\ UNCHANGED <<account, family, recency, holder>>
    BY <1>0, <1>3, RequestArrives
  <2>2. AuthTypeOK'
    BY <1>0, <2>1 DEF AuthTypeOK
  <2>3. \A v \in Users : SessionsOf(v)' = SessionsOf(v)
    BY <2>1 DEF SessionsOf, Unrevoked, Exists
  <2>4. \A s \in Requests : request[s] # Idle => request[s].user \in Users
    BY <1>0, RequestIsRow DEF RequestRow
  <2>5. SessionsLocked(r)'
    BY <2>1, StatementFacts DEF SessionsLocked
  <2>6. \A s \in Requests \ {r} : SessionsLocked(s)'
    BY <1>0, <2>1, <2>3, <2>4 DEF SessionsLocked
  <2> QED
    BY <1>0, <2>1, <2>2, <2>3, <2>5, <2>6 DEF AuthInv, SessionsFollowPassword
<1>4. ASSUME NEW r \in Requests,
             \/ \E u \in Users, p \in 1..MaxPasswords : LoginArrives(r, u, p)
             \/ \E f \in Families, n \in Tokens : RefreshArrives(r, f, n)
             \/ \E f \in Families, p \in 1..MaxPasswords : ChangeArrives(r, f, p)
             \/ \E f \in Families, op \in {"logout", "logoutAll"} : LogoutArrives(r, f, op)
             \/ \E u \in Users, op \in AdminOperations : AdminArrives(r, op, u)
      PROVE  AuthInv'
  <2>1. 1 \in Tokens /\ 1 \in 1..MaxPasswords
    BY BackendAuthConstants DEF Tokens
  <2>2. \A f \in Families : Exists(f) => family[f].user \in Users
    BY <1>0, FamilyIsRow DEF FamilyRow
  <2>3. CASE \E u \in Users, p \in 1..MaxPasswords : LoginArrives(r, u, p)
    BY <1>3, <2>1, <2>3 DEF LoginArrives, SessionOperations
  <2>4. CASE \E f \in Families, n \in Tokens : RefreshArrives(r, f, n)
    BY <1>3, <2>1, <2>2, <2>4 DEF RefreshArrives
  <2>5. CASE \E f \in Families, p \in 1..MaxPasswords : ChangeArrives(r, f, p)
    BY <1>3, <2>1, <2>2, <2>5 DEF ChangeArrives, SessionOperations
  <2>6. CASE \E f \in Families, op \in {"logout", "logoutAll"} : LogoutArrives(r, f, op)
    BY <1>3, <2>1, <2>2, <2>6 DEF LogoutArrives
  <2>7. CASE \E u \in Users, op \in AdminOperations : AdminArrives(r, op, u)
    BY <1>3, <2>1, <2>7 DEF AdminArrives, AdminOperations, SessionOperations
  <2> QED
    BY <1>4, <2>3, <2>4, <2>5, <2>6, <2>7
\* The request goes on without changing a committed row.
<1>5. ASSUME NEW r \in Requests, UNCHANGED <<account, family>>,
             NEW a \in 0..3, NEW ws \in SUBSET Rows, Turns(request', r, a, ws),
             a <= Len(Statements(request[r].op)), request[r] # Idle, SessionsLocked(r)',
             holder' \in [Rows -> Requests \cup {NoRow}],
             \A s \in Requests \ {r}, x \in Rows : holder[x] = s => holder'[x] = s
      PROVE  AuthInv'
  <2>1. AuthTypeOK'
    BY <1>0, <1>5 DEF AuthTypeOK, Turns
  <2>2. \A v \in Users : SessionsOf(v)' = SessionsOf(v)
    BY <1>5 DEF SessionsOf, Unrevoked, Exists
  <2>3. ASSUME NEW s \in Requests \ {r}
        PROVE  SessionsLocked(s)'
    <3>1. /\ request'[s] = request[s]
          /\ request[s] # Idle => request[s].user \in Users
      BY <1>0, <1>5, RequestIsRow DEF RequestRow, Turns
    <3>2. Users \subseteq Rows /\ \A v \in Users : SessionsOf(v) \subseteq Rows
      BY DEF Rows, SessionsOf
    <3> QED
      BY <1>0, <1>5, <2>2, <3>1, <3>2 DEF SessionsLocked
  <2> QED
    BY <1>0, <1>5, <2>1, <2>2, <2>3 DEF AuthInv, SessionsFollowPassword
<1>6. ASSUME NEW r \in Requests, NextStatement(r)
      PROVE  AuthInv'
  <2> DEFINE q == request[r]
             a == request[r].at + 1
             st == Statements(request[r].op)[request[r].at + 1]
             ws == Selected(r, Statements(request[r].op)[request[r].at + 1])
  <2>1. /\ q \in RequestRow /\ q # Idle /\ q.wanted = {} /\ Granted(r) /\ ~StatementsDone(r)
        /\ request' = [request EXCEPT ![r].at = a, ![r].wanted = ws]
        /\ UNCHANGED <<account, family, recency, holder>>
    BY <1>0, <1>6, RequestIsRow DEF NextStatement, Running
  <2>2. q.op \in SessionOperations \cup {"refresh", "logout", "logoutAll", "enable"}
    BY <2>1 DEF RequestRow
  <2>3. Len(Statements(q.op)) \in 1..3
    BY <2>2, StatementFacts
  <2>4. a \in 1..3 /\ a <= Len(Statements(q.op))
    BY <1>0, <2>1, <2>3 DEF AuthTypeOK, StatementsDone, RequestRow
  <2>5. ws \in SUBSET Rows
    <3>1. CASE st = "user"
      BY <2>1, <3>1 DEF Selected, Rows, RequestRow
    <3>2. CASE st = "family"
      <4>1. q.op \in {"refresh", "change", "logout"}
        BY <2>2, <2>4, <3>2 DEF Statements, SessionOperations
      <4>2. q.fam \in Families
        BY <1>0, <2>1, <4>1 DEF AuthTypeOK
      <4> QED
        BY <3>2, <4>2 DEF Selected, Rows
    <3>3. CASE st = "token"
      <4>1. q.op = "refresh"
        BY <2>2, <2>4, <3>3 DEF Statements, SessionOperations
      <4>2. q.fam \in Families /\ q.token \in Tokens
        BY <1>0, <2>1, <4>1 DEF AuthTypeOK, RequestRow
      <4> QED
        BY <3>3, <4>2 DEF Selected, Rows
    <3>4. CASE st \notin {"user", "family", "token"}
      BY <3>4 DEF Selected, Rows, SessionsOf
    <3> QED
      BY <3>1, <3>2, <3>3, <3>4
  <2>6. a \in 0..3
    BY <2>4
  <2>7. a = 1 /\ q.op \in SessionOperations => ws = {x \in {q.user} : account[x].status # "deleted"}
    BY StatementFacts DEF Selected
  <2>8. a = Len(Statements(q.op)) /\ q.op \in SessionOperations => ws = SessionsOf(q.user)
    <3>1. a = Len(Statements(q.op)) /\ q.op \in SessionOperations => st = "families"
      BY StatementFacts
    <3> QED
      BY <3>1 DEF Selected
  <2>9. a > 1 /\ q.op \in SessionOperations => holder[q.user] = r
    <3> SUFFICES ASSUME a > 1, q.op \in SessionOperations
                 PROVE  holder[q.user] = r
      OBVIOUS
    <3>1. q.at \in 1..3
      BY <2>1, <2>4 DEF RequestRow
    <3>2. account[q.user].status # "deleted"
      BY <1>0, <2>1, <3>1, GrantedFacts
    <3>3. q.user \notin q.wanted
      BY <2>1
    <3> QED
      BY <1>0, <2>1, <3>1, <3>2, <3>3 DEF SessionsLocked
  <2> HIDE DEF a, ws, q
  <2>10. Turns(request', r, a, ws)
    BY <1>0, <2>1, <2>5, <2>6, RequestMoves DEF q
  <2>11. SessionsLocked(r)'
    <3>1. /\ request'[r].op = q.op /\ request'[r].user = q.user
          /\ request'[r].at = a /\ request'[r].wanted = ws
      BY <2>10 DEF Turns, q
    <3>2. \A v \in Users : SessionsOf(v)' = SessionsOf(v)
      BY <2>1 DEF SessionsOf, Unrevoked, Exists
    <3>3. q.user \in Users
      BY <2>1 DEF RequestRow
    <3> QED
      BY <2>1, <2>7, <2>8, <2>9, <3>1, <3>2, <3>3 DEF SessionsLocked
  <2>12. q = request[r]
    BY DEF q
  <2> QED
    BY <1>0, <1>5, <2>1, <2>4, <2>5, <2>6, <2>10, <2>11, <2>12 DEF AuthTypeOK
<1>7. ASSUME NEW r \in Requests, NEW x \in Rows, LockRow(r, x)
      PROVE  AuthInv'
  <2> DEFINE q == request[r]
             st == Statements(request[r].op)[request[r].at]
             ws == request[r].wanted \ {x}
  <2>1. /\ q \in RequestRow /\ q # Idle /\ x \in q.wanted /\ holder[x] \in {NoRow, r}
        /\ request' = [request EXCEPT ![r].wanted = ws]
        /\ holder' = IF x \in Selected(r, st) THEN [holder EXCEPT ![x] = r] ELSE holder
        /\ UNCHANGED <<account, family, recency>>
    BY <1>0, <1>7, RequestIsRow DEF LockRow
  <2>2. ws \in SUBSET Rows /\ q.at \in 0..3 /\ q.at <= Len(Statements(q.op)) /\ q.user \in Users
    BY <1>0, <2>1 DEF RequestRow, AuthTypeOK
  <2>3. Turns(request', r, q.at, ws)
    BY <1>0, <2>1, <2>2, RequestMoves
  <2>4. /\ holder' \in [Rows -> Requests \cup {NoRow}]
        /\ \A s \in Requests \ {r}, y \in Rows : holder[y] = s => holder'[y] = s
        /\ \A y \in Rows : holder[y] = r => holder'[y] = r
        /\ x \in Selected(r, st) => holder'[x] = r
    BY <1>0, <2>1, BackendAuthConstants DEF AuthTypeOK
  <2>5. SessionsLocked(r)'
    <3> SUFFICES ASSUME q.op \in SessionOperations
                 PROVE  SessionsLocked(r)'
      BY <2>3 DEF Turns, SessionsLocked
    <3>1. /\ request'[r] # Idle /\ request'[r].op = q.op /\ request'[r].user = q.user
          /\ request'[r].at = q.at /\ request'[r].wanted = ws
      BY <2>3 DEF Turns
    <3>2. SessionsOf(q.user)' = SessionsOf(q.user) /\ SessionsOf(q.user) \subseteq Rows
          /\ q.user \in Rows
      BY <2>1, <2>2 DEF SessionsOf, Unrevoked, Exists, Rows
    <3>3. q.at = 1 => q.user \in ws \/ holder'[q.user] = r \/ account'[q.user].status = "deleted"
      <4>1. q.at = 1 => Selected(r, st) = {y \in {q.user} : account[y].status # "deleted"}
        BY StatementFacts DEF Selected
      <4> QED
        BY <1>0, <2>1, <2>4, <3>2, <4>1 DEF SessionsLocked
    <3>4. q.at > 1 => holder'[q.user] = r
      BY <1>0, <2>1, <2>4, <3>2 DEF SessionsLocked
    <3>5. q.at = Len(Statements(q.op)) =>
            \A f \in SessionsOf(q.user) : f \in ws \/ holder'[f] = r
      <4>1. q.at = Len(Statements(q.op)) => st = "families"
        BY StatementFacts
      <4>2. q.at = Len(Statements(q.op)) => Selected(r, st) = SessionsOf(q.user)
        BY <4>1 DEF Selected
      <4> QED
        BY <1>0, <2>1, <2>4, <3>2, <4>2 DEF SessionsLocked
    <3> HIDE DEF ws
    <3> QED
      BY <3>1, <3>2, <3>3, <3>4, <3>5 DEF SessionsLocked
  <2> HIDE DEF ws
  <2> QED
    BY <1>5, <2>1, <2>2, <2>3, <2>4, <2>5
\* A request ends: the others keep their locks.
<1>8. ASSUME NEW r \in Requests, EndOf(r), request[r] # Idle,
             account' \in [Users -> AccountRow],
             family' \in [Families -> FamilyRow \cup {NoFamily}],
             \A u \in Users : account[u].status = "deleted" => account'[u].status = "deleted",
             \A u \in Users : \A f \in SessionsOf(u)' :
                f \in SessionsOf(u) \/ (u = request[r].user /\ holder[u] = r),
             SessionsFollowPassword'
      PROVE  AuthInv'
  <2>1. /\ request' \in [Requests -> RequestRow \cup {Idle}] /\ request'[r] = Idle
        /\ \A s \in Requests \ {r} : request'[s] = request[s]
        /\ holder' \in [Rows -> Requests \cup {NoRow}]
        /\ \A s \in Requests \ {r}, x \in Rows : holder[x] = s => holder'[x] = s
    BY <1>0, <1>8, RequestEnds
  <2>2. AuthTypeOK'
    BY <1>0, <1>8, <2>1 DEF AuthTypeOK
  <2>3. ASSUME NEW s \in Requests \ {r}
        PROVE  SessionsLocked(s)'
    <3> DEFINE q == request[s]
    <3> SUFFICES ASSUME q # Idle, q.op \in SessionOperations
                 PROVE  SessionsLocked(s)'
      BY <2>1 DEF SessionsLocked
    <3>1. q.user \in Users /\ q.user \in Rows /\ q.at \in 0..3
      BY <1>0, RequestIsRow DEF RequestRow, Rows
    <3>2. q.at = 1 => q.user \in q.wanted \/ holder'[q.user] = s
                      \/ account'[q.user].status = "deleted"
      BY <1>0, <1>8, <2>1, <3>1 DEF SessionsLocked
    <3>3. q.at > 1 => holder'[q.user] = s /\ holder[q.user] = s
      BY <1>0, <2>1, <3>1 DEF SessionsLocked
    <3>4. ASSUME q.at = Len(Statements(q.op)), NEW f \in SessionsOf(q.user)'
          PROVE  f \in q.wanted \/ holder'[f] = s
      <4>1. q.at > 1
        BY <3>4, StatementFacts
      <4>2. holder[q.user] # r
        BY <2>3, <3>3, <4>1
      <4>3. f \in SessionsOf(q.user)
        BY <1>8, <2>1, <3>1, <3>4, <4>2
      <4>4. f \in Rows
        BY <4>3 DEF SessionsOf, Rows
      <4> QED
        BY <1>0, <2>1, <3>4, <4>3, <4>4 DEF SessionsLocked
    <3> QED
      BY <2>1, <3>2, <3>3, <3>4 DEF SessionsLocked
  <2>4. SessionsLocked(r)'
    BY <2>1 DEF SessionsLocked
  <2> QED
    BY <1>8, <2>2, <2>3, <2>4 DEF AuthInv
<1>9. ASSUME NEW r \in Requests, Refuse(r) \/ AbortRequest(r)
      PROVE  AuthInv'
  <2>1. EndOf(r) /\ request[r] # Idle /\ UNCHANGED <<account, family>>
    BY <1>9 DEF Refuse, AbortRequest, Running
  <2>2. /\ \A u \in Users : SessionsOf(u)' = SessionsOf(u)
        /\ SessionsFollowPassword'
    BY <1>0, <2>1 DEF SessionsOf, Unrevoked, Exists, SessionsFollowPassword
  <2> QED
    BY <1>0, <1>8, <2>1, <2>2 DEF AuthTypeOK
<1>10. ASSUME NEW r \in Requests, CommitRequest(r)
       PROVE  AuthInv'
  <2>1. /\ Running(r) /\ Granted(r) /\ StatementsDone(r) /\ Effect(r) /\ EndOf(r)
        /\ request[r] # Idle
    BY <1>10 DEF CommitRequest, Running
  <2>2. request[r].op \in {"login", "change"} => holder[request[r].user] = r
    BY <1>0, <2>1, StatementFacts DEF SessionsLocked, SessionOperations, StatementsDone
  <2> QED
    BY <1>8, <2>1, <2>2, EffectFacts
<1>11. CASE AuthNext
  BY <1>2, <1>4, <1>6, <1>7, <1>9, <1>10, <1>11 DEF AuthNext
<1> QED
  BY <1>1, <1>11

(***************************************************************************)
(* No session outlives the password it was opened with, for any number of  *)
(* accounts, sessions and overlapping requests: a change or a reset holds  *)
(* the account and every session of it when it commits, and sessions are   *)
(* opened only under the lock of the account.                              *)
(***************************************************************************)
THEOREM SessionsEndWithPassword == AuthSpec => []SessionsFollowPassword
<1>1. AuthInit => AuthInv
  <2> SUFFICES ASSUME AuthInit
               PROVE  AuthInv
    OBVIOUS
  <2>1. AuthTypeOK
    BY DEF AuthInit, AuthTypeOK, AccountRow
  <2>2. \A r \in Requests : SessionsLocked(r)
    BY DEF AuthInit, SessionsLocked
  <2>3. SessionsFollowPassword
    BY DEF AuthInit, SessionsFollowPassword, SessionsOf, Unrevoked, Exists, NoFamily
  <2> QED
    BY <2>1, <2>2, <2>3 DEF AuthInv
<1>2. AuthInv => SessionsFollowPassword
  BY DEF AuthInv
<1> QED
  BY <1>1, <1>2, AuthStep, PTL DEF AuthSpec

-----------------------------------------------------------------------------
(* Catalogue. *)

CatRow == [status : {"absent", "draft", "validated", "published", "deleted"},
           key : LogicalKeys \cup {NoRowId}, revision : Nat, version : Nat,
           text : Texts \cup {NoRowId}, ranges : SUBSET VersionRanges,
           bindings : SUBSET (AgentBindings \cup ProviderBindings)]

TxRow == [at : CatRows, target : CatRows, after : CatRow]

\* What holds of a row, committed or about to be, with the identifier x.
RowSound(x, r) ==
    /\ r \in CatRow
    /\ x \in Agents /\ r.status = "validated" =>
          r.ranges # {} /\ \A g, h \in r.ranges : g # h => ~Overlap(g, h)
    /\ r.status # "absent" => r.text \in Texts /\ StoredText(x, r.text) \in {r.text, NoRowId}

\* A transaction raises the version of the row it finds, or leaves its content, or
\* keeps the values of a model that it refused.
VersionRaised(y, r) ==
    Present(y) /\ r.status # "deleted" =>
        \/ r.version > row[y].version \/ Content(r) = Content(row[y])
        \/ RefusedValues(y, row[y], r)

CatInv ==
    /\ row \in [CatRows -> CatRow] /\ tx \in [Sessions -> TxRow \cup {NoTx}]
    /\ \A x \in CatRows : RowSound(x, row[x])
    /\ \A s \in Sessions : tx[s] # NoTx =>
          RowSound(tx[s].target, tx[s].after) /\ VersionRaised(tx[s].target, tx[s].after)
    /\ \A s, t \in Sessions : s # t /\ tx[s] # NoTx => tx[s].target # tx[t].target

LEMMA TxIsRow ==
    ASSUME CatInv, NEW s \in Sessions
    PROVE  tx[s] # NoTx <=> tx[s] \in TxRow
BY CatalogueAssumption DEF CatInv, TxRow, NoTx

\* Changes of a row.
WithText(r, t) == [r EXCEPT !.text = t]
WithRanges(r, gs) == [r EXCEPT !.ranges = gs]
WithBindings(r, bs) == [r EXCEPT !.bindings = bs]
AsDeleted(r) == [r EXCEPT !.status = "deleted", !.ranges = {}, !.bindings = {}]
AsValidated(r, t) == [r EXCEPT !.status = "validated", !.text = t]
AsDraft(r, n) == [r EXCEPT !.status = "draft", !.version = n]
AsClone(r, n, m) == [r EXCEPT !.status = "draft", !.version = n, !.revision = m]

LEMMA TextChange ==
    ASSUME NEW r \in CatRow, NEW t \in Texts
    PROVE  /\ WithText(r, t) \in CatRow /\ WithText(r, t).text = t
           /\ WithText(r, t).status = r.status /\ WithText(r, t).version = r.version
BY DEF CatRow, WithText

LEMMA RangesChange ==
    ASSUME NEW r \in CatRow, NEW gs \in SUBSET VersionRanges
    PROVE  /\ WithRanges(r, gs) \in CatRow /\ WithRanges(r, gs).text = r.text
           /\ WithRanges(r, gs).status = r.status /\ WithRanges(r, gs).version = r.version
BY DEF CatRow, WithRanges

LEMMA BindingsChange ==
    ASSUME NEW r \in CatRow, NEW bs \in SUBSET (AgentBindings \cup ProviderBindings)
    PROVE  /\ WithBindings(r, bs) \in CatRow /\ WithBindings(r, bs).text = r.text
           /\ WithBindings(r, bs).status = r.status
           /\ WithBindings(r, bs).version = r.version
BY DEF CatRow, WithBindings

LEMMA DeletedChange ==
    ASSUME NEW r \in CatRow
    PROVE  /\ AsDeleted(r) \in CatRow /\ AsDeleted(r).status = "deleted"
           /\ AsDeleted(r).text = r.text
BY DEF CatRow, AsDeleted

LEMMA ValidatedChange ==
    ASSUME NEW r \in CatRow, NEW t \in Texts
    PROVE  /\ AsValidated(r, t) \in CatRow /\ AsValidated(r, t).status = "validated"
           /\ AsValidated(r, t).text = t /\ AsValidated(r, t).ranges = r.ranges
           /\ AsValidated(r, t).bindings = r.bindings
BY DEF CatRow, AsValidated

LEMMA DraftChange ==
    ASSUME NEW r \in CatRow, NEW n \in Nat
    PROVE  /\ AsDraft(r, n) \in CatRow /\ AsDraft(r, n).status = "draft"
           /\ AsDraft(r, n).version = n /\ AsDraft(r, n).text = r.text
           /\ AsDraft(r, n).ranges = r.ranges /\ AsDraft(r, n).bindings = r.bindings
BY DEF CatRow, AsDraft

LEMMA CloneChange ==
    ASSUME NEW r \in CatRow, NEW n \in Nat, NEW m \in Nat
    PROVE  /\ AsClone(r, n, m) \in CatRow /\ AsClone(r, n, m).status = "draft"
           /\ AsClone(r, n, m).text = r.text
BY DEF CatRow, AsClone

LEMMA NewRowFacts ==
    ASSUME NEW k \in LogicalKeys \cup {NoRowId}, NEW t \in Texts \cup {NoRowId}
    PROVE  /\ NewRow(k, 1, t) \in CatRow /\ NewRow(k, 1, t).status = "draft"
           /\ NewRow(k, 1, t).text = t /\ NewRow(k, 1, t).ranges = {}
           /\ Absent \in CatRow /\ Absent.status = "absent"
<1>1. \A j \in LogicalKeys \cup {NoRowId}, u \in Texts \cup {NoRowId} :
         /\ NewRow(j, 1, u) \in CatRow /\ NewRow(j, 1, u).status = "draft"
         /\ NewRow(j, 1, u).text = u /\ NewRow(j, 1, u).ranges = {}
  BY DEF NewRow, CatRow
<1>2. NewRow(NoRowId, 1, NoRowId) \in CatRow
  BY <1>1
<1>3. \A r \in CatRow : [r EXCEPT !.status = "absent"] \in CatRow
                        /\ [r EXCEPT !.status = "absent"].status = "absent"
  BY DEF CatRow
<1> QED
  BY <1>1, <1>2, <1>3 DEF Absent

LEMMA EditedFacts ==
    ASSUME CatInv, NEW x \in CatRows
    PROVE  /\ Edited(x) \in CatRow /\ Edited(x).status = "draft"
           /\ Edited(x).version > row[x].version /\ Edited(x).version \in Nat
           /\ Edited(x).text = row[x].text /\ Edited(x).ranges = row[x].ranges
           /\ Edited(x).bindings = row[x].bindings
<1> DEFINE n == row[x].version + 1
<1>1. row[x] \in CatRow /\ row[x].version \in Nat
  BY DEF CatInv, CatRow
<1>2. n \in Nat /\ n > row[x].version
  BY <1>1
<1>3. Edited(x) = AsDraft(row[x], n)
  BY DEF Edited, AsDraft
<1>4. row[x] \in CatRow
  BY <1>1
<1> HIDE DEF n
<1>5. /\ AsDraft(row[x], n) \in CatRow /\ AsDraft(row[x], n).status = "draft"
      /\ AsDraft(row[x], n).version = n /\ AsDraft(row[x], n).text = row[x].text
      /\ AsDraft(row[x], n).ranges = row[x].ranges
      /\ AsDraft(row[x], n).bindings = row[x].bindings
  BY <1>2, <1>4, DraftChange
<1> QED
  BY <1>2, <1>3, <1>5

\* A transaction that opens on y, with what it is going to write.
Opens(s) ==
    \E x \in CatRows, y \in CatRows, after \in CatRow :
       WriteLocked(s, x, y, after) /\ RowSound(y, after) /\ VersionRaised(y, after)

LEMMA MutableFacts ==
    ASSUME CatInv, NEW x \in CatRows
    PROVE  /\ row[x] \in CatRow /\ row[x].version \in Nat
           /\ row[x].ranges \in SUBSET VersionRanges
           /\ row[x].bindings \in SUBSET (AgentBindings \cup ProviderBindings)
           /\ row[x].status # "absent" =>
                 row[x].text \in Texts /\ StoredText(x, row[x].text) \in {row[x].text, NoRowId}
BY DEF CatInv, RowSound, CatRow

LEMMA StoredTexts ==
    ASSUME NEW x \in CatRows, NEW t \in Texts, StoredText(x, t) # NoRowId
    PROVE  /\ StoredText(x, t) \in Texts
           /\ StoredText(x, StoredText(x, t)) \in {StoredText(x, t), NoRowId}
BY NormalAssumption DEF StoredText

LEMMA RowCommandOpens ==
    ASSUME CatInv, NEW s \in Sessions, NEW x \in CatRows, RowCommand(s, x)
    PROVE  Opens(s)
<1>1. ASSUME NEW k \in LogicalKeys, NEW t \in Texts, CreateRow(s, x, k, t)
      PROVE  Opens(s)
  <2> DEFINE new == NewRow(k, 1, StoredText(x, t))
  <2>1. /\ row[x] = Absent /\ StoredText(x, t) # NoRowId /\ WriteLocked(s, x, x, new)
    BY <1>1 DEF CreateRow
  <2>2. new \in CatRow /\ new.status = "draft" /\ new.text = StoredText(x, t)
    BY <2>1, StoredTexts, NewRowFacts
  <2>3. row[x].status = "absent"
    BY <2>1, NewRowFacts
  <2>4. RowSound(x, new) /\ VersionRaised(x, new)
    <3> HIDE DEF new
    <3> QED
      BY <2>1, <2>2, <2>3, StoredTexts DEF RowSound, VersionRaised, RefusedValues, Present
  <2> QED
    BY <2>1, <2>2, <2>4 DEF Opens
<1>2. ASSUME NEW n \in 1..MaxEditions, NEW t \in Texts, UpdateRow(s, x, n, t)
      PROVE  Opens(s)
  <2> DEFINE after == WithText(Edited(x), StoredText(x, t))
  <2>1. StoredText(x, t) # NoRowId /\ WriteLocked(s, x, x, after)
    BY <1>2 DEF UpdateRow, WithText
  <2>2. /\ after \in CatRow /\ after.status = "draft" /\ after.text = StoredText(x, t)
        /\ after.version > row[x].version
    BY <2>1, StoredTexts, EditedFacts, TextChange
  <2>3. RowSound(x, after) /\ VersionRaised(x, after)
    <3> HIDE DEF after
    <3> QED
      BY <2>1, <2>2, StoredTexts DEF RowSound, VersionRaised
  <2> QED
    BY <2>1, <2>2, <2>3 DEF Opens
<1>3. ASSUME NEW n \in 1..MaxEditions, DeleteRow(s, x, n)
      PROVE  Opens(s)
  <2> DEFINE after == AsDeleted(row[x])
  <2>1. row[x].status # "absent" /\ WriteLocked(s, x, x, after)
    BY <1>3 DEF DeleteRow, MutableRow, AsDeleted
  <2>2. after \in CatRow /\ after.status = "deleted" /\ after.text = row[x].text
    BY MutableFacts, DeletedChange
  <2>3. RowSound(x, after) /\ VersionRaised(x, after)
    <3> HIDE DEF after
    <3> QED
      BY <2>1, <2>2, MutableFacts DEF RowSound, VersionRaised
  <2> QED
    BY <2>1, <2>2, <2>3 DEF Opens
<1>4. ASSUME NEW y \in CatRows, CloneRow(s, x, y)
      PROVE  Opens(s)
  <2>1. PICK r \in RevisionsOf(x) :
          WriteLocked(s, x, y, [row[x] EXCEPT !.status = "draft", !.version = 1, !.revision = r + 1])
    BY <1>4 DEF CloneRow
  <2>2. r \in Nat
    <3>1. KindOf(x) \subseteq CatRows
      BY DEF KindOf, CatRows
    <3>2. \A z \in CatRows : row[z].revision \in Nat
      BY DEF CatInv, CatRow
    <3> QED
      BY <2>1, <3>1, <3>2 DEF RevisionsOf
  <2> DEFINE one == 1
             next == r + 1
             after == AsClone(row[x], one, next)
  <2>3. WriteLocked(s, x, y, after) /\ one \in Nat /\ next \in Nat
    BY <2>1, <2>2 DEF AsClone
  <2> HIDE DEF one, next
  <2>4. after \in CatRow /\ after.status = "draft" /\ after.text = row[x].text
    BY <2>3, MutableFacts, CloneChange
  <2>5. row[x].status = "published" /\ row[y] = Absent /\ KindOf(x) = KindOf(y)
    BY <1>4 DEF CloneRow
  <2>6. RowSound(y, after) /\ VersionRaised(y, after)
    <3> HIDE DEF after
    <3>1. row[y].status = "absent"
      BY <2>5, NewRowFacts
    <3>2. after.text \in Texts /\ StoredText(x, after.text) \in {after.text, NoRowId}
      BY <2>4, <2>5, MutableFacts
    <3> QED
      BY <2>4, <2>5, <3>1, <3>2 DEF RowSound, VersionRaised, Present, StoredText
  <2> HIDE DEF after
  <2> QED
    BY <2>3, <2>4, <2>6 DEF Opens
<1> QED
  BY <1>1, <1>2, <1>3, <1>4 DEF RowCommand

LEMMA RefusalOpens ==
    ASSUME CatInv, NEW s \in Sessions, NEW x \in CatRows, NEW n \in 1..MaxEditions,
           NEW t \in Texts, RefuseUpdate(s, x, n, t)
    PROVE  Opens(s)
<1> DEFINE after == WithText(row[x], t)
<1>1. /\ x \in Models /\ row[x].status # "absent" /\ StoredText(x, t) = NoRowId
      /\ WriteLocked(s, x, x, after)
  BY DEF RefuseUpdate, MutableRow, WithText
<1>2. /\ after \in CatRow /\ after.text = t /\ after.status = row[x].status
      /\ after = [row[x] EXCEPT !.text = after.text]
  BY MutableFacts, TextChange DEF WithText
<1>3. x \notin Agents
  BY <1>1, CatalogueAssumption
<1> HIDE DEF after
<1>4. RowSound(x, after)
  BY <1>1, <1>2, <1>3 DEF RowSound
<1>5. RefusedValues(x, row[x], after)
  BY <1>1, <1>2 DEF RefusedValues
<1> QED
  BY <1>1, <1>2, <1>4, <1>5 DEF Opens, VersionRaised

LEMMA ValidateOpens ==
    ASSUME CatInv, NEW s \in Sessions, NEW x \in CatRows, ValidateRow(s, x),
           x \in Agents => RangesDisjoint(x)
    PROVE  Opens(s)
<1> DEFINE t == StoredText(x, row[x].text)
           after == AsValidated(row[x], t)
<1>1. row[x].status # "absent" /\ t # NoRowId /\ WriteLocked(s, x, x, after)
  BY DEF ValidateRow, MutableRow, AsValidated
<1>2. t = row[x].text /\ t \in Texts
  BY <1>1, MutableFacts
<1>3. /\ after \in CatRow /\ after.status = "validated" /\ after.text = t
      /\ after.ranges = row[x].ranges /\ after.bindings = row[x].bindings
  BY <1>2, MutableFacts, ValidatedChange
<1>4. StoredText(x, t) \in {t, NoRowId}
  BY <1>1, <1>2, MutableFacts
<1> HIDE DEF t, after
<1>5. RowSound(x, after)
  BY <1>2, <1>3, <1>4 DEF RowSound, RangesDisjoint
<1>6. Content(after) = Content(row[x])
  BY <1>2, <1>3 DEF Content
<1> QED
  BY <1>1, <1>3, <1>5, <1>6 DEF Opens, VersionRaised

\* Ranges and bindings change with the version of their row.
LEMMA EditOpens ==
    ASSUME CatInv, NEW s \in Sessions, NEW x \in CatRows, MutableRow(x)
    PROVE  /\ \A gs \in SUBSET VersionRanges :
                WriteLocked(s, x, x, WithRanges(Edited(x), gs)) => Opens(s)
           /\ \A bs \in SUBSET (AgentBindings \cup ProviderBindings) :
                WriteLocked(s, x, x, WithBindings(Edited(x), bs)) => Opens(s)
<1>1. row[x].status # "absent"
  BY DEF MutableRow
<1>2. row[x].text \in Texts /\ StoredText(x, row[x].text) \in {row[x].text, NoRowId}
  BY <1>1, MutableFacts
<1>3. ASSUME NEW after \in CatRow, after.status = "draft", after.version > row[x].version,
             after.text = row[x].text, WriteLocked(s, x, x, after)
      PROVE  Opens(s)
  <2>1. RowSound(x, after) /\ VersionRaised(x, after)
    BY <1>2, <1>3 DEF RowSound, VersionRaised
  <2> QED
    BY <1>3, <2>1 DEF Opens
<1>4. ASSUME NEW gs \in SUBSET VersionRanges
      PROVE  WriteLocked(s, x, x, WithRanges(Edited(x), gs)) => Opens(s)
  <2> DEFINE after == WithRanges(Edited(x), gs)
  <2>1. /\ after \in CatRow /\ after.status = "draft" /\ after.version > row[x].version
        /\ after.text = row[x].text
    BY <1>4, EditedFacts, RangesChange
  <2> HIDE DEF after
  <2>2. WriteLocked(s, x, x, after) => Opens(s)
    BY <1>3, <2>1
  <2> QED
    BY <2>2 DEF after
<1>5. ASSUME NEW bs \in SUBSET (AgentBindings \cup ProviderBindings)
      PROVE  WriteLocked(s, x, x, WithBindings(Edited(x), bs)) => Opens(s)
  <2> DEFINE after == WithBindings(Edited(x), bs)
  <2>1. /\ after \in CatRow /\ after.status = "draft" /\ after.version > row[x].version
        /\ after.text = row[x].text
    BY <1>5, EditedFacts, BindingsChange
  <2> HIDE DEF after
  <2>2. WriteLocked(s, x, x, after) => Opens(s)
    BY <1>3, <2>1
  <2> QED
    BY <2>2 DEF after
<1> QED
  BY <1>4, <1>5

LEMMA RangeOpens ==
    ASSUME CatInv, NEW s \in Sessions, NEW x \in CatRows, NEW g \in VersionRanges,
           AddRange(s, x, g) \/ RemoveRange(s, x, g)
    PROVE  Opens(s)
<1>1. MutableRow(x) /\ Edited(x).ranges = row[x].ranges /\ row[x].ranges \in SUBSET VersionRanges
  BY EditedFacts, MutableFacts DEF AddRange, RemoveRange, ParentOpen
<1>2. \/ WriteLocked(s, x, x, WithRanges(Edited(x), Edited(x).ranges \union {g}))
      \/ WriteLocked(s, x, x, WithRanges(Edited(x), Edited(x).ranges \ {g}))
  BY DEF AddRange, RemoveRange, WithRanges
<1>3. /\ Edited(x).ranges \union {g} \in SUBSET VersionRanges
      /\ Edited(x).ranges \ {g} \in SUBSET VersionRanges
  BY <1>1
<1> QED
  BY <1>1, <1>2, <1>3, EditOpens

LEMMA BindingOpens ==
    ASSUME CatInv, NEW s \in Sessions, NEW x \in CatRows,
           NEW b \in AgentBindings \cup ProviderBindings,
           BindModel(s, x, b) \/ UnbindModel(s, x, b)
    PROVE  Opens(s)
<1>1. /\ MutableRow(x) /\ Edited(x).bindings = row[x].bindings
      /\ row[x].bindings \in SUBSET (AgentBindings \cup ProviderBindings)
  BY EditedFacts, MutableFacts DEF BindModel, UnbindModel, ParentOpen
<1>2. \/ WriteLocked(s, x, x, WithBindings(Edited(x), Edited(x).bindings \union {b}))
      \/ WriteLocked(s, x, x, WithBindings(Edited(x), Edited(x).bindings \ {b}))
  BY DEF BindModel, UnbindModel, WithBindings
<1>3. /\ Edited(x).bindings \union {b} \in SUBSET (AgentBindings \cup ProviderBindings)
      /\ Edited(x).bindings \ {b} \in SUBSET (AgentBindings \cup ProviderBindings)
  BY <1>1
<1> QED
  BY <1>1, <1>2, <1>3, EditOpens

LEMMA CatSteps ==
    ASSUME CatInv, CatNext
    PROVE  \E s \in Sessions : CommitTx(s) \/ RollbackTx(s) \/ Opens(s)
<1>1. PICK s \in Sessions :
         \/ CommitTx(s) \/ RollbackTx(s)
         \/ \E x \in Agents : AgentCommand(s, x)
         \/ \E x \in Models : ModelCommand(s, x)
         \/ \E x \in Providers : ProviderCommand(s, x)
  BY DEF CatNext
<1>2. Agents \subseteq CatRows /\ Models \subseteq CatRows /\ Providers \subseteq CatRows
  BY DEF CatRows
<1>3. ASSUME NEW x \in Agents, AgentCommand(s, x)
      PROVE  Opens(s)
  <2>1. x \in CatRows
    BY <1>2
  <2>2. CASE RowCommand(s, x)
    BY <2>1, <2>2, RowCommandOpens
  <2>3. CASE ValidateAgent(s, x)
    BY <2>1, <2>3, ValidateOpens DEF ValidateAgent
  <2>4. CASE \E g \in VersionRanges : AddRange(s, x, g) \/ RemoveRange(s, x, g)
    BY <2>1, <2>4, RangeOpens
  <2>5. CASE \E b \in AgentBindings : BindAgent(s, x, b) \/ UnbindAgent(s, x, b)
    BY <2>1, <2>5, BindingOpens DEF BindAgent, UnbindAgent
  <2> QED
    BY <1>3, <2>2, <2>3, <2>4, <2>5 DEF AgentCommand
<1>4. ASSUME NEW x \in Models, ModelCommand(s, x)
      PROVE  Opens(s)
  <2>1. x \in CatRows /\ x \notin Agents
    BY <1>2, CatalogueAssumption
  <2> QED
    BY <1>4, <2>1, RowCommandOpens, ValidateOpens, RefusalOpens DEF ModelCommand
<1>5. ASSUME NEW x \in Providers, ProviderCommand(s, x)
      PROVE  Opens(s)
  <2>1. x \in CatRows /\ x \notin Agents
    BY <1>2, CatalogueAssumption
  <2> QED
    BY <1>5, <2>1, RowCommandOpens, ValidateOpens, BindingOpens
       DEF ProviderCommand, BindProvider, UnbindProvider
<1> QED
  BY <1>1, <1>3, <1>4, <1>5

LEMMA CatStep ==
    ASSUME CatInv, [CatNext]_catVars
    PROVE  /\ CatInv'
           /\ \A x \in CatRows : row'[x] = row[x] \/ VersionRaised(x, row'[x])
<1>1. CASE UNCHANGED catVars
  BY <1>1 DEF catVars, CatInv, RowSound, VersionRaised, RefusedValues, Present
<1>2. CASE CatNext
  <2>1. PICK s \in Sessions : CommitTx(s) \/ RollbackTx(s) \/ Opens(s)
    BY <1>2, CatSteps
  <2>2. CASE CommitTx(s)
    <3> DEFINE t == tx[s]
    <3>1. /\ t # NoTx /\ row' = [row EXCEPT ![t.target] = t.after]
          /\ tx' = [tx EXCEPT ![s] = NoTx]
      BY <2>2 DEF CommitTx
    <3>2. t.target \in CatRows /\ t.after \in CatRow
      BY <3>1, TxIsRow DEF TxRow
    <3>3. RowSound(t.target, t.after) /\ VersionRaised(t.target, t.after)
      BY <3>1 DEF CatInv
    <3>4. /\ row' \in [CatRows -> CatRow] /\ row'[t.target] = t.after
          /\ \A x \in CatRows \ {t.target} : row'[x] = row[x]
      BY <3>1, <3>2 DEF CatInv
    <3>5. /\ tx' \in [Sessions -> TxRow \cup {NoTx}] /\ tx'[s] = NoTx
          /\ \A r \in Sessions \ {s} : tx'[r] = tx[r]
      BY <3>1 DEF CatInv
    <3>6. \A x \in CatRows : RowSound(x, row'[x])
      BY <3>3, <3>4 DEF CatInv
    <3>7. ASSUME NEW r \in Sessions, tx'[r] # NoTx
          PROVE  /\ RowSound(tx'[r].target, tx'[r].after)
                 /\ VersionRaised(tx[r].target, tx[r].after)'
      <4>1. r # s /\ tx'[r] = tx[r] /\ tx[r] # NoTx
        BY <3>5, <3>7
      <4>2. tx[r].target \in CatRows /\ tx[r].target # t.target
        BY <3>1, <4>1, TxIsRow DEF CatInv, TxRow
      <4>3. row'[tx[r].target] = row[tx[r].target]
        BY <3>4, <4>2
      <4> QED
        BY <4>1, <4>3 DEF CatInv, VersionRaised, RefusedValues, Present
    <3>8. \A r, q \in Sessions : r # q /\ tx'[r] # NoTx => tx'[r].target # tx'[q].target
      <4>1. \A r \in Sessions \ {s} : tx[r] # NoTx => tx[r].target # NoRowId
        BY TxIsRow, CatalogueAssumption DEF TxRow
      <4>2. NoTx.target = NoRowId
        BY DEF NoTx
      <4> QED
        BY <3>5, <4>1, <4>2 DEF CatInv
    <3>9. CatInv'
      BY <3>4, <3>5, <3>6, <3>7, <3>8 DEF CatInv, RowSound
    <3>10. \A x \in CatRows : row'[x] = row[x] \/ VersionRaised(x, row'[x])
      BY <3>3, <3>4
    <3> QED
      BY <3>9, <3>10
  <2>3. CASE RollbackTx(s)
    <3>1. /\ tx' \in [Sessions -> TxRow \cup {NoTx}] /\ tx'[s] = NoTx /\ UNCHANGED row
          /\ \A r \in Sessions \ {s} : tx'[r] = tx[r]
      BY <2>3 DEF CatInv, RollbackTx
    <3>2. \A r, q \in Sessions : r # q /\ tx'[r] # NoTx => tx'[r].target # tx'[q].target
      <4>1. \A r \in Sessions \ {s} : tx[r] # NoTx => tx[r].target # NoRowId
        BY TxIsRow, CatalogueAssumption DEF TxRow
      <4>2. NoTx.target = NoRowId
        BY DEF NoTx
      <4> QED
        BY <3>1, <4>1, <4>2 DEF CatInv
    <3>3. CatInv'
      BY <3>1, <3>2 DEF CatInv, RowSound, VersionRaised, RefusedValues, Present
    <3> QED
      BY <3>1, <3>3
  <2>4. CASE Opens(s)
    <3>1. PICK x \in CatRows, y \in CatRows, after \in CatRow :
             WriteLocked(s, x, y, after) /\ RowSound(y, after) /\ VersionRaised(y, after)
      BY <2>4 DEF Opens
    <3> DEFINE t == [at |-> x, target |-> y, after |-> after]
    <3>2. t \in TxRow /\ t.target = y /\ t.after = after
      BY DEF TxRow
    <3>3. /\ UNCHANGED row /\ tx' = [tx EXCEPT ![s] = t]
          /\ tx[s] = NoTx /\ \A q \in Sessions : tx[q].target # y
      BY <3>1 DEF WriteLocked, LockCatRow
    <3> HIDE DEF t
    <3>4. /\ tx' \in [Sessions -> TxRow \cup {NoTx}] /\ tx'[s] = t
          /\ \A r \in Sessions \ {s} : tx'[r] = tx[r]
      BY <3>2, <3>3 DEF CatInv
    <3>5. \A r \in Sessions : tx'[r] # NoTx =>
             /\ RowSound(tx'[r].target, tx'[r].after)
             /\ VersionRaised(tx[r].target, tx[r].after)'
      BY <3>1, <3>2, <3>3, <3>4 DEF CatInv, VersionRaised, RefusedValues, Present
    <3>6. \A r, q \in Sessions : r # q /\ tx'[r] # NoTx => tx'[r].target # tx'[q].target
      BY <3>2, <3>3, <3>4 DEF CatInv
    <3>7. CatInv'
      BY <3>3, <3>4, <3>5, <3>6 DEF CatInv, RowSound
    <3> QED
      BY <3>3, <3>7
  <2> QED
    BY <2>1, <2>2, <2>3, <2>4
<1> QED
  BY <1>1, <1>2

LEMMA CatInductive == CatSpec => []CatInv
<1>1. CatInit => CatInv
  <2> SUFFICES ASSUME CatInit
               PROVE  CatInv
    OBVIOUS
  <2>1. \A s \in Sessions : tx[s] = NoTx
    BY DEF CatInit
  <2>2. ASSUME NEW x \in CatRows
        PROVE  RowSound(x, row[x])
    <3>1. CASE x \in Installed
      <4>0. PICK f \in [Installed -> VersionRanges] : row[x] = InstalledRow(x, f[x])
        BY <3>1 DEF CatInit
      <4> DEFINE k == CHOOSE k \in LogicalKeys : TRUE
                 t == CHOOSE t \in Texts : Normal[KindOf(x)][t] = t
                 gs == IF x \in Agents THEN {f[x]} ELSE {}
                 r == [NewRow(k, 1, t) EXCEPT !.status = "published", !.ranges = gs]
      <4>1. row[x] = r
        BY <4>0 DEF InstalledRow
      <4>2. k \in LogicalKeys /\ t \in Texts /\ StoredText(x, t) = t
        BY <3>1, InstalledAssumption DEF StoredText
      <4>3. gs \in SUBSET VersionRanges
        BY <3>1, <4>0
      <4>4. NewRow(k, 1, t) \in CatRow /\ NewRow(k, 1, t).text = t
        BY <4>2, NewRowFacts
      <4> HIDE DEF k, t, gs
      <4>5. \A d \in CatRow : LET e == [d EXCEPT !.status = "published", !.ranges = gs]
                              IN  e \in CatRow /\ e.status = "published" /\ e.text = d.text
        BY <4>3 DEF CatRow
      <4>6. r \in CatRow /\ r.status = "published" /\ r.text = t
        BY <4>4, <4>5
      <4> HIDE DEF r
      <4> QED
        BY <4>1, <4>2, <4>6 DEF RowSound
    <3>2. CASE x \notin Installed
      <4>1. row[x] = Absent
        BY <3>2 DEF CatInit
      <4>2. Absent \in CatRow /\ Absent.status = "absent"
        BY NewRowFacts
      <4> QED
        BY <4>1, <4>2 DEF RowSound
    <3> QED
      BY <3>1, <3>2
  <2>3. row \in [CatRows -> CatRow]
    <3>0. PICK f \in [Installed -> VersionRanges] :
             row = [x \in CatRows |-> IF x \in Installed THEN InstalledRow(x, f[x]) ELSE Absent]
      BY DEF CatInit
    <3> DEFINE F(x) == IF x \in Installed THEN InstalledRow(x, f[x]) ELSE Absent
    <3>1. row = [x \in CatRows |-> F(x)]
      BY <3>0
    <3> HIDE DEF F
    <3>2. \A x \in CatRows : F(x) \in CatRow
      BY <2>2, <3>1 DEF RowSound
    <3> QED
      BY <3>1, <3>2
  <2>4. tx \in [Sessions -> TxRow \cup {NoTx}]
    BY DEF CatInit
  <2> QED
    BY <2>1, <2>2, <2>3, <2>4 DEF CatInv
<1>2. CatInv /\ [CatNext]_catVars => CatInv'
  BY CatStep
<1> QED
  BY <1>1, <1>2, PTL DEF CatSpec

\* A release that the host finds in two ranges lies, in the order of _semver, in
\* both, unless one of them ends with build metadata of the release.
LEMMA SharedReleaseOverlaps ==
    ASSUME NEW g \in VersionRanges, NEW h \in VersionRanges, NEW n \in Int,
           Supports(g, n), Supports(h, n), ~EndsWithBuildOf(g, n), ~EndsWithBuildOf(h, n)
    PROVE  Overlap(g, h)
<1>1. /\ g[1] \in Int \X Nat \X Nat /\ g[2] \in Int \X Nat \X Nat
      /\ h[1] \in Int \X Nat \X Nat /\ h[2] \in Int \X Nat \X Nat
  BY CatalogueAssumption DEF VersionRanges
<1>2. n < g[2][1] /\ n < h[2][1]
  BY DEF Supports
<1>3. g[1][1] <= n /\ h[1][1] <= n
  BY <1>1 DEF Supports, NotAbove
<1>4. g[1][1] < h[2][1] /\ h[1][1] < g[2][1]
  BY <1>1, <1>2, <1>3
<1> QED
  BY <1>4 DEF Overlap, Before

(***************************************************************************)
(* A validated agent has version ranges, and the host finds a release in   *)
(* one of them at most, for any number of agents and of administrators     *)
(* that add, remove and validate: the ranges are disjoint in the order of  *)
(* _semver, which differs from the host's in prereleases and builds only.  *)
(***************************************************************************)
THEOREM ValidatedAgentsAreSound == CatSpec => []ReleaseInOneRange
<1>1. CatInv => ReleaseInOneRange
  <2> SUFFICES ASSUME CatInv, NEW x \in Agents, row[x].status = "validated"
               PROVE  /\ row[x].ranges # {}
                      /\ \A n \in Releases : \A g, h \in row[x].ranges :
                            Supports(g, n) /\ Supports(h, n) =>
                                g = h \/ EndsWithBuildOf(g, n) \/ EndsWithBuildOf(h, n)
    BY DEF ReleaseInOneRange
  <2>1. x \in CatRows
    BY DEF CatRows
  <2>2. /\ row[x].ranges # {} /\ row[x].ranges \subseteq VersionRanges
        /\ \A g, h \in row[x].ranges : g # h => ~Overlap(g, h)
    BY <2>1, MutableFacts DEF CatInv, RowSound
  <2>3. Releases \subseteq Int
    BY CatalogueAssumption DEF Releases
  <2> QED
    BY <2>2, <2>3, SharedReleaseOverlaps
<1> QED
  BY <1>1, CatInductive, PTL

(***************************************************************************)
(* The content of a catalog row changes only with its version, but for a   *)
(* model that keeps the values update_model has refused: the row stays     *)
(* locked from the read to the commit, and validating a row again finds    *)
(* its text in the form in which it was stored.                            *)
(***************************************************************************)
THEOREM VersionsNameContent == CatSpec => VersionNamesContent
<1>1. CatInv /\ [CatNext]_catVars =>
        [\A x \in CatRows :
            Present(x) /\ Present(x)' /\ Content(row[x]) # Content(row'[x])
            => row'[x].version > row[x].version \/ RefusedValues(x, row[x], row'[x])]_catVars
  <2> SUFFICES ASSUME CatInv, [CatNext]_catVars, NEW x \in CatRows,
                      Present(x), Present(x)', Content(row[x]) # Content(row'[x])
               PROVE  row'[x].version > row[x].version \/ RefusedValues(x, row[x], row'[x])
    OBVIOUS
  <2>1. row'[x] = row[x] \/ VersionRaised(x, row'[x])
    BY CatStep
  <2> QED
    BY <2>1 DEF VersionRaised, RefusedValues, Present
<1> QED
  BY <1>1, CatInductive, PTL DEF CatSpec, VersionNamesContent
=============================================================================
