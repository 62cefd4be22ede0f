------------------------- MODULE BackendPublishing -------------------------
(***************************************************************************)
(* The backend's administrative writes: catalog resources and their        *)
(* versions (catalog/service.py, skills/service.py,                        *)
(* compatibility/service.py), catalog releases and emergency disables      *)
(* (releases/), all behind the idempotency middleware                      *)
(* (middleware/idempotency.py).                                            *)
(*                                                                         *)
(* The middleware opens one transaction for the request: it inserts the    *)
(* key, runs the endpoint in the same session and commits both together.   *)
(* A refused request (4xx) commits its key with the answer, and what its   *)
(* endpoint wrote before it refused; an exception or a crash rolls         *)
(* everything back, the key included.  The object store is not part of the *)
(* transaction.                                                            *)
(*                                                                         *)
(* Agents, models, providers, skills and compatibility rules have the same *)
(* life cycle; a resource stands for any of them, a version for a version  *)
(* range, a binding or a skill package.                                    *)
(***************************************************************************)
EXTENDS Naturals, FiniteSets

CONSTANTS
    Writes,       \* requests in flight at once
    Keys,         \* idempotency keys
    Resources,    \* identifiers of catalog resources
    Versions,     \* versions a resource may have
    Seeded,       \* resources installed as published
    MaxRevision,  \* bound: version counter of a resource
    MaxSequence   \* bound: sequence of a release or of an emergency disable

ASSUME PublishingConstants ==
    /\ Seeded \subseteq Resources
    /\ {"release", "disable"} \cap Resources = {}
    /\ MaxRevision \in Nat \ {0}
    /\ MaxSequence \in Nat \ {0}

VARIABLES
    resource,     \* status, version counter and versions of each resource
    sequence,     \* sequence -> status, of the releases and of the disables
    objects,      \* keys present in the object store
    committed,    \* api_idempotency: the committed keys
    write,        \* the transaction of each request
    applied,      \* history: effects committed for each key
    interrupted   \* history: packages removed by a transaction that failed

publishingVars == <<resource, sequence, objects, committed, write, applied, interrupted>>

Tables == {"release", "disable"}
Sequences == 1..MaxSequence
Empty == [kind |-> "none"]

Commands ==
    [kind : {"create", "validate", "clone"}, at : Resources]
    \cup [kind : {"update", "delete"}, at : Resources, expected : 1..MaxRevision]
    \cup [kind : {"add", "remove"}, at : Resources, version : Versions]
    \cup [kind : {"insert"}, table : Tables]
    \cup [kind : {"publish", "reconcile"}, release : Sequences]

ResourceCommand(c) == c.kind \in {"create", "validate", "clone", "update", "delete",
                                  "add", "remove"}

PublishingInit ==
    /\ resource = [x \in Resources |->
                     IF x \in Seeded
                     THEN [status |-> "published", version |-> 1, versions |-> Versions]
                     ELSE [status |-> "absent", version |-> 1, versions |-> {}]]
    /\ sequence = [t \in Tables |-> [n \in Sequences |-> "absent"]]
    /\ objects = Seeded \X Versions
    /\ committed = {}
    /\ write = [r \in Writes |-> Empty]
    /\ applied = [k \in Keys |-> 0]
    /\ interrupted = {}

(***************************************************************************)
(* The middleware.                                                         *)
(***************************************************************************)
InFlight(r) == write[r] # Empty
HoldsKey(r, k) == InFlight(r) /\ write[r].key = k
Holds(r, x) == InFlight(r) /\ x \in write[r].locked

(***************************************************************************)
(* Deliberately wrong: the key is looked up and only written at the end.   *)
(***************************************************************************)
EnterKeyUnreserved(r, k, c) ==
    /\ ~InFlight(r)
    /\ k \notin committed
    /\ write' = [write EXCEPT ![r] = [kind |-> "request", key |-> k, command |-> c,
                                      at |-> "run", locked |-> {}, seq |-> 0]]
    /\ UNCHANGED <<resource, sequence, objects, committed, applied, interrupted>>

\* INSERT ... ON CONFLICT DO NOTHING waits for a transaction that inserted
\* the same key; the request is new when no such key was committed.  With a
\* committed key it is answered from the entry, or refused when the body is
\* another one, and changes nothing.
EnterKey(r, k, c) ==
    /\ ~InFlight(r)
    /\ k \notin committed
    /\ \A s \in Writes : ~HoldsKey(s, k)
    /\ write' = [write EXCEPT ![r] = [kind |-> "request", key |-> k, command |-> c,
                                      at |-> "run", locked |-> {}, seq |-> 0]]
    /\ UNCHANGED <<resource, sequence, objects, committed, applied, interrupted>>

EndWrite(r) == write' = [write EXCEPT ![r] = Empty]

\* A ProblemDetailError becomes a 4xx answer, which is kept with the key; here
\* nothing was written before.
Reject(r) ==
    /\ committed' = committed \cup {write[r].key}
    /\ EndWrite(r)
    /\ UNCHANGED <<resource, sequence, objects, applied, interrupted>>

PackagesOf(x) == {x} \X resource[x].versions

\* Packages already deleted by a transaction that has not committed.
Removing(r) ==
    LET c == write[r].command
    IN IF ~InFlight(r) \/ write[r].at # "commit" THEN {}
       ELSE CASE c.kind = "remove" -> {<<c.at, c.version>>}
              [] c.kind = "delete" -> PackagesOf(c.at)
              [] OTHER             -> {}

\* Any other exception, and a crash, roll the transaction back.
FailWrite(r) ==
    /\ InFlight(r)
    /\ EndWrite(r)
    /\ interrupted' = interrupted \cup Removing(r)
    /\ UNCHANGED <<resource, sequence, objects, committed, applied>>

(***************************************************************************)
(* Resources.  _locked and _locked_skill: SELECT ... FOR UPDATE.           *)
(***************************************************************************)
Mutable(x) == resource[x].status \in {"draft", "validated"}

Allowed(c) ==
    LET x == resource[c.at]
    IN CASE c.kind = "create"   -> x.status = "absent"
         [] c.kind = "clone"    -> x.status = "published"
         [] c.kind = "validate" -> Mutable(c.at) /\ x.versions # {}
         [] c.kind \in {"update", "delete"} -> Mutable(c.at) /\ x.version = c.expected
         [] c.kind = "add"      -> Mutable(c.at)
         [] OTHER               -> Mutable(c.at) /\ c.version \in x.versions

\* A clone takes an identifier no other row has; the others keep theirs.
NewIds(c) ==
    IF c.kind # "clone" THEN {c.at}
    ELSE {y \in Resources : /\ resource[y].status = "absent"
                            /\ \A s \in Writes : ~Holds(s, y)}

\* What the endpoint does to the object store before the transaction commits.
Stored(c, y) ==
    CASE c.kind = "add"    -> objects \cup {<<c.at, c.version>>}
      [] c.kind = "remove" -> objects \ {<<c.at, c.version>>}
      [] c.kind = "delete" -> objects \ PackagesOf(c.at)
      [] c.kind = "clone"  -> objects \cup ({y} \X resource[c.at].versions)
      [] OTHER             -> objects

(***************************************************************************)
(* Deliberately wrong: the row is read without FOR UPDATE.                 *)
(***************************************************************************)
RunResourceUnlocked(r) ==
    LET c == write[r].command
    IN /\ InFlight(r) /\ write[r].at = "run" /\ ResourceCommand(c)
       /\ \/ /\ ~Allowed(c) /\ Reject(r)
          \/ /\ Allowed(c)
             /\ \E y \in NewIds(c) :
                  /\ objects' = Stored(c, y)
                  /\ write' = [write EXCEPT ![r].at = "commit", ![r].locked = {c.at, y}]
             /\ UNCHANGED <<resource, sequence, committed, applied, interrupted>>

RunResource(r) ==
    LET c == write[r].command
    IN /\ InFlight(r) /\ write[r].at = "run" /\ ResourceCommand(c)
       /\ \A s \in Writes \ {r} : ~Holds(s, c.at)
       /\ \/ /\ ~Allowed(c) /\ Reject(r)
          \/ /\ Allowed(c)
             /\ \E y \in NewIds(c) :
                  /\ objects' = Stored(c, y)
                  /\ write' = [write EXCEPT ![r].at = "commit", ![r].locked = {c.at, y}]
             /\ UNCHANGED <<resource, sequence, committed, applied, interrupted>>

\* A change of the content returns the resource to draft.
Changed(x, versions) ==
    [status |-> "draft", version |-> resource[x].version + 1, versions |-> versions]

Created(x) == [resource[x] EXCEPT !.status = "draft"]
Validated(x) == [resource[x] EXCEPT !.status = "validated"]
Updated(x) == Changed(x, resource[x].versions)
Deleted(x) == [resource[x] EXCEPT !.status = "deleted", !.versions = {}]
VersionAdded(x, v) == Changed(x, resource[x].versions \cup {v})
VersionRemoved(x, v) == Changed(x, resource[x].versions \ {v})
Cloned(x) == [status |-> "draft", version |-> 1, versions |-> resource[x].versions]

\* _sign_version finds no usable key after the package was put into the store.
RefuseAdd(r) ==
    LET c == write[r].command
    IN /\ InFlight(r) /\ write[r].at = "run" /\ c.kind = "add"
       /\ \A s \in Writes \ {r} : ~Holds(s, c.at)
       /\ Allowed(c)
       /\ objects' = Stored(c, c.at)
       /\ committed' = committed \cup {write[r].key}
       /\ EndWrite(r)
       /\ UNCHANGED <<resource, sequence, applied, interrupted>>

\* The clone was flushed by then: it is committed with the refusal and with the
\* versions that were signed, and the package of one more was copied.
RefuseClone(r) ==
    LET c == write[r].command
    IN /\ InFlight(r) /\ write[r].at = "run" /\ c.kind = "clone"
       /\ \A s \in Writes \ {r} : ~Holds(s, c.at)
       /\ Allowed(c)
       /\ \E y \in NewIds(c), signed \in SUBSET resource[c.at].versions :
            \E v \in resource[c.at].versions \ signed :
              /\ objects' = objects \cup ({y} \X (signed \cup {v}))
              /\ resource' = [resource EXCEPT ![y] =
                               [status |-> "draft", version |-> 1, versions |-> signed]]
       /\ committed' = committed \cup {write[r].key}
       /\ applied' = [applied EXCEPT ![write[r].key] = @ + 1]
       /\ EndWrite(r)
       /\ UNCHANGED <<sequence, interrupted>>

\* The row is written when the transaction commits; a version that exists by then
\* violates its unique key.
ResourceEffect(c, y) ==
    /\ c.kind \in {"update", "add", "remove"} => resource[c.at].version < MaxRevision
    /\ c.kind = "add" => c.version \notin resource[c.at].versions
    /\ resource' = [resource EXCEPT ![y] =
           CASE c.kind = "create"   -> Created(y)
             [] c.kind = "validate" -> Validated(y)
             [] c.kind = "update"   -> Updated(y)
             [] c.kind = "delete"   -> Deleted(y)
             [] c.kind = "add"      -> VersionAdded(y, c.version)
             [] c.kind = "remove"   -> VersionRemoved(y, c.version)
             [] c.kind = "clone"    -> Cloned(c.at)]

(***************************************************************************)
(* Releases and emergency disables: the next sequence is read, then the    *)
(* row is inserted.  A concurrent insert is waited for; it then violates   *)
(* the unique sequence, or, for a release, the unique manifest key, which  *)
(* is empty until the release is published.                                *)
(***************************************************************************)
LastSequence(t, n) ==
    /\ n # 0 => sequence[t][n] # "absent"
    /\ \A m \in Sequences : m > n => sequence[t][m] = "absent"

ReadSequence(r) ==
    LET c == write[r].command
    IN /\ InFlight(r) /\ write[r].at = "run" /\ c.kind = "insert"
       /\ \E n \in 0..(MaxSequence - 1) :
            /\ LastSequence(c.table, n)
            /\ write' = [write EXCEPT ![r].at = "insert", ![r].seq = n + 1]
       /\ UNCHANGED <<resource, sequence, objects, committed, applied, interrupted>>

(***************************************************************************)
(* Deliberately wrong: a manifest key of its own from the beginning.       *)
(***************************************************************************)
UniqueSequenceOnly(t, n) == sequence[t][n] = "absent"

UniqueRelease(t, n) ==
    /\ sequence[t][n] = "absent"
    /\ t = "release" => \A m \in Sequences : sequence[t][m] # "publishing"

InsertSequence(r) ==
    LET c == write[r].command
    IN /\ InFlight(r) /\ write[r].at = "insert"
       /\ \A s \in Writes \ {r} :
            ~Holds(s, c.table)
       /\ UniqueRelease(c.table, write[r].seq)
       /\ write' = [write EXCEPT ![r].at = "commit", ![r].locked = {c.table}]
       /\ UNCHANGED <<resource, sequence, objects, committed, applied, interrupted>>

\* The manifest and the resource bundles of a release, under its sequence.
Bundle(n) == <<"release", n>>

\* A failed upload is only logged.
Uploads(n) == {objects, objects \cup {Bundle(n)}}

\* publish_release_endpoint takes no lock.
PublishRelease(r) ==
    LET c == write[r].command
    IN /\ InFlight(r) /\ write[r].at = "run" /\ c.kind = "publish"
       /\ \/ sequence["release"][c.release] # "publishing" /\ Reject(r)
          \/ /\ sequence["release"][c.release] = "publishing"
             /\ objects' \in Uploads(c.release)
             /\ write' = [write EXCEPT ![r].at = "commit"]
             /\ UNCHANGED <<resource, sequence, committed, applied, interrupted>>

\* Every object under catalog/releases/ that does not belong to the release.
Dangling(n) == {Bundle(m) : m \in Sequences \ {n}}

ReconcileRelease(r) ==
    LET c == write[r].command
    IN /\ InFlight(r) /\ write[r].at = "run" /\ c.kind = "reconcile"
       /\ \/ sequence["release"][c.release] = "absent" /\ Reject(r)
          \/ /\ sequence["release"][c.release] # "absent"
             /\ objects' = objects \ Dangling(c.release)
             /\ write' = [write EXCEPT ![r].at = "commit"]
             /\ UNCHANGED <<resource, sequence, committed, applied, interrupted>>

\* A trigger refuses a second UPDATE of a release that is published by now.
CommitWrite(r) ==
    LET c == write[r].command
    IN /\ InFlight(r) /\ write[r].at = "commit"
       /\ c.kind = "publish" => sequence["release"][c.release] = "publishing"
       /\ IF ResourceCommand(c) THEN \E y \in write[r].locked : /\ c.kind = "clone" => y # c.at
                                                          /\ ResourceEffect(c, y)
          ELSE UNCHANGED resource
       /\ sequence' =
            CASE c.kind = "insert"  -> [sequence EXCEPT ![c.table][write[r].seq] = "publishing"]
              [] c.kind = "publish" -> [sequence EXCEPT !["release"][c.release] = "published"]
              [] OTHER              -> sequence
       /\ committed' = committed \cup {write[r].key}
       /\ applied' = [applied EXCEPT ![write[r].key] = @ + 1]
       /\ EndWrite(r)
       /\ UNCHANGED <<objects, interrupted>>

PublishingNext ==
    \E r \in Writes :
        \/ \E k \in Keys, c \in Commands : EnterKey(r, k, c)
        \/ RunResource(r)
        \/ RefuseAdd(r)
        \/ RefuseClone(r)
        \/ ReadSequence(r)
        \/ InsertSequence(r)
        \/ PublishRelease(r)
        \/ ReconcileRelease(r)
        \/ CommitWrite(r)
        \/ FailWrite(r)

PublishingSpec == PublishingInit /\ [][PublishingNext]_publishingVars

(***************************************************************************)
(* Properties.                                                             *)
(***************************************************************************)

(***************************************************************************)
(* A key takes effect at most once, however often and however concurrently *)
(* its request is sent, failed and sent again.                             *)
(***************************************************************************)
EffectOncePerKey == \A k \in Keys : applied[k] <= 1

(***************************************************************************)
(* Releases are published in the order of their sequences, although        *)
(* neither creating nor publishing one takes a lock: an older release that *)
(* is not yet published blocks the creation of the next.  A client that    *)
(* follows the latest manifest therefore never skips one that is published *)
(* later.                                                                  *)
(***************************************************************************)
PublishedInOrder ==
    \A m, n \in Sequences :
        m < n /\ sequence["release"][n] = "published" => sequence["release"][m] = "published"

(***************************************************************************)
(* Every version of a resource has its package in the object store,        *)
(* except one that is being removed, or whose removal was interrupted      *)
(* between the deletion of the object and the commit.                      *)
(***************************************************************************)
VersionsHavePackages ==
    \A x \in Resources : \A v \in resource[x].versions :
        <<x, v>> \in objects \cup interrupted \cup UNION {Removing(r) : r \in Writes}
=============================================================================
