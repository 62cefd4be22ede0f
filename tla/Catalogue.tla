----------------------------- MODULE Catalogue -----------------------------
(***************************************************************************)
(* The rows of the catalog behind the administration endpoints of the      *)
(* Backend API (catalog/service.py, catalog/router.py): agents with their  *)
(* version ranges and model bindings, models, and providers with theirs.   *)
(* BackendPublishing has the idempotency keys, the object store and the    *)
(* releases around these commands; here are the transactions themselves.   *)
(*                                                                         *)
(* A command locks the row of its resource (SELECT ... FOR UPDATE) and     *)
(* computes the new row from it; it reads other rows without a lock, and   *)
(* unique and foreign keys decide when it commits.  It runs in the session *)
(* of the idempotency middleware, which commits whatever the handler       *)
(* answers: what a command has assigned before it refuses its input is     *)
(* kept.  Only update_model does so; other refusals write nothing and are  *)
(* left out.  A range is a pair of versions on one platform, and the other *)
(* columns are abstracted to a text.                                       *)
(***************************************************************************)
EXTENDS Integers, FiniteSets

CONSTANTS
    Agents, Models, Providers,  \* row identifiers
    LogicalKeys,  \* key of an agent, a model or a provider
    Texts,        \* what the descriptive columns may hold
    Normal,       \* per kind of row, the form in which a text is stored, or NoRowId
    Points,       \* the versions <<core, prerelease, build>> that ranges start and end with
    Installed,    \* rows installed as published: no endpoint publishes one
    Sessions,     \* transactions at once
    NoRowId,
    MaxEditions   \* bound on the version counter of a row

CatRows == Agents \union Models \union Providers

KindOf(x) == IF x \in Agents THEN Agents ELSE IF x \in Models THEN Models ELSE Providers

\* _semver: the core is compared first, then the tuple of prerelease parts, as
\* text.  A release has the empty tuple, here 0, and comes before its
\* prereleases; the build metadata is dropped.
Before(u, v) == u[1] < v[1] \/ (u[1] = v[1] /\ u[2] < v[2])

\* _validate_range.
VersionRanges == {g \in Points \X Points : Before(g[1], g[2])}

\* The comparison of validate_agent, and that of create_agent_model_binding.
Overlap(g, h) == Before(g[1], h[2]) /\ Before(h[1], g[2])
Inside(g, h) == ~Before(g[1], h[1]) /\ ~Before(h[2], g[2])

\* Case, blanks, order and a trailing slash are normalised; a text that was
\* normalised stays as it is or, like an IPv6 address that has lost its brackets,
\* is refused the next time.
ASSUME NormalAssumption ==
    \A x \in CatRows, t \in Texts :
        /\ Normal[KindOf(x)][t] \in Texts \union {NoRowId}
        /\ Normal[KindOf(x)][t] # NoRowId =>
              Normal[KindOf(x)][Normal[KindOf(x)][t]] \in {Normal[KindOf(x)][t], NoRowId}

\* A row is installed with a key and a text that was validated, an agent with a range.
ASSUME InstalledAssumption ==
    /\ \A x \in Installed : \E t \in Texts : Normal[KindOf(x)][t] = t
    /\ Installed # {} => LogicalKeys # {} /\ VersionRanges # {}

ASSUME CatalogueAssumption ==
    /\ Points \subseteq Int \X Nat \X Nat /\ MaxEditions \in Nat \ {0}
    /\ Installed \subseteq CatRows /\ NoRowId \notin CatRows
    /\ Agents \intersect Models = {} /\ Agents \intersect Providers = {}
    /\ Models \intersect Providers = {} /\ NoRowId \notin Texts

VARIABLES
    row,  \* the committed rows, with the rows that refer to them
    tx    \* the open transaction of a session: the row it locks and what it writes

catVars == <<row, tx>>

NoTx == [at |-> NoRowId, target |-> NoRowId, after |-> NoRowId]

\* CatalogRevisionMixin, and what hangs on an agent or a provider.
NewRow(k, revision, text) ==
    [status |-> "draft", key |-> k, revision |-> revision, version |-> 1,
     text |-> text, ranges |-> {}, bindings |-> {}]

Absent == [NewRow(NoRowId, 1, NoRowId) EXCEPT !.status = "absent"]
Present(x) == row[x].status \in {"draft", "validated", "published"}

\* A provider is bound to a model, an agent for a range of its versions.
AgentBindings == Models \X VersionRanges
ProviderBindings == {<<mo, <<0, 0>>>> : mo \in Models}

----------------------------------------------------------------------------
(* Transactions. *)

\* Deliberately wrong: the row is read without FOR UPDATE.
LockCatRowNever(s, x, y) == tx[s] = NoTx

\* _locked waits for the transaction that has the row; a row that is written
\* for the first time has an identifier of its own.
LockCatRow(s, x, y) ==
    /\ tx[s] = NoTx
    /\ \A t \in Sessions : tx[t].at # x /\ tx[t].target # y

WriteLocked(s, x, y, after) ==
    /\ LockCatRow(s, x, y)
    /\ tx' = [tx EXCEPT ![s] = [at |-> x, target |-> y, after |-> after]]
    /\ UNCHANGED row

\* _assert_mutable and _assert_version.
MutableRow(x) == row[x].status \in {"draft", "validated"}
AtVersion(x, expected) == row[x].version = expected

\* Deliberately wrong: the change keeps the status.
EditedKeepingStatus(x) == [row[x] EXCEPT !.version = @ + 1]

\* A change of the content returns the row to draft.
Edited(x) == [row[x] EXCEPT !.status = "draft", !.version = @ + 1]

\* uq_agents_key_revision and its like.
UniqueRevision(y, after) ==
    \A z \in KindOf(y) \ {y} :
        Present(z) => row[z].key # after.key \/ row[z].revision # after.revision

\* The bindings refer to models.
ForeignKeys(y, after) ==
    /\ \A b \in after.bindings : Present(b[1])
    /\ after.status = "deleted" => \A z \in CatRows : \A b \in row[z].bindings : b[1] # y

\* The middleware commits after every answer, also after a refusal.
CommitTx(s) ==
    LET t == tx[s]
    IN  /\ t # NoTx
        /\ UniqueRevision(t.target, t.after) /\ ForeignKeys(t.target, t.after)
        /\ row' = [row EXCEPT ![t.target] = t.after]
        /\ tx' = [tx EXCEPT ![s] = NoTx]

\* An exception, a key that is violated, or the end of the process.
RollbackTx(s) ==
    /\ tx[s] # NoTx
    /\ tx' = [tx EXCEPT ![s] = NoTx]
    /\ UNCHANGED row

----------------------------------------------------------------------------
(* What the commands on agents, models and providers share. *)

\* _normalize_provider_url and _validate_model_values; what they refuse is not
\* written.
StoredText(x, text) == Normal[KindOf(x)][text]

\* The key is looked for without a lock.
KeyFree(x, k) == \A z \in KindOf(x) : Present(z) => row[z].key # k

CreateRow(s, x, k, text) ==
    /\ row[x] = Absent /\ KeyFree(x, k)
    /\ StoredText(x, text) # NoRowId
    /\ WriteLocked(s, x, x, NewRow(k, 1, StoredText(x, text)))

UpdateRow(s, x, expected, text) ==
    /\ MutableRow(x) /\ AtVersion(x, expected) /\ expected < MaxEditions
    /\ StoredText(x, text) # NoRowId
    /\ WriteLocked(s, x, x, [Edited(x) EXCEPT !.text = StoredText(x, text)])

\* update_model assigns the values before _validate_model_values refuses them;
\* neither the status nor the version is written.
RefuseUpdate(s, x, expected, text) ==
    /\ x \in Models
    /\ MutableRow(x) /\ AtVersion(x, expected)
    /\ StoredText(x, text) = NoRowId
    /\ WriteLocked(s, x, x, [row[x] EXCEPT !.text = text])

\* Ranges and bindings go with their row.
DeleteRow(s, x, expected) ==
    /\ MutableRow(x) /\ AtVersion(x, expected)
    /\ WriteLocked(s, x, x, [row[x] EXCEPT !.status = "deleted", !.ranges = {}, !.bindings = {}])

\* The text is normalised again and the version stays.
ValidateRow(s, x) ==
    /\ MutableRow(x) /\ StoredText(x, row[x].text) # NoRowId
    /\ WriteLocked(s, x, x, [row[x] EXCEPT !.status = "validated", !.text = StoredText(x, @)])

\* The ranges of an agent are compared with each other.
RangesDisjoint(x) ==
    /\ row[x].ranges # {}
    /\ \A g, h \in row[x].ranges : g # h => ~Overlap(g, h)

\* The revisions of the key are read without a lock.
RevisionsOf(x) == {row[z].revision : z \in {z \in KindOf(x) : Present(z) /\ row[z].key = row[x].key}}

CloneRow(s, x, y) ==
    /\ row[x].status = "published"
    /\ row[y] = Absent /\ KindOf(x) = KindOf(y)
    /\ \E r \in RevisionsOf(x) :
          /\ \A q \in RevisionsOf(x) : q <= r
          /\ WriteLocked(s, x, y, [row[x] EXCEPT !.status = "draft", !.version = 1, !.revision = r + 1])

\* The parent of a range or of a binding is locked and returns to draft.
ParentOpen(x) == MutableRow(x) /\ row[x].version < MaxEditions

BindModel(s, x, b) ==
    /\ ParentOpen(x)
    /\ Present(b[1]) /\ b \notin row[x].bindings
    /\ WriteLocked(s, x, x, [Edited(x) EXCEPT !.bindings = @ \union {b}])

UnbindModel(s, x, b) ==
    /\ ParentOpen(x)
    /\ b \in row[x].bindings
    /\ WriteLocked(s, x, x, [Edited(x) EXCEPT !.bindings = @ \ {b}])

----------------------------------------------------------------------------
(* The endpoints. *)

AddRange(s, x, g) ==
    /\ ParentOpen(x) /\ g \notin row[x].ranges
    /\ WriteLocked(s, x, x, [Edited(x) EXCEPT !.ranges = @ \union {g}])

RemoveRange(s, x, g) ==
    /\ ParentOpen(x) /\ g \in row[x].ranges
    /\ WriteLocked(s, x, x, [Edited(x) EXCEPT !.ranges = @ \ {g}])

ValidateAgent(s, x) == RangesDisjoint(x) /\ ValidateRow(s, x)

\* The range of a binding lies inside one of the agent; the model is looked for
\* without a lock.
BindAgent(s, x, b) ==
    /\ \E g \in row[x].ranges : Inside(b[2], g)
    /\ BindModel(s, x, b)

UnbindAgent(s, x, b) == UnbindModel(s, x, b)

BindProvider(s, x, b) == BindModel(s, x, b)
UnbindProvider(s, x, b) == UnbindModel(s, x, b)

RowCommand(s, x) ==
    \/ \E k \in LogicalKeys, text \in Texts : CreateRow(s, x, k, text)
    \/ \E n \in 1..MaxEditions : DeleteRow(s, x, n) \/ \E text \in Texts : UpdateRow(s, x, n, text)
    \/ \E y \in CatRows : CloneRow(s, x, y)

AgentCommand(s, x) ==
    \/ RowCommand(s, x) \/ ValidateAgent(s, x)
    \/ \E g \in VersionRanges : AddRange(s, x, g) \/ RemoveRange(s, x, g)
    \/ \E b \in AgentBindings : BindAgent(s, x, b) \/ UnbindAgent(s, x, b)

ModelCommand(s, x) ==
    \/ RowCommand(s, x) \/ ValidateRow(s, x)
    \/ \E n \in 1..MaxEditions, text \in Texts : RefuseUpdate(s, x, n, text)

ProviderCommand(s, x) ==
    \/ RowCommand(s, x) \/ ValidateRow(s, x)
    \/ \E b \in ProviderBindings : BindProvider(s, x, b) \/ UnbindProvider(s, x, b)

----------------------------------------------------------------------------
InstalledRow(x, g) ==
    [NewRow(CHOOSE k \in LogicalKeys : TRUE, 1, CHOOSE t \in Texts : Normal[KindOf(x)][t] = t)
        EXCEPT !.status = "published", !.ranges = IF x \in Agents THEN {g} ELSE {}]

CatInit ==
    /\ \E g \in [Installed -> VersionRanges] :
          row = [x \in CatRows |-> IF x \in Installed THEN InstalledRow(x, g[x]) ELSE Absent]
    /\ tx = [s \in Sessions |-> NoTx]

CatNext ==
    \E s \in Sessions :
      \/ CommitTx(s) \/ RollbackTx(s)
      \/ \E x \in Agents : AgentCommand(s, x)
      \/ \E x \in Models : ModelCommand(s, x)
      \/ \E x \in Providers : ProviderCommand(s, x)

CatSpec == CatInit /\ [][CatNext]_catVars

----------------------------------------------------------------------------
(* Properties. *)

\* verify_agent_version: the host orders versions as SemVer does, a prerelease
\* before its release, and goes on to compare the build metadata.  The release n
\* has neither.
NotAbove(u, n) == u[1] < n \/ (u[1] = n /\ (u[2] # 0 \/ u[3] = 0))
EndsWithBuildOf(g, n) == g[2][1] = n /\ g[2][2] = 0 /\ g[2][3] # 0
Supports(g, n) == NotAbove(g[1], n) /\ (n < g[2][1] \/ EndsWithBuildOf(g, n))

Releases == {u[1] : u \in Points}

(***************************************************************************)
(* An agent that is validated has version ranges, and the host finds a     *)
(* release of the agent in at most one of them, although it orders         *)
(* versions in another way than validate_agent does, and whatever other    *)
(* administrators add, remove and validate at the same time.  A range that *)
(* ends with build metadata of that release is the exception; a prerelease *)
(* may lie in two ranges.                                                  *)
(***************************************************************************)
ReleaseInOneRange ==
    \A x \in Agents : row[x].status = "validated" =>
        /\ row[x].ranges # {}
        /\ \A n \in Releases : \A g, h \in row[x].ranges :
              Supports(g, n) /\ Supports(h, n) =>
                  g = h \/ EndsWithBuildOf(g, n) \/ EndsWithBuildOf(h, n)

Content(r) == <<r.text, r.ranges, r.bindings>>

\* The row r differs from old in values that the validation of x refuses.
RefusedValues(x, old, r) ==
    /\ x \in Models /\ StoredText(x, r.text) = NoRowId
    /\ r = [old EXCEPT !.text = r.text]

(***************************************************************************)
(* The version counter names the content: a row that changes has a higher  *)
(* version afterwards, so that an If-Match written for what an             *)
(* administrator has seen never overwrites a change that came in between.  *)
(* The one exception is a model left with values that update_model         *)
(* refused: it keeps its status, and no validation accepts it.             *)
(***************************************************************************)
VersionNamesContent ==
    [][\A x \in CatRows :
          Present(x) /\ Present(x)' /\ Content(row[x]) # Content(row'[x])
          => row'[x].version > row[x].version \/ RefusedValues(x, row[x], row'[x])]_catVars
=============================================================================
