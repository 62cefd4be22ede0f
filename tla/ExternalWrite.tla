--------------------------- MODULE ExternalWrite ---------------------------
(***************************************************************************)
(* Approved writes outside the workspace (apps/desktop-core: security/     *)
(* external_write.rs, security/grant_store.rs).  The Sidecar asks with     *)
(* host.externalWrite.execute; every request is a task of its own in the   *)
(* host, so requests, and retries of one request, overlap.  A request is   *)
(* told apart by its hash: the approval and the workspace grant it names.  *)
(*                                                                         *)
(* A file is "missing", "directory" or a content.  Contents, paths and     *)
(* hashes are abstract; checks of paths and symbolic links are left to the *)
(* operating system and not modelled.                                      *)
(***************************************************************************)
EXTENDS Naturals

CONSTANTS
    Approvals,     \* the human approvals the Sidecar presents
    Calls,         \* tasks of the host at work on a request
    Targets,
    TargetOf,      \* the target of an approval
    Contents,
    OldContent,    \* what the user has approved to replace or delete
    NewContent,    \* what is staged
    MaxGrants,     \* bound: workspaces the user selects
    MaxEdits,      \* bound: changes by other programs
    NoCall

FileStates == {"missing", "directory"} \cup Contents
Grants == 1..MaxGrants
Operations == {"create_file", "replace_file", "delete_file", "create_directory"}

ASSUME ExternalAssumption ==
    TargetOf \in [Approvals -> Targets] /\ {OldContent, NewContent} \subseteq Contents

VARIABLES
    operation,  \* what is approved: never changes
    file,       \* the targets
    grants,     \* GrantStore.grants: "none", "workspace", or "unusable" for good
    bound,      \* a profile is open (profile_root is bound)
    staged,     \* approvals whose external-write-staging directory exists
    expired,    \* approvals past expires_at
    receipts,   \* ReceiptStore.by_request_hash
    persisted,  \* external-write-receipts.v1.json
    call,       \* the tasks
    carried,    \* history: approvals carried out
    answered,   \* history: hashes answered, by an execution or from a receipt
    kept,       \* history: approvals whose source could not be removed
    revoked,    \* history: hashes whose receipt a failing persist_receipts took back
    edits

failures == <<kept, revoked>>
ewVars == <<operation, file, grants, bound, staged, expired, receipts, persisted, call,
            carried, answered, failures, edits>>

Hash(a, g) == <<a, g>>
IdleCall == [pc |-> "idle", approval |-> NoCall, grant |-> 0, snapshot |-> {}, late |-> FALSE]
HasReceipt(h) == \E r \in receipts : r.hash = h

Sourced == {a \in Approvals : operation[a] \in {"create_file", "replace_file"}}
Replaces(op) == op \in {"replace_file", "delete_file"}

\* The state an approval binds; a creation may leave it open.
Expected(a) ==
    IF operation[a] = "create_file" THEN FileStates
    ELSE IF Replaces(operation[a]) THEN {OldContent} ELSE {"missing"}

ExternalInit ==
    /\ operation \in [Approvals -> Operations]
    /\ file \in [Targets -> {"missing", OldContent}]
    /\ \A a \in Approvals : file[TargetOf[a]] = OldContent <=> Replaces(operation[a])
    /\ grants = [g \in Grants |-> "none"]
    /\ bound = TRUE
    /\ staged = Sourced
    /\ expired = {}
    /\ receipts = {} /\ persisted = {}
    /\ call = [c \in Calls |-> IdleCall]
    /\ carried = {} /\ answered = {} /\ kept = {} /\ revoked = {} /\ edits = 0
-----------------------------------------------------------------------------
(* Grants live in memory only. *)

\* workspace_select and readonly_file_select hand out the next grant id; a grant
\* for reading is none for writing.  (Bound: one usable workspace at a time.)
CreateGrant(kind) ==
    /\ \E g \in Grants :
        /\ grants[g] = "none" /\ \A f \in 1..(g - 1) : grants[f] = "unusable"
        /\ grants' = [grants EXCEPT ![g] = IF kind = "workspace" THEN kind ELSE "unusable"]
    /\ UNCHANGED <<operation, file, bound, staged, expired, receipts, persisted, call,
                   carried, answered, edits, failures>>

\* The selected directory is replaced by another one: dev or inode differ.
ReplaceRoot(g) ==
    /\ grants[g] = "workspace"
    /\ grants' = [grants EXCEPT ![g] = "unusable"]
    /\ UNCHANGED <<operation, file, bound, staged, expired, receipts, persisted, call,
                   carried, answered, edits, failures>>

ResolveWorkspaceGrant(g) == grants[g] = "workspace"

Cleared == [g \in Grants |-> IF grants[g] = "none" THEN "none" ELSE "unusable"]
-----------------------------------------------------------------------------
(* handle_external_write_execute, one step per effect. *)

SourceLoaded(a) == a \in Sourced => bound /\ a \in staged

\* The checks of the operation itself, made before the temporary file is written.
OperationAllowed(a) ==
    LET now == file[TargetOf[a]]
    IN CASE operation[a] = "create_file" -> now = "missing"
         [] operation[a] \in {"replace_file", "delete_file"} -> now \in Contents
         [] operation[a] = "create_directory" -> TRUE

\* The receipt of an earlier execution is returned when the target still is as
\* the receipt says; nothing is written.
Replay(a, g) ==
    /\ ResolveWorkspaceGrant(g)
    /\ \E r \in receipts : r.hash = Hash(a, g) /\ r.state = file[TargetOf[a]]
    /\ answered' = answered \cup {[hash |-> Hash(a, g), by |-> "receipt"]}
    /\ UNCHANGED <<operation, file, grants, bound, staged, expired, receipts, persisted,
                   call, carried, edits, failures>>

\* Everything up to the write: grant, receipt, expiry, source, old state.
Accept(a, g) ==
    /\ ResolveWorkspaceGrant(g)
    /\ ~HasReceipt(Hash(a, g))
    /\ a \notin expired
    /\ SourceLoaded(a)
    /\ file[TargetOf[a]] \in Expected(a)
    /\ OperationAllowed(a)

Execute(c, a, g) ==
    /\ call[c] = IdleCall
    /\ Accept(a, g)
    /\ call' = [call EXCEPT ![c] = [IdleCall EXCEPT !.pc = "write", !.approval = a, !.grant = g,
                                                !.late = [hash |-> Hash(a, g), by |-> "execution"]
                                                            \in answered]]
    /\ UNCHANGED <<operation, file, grants, bound, staged, expired, receipts, persisted,
                   carried, answered, edits, failures>>

\* What the operating system does with the target as it is now.
Result(a) ==
    IF a \in Sourced THEN NewContent
    ELSE IF operation[a] = "delete_file" THEN "missing" ELSE "directory"

CanWrite(a) ==
    LET now == file[TargetOf[a]]
    IN CASE a \in Sourced -> now # "directory"
         [] operation[a] = "delete_file" -> now \in Contents
         [] OTHER -> now \notin Contents

\* atomic_write, atomic_create, atomic_delete, create_dir_all.
WriteTarget(c) ==
    LET a == call[c].approval
    IN /\ call[c].pc = "write" /\ CanWrite(a)
       /\ file' = [file EXCEPT ![TargetOf[a]] = Result(a)]
       /\ carried' = carried \cup {a}
       /\ call' = [call EXCEPT ![c].pc = "record"]
       /\ UNCHANGED <<operation, grants, bound, staged, expired, receipts, persisted,
                      answered, edits, failures>>

WriteFailsAndCleans(c, changed) ==  \* mutant: the staging directory is removed on every way out
    /\ call[c].pc = "write" /\ ~changed
    /\ call' = [call EXCEPT ![c] = IdleCall]
    /\ staged' = staged \ {call[c].approval}
    /\ UNCHANGED <<operation, file, grants, bound, expired, receipts, persisted, carried,
                   answered, edits, failures>>

\* A failing file operation ends the request with an error; the source stays.  When
\* it is the directory that cannot be synced, the target has changed already.
WriteFails(c, changed) ==
    LET a == call[c].approval
    IN /\ call[c].pc = "write"
       /\ changed => CanWrite(a) /\ operation[a] # "create_directory"
       /\ file' = IF changed THEN [file EXCEPT ![TargetOf[a]] = Result(a)] ELSE file
       /\ carried' = IF changed THEN carried \cup {a} ELSE carried
       /\ call' = [call EXCEPT ![c] = IdleCall]
       /\ UNCHANGED <<operation, grants, bound, staged, expired, receipts, persisted,
                      answered, edits, failures>>

\* ReceiptStore.insert, under the lock: the map and a copy of it for the disk.
InsertReceipt(c) ==
    LET h == Hash(call[c].approval, call[c].grant)
        receipt == [hash |-> h, state |-> file[TargetOf[call[c].approval]]]
    IN /\ call[c].pc = "record"
       /\ receipts' = {r \in receipts : r.hash # h} \cup {receipt}
       /\ call' = [call EXCEPT ![c].pc = "persist", ![c].snapshot = receipts']
       /\ UNCHANGED <<operation, file, grants, bound, staged, expired, persisted,
                      carried, answered, edits, failures>>

\* ReceiptStore.insert, after the lock: the copy replaces the file.
PersistReceipts(c) ==
    /\ call[c].pc = "persist"
    /\ persisted' = IF bound THEN call[c].snapshot ELSE persisted
    /\ call' = [call EXCEPT ![c].pc = "answer", ![c].snapshot = {}]
    /\ UNCHANGED <<operation, file, grants, bound, staged, expired, receipts, carried,
                   answered, edits, failures>>

PersistFails(c) ==
    LET h == Hash(call[c].approval, call[c].grant)
    IN /\ call[c].pc = "persist" /\ bound
       /\ receipts' = {r \in receipts : r.hash # h}
       /\ revoked' = revoked \cup {h}
       /\ call' = [call EXCEPT ![c] = IdleCall]
       /\ UNCHANGED <<operation, file, grants, bound, staged, expired, persisted, carried,
                      answered, kept, edits>>

AnswerKeepingSource(c, removed) ==  \* mutant: the staging directory is left behind
    /\ call[c].pc = "answer" /\ removed
    /\ answered' = answered \cup
           {[hash |-> Hash(call[c].approval, call[c].grant), by |-> "execution"]}
    /\ call' = [call EXCEPT ![c] = IdleCall]
    /\ UNCHANGED <<operation, file, grants, bound, staged, expired, receipts, persisted,
                   carried, edits, failures>>

\* The staging directory is removed, unless that fails, and the receipt sent.
Answer(c, removed) ==
    LET a == call[c].approval
    IN /\ call[c].pc = "answer"
       /\ staged' = IF bound /\ removed THEN staged \ {a} ELSE staged
       /\ kept' = IF bound /\ ~removed THEN kept \cup {a} ELSE kept
       /\ answered' = answered \cup {[hash |-> Hash(a, call[c].grant), by |-> "execution"]}
       /\ call' = [call EXCEPT ![c] = IdleCall]
       /\ UNCHANGED <<operation, file, grants, bound, expired, receipts, persisted, carried,
                      revoked, edits>>
-----------------------------------------------------------------------------
(* The profile, the clock and other programs. *)

\* auth_close_profile: tasks that are at work go on.
CloseStores ==
    /\ bound
    /\ bound' = FALSE /\ grants' = Cleared /\ receipts' = {}
    /\ UNCHANGED <<operation, file, staged, expired, persisted, call, carried, answered,
                   edits, failures>>

\* The host process dies.
HostDies ==
    /\ call # [c \in Calls |-> IdleCall]
    /\ bound' = FALSE /\ grants' = Cleared /\ receipts' = {}
    /\ call' = [c \in Calls |-> IdleCall]
    /\ UNCHANGED <<operation, file, staged, expired, persisted, carried, answered,
                   edits, failures>>

\* bind_profile_root of both stores.
OpenStores ==
    /\ ~bound
    /\ bound' = TRUE /\ receipts' = persisted
    /\ UNCHANGED <<operation, file, grants, staged, expired, persisted, call, carried,
                   answered, edits, failures>>

IsExpired(a) ==
    /\ a \notin expired
    /\ expired' = expired \cup {a}
    /\ UNCHANGED <<operation, file, grants, bound, staged, receipts, persisted, call,
                   carried, answered, edits, failures>>

Edit(t, s) ==
    /\ edits < MaxEdits /\ s # file[t]
    /\ file' = [file EXCEPT ![t] = s]
    /\ edits' = edits + 1
    /\ UNCHANGED <<operation, grants, bound, staged, expired, receipts, persisted, call,
                   carried, answered, failures>>

ExternalNext ==
    \/ \E kind \in {"workspace", "readonly_file"} : CreateGrant(kind)
    \/ \E g \in Grants : ReplaceRoot(g)
    \/ \E a \in Approvals, g \in Grants : Replay(a, g)
    \/ \E c \in Calls, a \in Approvals, g \in Grants : Execute(c, a, g)
    \/ \E c \in Calls : WriteTarget(c) \/ InsertReceipt(c) \/ PersistReceipts(c) \/ PersistFails(c)
    \/ \E c \in Calls, changed \in BOOLEAN : WriteFails(c, changed)
    \/ \E c \in Calls, removed \in BOOLEAN : Answer(c, removed)
    \/ CloseStores \/ HostDies \/ OpenStores
    \/ \E a \in Approvals : IsExpired(a)
    \/ \E t \in Targets, s \in FileStates : Edit(t, s)

ExternalSpec == ExternalInit /\ [][ExternalNext]_ewVars
-----------------------------------------------------------------------------
(***************************************************************************)
(* An answer is final unless two failures meet: a request with a source    *)
(* whose execution has been answered is carried out by a later call only   *)
(* when the removal of the source failed and a failing persist_receipts of *)
(* an overlapping retry has taken the receipt back too.  Neither failure   *)
(* alone, nor a closed profile, nor what other programs do to the target,  *)
(* is enough.                                                              *)
(***************************************************************************)
AnsweredIsFinal ==
    \A c \in Calls : call[c].late /\ call[c].approval \in Sourced =>
        /\ call[c].approval \in kept
        /\ Hash(call[c].approval, call[c].grant) \in revoked

(***************************************************************************)
(* A failure leaves the approval usable and a receipt is never a lie: an   *)
(* approval that has not been carried out still has its staged source, and *)
(* no receipt, in memory, on disk or in an answer, names it, through       *)
(* failing writes, lost receipts, crashes and closed profiles.             *)
(***************************************************************************)
ReceiptMeansApplied ==
    \A a \in Approvals \ carried :
        /\ a \in Sourced => a \in staged
        /\ \A r \in receipts \cup persisted : r.hash[1] # a
        /\ \A w \in answered : w.hash[1] # a
=============================================================================
