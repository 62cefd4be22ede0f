---------------------------- MODULE BackendAuth ----------------------------
(***************************************************************************)
(* Accounts and refresh sessions of the backend API (auth/service.py,      *)
(* users/service.py, dependencies.py, db/session.py).                      *)
(*                                                                         *)
(* A request is one PostgreSQL transaction at READ COMMITTED.  Its         *)
(* statements are SELECT ... FOR UPDATE over the user row, a family row, a *)
(* token row, or all unrevoked families of the user; each of them waits    *)
(* for the rows it wants one by one, and what it read is kept in the       *)
(* session.  The writes become visible at the commit, and an endpoint that *)
(* raises rolls all of them back: the failed-login count, the lock of an   *)
(* account and the revocations made just before a raise never reach the    *)
(* database, so a refused request leaves every row as it was.              *)
(***************************************************************************)
EXTENDS Naturals, FiniteSets, Sequences, SequencesExt

CONSTANTS
    Users,         \* accounts
    Admins,        \* the accounts of the administration console among them
    Families,      \* identifiers of refresh-token families
    Requests,      \* concurrent requests
    MaxFamilies,   \* MAX_ACTIVE_FAMILIES
    MaxTokens,     \* bound: tokens issued in one family
    MaxPasswords,  \* bound: passwords an account has had
    NoRow          \* no row, no holder

ASSUME BackendAuthConstants ==
    /\ MaxFamilies \in Nat \ {0}
    /\ MaxTokens \in Nat \ {0}
    /\ MaxPasswords \in Nat \ {0}
    /\ Admins \subseteq Users
    /\ NoRow \notin Users \cup Requests

VARIABLES
    account,   \* users: status, password (its generation), must_change_password
    family,    \* refresh_token_families with their tokens
    recency,   \* unrevoked families by last_used_at, the oldest first
    request,   \* the transaction of each request
    holder     \* row locks

authVars == <<account, family, recency, request, holder>>

Tokens == 1..MaxTokens
Rows == Users \cup Families \cup (Families \X Tokens)

(***************************************************************************)
(* The FOR UPDATE statements of each operation, in order.                  *)
(***************************************************************************)
Statements(op) ==
    CASE op = "refresh"   -> <<"token", "family", "user">>
      [] op = "change"    -> <<"user", "family", "families">>
      [] op = "logout"    -> <<"family">>
      [] op = "logoutAll" -> <<"families">>
      [] op = "enable"    -> <<"user">>
      [] OTHER            -> <<"user", "families">>

AdminOperations == {"reset", "disable", "enable", "delete", "revoke"}

Idle == [op |-> "idle"]
NoFamily == [user |-> NoRow]

Exists(f) == family[f].user # NoRow
Unrevoked(f) == Exists(f) /\ ~family[f].revoked
SessionsOf(u) == {f \in Families : Unrevoked(f) /\ family[f].user = u}
Consumed(f, n) == n \in family[f].consumed

AuthInit ==
    /\ account = [u \in Users |->
                    [status |-> "absent", password |-> 1, must |-> FALSE]]
    /\ family = [f \in Families |-> NoFamily]
    /\ recency = <<>>
    /\ request = [r \in Requests |-> Idle]
    /\ holder = [row \in Rows |-> NoRow]

(***************************************************************************)
(* register and create_admin_user: the unique index on the identity lets   *)
(* one of several concurrent inserts through.                              *)
(***************************************************************************)
IdentityAvailable(u) == account[u].status = "absent"
CreateUser(u) == account' = [account EXCEPT ![u].status = "active"]

RegisterUser(u) ==
    /\ IdentityAvailable(u) /\ CreateUser(u)
    /\ UNCHANGED <<family, recency, request, holder>>

(***************************************************************************)
(* A request arrives.  get_current_user reads the account without a lock,  *)
(* and the session keeps that copy: a later SELECT ... FOR UPDATE returns  *)
(* the same object with the values first read.  Of an administrator it     *)
(* asks that the session of the access token is not revoked.               *)
(***************************************************************************)
Authenticated(f, op) ==
    LET u == family[f].user
    IN /\ account[u].status = "active"
       /\ account[u].must => op \in {"change", "logout"}
       /\ u \in Admins => ~family[f].revoked

Arrive(r, op, u, f, n, p) ==
    /\ request[r] = Idle
    /\ request' = [request EXCEPT ![r] =
                    [op |-> op, user |-> u, fam |-> f, token |-> n, password |-> p,
                     seen |-> IF op = "change" THEN account[u] ELSE NoRow,
                     at |-> 0, wanted |-> {}]]
    /\ UNCHANGED <<account, family, recency, holder>>

LoginArrives(r, u, p) ==
    /\ account[u].status # "absent"
    /\ Arrive(r, "login", u, NoRow, 1, p)

RefreshArrives(r, f, n) ==
    /\ Exists(f) /\ n <= family[f].issued
    /\ Arrive(r, "refresh", family[f].user, f, n, 1)

ChangeArrives(r, f, p) ==
    /\ Exists(f)
    /\ Authenticated(f, "change")
    /\ Arrive(r, "change", family[f].user, f, 1, p)

LogoutArrives(r, f, op) ==
    /\ Exists(f)
    /\ Authenticated(f, op)
    /\ Arrive(r, op, family[f].user, f, 1, 1)

AdminArrives(r, op, u) ==
    /\ account[u].status # "absent"
    /\ Arrive(r, op, u, NoRow, 1, 1)

(***************************************************************************)
(* Locks.  A statement selects its rows when it starts; a row it had to    *)
(* wait for is looked at again, and left out when it no longer qualifies.  *)
(***************************************************************************)
StatementsDone(r) == request[r].at = Len(Statements(request[r].op))
Reached(r, statement) ==
    \E i \in 1..request[r].at : Statements(request[r].op)[i] = statement

Selected(r, statement) ==
    LET q == request[r]
    IN CASE statement = "user"   -> {u \in {q.user} : account[u].status # "deleted"}
         [] statement = "family" -> {f \in {q.fam} : Exists(f)}
         [] statement = "token"  -> {t \in {<<q.fam, q.token>>} : Exists(q.fam)}
         [] OTHER                -> SessionsOf(q.user)

(***************************************************************************)
(* What the operation has checked on the rows it holds so far.  The        *)
(* password of "change" is compared with the copy of get_current_user.     *)
(***************************************************************************)
LoginAccepted(r) ==
    /\ account[request[r].user].status = "active"
    /\ request[r].password = account[request[r].user].password

ReplayDetected(r) ==
    /\ Reached(r, "family")
    /\ Exists(request[r].fam)
    /\ \/ family[request[r].fam].revoked
       \/ Consumed(request[r].fam, request[r].token)

Granted(r) ==
    LET q == request[r]
    IN CASE q.op = "login"   -> Reached(r, "user") => LoginAccepted(r)
         [] q.op = "refresh" ->
                /\ Reached(r, "token") => Exists(q.fam)
                /\ ~ReplayDetected(r)
                /\ Reached(r, "user") => account[q.user].status = "active"
         [] q.op = "change"  ->
                /\ Reached(r, "user") => /\ account[q.user].status # "deleted"
                                         /\ q.password = q.seen.password
                /\ Reached(r, "family") => Exists(q.fam)
         [] q.op = "logout"    -> Reached(r, "family") => Exists(q.fam)
         [] q.op = "logoutAll" -> TRUE
         [] OTHER -> Reached(r, "user") => account[q.user].status # "deleted"

Running(r) == request[r] # Idle /\ request[r].wanted = {}

NextStatement(r) ==
    /\ Running(r) /\ Granted(r) /\ ~StatementsDone(r)
    /\ LET at == request[r].at + 1
       IN request' = [request EXCEPT ![r].at = at,
                        ![r].wanted = Selected(r, Statements(request[r].op)[at])]
    /\ UNCHANGED <<account, family, recency, holder>>

LockRow(r, row) ==
    /\ request[r] # Idle
    /\ row \in request[r].wanted
    /\ holder[row] \in {NoRow, r}
    /\ request' = [request EXCEPT ![r].wanted = @ \ {row}]
    /\ holder' = IF row \in Selected(r, Statements(request[r].op)[request[r].at])
                 THEN [holder EXCEPT ![row] = r] ELSE holder
    /\ UNCHANGED <<account, family, recency>>

EndOf(r) ==
    /\ request' = [request EXCEPT ![r] = Idle]
    /\ holder' = [row \in Rows |-> IF holder[row] = r THEN NoRow ELSE holder[row]]

(***************************************************************************)
(* The endpoint raises and get_db_session rolls back.  refresh_tokens and  *)
(* login write before they raise; none of it is kept.                      *)
(***************************************************************************)
Refuse(r) ==
    /\ Running(r) /\ ~Granted(r)
    /\ EndOf(r)
    /\ UNCHANGED <<account, family, recency>>

(***************************************************************************)
(* Effects.                                                                *)
(***************************************************************************)
Revoked(fs) == [f \in Families |->
    IF f \in fs THEN [family[f] EXCEPT !.revoked = TRUE, !.password = 0] ELSE family[f]]
LockedSessions(r) == {f \in SessionsOf(request[r].user) : holder[f] = r}

\* _enforce_family_limit: the oldest ones, so that one more fits.
OverLimit(fs) ==
    LET byAge == SelectSeq(recency, LAMBDA f : f \in fs)
        excess == IF Len(byAge) >= MaxFamilies THEN Len(byAge) - MaxFamilies + 1 ELSE 0
    IN {byAge[i] : i \in 1..excess}

NewFamily == CHOOSE f \in Families : ~Exists(f)

\* _create_token_family, for a password of the given generation.
AddFamily(families, u, p) ==
    /\ \E f \in Families : ~Exists(f)
    /\ family' = [families EXCEPT ![NewFamily] =
                    [user |-> u, revoked |-> FALSE, password |-> p,
                     issued |-> 1, consumed |-> {}]]

Login(r) ==
    LET u == request[r].user
    IN /\ AddFamily(Revoked(OverLimit(LockedSessions(r))), u, account[u].password)
       /\ UNCHANGED account

Refresh(r) ==
    LET f == request[r].fam
    IN /\ family[f].issued < MaxTokens
       /\ family' = [family EXCEPT ![f].consumed = @ \cup {request[r].token},
                                   ![f].issued = @ + 1]
       /\ UNCHANGED account

\* must_change_password is written only when the copy in the session differs.
ChangePassword(r) ==
    LET u == request[r].user
    IN /\ account[u].password < MaxPasswords
       /\ account' = [account EXCEPT ![u].password = @ + 1,
                                     ![u].must = @ /\ ~request[r].seen.must]
       /\ AddFamily(Revoked(LockedSessions(r)), u, account[u].password + 1)

Logout(r) ==
    /\ family' = Revoked({request[r].fam})
    /\ UNCHANGED account

RevokeSessions(r) ==
    /\ family' = Revoked(LockedSessions(r))
    /\ UNCHANGED account

(***************************************************************************)
(* Deliberately wrong: a reset leaves the sessions alone.                  *)
(***************************************************************************)
ResetPasswordOnly(r) ==
    LET u == request[r].user
    IN /\ account[u].password < MaxPasswords
       /\ account' = [account EXCEPT ![u].password = @ + 1, ![u].must = TRUE]
       /\ UNCHANGED family

ResetPassword(r) ==
    LET u == request[r].user
    IN /\ account[u].password < MaxPasswords
       /\ account' = [account EXCEPT ![u].password = @ + 1, ![u].must = TRUE]
       /\ family' = Revoked(LockedSessions(r))

\* update_admin_user: only a change of status to disabled revokes.
Disable(r) ==
    LET u == request[r].user
    IN /\ account' = [account EXCEPT ![u].status = "disabled"]
       /\ family' = IF account[u].status = "disabled" THEN family
                    ELSE Revoked(LockedSessions(r))

Enable(r) ==
    /\ account' = [account EXCEPT ![request[r].user].status = "active"]
    /\ UNCHANGED family

\* The foreign keys cascade to the families and tokens, which must be free.
DeleteUser(r) ==
    LET u == request[r].user
        gone == {f \in Families : Exists(f) /\ family[f].user = u}
    IN /\ \A row \in gone \cup (gone \X Tokens) : holder[row] \in {NoRow, r}
       /\ account' = [account EXCEPT ![u].status = "deleted"]
       /\ family' = [f \in Families |-> IF f \in gone THEN NoFamily ELSE family[f]]

\* last_used_at: a new or refreshed family becomes the latest.
Touch ==
    LET live == {f \in Families : family'[f].user # NoRow /\ ~family'[f].revoked}
        touched == {f \in live : family'[f] # family[f]}
    IN recency' = SelectSeq(recency, LAMBDA f : f \in live \ touched) \o SetToSeq(touched)

Effect(r) ==
    CASE request[r].op = "login"   -> Login(r)
      [] request[r].op = "refresh" -> Refresh(r)
      [] request[r].op = "change"  -> ChangePassword(r)
      [] request[r].op = "logout"  -> Logout(r)
      [] request[r].op = "reset"   -> ResetPassword(r)
      [] request[r].op = "disable" -> Disable(r)
      [] request[r].op = "enable"  -> Enable(r)
      [] request[r].op = "delete"  -> DeleteUser(r)
      [] OTHER                     -> RevokeSessions(r)

CommitRequest(r) ==
    /\ Running(r) /\ Granted(r) /\ StatementsDone(r)
    /\ Effect(r)
    /\ Touch
    /\ EndOf(r)

(***************************************************************************)
(* A crash of the server, or PostgreSQL breaking a cycle of waiting        *)
(* transactions, rolls the transaction back.                               *)
(***************************************************************************)
AbortRequest(r) ==
    /\ request[r] # Idle
    /\ EndOf(r)
    /\ UNCHANGED <<account, family, recency>>

AuthNext ==
    \/ \E u \in Users : RegisterUser(u)
    \/ \E r \in Requests :
         \/ \E u \in Users, p \in 1..MaxPasswords : LoginArrives(r, u, p)
         \/ \E f \in Families, n \in Tokens : RefreshArrives(r, f, n)
         \/ \E f \in Families, p \in 1..MaxPasswords : ChangeArrives(r, f, p)
         \/ \E f \in Families, op \in {"logout", "logoutAll"} : LogoutArrives(r, f, op)
         \/ \E u \in Users, op \in AdminOperations : AdminArrives(r, op, u)
         \/ NextStatement(r)
         \/ \E row \in Rows : LockRow(r, row)
         \/ Refuse(r)
         \/ CommitRequest(r)
         \/ AbortRequest(r)

AuthSpec == AuthInit /\ [][AuthNext]_authVars

(***************************************************************************)
(* Properties.                                                             *)
(***************************************************************************)

(***************************************************************************)
(* Every live session was opened with the account's present password: a    *)
(* change or a reset leaves none behind, whatever login, refresh or        *)
(* change-password request it overtakes, also one that still holds the     *)
(* account as it was before.                                               *)
(***************************************************************************)
SessionsFollowPassword ==
    \A u \in Users : \A f \in SessionsOf(u) : family[f].password = account[u].password
=============================================================================
