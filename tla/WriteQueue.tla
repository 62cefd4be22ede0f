----------------------------- MODULE WriteQueue -----------------------------
(***************************************************************************)
(* The single writer of the Sidecar: WriteQueue with its worker task, the  *)
(* transaction on the one write connection, the UnitOfWork with its        *)
(* idempotency rows, callers that give up or retry, the shutdown of        *)
(* Lifecycle.stop, and a crash of the process.                             *)
(*                                                                         *)
(* A submission is an envelope.  The effect of a command is the envelope   *)
(* itself: applied is the set of envelopes whose writes are committed.     *)
(***************************************************************************)
EXTENDS Naturals, Sequences

CONSTANTS
    Envelopes,   \* the submissions
    Barriers,    \* the envelopes that are barrier() no-ops
    Keys,        \* idempotency keys
    KeyOf,       \* the key of an envelope, or NoKey
    NoKey,       \* a write of a worker: no key
    HashOf,      \* request_sha256 of an envelope
    NoRow,       \* no row in the idempotency table
    NoEnvelope,  \* no envelope at hand
    Capacity,    \* asyncio.Queue(maxsize)
    MaxFaults,   \* bound on failing BEGIN, COMMIT and ROLLBACK
    MaxRestarts  \* bound on crashes and restarts

ASSUME EnvelopeAssumption ==
    /\ Barriers \subseteq Envelopes
    /\ KeyOf \in [Envelopes -> Keys \cup {NoKey}]
    /\ NoKey \notin Keys
    /\ NoRow \notin Envelopes
    /\ NoEnvelope \notin Envelopes
    /\ \A b \in Barriers : KeyOf[b] = NoKey

ASSUME LimitAssumption ==
    /\ Capacity \in Nat \ {0}
    /\ MaxFaults \in Nat
    /\ MaxRestarts \in Nat

VARIABLES
    queue,     \* the asyncio.Queue
    running,   \* WriteQueue._running
    future,    \* the Future of an envelope
    answer,    \* the envelope whose response the Future holds
    expired,   \* the envelopes whose deadline has passed
    worker,    \* the task _run: program counter and the envelope at hand
    tx,        \* the open transaction of the connection
    applied,   \* committed writes
    idem,      \* committed rows of the idempotency table: who completed a key
    stop,      \* the phase of Lifecycle.stop
    accepted,  \* the envelopes in the order they were put (history)
    faults,    \* database faults so far
    restarts   \* restarts so far

vars == <<queue, running, future, answer, expired, worker, tx, applied, idem, stop, accepted,
          faults, restarts>>
store == <<applied, idem>>
counts == <<faults, restarts>>

Told == {"ok", "failed", "expired", "stopped", "backpressure"}
Futures == {"new", "pending", "cancelled", "abandoned"} \cup Told
Closed == [open |-> FALSE, writes |-> {}, row |-> NoRow]
Resting == [pc |-> "get", env |-> NoEnvelope]

TypeOK ==
    /\ queue \in Seq(Envelopes) /\ Len(queue) <= Capacity
    /\ running \in BOOLEAN
    /\ future \in [Envelopes -> Futures]
    /\ answer \in [Envelopes -> Envelopes \cup {NoEnvelope}]
    /\ expired \subseteq Envelopes
    /\ worker \in [pc : {"get", "begin", "execute", "commit", "rollback", "gone"},
                   env : Envelopes \cup {NoEnvelope}]
    /\ worker.pc \in {"get", "gone"} <=> worker.env = NoEnvelope
    /\ tx \in [open : BOOLEAN, writes : SUBSET Envelopes, row : Envelopes \cup {NoRow}]
    /\ applied \subseteq Envelopes
    /\ idem \in [Keys -> Envelopes \cup {NoRow}]
    /\ stop \in {"no", "joining", "drained", "closed"}
    /\ accepted \in Seq(Envelopes)
    /\ faults \in Nat /\ restarts \in Nat

Init ==
    /\ queue = << >> /\ running = TRUE
    /\ future = [e \in Envelopes |-> "new"]
    /\ answer = [e \in Envelopes |-> NoEnvelope]
    /\ expired = {}
    /\ worker = Resting
    /\ tx = Closed
    /\ applied = {}
    /\ idem = [k \in Keys |-> NoRow]
    /\ stop = "no"
    /\ accepted = << >>
    /\ faults = 0 /\ restarts = 0

-----------------------------------------------------------------------------
(* Callers. *)

Full == Len(queue) >= Capacity
Settle(e, word) == future' = [future EXCEPT ![e] = word]

PutFirst(e) ==
    /\ queue' = <<e>> \o queue
    /\ accepted' = Append(accepted, e)
    /\ Settle(e, "pending")

Put(e) ==
    /\ queue' = Append(queue, e)
    /\ accepted' = Append(accepted, e)
    /\ Settle(e, "pending")

Refuse(e, word) ==
    /\ Settle(e, word)
    /\ UNCHANGED <<queue, accepted>>

\* submit: refused when stopped or full, before anything is queued.
Submit(e) ==
    /\ future[e] = "new" /\ e \notin Barriers /\ stop # "closed"
    /\ IF ~running THEN Refuse(e, "stopped")
       ELSE IF Full THEN Refuse(e, "backpressure")
       ELSE Put(e)
    /\ UNCHANGED <<running, answer, expired, worker, tx, store, stop, counts>>

\* barrier: put_nowait of a no-op, without a look at _running.
Barrier(b) ==
    /\ future[b] = "new" /\ stop # "closed"
    /\ IF Full THEN Refuse(b, "backpressure") ELSE Put(b)
    /\ UNCHANGED <<running, answer, expired, worker, tx, store, stop, counts>>

\* The caller's task is cancelled, or the barrier's wait_for times out.
GiveUp(e) ==
    /\ future[e] = "pending"
    /\ Settle(e, "cancelled")
    /\ UNCHANGED <<queue, running, answer, expired, worker, tx, store, stop, accepted, counts>>

\* deadline_at passes; a barrier's deadline is in the year 9999.
Expire(e) ==
    /\ future[e] = "pending" /\ e \notin Barriers /\ e \notin expired
    /\ worker.env # e  \* the deadline is only looked at by Get
    /\ expired' = expired \cup {e}
    /\ UNCHANGED <<queue, running, future, answer, worker, tx, store, stop, accepted, counts>>

-----------------------------------------------------------------------------
(* The worker task. *)

\* A Future that is already done is not touched.
LeavePending(e, word) == UNCHANGED future
SettlePending(e, word) == IF future[e] = "pending" THEN Settle(e, word) ELSE UNCHANGED future

Skipped(e) == future[e] = "cancelled" \/ e \in expired

Get ==
    LET e == Head(queue) IN
    /\ worker.pc = "get" /\ queue # << >>
    /\ queue' = Tail(queue)
    /\ IF Skipped(e)
       THEN SettlePending(e, "expired") /\ UNCHANGED worker
       ELSE worker' = [pc |-> "begin", env |-> e] /\ UNCHANGED future
    /\ expired' = expired \ {e}
    /\ UNCHANGED <<running, answer, tx, store, stop, accepted, counts>>

Goto(pc) == worker' = [worker EXCEPT !.pc = pc]

\* BEGIN IMMEDIATE fails while a transaction is still open on the connection.
JoinsOpenTransaction == TRUE
BeginAccepted == ~tx.open

Begin ==
    /\ worker.pc = "begin" /\ BeginAccepted
    /\ tx' = [tx EXCEPT !.open = TRUE]
    /\ Goto("execute")
    /\ UNCHANGED <<queue, running, future, answer, expired, store, stop, accepted, counts>>

BeginFails ==
    /\ worker.pc = "begin"
    /\ \/ ~BeginAccepted /\ UNCHANGED faults
       \/ faults < MaxFaults /\ faults' = faults + 1
    /\ Goto("rollback")
    /\ UNCHANGED <<queue, running, future, answer, expired, tx, store, stop, accepted, restarts>>

\* UnitOfWork.execute: lookup, claim, the command, complete.
Keyed(e) == KeyOf[e] # NoKey
AlwaysNew(e) == NoRow
Lookup(e) == IF Keyed(e) THEN idem[KeyOf[e]] ELSE NoRow
Conflict(e) == Lookup(e) # NoRow /\ HashOf[Lookup(e)] # HashOf[e]

\* The writes of the command and the completed idempotency row.
RowLater(e) == NoRow
Row(e) == IF Keyed(e) THEN e ELSE NoRow

Execute ==
    LET e == worker.env IN
    /\ worker.pc = "execute" /\ ~Conflict(e)
    /\ IF Lookup(e) # NoRow
       THEN /\ answer' = [answer EXCEPT ![e] = Lookup(e)]
            /\ UNCHANGED tx
       ELSE /\ answer' = [answer EXCEPT ![e] = e]
            /\ tx' = [tx EXCEPT !.writes = @ \cup ({e} \ Barriers), !.row = Row(e)]
    /\ Goto("commit")
    /\ UNCHANGED <<queue, running, future, expired, store, stop, accepted, counts>>

\* A conflicting hash, or an exception of the command after some of its writes.
ExecuteRaises ==
    LET e == worker.env IN
    /\ worker.pc = "execute"
    /\ IF Lookup(e) # NoRow
       THEN Conflict(e) /\ UNCHANGED tx
       ELSE e \notin Barriers /\ tx' = [tx EXCEPT !.writes = @ \cup {e}]
    /\ Goto("rollback")
    /\ UNCHANGED <<queue, running, future, answer, expired, store, stop, accepted, counts>>

CommitTx ==
    /\ applied' = applied \cup tx.writes
    /\ idem' = IF tx.row = NoRow THEN idem ELSE [idem EXCEPT ![KeyOf[tx.row]] = tx.row]
    /\ tx' = Closed

Commit ==
    /\ worker.pc = "commit"
    /\ CommitTx
    /\ SettlePending(worker.env, "ok")
    /\ worker' = Resting
    /\ UNCHANGED <<queue, running, answer, expired, stop, accepted, counts>>

CommitFails ==
    /\ worker.pc = "commit"
    /\ faults < MaxFaults /\ faults' = faults + 1
    /\ Goto("rollback")
    /\ UNCHANGED <<queue, running, future, answer, expired, tx, store, stop, accepted, restarts>>

\* The exception of a failing ROLLBACK is swallowed: the transaction stays open.
Rollback(succeeds) ==
    /\ worker.pc = "rollback"
    /\ IF succeeds
       THEN tx' = Closed /\ UNCHANGED faults
       ELSE faults < MaxFaults /\ faults' = faults + 1 /\ UNCHANGED tx
    /\ SettlePending(worker.env, "failed")
    /\ worker' = Resting
    /\ UNCHANGED <<queue, running, answer, expired, store, stop, accepted, restarts>>

\* The get times out after stop: the worker leaves its loop.
Leave ==
    /\ worker.pc = "get" /\ queue = << >> /\ ~running
    /\ worker' = [Resting EXCEPT !.pc = "gone"]
    /\ UNCHANGED <<queue, running, future, answer, expired, tx, store, stop, accepted, counts>>

-----------------------------------------------------------------------------
(* Lifecycle.stop and the process. *)

StopBegins ==
    /\ stop = "no"
    /\ running' = FALSE
    /\ stop' = "joining"
    /\ UNCHANGED <<queue, future, answer, expired, worker, tx, store, accepted, counts>>

(***************************************************************************)
(* join returns or its 10 seconds pass; then the worker is cancelled where *)
(* it is.  CancelledError is not an Exception: nothing is rolled back and  *)
(* no Future is settled; a COMMIT or ROLLBACK already handed to the        *)
(* connection's thread still happens.                                      *)
(***************************************************************************)
StopCancels(late) ==
    /\ stop = "joining"
    /\ stop' = "drained"
    /\ worker' = [Resting EXCEPT !.pc = "gone"]
    /\ CASE late /\ worker.pc = "commit" -> CommitTx
         [] late /\ worker.pc = "rollback" -> tx' = Closed /\ UNCHANGED store
         [] OTHER -> UNCHANGED <<tx, store>>
    /\ UNCHANGED <<queue, running, future, answer, expired, accepted, counts>>

\* The writer is closed: SQLite rolls an open transaction back.
CloseWriter ==
    /\ stop = "drained"
    /\ stop' = "closed"
    /\ tx' = Closed
    /\ UNCHANGED <<queue, running, future, answer, expired, worker, store, accepted, counts>>

\* The process ends, by a crash or after stop, and is started again.
Restart ==
    /\ restarts < MaxRestarts /\ restarts' = restarts + 1
    /\ queue' = << >> /\ accepted' = << >>
    /\ running' = TRUE
    /\ future' = [e \in Envelopes |-> IF future[e] = "pending" THEN "abandoned" ELSE future[e]]
    /\ worker' = Resting
    /\ tx' = Closed
    /\ stop' = "no"
    /\ UNCHANGED <<answer, expired, store, faults>>

-----------------------------------------------------------------------------
Worker ==
    \/ Get \/ Begin \/ BeginFails \/ Execute \/ ExecuteRaises \/ Commit \/ CommitFails
    \/ \E succeeds \in BOOLEAN : Rollback(succeeds)
    \/ Leave

Next ==
    \/ \E e \in Envelopes : Submit(e) \/ GiveUp(e) \/ Expire(e)
    \/ \E b \in Barriers : Barrier(b)
    \/ Worker
    \/ StopBegins
    \/ \E late \in BOOLEAN : StopCancels(late)
    \/ CloseWriter
    \/ Restart

Spec == Init /\ [][Next]_vars

\* The event loop keeps running the worker task and Lifecycle.stop.
FairSpec ==
    /\ Spec
    /\ WF_vars(Worker)
    /\ WF_vars(\E late \in BOOLEAN : StopCancels(late))
    /\ WF_vars(CloseWriter)

-----------------------------------------------------------------------------
(***************************************************************************)
(* All or nothing: an envelope with a key is committed exactly when the    *)
(* row of its key is, and names it: no crash, fault or cancellation leaves *)
(* the effect without the row that stops a retry, or the row without the   *)
(* effect, and a key takes effect at most once.                            *)
(* (Test case FLT-001: facts and idempotency record, all or nothing.)      *)
(***************************************************************************)
AllOrNothing ==
    \A e \in Envelopes : Keyed(e) => (e \in applied <=> idem[KeyOf[e]] = e)

(***************************************************************************)
(* The answer is true: ok means that the effect (of the key) is committed  *)
(* and has the request's hash; every error means that this submission      *)
(* wrote nothing, even if the connection is left in an open transaction    *)
(* that a later envelope finds.                                            *)
(***************************************************************************)
AnswerIsTrue ==
    \A e \in Envelopes :
        /\ future[e] = "ok" /\ e \notin Barriers =>
               answer[e] \in applied /\ HashOf[answer[e]] = HashOf[e]
        /\ future[e] \in Told \ {"ok"} => e \notin applied

(***************************************************************************)
(* A barrier that returns has waited for every write put before it: each   *)
(* of them is settled or was given up, none is queued or in flight, and    *)
(* nothing is uncommitted.  (Backup: "wait for pending writes".)           *)
(***************************************************************************)
Before(e, b) == \E i, j \in 1..Len(accepted) : i < j /\ accepted[i] = e /\ accepted[j] = b

BarrierMeansDrained ==
    \A b \in Barriers : future[b] = "ok" =>
        \A e \in Envelopes : Before(e, b) =>
            future[e] # "pending" /\ worker.env # e /\ e \notin tx.writes

(***************************************************************************)
(* While the queue is not being stopped, a queued envelope is settled:     *)
(* faults of the database, a transaction left open, expired and abandoned  *)
(* neighbours do not hold it up.                                           *)
(***************************************************************************)
QueueMoves ==
    \A e \in Envelopes :
        future[e] = "pending" ~> (future[e] # "pending" \/ stop # "no")

\* What the caller of a request knows, in the terms of ExactlyOnce.
Heard ==
    [e \in Envelopes \ Barriers |->
        IF future[e] = "ok" THEN "ok" ELSE IF future[e] \in Told THEN "refused" ELSE "unknown"]

\* The detailed write path implements the promise of ExactlyOnce.
Promise == INSTANCE ExactlyOnce WITH
    Requests <- Envelopes \ Barriers, done <- applied, told <- Heard

(***************************************************************************)
(* Every behaviour of the queue, its transactions and the idempotency rows *)
(* is one of ExactlyOnce, across database faults, cancellations, shutdown  *)
(* and crashes.                                                            *)
(***************************************************************************)
KeepsPromise == Promise!Spec
=============================================================================
