-------------------------- MODULE WriteQueueProofs --------------------------
(* Theorems about WriteQueue, for every set of envelopes and every bound. *)
EXTENDS WriteQueue, TLAPS

-----------------------------------------------------------------------------
(* Type correctness. *)

LEMMA TypeInit == Init => TypeOK
<1> SUFFICES ASSUME Init PROVE TypeOK
  OBVIOUS
<1>1. queue = << >> /\ accepted = << >> /\ Len(queue) <= Capacity
  BY LimitAssumption DEF Init
<1>2. worker \in [pc : {"get", "begin", "execute", "commit", "rollback", "gone"},
                  env : Envelopes \cup {NoEnvelope}]
      /\ (worker.pc \in {"get", "gone"} <=> worker.env = NoEnvelope)
  BY DEF Init, Resting
<1>3. tx \in [open : BOOLEAN, writes : SUBSET Envelopes, row : Envelopes \cup {NoRow}]
  BY DEF Init, Closed
<1>4. /\ future \in [Envelopes -> Futures]
      /\ answer \in [Envelopes -> Envelopes \cup {NoEnvelope}]
      /\ idem \in [Keys -> Envelopes \cup {NoRow}]
  BY DEF Init, Futures
<1> QED
  BY <1>1, <1>2, <1>3, <1>4 DEF Init, TypeOK

\* Settling a Future keeps its type.
LEMMA SettleType ==
    ASSUME TypeOK, NEW e \in Envelopes, NEW word \in Futures, Settle(e, word) \/ SettlePending(e, word)
    PROVE  future' \in [Envelopes -> Futures]
  BY DEF Settle, SettlePending, TypeOK

LEMMA GotoType ==
    ASSUME TypeOK, NEW pc \in {"execute", "commit", "rollback"}, worker.pc \notin {"get", "gone"}, Goto(pc)
    PROVE  /\ worker' \in [pc : {"get", "begin", "execute", "commit", "rollback", "gone"},
                           env : Envelopes \cup {NoEnvelope}]
           /\ worker'.pc = pc /\ worker'.env = worker.env /\ worker'.env \in Envelopes
           /\ (worker'.pc \in {"get", "gone"} <=> worker'.env = NoEnvelope)
  BY EnvelopeAssumption DEF Goto, TypeOK

LEMMA RestingType ==
    ASSUME worker' = Resting \/ worker' = [Resting EXCEPT !.pc = "gone"]
    PROVE  /\ worker' \in [pc : {"get", "begin", "execute", "commit", "rollback", "gone"},
                           env : Envelopes \cup {NoEnvelope}]
           /\ worker'.pc \in {"get", "gone"} /\ worker'.env = NoEnvelope
  BY DEF Resting

LEMMA ClosedType == Closed \in [open : BOOLEAN, writes : SUBSET Envelopes, row : Envelopes \cup {NoRow}]
  BY DEF Closed

\* COMMIT adds what the transaction wrote, and closes it.
LEMMA CommitTxType ==
    ASSUME TypeOK, CommitTx
    PROVE  /\ applied' \subseteq Envelopes
           /\ idem' \in [Keys -> Envelopes \cup {NoRow}]
           /\ tx' \in [open : BOOLEAN, writes : SUBSET Envelopes, row : Envelopes \cup {NoRow}]
<1>1. tx.writes \in SUBSET Envelopes /\ tx.row \in Envelopes \cup {NoRow}
  BY DEF TypeOK
<1>2. idem' \in [Keys -> Envelopes \cup {NoRow}]
  BY <1>1 DEF CommitTx, TypeOK
<1> QED
  BY <1>1, <1>2, ClosedType DEF CommitTx, TypeOK

LEMMA TypeStep == TypeOK /\ [Next]_vars => TypeOK'
<1> SUFFICES ASSUME TypeOK, [Next]_vars PROVE TypeOK'
  OBVIOUS
<1>put. ASSUME NEW e \in Envelopes, Put(e), ~Full
        PROVE  /\ queue' \in Seq(Envelopes) /\ Len(queue') <= Capacity
               /\ accepted' \in Seq(Envelopes) /\ future' \in [Envelopes -> Futures]
  <2>1. queue' = Append(queue, e) /\ queue \in Seq(Envelopes) /\ Len(queue) < Capacity
    BY <1>put, LimitAssumption DEF Put, Full, TypeOK
  <2>2. queue' \in Seq(Envelopes) /\ Len(queue') = Len(queue) + 1
    BY <2>1
  <2>3. Len(queue') <= Capacity
    BY <2>1, <2>2, LimitAssumption
  <2>4. accepted' \in Seq(Envelopes)
    BY <1>put DEF Put, TypeOK
  <2> QED
    BY <1>put, <2>2, <2>3, <2>4, SettleType DEF Put, Futures
<1>refuse. ASSUME NEW e \in Envelopes, NEW word \in Told, Refuse(e, word)
           PROVE  future' \in [Envelopes -> Futures] /\ UNCHANGED <<queue, accepted>>
  BY <1>refuse, SettleType DEF Refuse, Futures
<1>1. ASSUME NEW e \in Envelopes, Submit(e) PROVE TypeOK'
  <2>1. /\ queue' \in Seq(Envelopes) /\ Len(queue') <= Capacity
        /\ accepted' \in Seq(Envelopes) /\ future' \in [Envelopes -> Futures]
    <3>1. ASSUME NEW word \in Told, Refuse(e, word)
          PROVE  /\ queue' \in Seq(Envelopes) /\ Len(queue') <= Capacity
                 /\ accepted' \in Seq(Envelopes) /\ future' \in [Envelopes -> Futures]
      BY <1>refuse, <3>1 DEF TypeOK
    <3> QED
      BY <1>1, <1>put, <3>1 DEF Submit, Told
  <2> QED
    BY <1>1, <2>1 DEF Submit, TypeOK, store, counts
<1>2. ASSUME NEW b \in Barriers, Barrier(b) PROVE TypeOK'
  <2>0. b \in Envelopes
    BY EnvelopeAssumption
  <2>1. /\ queue' \in Seq(Envelopes) /\ Len(queue') <= Capacity
        /\ accepted' \in Seq(Envelopes) /\ future' \in [Envelopes -> Futures]
    <3>1. CASE Refuse(b, "backpressure")
      BY <1>refuse, <2>0, <3>1 DEF TypeOK, Told
    <3> QED
      BY <1>2, <1>put, <2>0, <3>1 DEF Barrier
  <2> QED
    BY <1>2, <2>1 DEF Barrier, TypeOK, store, counts
<1>3. ASSUME NEW e \in Envelopes, GiveUp(e) PROVE TypeOK'
  BY <1>3, SettleType DEF GiveUp, TypeOK, Futures, store, counts
<1>4. ASSUME NEW e \in Envelopes, Expire(e) PROVE TypeOK'
  BY <1>4 DEF Expire, TypeOK, store, counts
<1>5. ASSUME Get PROVE TypeOK'
  <2> DEFINE e == Head(queue)
  <2>1. e \in Envelopes /\ queue' \in Seq(Envelopes) /\ Len(queue') <= Capacity
    BY <1>5, LimitAssumption DEF Get, TypeOK
  <2>2. CASE SettlePending(e, "expired") /\ UNCHANGED worker
    BY <1>5, <2>1, <2>2, SettleType DEF Get, TypeOK, Futures, Told, store, counts
  <2>3. CASE worker' = [pc |-> "begin", env |-> e] /\ UNCHANGED future
    <3>1. /\ worker' \in [pc : {"get", "begin", "execute", "commit", "rollback", "gone"},
                          env : Envelopes \cup {NoEnvelope}]
          /\ (worker'.pc \in {"get", "gone"} <=> worker'.env = NoEnvelope)
      BY <2>1, <2>3, EnvelopeAssumption
    <3> QED
      BY <1>5, <2>1, <2>3, <3>1 DEF Get, TypeOK, store, counts
  <2> QED
    BY <1>5, <2>2, <2>3 DEF Get
<1>6. ASSUME Begin PROVE TypeOK'
  <2>1. tx' \in [open : BOOLEAN, writes : SUBSET Envelopes, row : Envelopes \cup {NoRow}]
    BY <1>6 DEF Begin, TypeOK
  <2> QED
    BY <1>6, <2>1, GotoType DEF Begin, TypeOK, store, counts
<1>7. ASSUME BeginFails PROVE TypeOK'
  BY <1>7, GotoType DEF BeginFails, TypeOK, store
<1>8. ASSUME Execute PROVE TypeOK'
  <2> DEFINE e == worker.env
  <2>1. e \in Envelopes
    BY <1>8 DEF Execute, TypeOK
  <2>2. Lookup(e) \in Envelopes \cup {NoRow} /\ Row(e) \in Envelopes \cup {NoRow}
    BY <2>1, EnvelopeAssumption DEF Lookup, Row, Keyed, TypeOK
  <2>3. answer' \in [Envelopes -> Envelopes \cup {NoEnvelope}]
    BY <1>8, <2>1, <2>2 DEF Execute, TypeOK
  <2>4. tx' \in [open : BOOLEAN, writes : SUBSET Envelopes, row : Envelopes \cup {NoRow}]
    <3>1. CASE UNCHANGED tx
      BY <3>1 DEF TypeOK
    <3>2. CASE tx' = [tx EXCEPT !.writes = @ \cup ({e} \ Barriers), !.row = Row(e)]
      <4>1. tx.writes \cup ({e} \ Barriers) \in SUBSET Envelopes
        BY <2>1 DEF TypeOK
      <4> QED
        BY <2>2, <3>2, <4>1 DEF TypeOK
    <3> QED
      BY <1>8, <3>1, <3>2 DEF Execute
  <2> QED
    BY <1>8, <2>3, <2>4, GotoType DEF Execute, TypeOK, store, counts
<1>9. ASSUME ExecuteRaises PROVE TypeOK'
  <2> DEFINE e == worker.env
  <2>1. e \in Envelopes
    BY <1>9 DEF ExecuteRaises, TypeOK
  <2>2. tx' \in [open : BOOLEAN, writes : SUBSET Envelopes, row : Envelopes \cup {NoRow}]
    BY <1>9, <2>1 DEF ExecuteRaises, TypeOK
  <2> QED
    BY <1>9, <2>2, GotoType DEF ExecuteRaises, TypeOK, store, counts
<1>10. ASSUME Commit PROVE TypeOK'
  <2>1. worker.env \in Envelopes
    BY <1>10 DEF Commit, TypeOK
  <2>2. future' \in [Envelopes -> Futures]
    BY <1>10, <2>1, SettleType DEF Commit, Futures, Told
  <2> QED
    BY <1>10, <2>2, CommitTxType, RestingType DEF Commit, TypeOK, counts
<1>11. ASSUME CommitFails PROVE TypeOK'
  BY <1>11, GotoType DEF CommitFails, TypeOK, store
<1>12. ASSUME NEW succeeds \in BOOLEAN, Rollback(succeeds) PROVE TypeOK'
  <2>1. worker.env \in Envelopes
    BY <1>12 DEF Rollback, TypeOK
  <2>2. future' \in [Envelopes -> Futures]
    BY <1>12, <2>1, SettleType DEF Rollback, Futures, Told
  <2>3. /\ faults' \in Nat
        /\ tx' \in [open : BOOLEAN, writes : SUBSET Envelopes, row : Envelopes \cup {NoRow}]
    <3>1. (tx' = Closed /\ UNCHANGED faults) \/ (faults' = faults + 1 /\ UNCHANGED tx)
      BY <1>12 DEF Rollback
    <3> QED
      BY <3>1, ClosedType DEF TypeOK
  <2>4. worker' = Resting /\ UNCHANGED <<queue, running, answer, expired, store, stop, accepted, restarts>>
    BY <1>12 DEF Rollback
  <2> QED
    BY <2>2, <2>3, <2>4, RestingType DEF TypeOK, store
<1>13. ASSUME Leave PROVE TypeOK'
  BY <1>13, RestingType DEF Leave, TypeOK, store, counts
<1>14. ASSUME StopBegins PROVE TypeOK'
  BY <1>14 DEF StopBegins, TypeOK, store, counts
<1>15. ASSUME NEW late \in BOOLEAN, StopCancels(late) PROVE TypeOK'
  <2>1. /\ stop' = "drained" /\ worker' = [Resting EXCEPT !.pc = "gone"]
        /\ UNCHANGED <<queue, running, future, answer, expired, accepted, counts>>
    BY <1>15 DEF StopCancels
  <2>2. CommitTx \/ (tx' = Closed /\ UNCHANGED store) \/ UNCHANGED <<tx, store>>
    BY <1>15 DEF StopCancels
  <2>3. /\ applied' \subseteq Envelopes
        /\ idem' \in [Keys -> Envelopes \cup {NoRow}]
        /\ tx' \in [open : BOOLEAN, writes : SUBSET Envelopes, row : Envelopes \cup {NoRow}]
    BY <2>2, CommitTxType, ClosedType DEF TypeOK, store
  <2> QED
    BY <2>1, <2>3, RestingType DEF TypeOK, counts
<1>16. ASSUME CloseWriter PROVE TypeOK'
  BY <1>16, ClosedType DEF CloseWriter, TypeOK, store, counts
<1>17. ASSUME Restart PROVE TypeOK'
  <2>1. future' \in [Envelopes -> Futures]
    BY <1>17 DEF Restart, TypeOK, Futures
  <2>2. queue' = << >> /\ accepted' = << >> /\ Len(queue') <= Capacity
    BY <1>17, LimitAssumption DEF Restart
  <2> QED
    BY <1>17, <2>1, <2>2, ClosedType, RestingType DEF Restart, TypeOK, store
<1>18. ASSUME UNCHANGED vars PROVE TypeOK'
  BY <1>18 DEF vars, TypeOK
<1>19. ASSUME Worker PROVE TypeOK'
  BY <1>19, <1>5, <1>6, <1>7, <1>8, <1>9, <1>10, <1>11, <1>12, <1>13 DEF Worker
<1> QED
  BY <1>1, <1>2, <1>3, <1>4, <1>14, <1>15, <1>16, <1>17, <1>18, <1>19 DEF Next

\* Type correctness of the write path.
THEOREM TypeCorrect == Spec => []TypeOK
  BY TypeInit, TypeStep, PTL DEF Spec

-----------------------------------------------------------------------------
(***************************************************************************)
(* The inductive invariant.  An envelope is on its way (queued or at hand) *)
(* once and has no effect yet; what the open transaction holds is known at *)
(* every step of the worker, a transaction left open by a failed ROLLBACK  *)
(* included: it can only be rolled back.                                   *)
(***************************************************************************)
OnItsWay(e) == future[e] \in {"pending", "cancelled"} /\ e \notin applied

PlaceInv ==
    /\ \A i, j \in 1..Len(queue) : queue[i] = queue[j] => i = j
    /\ \A i \in 1..Len(queue) : OnItsWay(queue[i]) /\ queue[i] # worker.env
    /\ worker.env # NoEnvelope => OnItsWay(worker.env)
    /\ \A e \in Envelopes : future[e] \in {"new"} \cup (Told \ {"ok"}) => e \notin applied

FreshTx(e) ==
    /\ Lookup(e) = NoRow /\ answer[e] = e
    /\ tx.writes = {e} \ Barriers /\ tx.row = Row(e)

ReplayTx(e) ==
    /\ Lookup(e) # NoRow /\ answer[e] = Lookup(e) /\ HashOf[Lookup(e)] = HashOf[e]
    /\ tx.writes = {} /\ tx.row = NoRow

TxInv ==
    /\ ~tx.open => tx = Closed
    /\ worker.pc \in {"execute", "commit"} => tx.open
    /\ worker.pc = "execute" => tx.writes = {} /\ tx.row = NoRow
    /\ worker.pc = "commit" => FreshTx(worker.env) \/ ReplayTx(worker.env)

RowsInv ==
    \A k \in Keys : idem[k] # NoRow => KeyOf[idem[k]] = k /\ idem[k] \in applied

OkInv ==
    \A e \in Envelopes : future[e] = "ok" /\ e \notin Barriers =>
        answer[e] \in applied /\ HashOf[answer[e]] = HashOf[e]

\* The writer is closed behind a worker that is gone.
StopInv == stop \in {"drained", "closed"} => worker.pc = "gone"

WriteInv == PlaceInv /\ TxInv /\ StopInv /\ RowsInv /\ AllOrNothing /\ OkInv

LEMMA WriteInit == Init => WriteInv
<1> SUFFICES ASSUME Init PROVE WriteInv
  OBVIOUS
<1>1. PlaceInv
  BY DEF Init, PlaceInv, Resting
<1>2. TxInv
  BY DEF Init, TxInv, Resting
<1>3. RowsInv /\ AllOrNothing /\ OkInv /\ StopInv
  BY EnvelopeAssumption DEF Init, StopInv, RowsInv, AllOrNothing, OkInv, Keyed
<1> QED
  BY <1>1, <1>2, <1>3 DEF WriteInv

\* Where the envelopes are, when one of them is put.
LEMMA PutPlace ==
    ASSUME TypeOK, PlaceInv, NEW e \in Envelopes, future[e] = "new", Put(e),
           UNCHANGED <<worker, applied>>
    PROVE  PlaceInv'
<1>1. queue' = Append(queue, e) /\ queue \in Seq(Envelopes) /\ Len(queue) \in Nat
  BY DEF Put, TypeOK
<1>2. future' = [future EXCEPT ![e] = "pending"] /\ future \in [Envelopes -> Futures]
  BY DEF Put, Settle, TypeOK
<1>3. e \notin applied /\ worker.env # e /\ \A i \in 1..Len(queue) : queue[i] # e
  BY EnvelopeAssumption DEF PlaceInv, OnItsWay
<1>4. /\ Len(queue') = Len(queue) + 1 /\ queue'[Len(queue) + 1] = e
      /\ \A i \in 1..Len(queue) : queue'[i] = queue[i] /\ queue[i] \in Envelopes
  BY <1>1
<1>5. \A i \in 1..Len(queue') : i = Len(queue) + 1 \/ i \in 1..Len(queue)
  BY <1>1, <1>4
<1>6. \A i, j \in 1..Len(queue') : queue'[i] = queue'[j] => i = j
  BY <1>3, <1>4, <1>5 DEF PlaceInv
<1>7. \A i \in 1..Len(queue') :
          /\ future'[queue'[i]] \in {"pending", "cancelled"}
          /\ queue'[i] \notin applied' /\ queue'[i] # worker'.env
  BY <1>2, <1>3, <1>4, <1>5 DEF PlaceInv, OnItsWay
<1>8. worker.env # NoEnvelope => future'[worker.env] \in {"pending", "cancelled"}
                                 /\ worker.env \notin applied
  BY <1>2, <1>3 DEF PlaceInv, OnItsWay, TypeOK
<1>9. \A f \in Envelopes : future'[f] \in {"new"} \cup (Told \ {"ok"}) => f \notin applied'
  BY <1>2, <1>3 DEF PlaceInv
<1> QED
  BY <1>6, <1>7, <1>8, <1>9 DEF PlaceInv, OnItsWay

\* Where they are, when the Future of one that is not on its way, or was given up, changes.
LEMMA WordPlace ==
    ASSUME TypeOK, PlaceInv, NEW e \in Envelopes, NEW word \in Futures,
           future' = [future EXCEPT ![e] = word],
           \/ word \in Told \ {"ok"} /\ e \notin applied /\ e # worker.env
              /\ \A i \in 1..Len(queue) : queue[i] # e
           \/ word = "cancelled",
           UNCHANGED <<queue, worker, applied>>
    PROVE  PlaceInv'
<1>1. \A i \in 1..Len(queue) : queue[i] \in Envelopes
  BY DEF TypeOK
<1>2. \A i \in 1..Len(queue) : OnItsWay(queue[i])'
  BY <1>1 DEF PlaceInv, OnItsWay, TypeOK
<1>3. worker.env # NoEnvelope => OnItsWay(worker.env)'
  BY DEF PlaceInv, OnItsWay, TypeOK
<1>4. \A f \in Envelopes : future'[f] \in {"new"} \cup (Told \ {"ok"}) => f \notin applied
  BY DEF PlaceInv, TypeOK, Told
<1> QED
  BY <1>2, <1>3, <1>4 DEF PlaceInv, OnItsWay

\* Where they are, when the worker goes on with the envelope at hand.
LEMMA SamePlace ==
    ASSUME PlaceInv, UNCHANGED <<queue, future, applied>>, worker'.env = worker.env
    PROVE  PlaceInv'
  BY DEF PlaceInv, OnItsWay

\* Where they are, when the worker takes the head of the queue.
LEMMA TakePlace ==
    ASSUME TypeOK, PlaceInv, worker.env = NoEnvelope, queue # << >>,
           queue' = Tail(queue), UNCHANGED applied,
           \/ worker'.env = Head(queue) /\ UNCHANGED future
           \/ worker'.env = NoEnvelope /\ UNCHANGED future
           \/ worker'.env = NoEnvelope /\ future' = [future EXCEPT ![Head(queue)] = "expired"]
    PROVE  PlaceInv'
<1> DEFINE e == Head(queue)
<1>1. /\ queue \in Seq(Envelopes) /\ Len(queue) \in Nat /\ Len(queue) > 0
      /\ Len(queue') = Len(queue) - 1 /\ e = queue[1] /\ e \in Envelopes
      /\ \A i \in 1..Len(queue') : queue'[i] = queue[i + 1] /\ i + 1 \in 1..Len(queue)
  BY DEF TypeOK
<1>2. /\ \A i, j \in 1..Len(queue) : queue[i] = queue[j] => i = j
      /\ \A i \in 1..Len(queue) : future[queue[i]] \in {"pending", "cancelled"}
                                   /\ queue[i] \notin applied /\ queue[i] \in Envelopes
  BY <1>1 DEF PlaceInv, OnItsWay
<1> HIDE DEF e
<1>3. \A i, j \in 1..Len(queue') : queue'[i] = queue'[j] => i = j
  BY <1>1, <1>2
<1>4. \A i \in 1..Len(queue') : queue'[i] # e
  BY <1>1, <1>2
<1>5. \A f \in Envelopes : f # e => future'[f] = future[f]
  BY DEF TypeOK, e
<1>6. \A i \in 1..Len(queue') : /\ future'[queue'[i]] \in {"pending", "cancelled"}
                                /\ queue'[i] \notin applied' /\ queue'[i] # worker'.env
  BY <1>1, <1>2, <1>4, <1>5, EnvelopeAssumption DEF e
<1>7. worker'.env # NoEnvelope => /\ future'[worker'.env] \in {"pending", "cancelled"}
                                  /\ worker'.env \notin applied'
  BY <1>1, <1>2 DEF e
<1>8. \A f \in Envelopes : future'[f] \in {"new"} \cup (Told \ {"ok"}) => f \notin applied'
  <2> SUFFICES ASSUME NEW f \in Envelopes, future'[f] \in {"new"} \cup (Told \ {"ok"})
               PROVE  f \notin applied
    OBVIOUS
  <2>1. CASE f = e
    BY <1>1, <1>2, <2>1
  <2>2. CASE f # e
    BY <1>5, <2>2 DEF PlaceInv
  <2> QED
    BY <2>1, <2>2
<1> QED
  BY <1>3, <1>6, <1>7, <1>8 DEF PlaceInv, OnItsWay

\* Where they are, when the worker is done with the envelope at hand, or cancelled.
LEMMA RestPlace ==
    ASSUME TypeOK, PlaceInv, UNCHANGED queue, worker'.env = NoEnvelope,
           \A f \in Envelopes : f # worker.env =>
               future'[f] = future[f] /\ (f \in applied' <=> f \in applied),
           worker.env \in Envelopes =>
               (future'[worker.env] \in {"new"} \cup (Told \ {"ok"}) => worker.env \notin applied')
    PROVE  PlaceInv'
<1>1. \A i \in 1..Len(queue) : queue[i] \in Envelopes /\ queue[i] # worker.env
  BY DEF PlaceInv, TypeOK
<1>2. \A i \in 1..Len(queue) : future'[queue[i]] \in {"pending", "cancelled"} /\ queue[i] \notin applied'
  BY <1>1 DEF PlaceInv, OnItsWay
<1>3. \A f \in Envelopes : future'[f] \in {"new"} \cup (Told \ {"ok"}) => f \notin applied'
  BY DEF PlaceInv
<1>4. \A i \in 1..Len(queue) : queue[i] # worker'.env
  BY <1>1, EnvelopeAssumption
<1> QED
  BY <1>2, <1>3, <1>4 DEF PlaceInv, OnItsWay

LEMMA PlaceStep == TypeOK /\ WriteInv /\ [Next]_vars => PlaceInv'
<1> SUFFICES ASSUME TypeOK, WriteInv, [Next]_vars PROVE PlaceInv'
  OBVIOUS
<1> USE DEF WriteInv
<1>refuse. ASSUME NEW e \in Envelopes, NEW word \in Told \ {"ok"}, future[e] = "new", Refuse(e, word),
                  UNCHANGED <<worker, applied>>
           PROVE  PlaceInv'
  <2>1. e \notin applied /\ worker.env # e /\ \A i \in 1..Len(queue) : queue[i] # e
    BY <1>refuse, EnvelopeAssumption DEF PlaceInv, OnItsWay
  <2> QED
    BY <1>refuse, <2>1, WordPlace DEF Refuse, Settle, Futures
<1>1. ASSUME NEW e \in Envelopes, Submit(e) PROVE PlaceInv'
  BY <1>1, <1>refuse, PutPlace DEF Submit, Told, store
<1>2. ASSUME NEW b \in Barriers, Barrier(b) PROVE PlaceInv'
  <2>1. b \in Envelopes
    BY EnvelopeAssumption
  <2> QED
    BY <1>2, <2>1, <1>refuse, PutPlace DEF Barrier, Told, store
<1>3. ASSUME NEW e \in Envelopes, GiveUp(e) PROVE PlaceInv'
  BY <1>3, WordPlace DEF GiveUp, Settle, Futures, store
<1>4. ASSUME Get PROVE PlaceInv'
  <2>1. worker.env = NoEnvelope
    BY <1>4 DEF Get, TypeOK
  <2>2. CASE SettlePending(Head(queue), "expired") /\ UNCHANGED worker
    BY <1>4, <2>1, <2>2, TakePlace DEF Get, SettlePending, Settle, store
  <2>3. CASE worker' = [pc |-> "begin", env |-> Head(queue)] /\ UNCHANGED future
    BY <1>4, <2>1, <2>3, TakePlace DEF Get, store
  <2> QED
    BY <1>4, <2>2, <2>3 DEF Get
<1>5. ASSUME Begin \/ BeginFails \/ Execute \/ ExecuteRaises \/ CommitFails PROVE PlaceInv'
  <2>1. worker'.env = worker.env
    BY <1>5 DEF Begin, BeginFails, Execute, ExecuteRaises, CommitFails, Goto, TypeOK
  <2>2. UNCHANGED <<queue, future, applied>>
    BY <1>5 DEF Begin, BeginFails, Execute, ExecuteRaises, CommitFails, store
  <2> QED
    BY <2>1, <2>2, SamePlace
<1>6. ASSUME Commit PROVE PlaceInv'
  <2> DEFINE e == worker.env
  <2>1. e \in Envelopes /\ future[e] \in {"pending", "cancelled"} /\ future \in [Envelopes -> Futures]
    BY <1>6, EnvelopeAssumption DEF Commit, TypeOK, PlaceInv, OnItsWay
  <2>2. tx.writes \subseteq {e}
    BY <1>6 DEF Commit, TxInv, FreshTx, ReplayTx
  <2>3. applied' = applied \cup tx.writes
    BY <1>6 DEF Commit, CommitTx
  <2>4. future' = future \/ future' = [future EXCEPT ![e] = "ok"]
    BY <1>6 DEF Commit, SettlePending, Settle
  <2>5. worker'.env = NoEnvelope /\ UNCHANGED queue
    BY <1>6 DEF Commit, Resting
  <2>6. future'[e] \notin {"new"} \cup (Told \ {"ok"})
    BY <2>1, <2>4 DEF Told
  <2>7. \A f \in Envelopes : f # e => future'[f] = future[f] /\ (f \in applied' <=> f \in applied)
    BY <2>1, <2>2, <2>3, <2>4
  <2> QED
    BY <2>5, <2>6, <2>7, RestPlace
<1>7. ASSUME NEW succeeds \in BOOLEAN, Rollback(succeeds) PROVE PlaceInv'
  <2> DEFINE e == worker.env
  <2>1. e \in Envelopes /\ e \notin applied /\ future \in [Envelopes -> Futures]
    BY <1>7, EnvelopeAssumption DEF Rollback, TypeOK, PlaceInv, OnItsWay
  <2>2. future' = future \/ future' = [future EXCEPT ![e] = "failed"]
    BY <1>7 DEF Rollback, SettlePending, Settle
  <2>3. worker'.env = NoEnvelope /\ UNCHANGED <<queue, applied>>
    BY <1>7 DEF Rollback, Resting, store
  <2>4. \A f \in Envelopes : f # e => future'[f] = future[f]
    BY <2>1, <2>2
  <2> QED
    BY <2>1, <2>3, <2>4, RestPlace
<1>8. ASSUME Leave PROVE PlaceInv'
  <2>1. worker.env = NoEnvelope /\ worker'.env = NoEnvelope
    BY <1>8 DEF Leave, Resting, TypeOK
  <2> QED
    BY <1>8, <2>1, SamePlace DEF Leave, store
<1>9. ASSUME NEW late \in BOOLEAN, StopCancels(late) PROVE PlaceInv'
  <2> DEFINE e == worker.env
  <2>1. worker'.env = NoEnvelope /\ UNCHANGED <<queue, future>>
    BY <1>9 DEF StopCancels, Resting
  <2>2. (worker.pc = "commit" /\ CommitTx) \/ UNCHANGED applied
    BY <1>9 DEF StopCancels, store
  <2>3. \A f \in Envelopes : f # e => (f \in applied' <=> f \in applied)
    BY <2>2 DEF CommitTx, TxInv, FreshTx, ReplayTx
  <2>4. e \in Envelopes => future[e] \notin {"new"} \cup (Told \ {"ok"})
    BY EnvelopeAssumption DEF PlaceInv, OnItsWay, Told
  <2> QED
    BY <2>1, <2>3, <2>4, RestPlace
<1>10. ASSUME Restart PROVE PlaceInv'
  <2>1. /\ queue' = << >> /\ worker'.env = NoEnvelope /\ UNCHANGED applied
        /\ future' = [f \in Envelopes |-> IF future[f] = "pending" THEN "abandoned" ELSE future[f]]
    BY <1>10 DEF Restart, Resting, store
  <2>2. Len(queue') = 0
    BY <2>1
  <2>3. \A f \in Envelopes : future'[f] \in {"new"} \cup (Told \ {"ok"}) => f \notin applied
    BY <2>1 DEF PlaceInv, Told
  <2> QED
    BY <2>1, <2>2, <2>3 DEF PlaceInv
<1>11. ASSUME UNCHANGED <<queue, future, applied, worker>> PROVE PlaceInv'
  BY <1>11, SamePlace
<1>12. ASSUME Worker PROVE PlaceInv'
  BY <1>12, <1>4, <1>5, <1>6, <1>7, <1>8 DEF Worker
<1> QED
  BY <1>1, <1>2, <1>3, <1>9, <1>10, <1>11, <1>12
  DEF Next, Expire, StopBegins, CloseWriter, vars, store

LEMMA TxStep == TypeOK /\ WriteInv /\ [Next]_vars => TxInv'
<1> SUFFICES ASSUME TypeOK, WriteInv, [Next]_vars PROVE TxInv'
  OBVIOUS
<1>inv. TxInv
  BY DEF WriteInv
<1>1. ASSUME UNCHANGED <<tx, worker, idem, answer>> PROVE TxInv'
  BY <1>1, <1>inv DEF TxInv, FreshTx, ReplayTx, Lookup
<1>2. ASSUME UNCHANGED tx, worker'.pc \notin {"execute", "commit"} PROVE TxInv'
  BY <1>2, <1>inv DEF TxInv
<1>3. ASSUME tx' = Closed, worker'.pc \notin {"execute", "commit"} PROVE TxInv'
  BY <1>3 DEF TxInv
<1>4. ASSUME Get PROVE TxInv'
  <2>1. worker'.pc \in {"get", "begin"}
    BY <1>4 DEF Get
  <2> QED
    BY <1>2, <1>4, <2>1 DEF Get
<1>5. ASSUME Begin PROVE TxInv'
  <2>1. tx = Closed /\ worker'.pc = "execute"
    BY <1>5, <1>inv, GotoType DEF Begin, BeginAccepted, TxInv
  <2>2. tx'.open /\ tx'.writes = {} /\ tx'.row = NoRow
    BY <1>5, <2>1 DEF Begin, Closed
  <2> QED
    BY <2>1, <2>2 DEF TxInv
<1>6. ASSUME BeginFails \/ CommitFails PROVE TxInv'
  <2>1. worker'.pc = "rollback"
    BY <1>6, GotoType DEF BeginFails, CommitFails
  <2> QED
    BY <1>2, <1>6, <2>1 DEF BeginFails, CommitFails
<1>7. ASSUME Execute PROVE TxInv'
  <2> DEFINE e == worker.env
  <2>1. worker'.pc = "commit" /\ worker'.env = e /\ e \in Envelopes /\ UNCHANGED idem
    BY <1>7, GotoType DEF Execute, store
  <2>2. tx.open /\ tx.writes = {} /\ tx.row = NoRow
    BY <1>7, <1>inv DEF Execute, TxInv
  <2>3. CASE Lookup(e) # NoRow
    <3>1. UNCHANGED tx /\ answer'[e] = Lookup(e) /\ HashOf[Lookup(e)] = HashOf[e]
      BY <1>7, <2>1, <2>3 DEF Execute, Conflict, TypeOK
    <3>2. ReplayTx(e)'
      BY <2>1, <2>2, <2>3, <3>1 DEF ReplayTx, Lookup
    <3> QED
      BY <2>1, <2>2, <3>1, <3>2 DEF TxInv
  <2>4. CASE Lookup(e) = NoRow
    <3>1. answer'[e] = e /\ tx' = [tx EXCEPT !.writes = @ \cup ({e} \ Barriers), !.row = Row(e)]
      BY <1>7, <2>1, <2>4 DEF Execute, TypeOK
    <3>2. tx'.open /\ tx'.writes = {e} \ Barriers /\ tx'.row = Row(e)
      BY <2>2, <3>1 DEF TypeOK
    <3>3. FreshTx(e)'
      BY <2>1, <2>4, <3>1, <3>2 DEF FreshTx, Lookup, Row
    <3> QED
      BY <2>1, <3>2, <3>3 DEF TxInv
  <2> QED
    BY <2>3, <2>4
<1>8. ASSUME ExecuteRaises PROVE TxInv'
  <2>1. worker'.pc = "rollback" /\ tx.open
    BY <1>8, <1>inv, GotoType DEF ExecuteRaises, TxInv
  <2>2. tx'.open
    BY <1>8, <2>1 DEF ExecuteRaises, TypeOK
  <2> QED
    BY <2>1, <2>2 DEF TxInv
<1>9. ASSUME Commit PROVE TxInv'
  BY <1>3, <1>9 DEF Commit, CommitTx, Resting
<1>10. ASSUME NEW succeeds \in BOOLEAN, Rollback(succeeds) PROVE TxInv'
  <2>1. worker'.pc = "get" /\ (tx' = Closed \/ UNCHANGED tx)
    BY <1>10 DEF Rollback, Resting
  <2> QED
    BY <1>2, <1>3, <2>1
<1>11. ASSUME Leave PROVE TxInv'
  BY <1>2, <1>11 DEF Leave, Resting
<1>12. ASSUME NEW late \in BOOLEAN, StopCancels(late) PROVE TxInv'
  <2>1. worker'.pc = "gone" /\ (tx' = Closed \/ UNCHANGED tx)
    BY <1>12 DEF StopCancels, CommitTx, Resting
  <2> QED
    BY <1>2, <1>3, <2>1
<1>13. ASSUME CloseWriter PROVE TxInv'
  <2>1. worker.pc = "gone"
    BY <1>13 DEF CloseWriter, WriteInv, StopInv
  <2> QED
    BY <1>3, <1>13, <2>1 DEF CloseWriter
<1>14. ASSUME Restart PROVE TxInv'
  BY <1>3, <1>14 DEF Restart, Resting
<1>15. ASSUME Worker PROVE TxInv'
  BY <1>15, <1>4, <1>5, <1>6, <1>7, <1>8, <1>9, <1>10, <1>11 DEF Worker
<1> QED
  BY <1>1, <1>12, <1>13, <1>14, <1>15
  DEF Next, Submit, Barrier, GiveUp, Expire, StopBegins, vars, store

LEMMA StopStep == TypeOK /\ WriteInv /\ [Next]_vars => StopInv'
<1> SUFFICES ASSUME TypeOK, WriteInv, [Next]_vars PROVE StopInv'
  OBVIOUS
<1>inv. StopInv
  BY DEF WriteInv
<1>1. ASSUME Worker PROVE StopInv'
  <2>1. worker.pc # "gone" /\ UNCHANGED stop
    BY <1>1 DEF Worker, Get, Begin, BeginFails, Execute, ExecuteRaises, Commit, CommitFails, Rollback,
                Leave
  <2> QED
    BY <1>inv, <2>1 DEF StopInv
<1>2. ASSUME NEW late \in BOOLEAN, StopCancels(late) PROVE StopInv'
  BY <1>2 DEF StopCancels, Resting, StopInv
<1>3. ASSUME UNCHANGED <<stop, worker>> \/ StopBegins \/ CloseWriter \/ Restart PROVE StopInv'
  BY <1>3, <1>inv DEF StopBegins, CloseWriter, Restart, StopInv
<1> QED
  BY <1>1, <1>2, <1>3 DEF Next, Submit, Barrier, GiveUp, Expire, vars

\* What a COMMIT of the worker's transaction does to the store.
LEMMA CommitStore ==
    ASSUME TypeOK, WriteInv, worker.pc = "commit", CommitTx
    PROVE  /\ RowsInv' /\ AllOrNothing' /\ applied \subseteq applied'
           /\ worker.env \notin Barriers =>
                answer[worker.env] \in applied' /\ HashOf[answer[worker.env]] = HashOf[worker.env]
<1> DEFINE e == worker.env
<1> USE DEF WriteInv
<1>1. e \in Envelopes /\ e \notin applied /\ applied' = applied \cup tx.writes
  BY EnvelopeAssumption DEF TypeOK, PlaceInv, OnItsWay, CommitTx
<1>2. CASE ReplayTx(e)
  <2>1. UNCHANGED <<applied, idem>>
    BY <1>1, <1>2 DEF ReplayTx, CommitTx
  <2>2. Lookup(e) \in applied
    BY <1>1, <1>2, EnvelopeAssumption DEF ReplayTx, Lookup, Keyed, RowsInv
  <2> QED
    BY <1>2, <2>1, <2>2 DEF ReplayTx, RowsInv, AllOrNothing
<1>3. CASE FreshTx(e) /\ Keyed(e)
  <2> DEFINE k == KeyOf[e]
  <2>1. e \notin Barriers /\ k \in Keys /\ idem[k] = NoRow /\ tx.row = e /\ tx.writes = {e}
    BY <1>1, <1>3, EnvelopeAssumption DEF FreshTx, Keyed, Lookup, Row
  <2>2. applied' = applied \cup {e} /\ idem' = [idem EXCEPT ![k] = e]
    BY <1>1, <2>1, EnvelopeAssumption DEF CommitTx
  <2>3. RowsInv'
    BY <1>1, <2>1, <2>2 DEF RowsInv, TypeOK
  <2>4. AllOrNothing'
    <3> SUFFICES ASSUME NEW f \in Envelopes, Keyed(f)
                 PROVE  f \in applied' <=> idem'[KeyOf[f]] = f
      BY DEF AllOrNothing
    <3>1. KeyOf[f] \in Keys /\ (f \in applied <=> idem[KeyOf[f]] = f) /\ f # NoRow
      BY EnvelopeAssumption DEF Keyed, AllOrNothing
    <3> QED
      BY <2>1, <2>2, <3>1 DEF TypeOK
  <2> QED
    BY <1>3, <2>2, <2>3, <2>4 DEF FreshTx
<1>4. CASE FreshTx(e) /\ ~Keyed(e)
  <2>1. UNCHANGED idem /\ tx.writes = {e} \ Barriers
    BY <1>4 DEF FreshTx, Row, CommitTx
  <2>2. RowsInv'
    BY <1>1, <2>1 DEF RowsInv
  <2>3. AllOrNothing'
    BY <1>1, <1>4, <2>1 DEF AllOrNothing, Keyed
  <2> QED
    BY <1>1, <1>4, <2>1, <2>2, <2>3 DEF FreshTx
<1> QED
  BY <1>2, <1>3, <1>4 DEF TxInv

LEMMA StoreStep == TypeOK /\ WriteInv /\ [Next]_vars => RowsInv' /\ AllOrNothing' /\ OkInv'
<1> SUFFICES ASSUME TypeOK, WriteInv, [Next]_vars PROVE RowsInv' /\ AllOrNothing' /\ OkInv'
  OBVIOUS
<1>inv. RowsInv /\ AllOrNothing /\ OkInv
  BY DEF WriteInv
<1>1. ASSUME UNCHANGED <<store, answer>>, \A e \in Envelopes : future'[e] = "ok" => future[e] = "ok"
      PROVE  RowsInv' /\ AllOrNothing' /\ OkInv'
  BY <1>1, <1>inv DEF RowsInv, AllOrNothing, OkInv, store
<1>settle. ASSUME NEW e \in Envelopes, NEW word \in Futures \ {"ok"}, UNCHANGED <<store, answer>>,
                  Settle(e, word) \/ SettlePending(e, word)
           PROVE  RowsInv' /\ AllOrNothing' /\ OkInv'
  BY <1>1, <1>settle DEF Settle, SettlePending, TypeOK
<1>2. ASSUME NEW e \in Envelopes, Submit(e) PROVE RowsInv' /\ AllOrNothing' /\ OkInv'
  BY <1>2, <1>settle DEF Submit, Put, Refuse, Futures, Told
<1>3. ASSUME NEW b \in Barriers, Barrier(b) PROVE RowsInv' /\ AllOrNothing' /\ OkInv'
  <2>1. b \in Envelopes
    BY EnvelopeAssumption
  <2> QED
    BY <1>3, <1>settle, <2>1 DEF Barrier, Put, Refuse, Futures, Told
<1>4. ASSUME NEW e \in Envelopes, GiveUp(e) PROVE RowsInv' /\ AllOrNothing' /\ OkInv'
  BY <1>4, <1>settle DEF GiveUp, Futures
<1>5. ASSUME Get PROVE RowsInv' /\ AllOrNothing' /\ OkInv'
  <2>1. Head(queue) \in Envelopes
    BY <1>5 DEF Get, TypeOK
  <2> QED
    BY <1>1, <1>5, <1>settle, <2>1 DEF Get, Futures, Told
<1>6. ASSUME Execute PROVE RowsInv' /\ AllOrNothing' /\ OkInv'
  <2>1. UNCHANGED <<store, future>> /\ \A f \in Envelopes : f # worker.env => answer'[f] = answer[f]
    BY <1>6 DEF Execute, TypeOK
  <2>2. worker.env \in Envelopes /\ future[worker.env] # "ok"
    BY <1>6, EnvelopeAssumption DEF Execute, TypeOK, WriteInv, PlaceInv, OnItsWay
  <2> QED
    BY <1>inv, <2>1, <2>2 DEF RowsInv, AllOrNothing, OkInv, store
<1>7. ASSUME Commit PROVE RowsInv' /\ AllOrNothing' /\ OkInv'
  <2>1. worker.pc = "commit" /\ CommitTx /\ UNCHANGED answer
    BY <1>7 DEF Commit
  <2>2. \A f \in Envelopes : future'[f] = "ok" => future[f] = "ok" \/ f = worker.env
    BY <1>7 DEF Commit, SettlePending, Settle, TypeOK
  <2> QED
    BY <1>inv, <2>1, <2>2, CommitStore DEF OkInv
<1>8. ASSUME NEW succeeds \in BOOLEAN, Rollback(succeeds) PROVE RowsInv' /\ AllOrNothing' /\ OkInv'
  <2>1. /\ worker.env \in Envelopes /\ UNCHANGED <<store, answer>>
        /\ SettlePending(worker.env, "failed")
    BY <1>8 DEF Rollback, TypeOK
  <2> QED
    BY <1>settle, <2>1 DEF Futures, Told
<1>9. ASSUME NEW late \in BOOLEAN, StopCancels(late) PROVE RowsInv' /\ AllOrNothing' /\ OkInv'
  <2>1. UNCHANGED <<future, answer>> /\ ((worker.pc = "commit" /\ CommitTx) \/ UNCHANGED store)
    BY <1>9 DEF StopCancels
  <2>2. CASE worker.pc = "commit" /\ CommitTx
    BY <1>inv, <2>1, <2>2, CommitStore DEF OkInv
  <2>3. CASE UNCHANGED store
    BY <1>1, <2>1, <2>3
  <2> QED
    BY <2>1, <2>2, <2>3
<1>10. ASSUME Restart PROVE RowsInv' /\ AllOrNothing' /\ OkInv'
  BY <1>1, <1>10 DEF Restart
<1>11. ASSUME UNCHANGED <<store, answer, future>> PROVE RowsInv' /\ AllOrNothing' /\ OkInv'
  BY <1>1, <1>11
<1>12. ASSUME Worker PROVE RowsInv' /\ AllOrNothing' /\ OkInv'
  BY <1>12, <1>5, <1>6, <1>7, <1>8, <1>11
  DEF Worker, Begin, BeginFails, ExecuteRaises, CommitFails, Leave
<1> QED
  BY <1>2, <1>3, <1>4, <1>9, <1>10, <1>11, <1>12
  DEF Next, Expire, StopBegins, CloseWriter, vars, store

LEMMA WritesCorrect == Spec => [](TypeOK /\ WriteInv)
<1>1. Init => TypeOK /\ WriteInv
  BY TypeInit, WriteInit
<1>2. TypeOK /\ WriteInv /\ [Next]_vars => (TypeOK /\ WriteInv)'
  BY TypeStep, PlaceStep, TxStep, StopStep, StoreStep DEF WriteInv
<1> QED
  BY <1>1, <1>2, PTL DEF Spec

(***************************************************************************)
(* The effect of a keyed request and its idempotency row are committed     *)
(* together, and a key takes effect once, for every number of requests,    *)
(* faults, retries and restarts.                                           *)
(***************************************************************************)
THEOREM EffectAndRowTogether == Spec => []AllOrNothing
  BY WritesCorrect, PTL DEF WriteInv

(***************************************************************************)
(* A caller that hears ok has the effect of its key; a caller that hears   *)
(* an error has had no effect.                                             *)
(***************************************************************************)
THEOREM AnswersAreTrue == Spec => []AnswerIsTrue
<1>1. WriteInv => AnswerIsTrue
  BY DEF WriteInv, OkInv, PlaceInv, AnswerIsTrue
<1> QED
  BY <1>1, WritesCorrect, PTL

-----------------------------------------------------------------------------
(* The write path implements ExactlyOnce. *)

\* A Future that gets one word changes what its caller has heard, and nobody else's.
LEMMA HeardStep ==
    ASSUME TypeOK, NEW e \in Envelopes, NEW word \in Futures, future' = [future EXCEPT ![e] = word]
    PROVE  /\ \A f \in Envelopes \ Barriers : f # e => Heard'[f] = Heard[f]
           /\ e \in Barriers => Heard' = Heard
           /\ e \notin Barriers =>
                Heard' = [Heard EXCEPT ![e] = IF word = "ok" THEN "ok"
                                              ELSE IF word \in Told THEN "refused" ELSE "unknown"]
  BY DEF Heard, TypeOK

\* A refusal of a request without effect is a step of the promise.
LEMMA RefusalStep ==
    ASSUME TypeOK, NEW e \in Envelopes, e \notin applied, NEW word \in Told \ {"ok"},
           future[e] \in {"new", "pending"}, future' = [future EXCEPT ![e] = word], UNCHANGED applied
    PROVE  [Promise!Next]_<<applied, Heard>>
<1>1. CASE e \in Barriers
  BY <1>1, HeardStep DEF Futures
<1>2. CASE e \notin Barriers
  <2>1. Heard' = [Heard EXCEPT ![e] = "refused"] /\ Heard[e] = "unknown"
    BY <1>2, HeardStep DEF Futures, Heard, Told
  <2>2. Promise!Refuse(e)
    BY <2>1 DEF Promise!Refuse, Promise!Tell
  <2> QED
    BY <1>2, <2>2 DEF Promise!Next
<1> QED
  BY <1>1, <1>2

\* A COMMIT is one Apply, one Replay, or nothing that a caller could see.
LEMMA CommitStep ==
    ASSUME TypeOK, WriteInv, worker.pc = "commit", CommitTx,
           \/ UNCHANGED future
           \/ future[worker.env] = "pending" /\ future' = [future EXCEPT ![worker.env] = "ok"]
    PROVE  [Promise!Next]_<<applied, Heard>>
<1> DEFINE e == worker.env
<1> USE DEF WriteInv
<1>1. /\ e \in Envelopes /\ e \notin applied /\ applied' = applied \cup tx.writes
      /\ future[e] \in {"pending", "cancelled"}
  BY EnvelopeAssumption DEF TypeOK, PlaceInv, OnItsWay, CommitTx
<1>u. ASSUME UNCHANGED future PROVE Heard' = Heard
  BY <1>u DEF Heard
<1>k. "ok" \in Futures
  BY DEF Futures, Told
<1>2. CASE e \in Barriers
  <2>1. tx.writes = {}
    BY <1>2 DEF TxInv, FreshTx, ReplayTx
  <2>2. Heard' = Heard
    BY <1>u, <1>k, <1>1, <1>2, HeardStep
  <2> QED
    BY <1>1, <2>1, <2>2
<1>3. CASE e \notin Barriers
  <2>0. /\ Heard[e] = "unknown"
        /\ Heard' = Heard \/ Heard' = [Heard EXCEPT ![e] = "ok"]
    <3>1. Heard[e] = "unknown"
      BY <1>1, <1>3 DEF Heard, Told
    <3> QED
      BY <1>u, <1>k, <1>1, <1>3, <3>1, HeardStep
  <2>1. CASE FreshTx(e)
    <3>1. applied' = applied \cup {e}
      BY <1>1, <1>3, <2>1 DEF FreshTx
    <3>2. \A f \in applied : ~Promise!SameKey(e, f)
      <4> SUFFICES ASSUME NEW f \in applied, Promise!SameKey(e, f) PROVE FALSE
        OBVIOUS
      <4>1. f \in Envelopes /\ f # e /\ KeyOf[e] = KeyOf[f] /\ KeyOf[e] # NoKey
        BY <1>1 DEF Promise!SameKey, TypeOK
      <4>2. idem[KeyOf[f]] = f /\ f # NoRow
        BY <4>1, EnvelopeAssumption DEF AllOrNothing, Keyed
      <4>3. idem[KeyOf[e]] = NoRow
        BY <2>1, <4>1 DEF FreshTx, Lookup, Keyed
      <4> QED
        BY <4>1, <4>2, <4>3
    <3>3. Promise!Apply(e, FALSE) \/ Promise!Apply(e, TRUE)
      BY <2>0, <3>1, <3>2 DEF Promise!Apply, Promise!Tell
    <3> QED
      BY <1>1, <1>3, <3>3 DEF Promise!Next
  <2>2. CASE ReplayTx(e)
    <3>1. UNCHANGED applied
      BY <1>1, <2>2 DEF ReplayTx
    <3>2. \E f \in applied : Promise!SameKey(e, f)
      <4>1. Keyed(e) /\ KeyOf[e] \in Keys /\ idem[KeyOf[e]] # NoRow
        BY <1>1, <2>2, EnvelopeAssumption DEF ReplayTx, Lookup, Keyed
      <4>2. idem[KeyOf[e]] \in applied /\ KeyOf[idem[KeyOf[e]]] = KeyOf[e]
        BY <4>1 DEF RowsInv
      <4> QED
        BY <4>1, <4>2 DEF Promise!SameKey, Keyed
    <3>3. CASE Heard' = [Heard EXCEPT ![e] = "ok"]
      <4>1. Promise!Replay(e)
        BY <1>1, <2>0, <3>1, <3>2, <3>3 DEF Promise!Replay, Promise!Tell
      <4> QED
        BY <1>1, <1>3, <4>1 DEF Promise!Next
    <3> QED
      BY <2>0, <3>1, <3>3
  <2> QED
    BY <2>1, <2>2 DEF TxInv
<1> QED
  BY <1>2, <1>3

LEMMA PromiseStep == TypeOK /\ WriteInv /\ [Next]_vars => [Promise!Next]_<<applied, Heard>>
<1> SUFFICES ASSUME TypeOK, WriteInv, [Next]_vars PROVE [Promise!Next]_<<applied, Heard>>
  OBVIOUS
<1>0. ASSUME UNCHANGED <<applied, future>> PROVE UNCHANGED <<applied, Heard>>
  BY <1>0 DEF Heard
<1>1. ASSUME NEW e \in Envelopes, NEW word \in {"pending", "cancelled"}, future[e] \in {"new", "pending"},
             Settle(e, word), UNCHANGED applied
      PROVE  UNCHANGED <<applied, Heard>>
  BY <1>1, HeardStep DEF Settle, Futures, Told, Heard, TypeOK
<1>2. ASSUME NEW e \in Envelopes, NEW word \in Told \ {"ok"}, future[e] = "new", Refuse(e, word),
             UNCHANGED applied
      PROVE  [Promise!Next]_<<applied, Heard>>
  <2>1. e \notin applied
    BY <1>2 DEF WriteInv, PlaceInv
  <2> QED
    BY <1>2, <2>1, RefusalStep DEF Refuse, Settle
<1>3. ASSUME NEW e \in Envelopes, Submit(e) PROVE [Promise!Next]_<<applied, Heard>>
  BY <1>1, <1>2, <1>3 DEF Submit, Put, Told, store
<1>4. ASSUME NEW b \in Barriers, Barrier(b) PROVE [Promise!Next]_<<applied, Heard>>
  <2>1. b \in Envelopes
    BY EnvelopeAssumption
  <2> QED
    BY <1>1, <1>2, <1>4, <2>1 DEF Barrier, Put, Told, store
<1>5. ASSUME NEW e \in Envelopes, GiveUp(e) PROVE [Promise!Next]_<<applied, Heard>>
  BY <1>1, <1>5 DEF GiveUp, store
<1>6. ASSUME Get PROVE [Promise!Next]_<<applied, Heard>>
  <2> DEFINE e == Head(queue)
  <2>1. e = queue[1] /\ 1 \in 1..Len(queue) /\ e \in Envelopes
    BY <1>6 DEF Get, TypeOK
  <2>2. e \notin applied
    BY <2>1 DEF WriteInv, PlaceInv, OnItsWay
  <2>3. CASE UNCHANGED future
    BY <1>0, <1>6, <2>3 DEF Get, store
  <2>4. CASE future[e] = "pending" /\ Settle(e, "expired")
    BY <1>6, <2>1, <2>2, <2>4, RefusalStep DEF Get, Settle, Told, store
  <2> QED
    BY <1>6, <2>3, <2>4 DEF Get, SettlePending
<1>7. ASSUME Commit PROVE [Promise!Next]_<<applied, Heard>>
  BY <1>7, CommitStep DEF Commit, SettlePending, Settle
<1>8. ASSUME NEW succeeds \in BOOLEAN, Rollback(succeeds) PROVE [Promise!Next]_<<applied, Heard>>
  <2> DEFINE e == worker.env
  <2>1. e \in Envelopes /\ e \notin applied /\ UNCHANGED applied /\ SettlePending(e, "failed")
    BY <1>8, EnvelopeAssumption DEF Rollback, TypeOK, WriteInv, PlaceInv, OnItsWay, store
  <2>2. CASE UNCHANGED future
    BY <1>0, <2>1, <2>2
  <2>3. CASE future[e] = "pending" /\ Settle(e, "failed")
    BY <2>1, <2>3, RefusalStep DEF Settle, Told
  <2> QED
    BY <2>1, <2>2, <2>3 DEF SettlePending
<1>9. ASSUME NEW late \in BOOLEAN, StopCancels(late) PROVE [Promise!Next]_<<applied, Heard>>
  <2>1. UNCHANGED future /\ ((worker.pc = "commit" /\ CommitTx) \/ UNCHANGED applied)
    BY <1>9 DEF StopCancels, store
  <2> QED
    BY <1>0, <2>1, CommitStep
<1>10. ASSUME Restart PROVE [Promise!Next]_<<applied, Heard>>
  <2>1. /\ UNCHANGED applied
        /\ future' = [e \in Envelopes |-> IF future[e] = "pending" THEN "abandoned" ELSE future[e]]
    BY <1>10 DEF Restart, store
  <2>2. Heard' = Heard
    BY <2>1 DEF Heard, Told
  <2> QED
    BY <2>1, <2>2
<1>11. ASSUME Worker PROVE [Promise!Next]_<<applied, Heard>>
  BY <1>11, <1>0, <1>6, <1>7, <1>8
  DEF Worker, Begin, BeginFails, Execute, ExecuteRaises, CommitFails, Leave, store
<1> QED
  BY <1>0, <1>3, <1>4, <1>5, <1>9, <1>10, <1>11
  DEF Next, Expire, StopBegins, CloseWriter, vars, store

(***************************************************************************)
(* The write path implements ExactlyOnce, for every set of requests, keys  *)
(* and hashes, every capacity, and any number of faults and restarts.      *)
(***************************************************************************)
THEOREM WritePathKeepsPromise == Spec => KeepsPromise
<1>1. Init => Promise!Init
  BY DEF Init, Promise!Init, Heard, Told
<1> QED
  BY <1>1, PromiseStep, WritesCorrect, PTL DEF Spec, KeepsPromise, Promise!Spec
-----------------------------------------------------------------------------
(***************************************************************************)
(* The barrier.  The queue is what is left of the envelopes accepted since *)
(* the start, in their order; the one at hand is the last one taken, and   *)
(* those taken before it are settled or were given up.                     *)
(***************************************************************************)
Taken == Len(accepted) - Len(queue)

OrderInv ==
    /\ Len(queue) <= Len(accepted)
    /\ \A i \in 1..Len(queue) : queue[i] = accepted[Taken + i]
    /\ \A i, j \in 1..Len(accepted) : accepted[i] = accepted[j] => i = j
    /\ \A i \in 1..Len(accepted) : future[accepted[i]] # "new"
    /\ worker.env # NoEnvelope => Taken >= 1 /\ worker.env = accepted[Taken]
    /\ \A i \in 1..Len(accepted) :
         i < Taken \/ (i = Taken /\ worker.pc = "get") => future[accepted[i]] # "pending"

\* A transaction left open by a failed ROLLBACK holds nothing from before a returned barrier.
NothingHeldBack ==
    \A b \in Barriers : future[b] = "ok" => \A e \in Envelopes : Before(e, b) => e \notin tx.writes

LEMMA AcceptedType ==
    ASSUME TypeOK
    PROVE  /\ queue \in Seq(Envelopes) /\ accepted \in Seq(Envelopes)
           /\ Len(queue) \in Nat /\ Len(accepted) \in Nat
           /\ \A i \in 1..Len(accepted) : accepted[i] \in Envelopes
           /\ \A i \in 1..Len(queue) : queue[i] \in Envelopes
  BY DEF TypeOK

\* The order, when nothing is put or taken: Futures are settled, the worker goes on or rests.
LEMMA SameOrder ==
    ASSUME TypeOK, OrderInv, UNCHANGED <<queue, accepted>>,
           \A f \in Envelopes : /\ future'[f] = "new" => future[f] = "new"
                                /\ future'[f] = "pending" => future[f] = "pending",
           \/ worker'.env = worker.env /\ (worker'.pc = "get" => worker.pc = "get")
           \/ worker'.env = NoEnvelope /\ worker.env # NoEnvelope
              /\ (worker'.pc = "get" => future'[worker.env] # "pending")
    PROVE  OrderInv'
<1>1. Taken' = Taken
  BY DEF Taken
<1>2. \A i \in 1..Len(accepted) : accepted[i] \in Envelopes
  BY AcceptedType
<1>3. \A i \in 1..Len(accepted) : future'[accepted[i]] # "new"
  BY <1>2 DEF OrderInv
<1>4. \A i \in 1..Len(accepted) :
        i < Taken \/ (i = Taken /\ worker'.pc = "get") => future'[accepted[i]] # "pending"
  BY <1>2 DEF OrderInv
<1>5. worker'.env # NoEnvelope => Taken >= 1 /\ worker'.env = accepted[Taken]
  BY DEF OrderInv
<1> QED
  BY <1>1, <1>3, <1>4, <1>5 DEF OrderInv

LEMMA PutOrder ==
    ASSUME TypeOK, OrderInv, NEW e \in Envelopes, future[e] = "new", Put(e), UNCHANGED worker
    PROVE  OrderInv'
<1>1. /\ queue' = Append(queue, e) /\ accepted' = Append(accepted, e)
      /\ future' = [future EXCEPT ![e] = "pending"] /\ future \in [Envelopes -> Futures]
  BY DEF Put, Settle, TypeOK
<1>2. /\ Len(queue') = Len(queue) + 1 /\ Len(accepted') = Len(accepted) + 1
      /\ queue'[Len(queue) + 1] = e /\ accepted'[Len(accepted) + 1] = e
      /\ \A i \in 1..Len(queue) : queue'[i] = queue[i]
      /\ \A i \in 1..Len(accepted) : accepted'[i] = accepted[i]
  BY <1>1, AcceptedType
<1>n. Len(queue) \in Nat /\ Len(accepted) \in Nat /\ Len(queue) <= Len(accepted)
  BY AcceptedType DEF OrderInv
<1>t. Taken' = Taken /\ Taken \in Nat /\ Taken + Len(queue) = Len(accepted)
  BY <1>2, <1>n DEF Taken
<1>3. /\ \A i \in 1..Len(queue') : i = Len(queue) + 1 \/ i \in 1..Len(queue)
      /\ \A i \in 1..Len(accepted') : i = Len(accepted) + 1 \/ i \in 1..Len(accepted)
  BY <1>2, <1>n
<1>4. \A i \in 1..Len(accepted) : accepted[i] \in Envelopes /\ accepted[i] # e
  BY AcceptedType DEF OrderInv
<1>5. \A i \in 1..Len(queue') : queue'[i] = accepted'[Taken' + i]
  <2> TAKE i \in 1..Len(queue')
  <2>1. CASE i = Len(queue) + 1
    <3>1. Taken' + i = Len(accepted) + 1
      BY <2>1, <1>t, <1>n
    <3> QED
      BY <2>1, <3>1, <1>2
  <2>2. CASE i \in 1..Len(queue)
    <3>1. Taken + i \in 1..Len(accepted)
      BY <2>2, <1>t, <1>n
    <3> QED
      BY <2>2, <3>1, <1>2, <1>t DEF OrderInv
  <2> QED
    BY <2>1, <2>2, <1>3
<1>6. \A i, j \in 1..Len(accepted') : accepted'[i] = accepted'[j] => i = j
  BY <1>2, <1>3, <1>4 DEF OrderInv
<1>7. \A i \in 1..Len(accepted') : future'[accepted'[i]] # "new"
  BY <1>1, <1>2, <1>3, <1>4 DEF OrderInv
<1>8. worker.env # NoEnvelope => Taken >= 1 /\ worker.env = accepted'[Taken]
  <2>1. Taken >= 1 => Taken \in 1..Len(accepted)
    BY <1>t, <1>n
  <2> QED
    BY <2>1, <1>2 DEF OrderInv
<1>9. \A i \in 1..Len(accepted') :
        i < Taken \/ (i = Taken /\ worker.pc = "get") => future'[accepted'[i]] # "pending"
  <2> TAKE i \in 1..Len(accepted')
  <2> HAVE i < Taken \/ (i = Taken /\ worker.pc = "get")
  <2>1. i \in 1..Len(accepted)
    BY <1>3, <1>t, <1>n
  <2>2. accepted'[i] = accepted[i] /\ accepted[i] # e /\ accepted[i] \in Envelopes
    BY <2>1, <1>2, <1>4
  <2> QED
    BY <2>1, <2>2, <1>1 DEF OrderInv
<1> QED
  BY <1>2, <1>n, <1>t, <1>5, <1>6, <1>7, <1>8, <1>9 DEF OrderInv

LEMMA TakeOrder ==
    ASSUME TypeOK, OrderInv, Get
    PROVE  OrderInv'
<1> DEFINE e == Head(queue)
<1>1. /\ queue # << >> /\ queue' = Tail(queue) /\ accepted' = accepted
      /\ worker.pc = "get" /\ worker.env = NoEnvelope
  BY DEF Get, TypeOK
<1>n. Len(queue) \in Nat /\ Len(accepted) \in Nat /\ Len(queue) <= Len(accepted)
  BY AcceptedType DEF OrderInv
<1>2. /\ Len(queue') = Len(queue) - 1 /\ Len(queue) >= 1 /\ e = queue[1] /\ e \in Envelopes
      /\ \A i \in 1..Len(queue') : queue'[i] = queue[i + 1] /\ i + 1 \in 1..Len(queue)
  BY <1>1, AcceptedType
<1> HIDE DEF e
<1>t. Taken' = Taken + 1 /\ Taken \in Nat /\ Taken + Len(queue) = Len(accepted)
  BY <1>1, <1>2, <1>n DEF Taken
<1>3. accepted[Taken'] = e /\ Taken' \in 1..Len(accepted)
  BY <1>2, <1>t, <1>n DEF OrderInv
<1>4. \A i \in 1..Len(queue') : queue'[i] = accepted'[Taken' + i]
  <2> TAKE i \in 1..Len(queue')
  <2>1. queue'[i] = queue[i + 1] /\ i + 1 \in 1..Len(queue)
    BY <1>2
  <2>2. queue[i + 1] = accepted[Taken + (i + 1)] /\ Taken + (i + 1) = Taken' + i
    BY <2>1, <1>t DEF OrderInv
  <2> QED
    BY <2>1, <2>2, <1>1
<1>5. \/ worker'.env = e /\ worker'.pc = "begin" /\ future' = future
      \/ /\ worker' = worker /\ future'[e] # "pending"
         /\ \A f \in Envelopes : f # e => future'[f] = future[f]
         /\ future'[e] = "expired" \/ future' = future
  BY <1>2 DEF Get, Skipped, SettlePending, Settle, TypeOK, e
<1>6. \A i \in 1..Len(accepted) : accepted[i] \in Envelopes
  BY AcceptedType
<1>7. \A i \in 1..Len(accepted) : future'[accepted[i]] # "new"
  BY <1>5, <1>6 DEF OrderInv
<1>8. worker'.env # NoEnvelope => Taken' >= 1 /\ worker'.env = accepted[Taken']
  BY <1>1, <1>3, <1>5, <1>t
<1>9. \A i \in 1..Len(accepted) :
        i < Taken' \/ (i = Taken' /\ worker'.pc = "get") => future'[accepted[i]] # "pending"
  <2> TAKE i \in 1..Len(accepted)
  <2> HAVE i < Taken' \/ (i = Taken' /\ worker'.pc = "get")
  <2>1. CASE i = Taken'
    BY <2>1, <1>3, <1>5, <1>t
  <2>2. CASE i < Taken'
    <3>1. i < Taken \/ i = Taken
      BY <2>2, <1>t
    <3>2. future[accepted[i]] # "pending"
      BY <3>1, <1>1 DEF OrderInv
    <3> QED
      BY <3>2, <1>5, <1>6
  <2> QED
    BY <2>1, <2>2
<1> QED
  BY <1>1, <1>2, <1>n, <1>t, <1>4, <1>7, <1>8, <1>9 DEF OrderInv
LEMMA OrderStep == TypeOK /\ WriteInv /\ OrderInv /\ [Next]_vars => OrderInv'
<1> SUFFICES ASSUME TypeOK, WriteInv, OrderInv, [Next]_vars PROVE OrderInv'
  OBVIOUS
<1>f. future \in [Envelopes -> Futures]
  BY DEF TypeOK
<1>0. ASSUME UNCHANGED <<queue, accepted, worker>>,
             \A f \in Envelopes : /\ future'[f] = "new" => future[f] = "new"
                                  /\ future'[f] = "pending" => future[f] = "pending"
      PROVE  OrderInv'
  BY <1>0, SameOrder
<1>refuse. ASSUME NEW e \in Envelopes, NEW word \in Told, Refuse(e, word), UNCHANGED worker
           PROVE  OrderInv'
  BY <1>refuse, <1>0, <1>f DEF Refuse, Settle, Told
<1>1. ASSUME NEW e \in Envelopes, Submit(e) PROVE OrderInv'
  BY <1>1, <1>refuse, PutOrder DEF Submit, Told
<1>2. ASSUME NEW b \in Barriers, Barrier(b) PROVE OrderInv'
  <2>1. b \in Envelopes
    BY EnvelopeAssumption
  <2> QED
    BY <1>2, <2>1, <1>refuse, PutOrder DEF Barrier, Told
<1>3. ASSUME NEW e \in Envelopes, GiveUp(e) PROVE OrderInv'
  BY <1>3, <1>0, <1>f DEF GiveUp, Settle
<1>4. ASSUME Begin \/ BeginFails \/ Execute \/ ExecuteRaises \/ CommitFails PROVE OrderInv'
  <2>1. worker'.env = worker.env /\ worker'.pc # "get"
    BY <1>4 DEF Begin, BeginFails, Execute, ExecuteRaises, CommitFails, Goto, TypeOK
  <2>2. UNCHANGED <<queue, future, accepted>>
    BY <1>4 DEF Begin, BeginFails, Execute, ExecuteRaises, CommitFails
  <2> QED
    BY <2>1, <2>2, SameOrder
<1>5. ASSUME Commit \/ \E succeeds \in BOOLEAN : Rollback(succeeds) PROVE OrderInv'
  <2> DEFINE e == worker.env
  <2>1. e \in Envelopes /\ UNCHANGED <<queue, accepted>> /\ worker'.env = NoEnvelope
    BY <1>5 DEF Commit, Rollback, Resting, TypeOK
  <2>2. SettlePending(e, "ok") \/ SettlePending(e, "failed")
    BY <1>5 DEF Commit, Rollback
  <2>3. /\ future'[e] # "pending"
        /\ \A f \in Envelopes : /\ future'[f] = "new" => future[f] = "new"
                                /\ future'[f] = "pending" => future[f] = "pending"
    BY <1>f, <2>1, <2>2 DEF SettlePending, Settle
  <2>4. e # NoEnvelope
    BY <2>1, EnvelopeAssumption
  <2> QED
    BY <2>1, <2>3, <2>4, SameOrder
<1>6. ASSUME Leave PROVE OrderInv'
  <2>1. worker'.env = worker.env /\ worker'.pc = "gone"
    BY <1>6 DEF Leave, Resting, TypeOK
  <2> QED
    BY <1>6, <2>1, SameOrder DEF Leave
<1>7. ASSUME NEW late \in BOOLEAN, StopCancels(late) PROVE OrderInv'
  <2>1. worker'.env = NoEnvelope /\ worker'.pc = "gone" /\ UNCHANGED <<queue, accepted, future>>
    BY <1>7 DEF StopCancels, Resting
  <2> QED
    BY <2>1, SameOrder
<1>8. ASSUME Restart PROVE OrderInv'
  <2>1. Len(queue') = 0 /\ Len(accepted') = 0 /\ worker'.env = NoEnvelope
    BY <1>8 DEF Restart, Resting
  <2> QED
    BY <2>1 DEF OrderInv, Taken
<1>9. ASSUME Worker PROVE OrderInv'
  BY <1>9, <1>4, <1>5, <1>6, TakeOrder DEF Worker
<1>10. ASSUME UNCHANGED <<queue, accepted, worker, future>> PROVE OrderInv'
  BY <1>10, <1>0
<1> QED
  BY <1>1, <1>2, <1>3, <1>7, <1>8, <1>9, <1>10 DEF Next, Expire, StopBegins, CloseWriter, vars

\* A returned barrier is behind the envelope at hand, and so is what was put before it.
LEMMA BehindBarrier ==
    ASSUME TypeOK, WriteInv, OrderInv, NEW b \in Barriers, future[b] = "ok",
           NEW e \in Envelopes, Before(e, b)
    PROVE  future[e] # "pending" /\ worker.env # e
<1>1. PICK i, j \in 1..Len(accepted) : i < j /\ accepted[i] = e /\ accepted[j] = b
  BY DEF Before
<1>n. Len(queue) \in Nat /\ Len(accepted) \in Nat /\ Len(queue) <= Len(accepted)
  BY AcceptedType DEF OrderInv
<1>t. Taken \in Nat /\ Taken + Len(queue) = Len(accepted)
  BY <1>n DEF Taken
<1>2. j <= Taken
  <2> SUFFICES ASSUME j > Taken PROVE FALSE
    BY <1>t, <1>1
  <2>1. j - Taken \in 1..Len(queue) /\ Taken + (j - Taken) = j
    BY <1>1, <1>t, <1>n
  <2>2. queue[j - Taken] = b
    BY <1>1, <2>1 DEF OrderInv
  <2> QED
    BY <2>1, <2>2 DEF WriteInv, PlaceInv, OnItsWay
<1>3. i < Taken
  BY <1>1, <1>2, <1>t, <1>n
<1>4. future[e] # "pending"
  BY <1>1, <1>3 DEF OrderInv
<1>5. worker.env = e => FALSE
  <2> SUFFICES ASSUME worker.env = e PROVE FALSE
    OBVIOUS
  <2>1. accepted[Taken] = accepted[i] /\ Taken \in 1..Len(accepted)
    BY <1>1, <1>3, <1>t, <1>n, EnvelopeAssumption DEF OrderInv
  <2> QED
    BY <1>1, <1>3, <2>1, <1>t DEF OrderInv
<1> QED
  BY <1>4, <1>5

LEMMA HeldStep ==
    TypeOK /\ WriteInv /\ OrderInv /\ NothingHeldBack /\ [Next]_vars => NothingHeldBack'
<1> SUFFICES ASSUME TypeOK, WriteInv, OrderInv, NothingHeldBack, [Next]_vars,
                    NEW b \in Barriers, future'[b] = "ok", NEW e \in Envelopes, Before(e, b)'
             PROVE  e \notin tx'.writes
  BY DEF NothingHeldBack
<1>b. b \in Envelopes /\ future \in [Envelopes -> Futures]
  BY EnvelopeAssumption DEF TypeOK
<1>0. ASSUME future[b] = "ok", accepted' = accepted, tx'.writes \subseteq tx.writes \cup {worker.env}
      PROVE  e \notin tx'.writes
  <2>1. Before(e, b)
    BY <1>0 DEF Before
  <2> QED
    BY <1>0, <2>1, BehindBarrier DEF NothingHeldBack
<1>closed. ASSUME tx' = Closed PROVE e \notin tx'.writes
  BY <1>closed DEF Closed
<1>same. ASSUME UNCHANGED <<future, accepted, tx>> PROVE e \notin tx'.writes
  BY <1>same, <1>0
<1>put. ASSUME NEW x \in Envelopes, future[x] = "new", Put(x), UNCHANGED tx PROVE e \notin tx'.writes
  <2>1. accepted' = Append(accepted, x) /\ future' = [future EXCEPT ![x] = "pending"]
    BY <1>put DEF Put, Settle
  <2>2. b # x /\ future[b] = "ok"
    BY <1>b, <2>1
  <2>3. PICK i, j \in 1..Len(accepted') : i < j /\ accepted'[i] = e /\ accepted'[j] = b
    BY DEF Before
  <2>4. /\ Len(accepted) \in Nat /\ Len(accepted') = Len(accepted) + 1
        /\ accepted'[Len(accepted) + 1] = x
        /\ \A k \in 1..Len(accepted) : accepted'[k] = accepted[k]
    BY <2>1, AcceptedType
  <2>5. i \in 1..Len(accepted) /\ j \in 1..Len(accepted)
    BY <2>2, <2>3, <2>4
  <2>6. Before(e, b)
    BY <2>3, <2>4, <2>5 DEF Before
  <2> QED
    BY <1>put, <2>2, <2>6 DEF NothingHeldBack
<1>word. ASSUME NEW x \in Envelopes, NEW word \in Futures \ {"ok"}, Settle(x, word), UNCHANGED <<accepted, tx>>
         PROVE  e \notin tx'.writes
  <2>1. future[b] = "ok"
    BY <1>b, <1>word DEF Settle
  <2> QED
    BY <1>word, <1>0, <2>1
<1>1. ASSUME NEW x \in Envelopes, Submit(x) PROVE e \notin tx'.writes
  BY <1>1, <1>put, <1>word DEF Submit, Refuse, Futures, Told
<1>2. ASSUME NEW x \in Barriers, Barrier(x) PROVE e \notin tx'.writes
  <2>1. x \in Envelopes
    BY EnvelopeAssumption
  <2> QED
    BY <1>2, <2>1, <1>put, <1>word DEF Barrier, Refuse, Futures, Told
<1>3. ASSUME NEW x \in Envelopes, GiveUp(x) PROVE e \notin tx'.writes
  BY <1>3, <1>word DEF GiveUp, Futures
<1>4. ASSUME Get PROVE e \notin tx'.writes
  <2>1. Head(queue) \in Envelopes /\ UNCHANGED <<accepted, tx>>
    BY <1>4, AcceptedType DEF Get
  <2>2. Settle(Head(queue), "expired") \/ UNCHANGED future
    BY <1>4 DEF Get, SettlePending
  <2> QED
    BY <2>1, <2>2, <1>word, <1>same DEF Futures, Told
<1>5. ASSUME Begin \/ Execute \/ ExecuteRaises PROVE e \notin tx'.writes
  <2>t. tx \in [open : BOOLEAN, writes : SUBSET Envelopes, row : Envelopes \cup {NoRow}]
    BY DEF TypeOK
  <2>1. CASE Begin
    <3>1. tx'.writes = tx.writes
      BY <2>t, <2>1 DEF Begin
    <3> QED
      BY <1>0, <2>1, <3>1 DEF Begin
  <2>2. CASE Execute
    <3>1. tx'.writes \subseteq tx.writes \cup {worker.env}
      BY <2>t, <2>2 DEF Execute
    <3> QED
      BY <1>0, <2>2, <3>1 DEF Execute
  <2>3. CASE ExecuteRaises
    <3>1. tx'.writes \subseteq tx.writes \cup {worker.env}
      BY <2>t, <2>3 DEF ExecuteRaises
    <3> QED
      BY <1>0, <2>3, <3>1 DEF ExecuteRaises
  <2> QED
    BY <1>5, <2>1, <2>2, <2>3
<1>6. ASSUME NEW succeeds \in BOOLEAN, Rollback(succeeds) PROVE e \notin tx'.writes
  <2>1. worker.env \in Envelopes /\ accepted' = accepted /\ (tx' = Closed \/ tx' = tx)
    BY <1>6 DEF Rollback, TypeOK
  <2>2. Settle(worker.env, "failed") \/ UNCHANGED future
    BY <1>6 DEF Rollback, SettlePending
  <2> QED
    BY <2>1, <2>2, <1>word, <1>same, <1>closed DEF Futures, Told
<1>7. ASSUME Worker PROVE e \notin tx'.writes
  BY <1>7, <1>4, <1>5, <1>6, <1>closed, <1>same
  DEF Worker, BeginFails, Commit, CommitTx, CommitFails, Leave
<1>8. ASSUME NEW late \in BOOLEAN, StopCancels(late) PROVE e \notin tx'.writes
  BY <1>8, <1>closed, <1>same DEF StopCancels, CommitTx
<1> QED
  BY <1>1, <1>2, <1>3, <1>7, <1>8, <1>closed, <1>same
  DEF Next, Expire, StopBegins, CloseWriter, Restart, vars

(***************************************************************************)
(* A barrier that returned stands behind everything put before it: each is *)
(* settled or given up, none is at hand, and no transaction left open by   *)
(* a fault holds a write of theirs; for every capacity, number of writers, *)
(* faults and restarts.                                                    *)
(***************************************************************************)
THEOREM BarriersDrain == Spec => []BarrierMeansDrained
<1>1. Init => OrderInv /\ NothingHeldBack
  <2> SUFFICES ASSUME Init PROVE OrderInv /\ NothingHeldBack
    OBVIOUS
  <2>1. Len(queue) = 0 /\ Len(accepted) = 0 /\ worker.env = NoEnvelope /\ tx.writes = {}
    BY DEF Init, Resting, Closed
  <2> QED
    BY <2>1 DEF OrderInv, Taken, NothingHeldBack
<1>2. TypeOK /\ WriteInv /\ OrderInv /\ NothingHeldBack /\ [Next]_vars => (OrderInv /\ NothingHeldBack)'
  BY OrderStep, HeldStep
<1>3. TypeOK /\ WriteInv /\ OrderInv /\ NothingHeldBack => BarrierMeansDrained
  BY BehindBarrier DEF BarrierMeansDrained, NothingHeldBack
<1> QED
  BY <1>1, <1>2, <1>3, WritesCorrect, PTL DEF Spec
=============================================================================
