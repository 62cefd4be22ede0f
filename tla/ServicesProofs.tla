--------------------------- MODULE ServicesProofs ---------------------------
(***************************************************************************)
(* Services of the Sidecar, for any number of calls, connections, frames   *)
(* and reverse calls, and for any routing policy: the model broker, the    *)
(* RPC server and the routed model transport.                              *)
(***************************************************************************)
EXTENDS ModelBroker, SidecarServer, Routing, WellFoundedInduction, TLAPS

-----------------------------------------------------------------------------
(* ModelBroker. *)

Entry == [known : BOOLEAN, id : BOOLEAN, cancel : BOOLEAN, sent : BOOLEAN]

Stages == {"idle", "starting", "recording", "cancelling", "telling", "collecting",
           "withdrawing", "over"}

BrokerTypeOK ==
    /\ call \in [Calls -> Stages]
    /\ active \in [Calls -> Entry]
    /\ http \in [Calls -> {"none", "connecting", "running", "stopping", "done"}]
    /\ toTell \in [Cancellers -> SUBSET Calls]

\* A cancel that was marked as sent has arrived, is on its way, will be sent, or
\* is known to be lost.
Accounted(q) ==
    \/ q \in told \/ http[q] \in {"stopping", "done"} \/ q \in missed
    \/ \E k \in Cancellers : q \in toTell[k]

\* The entry of a request follows its coroutine.
EntryFollows(q) ==
    /\ call[q] \in {"idle", "over"} => active[q] = NoEntry
    /\ call[q] \in {"starting", "recording"} =>
          active[q].known /\ ~active[q].id /\ ~active[q].sent
    /\ call[q] \in {"cancelling", "telling", "collecting"} => active[q].known /\ active[q].id
    /\ call[q] = "withdrawing" => active[q].known
    /\ call[q] = "recording" \/ active[q].id => http[q] # "none"
    /\ active[q].sent => active[q].id /\ Accounted(q)
    /\ call[q] \in {"telling", "collecting"} /\ active[q].cancel => active[q].sent

BrokerInv == BrokerTypeOK /\ \A q \in Calls : EntryFollows(q)

LEMMA EntryFacts ==
    /\ NoEntry \in Entry /\ ~NoEntry.known /\ ~NoEntry.id /\ ~NoEntry.cancel /\ ~NoEntry.sent
    /\ LET e == [NoEntry EXCEPT !.known = TRUE]
       IN  e \in Entry /\ e.known /\ ~e.id /\ ~e.cancel /\ ~e.sent
    /\ \A e \in Entry : LET d == [e EXCEPT !.id = TRUE]
                        IN  /\ d \in Entry /\ d.id /\ (d.known <=> e.known)
                            /\ (d.cancel <=> e.cancel) /\ (d.sent <=> e.sent)
<1>1. NoEntry \in Entry /\ ~NoEntry.known /\ ~NoEntry.id /\ ~NoEntry.cancel /\ ~NoEntry.sent
  BY DEF NoEntry, Entry
<1>2. LET e == [NoEntry EXCEPT !.known = TRUE]
      IN  e \in Entry /\ e.known /\ ~e.id /\ ~e.cancel /\ ~e.sent
  BY DEF NoEntry, Entry
<1>3. \A e \in Entry : LET d == [e EXCEPT !.id = TRUE]
                       IN  /\ d \in Entry /\ d.id /\ (d.known <=> e.known)
                           /\ (d.cancel <=> e.cancel) /\ (d.sent <=> e.sent)
  BY DEF Entry
<1> QED
  BY <1>1, <1>2, <1>3

Marked(e, c, s) == [e EXCEPT !.cancel = @ \/ c, !.sent = @ \/ s]

LEMMA MarkedFacts ==
    ASSUME NEW e \in Entry, NEW c \in BOOLEAN, NEW s \in BOOLEAN
    PROVE  /\ Marked(e, c, s) \in Entry
           /\ Marked(e, c, s).known = e.known /\ Marked(e, c, s).id = e.id
           /\ Marked(e, c, s).cancel <=> (e.cancel \/ c)
           /\ Marked(e, c, s).sent <=> (e.sent \/ s)
<1> DEFINE c1 == e.cancel \/ c
           s1 == e.sent \/ s
<1>1. c1 \in BOOLEAN /\ s1 \in BOOLEAN
  OBVIOUS
<1>2. Marked(e, c, s) = [e EXCEPT !.cancel = c1, !.sent = s1]
  BY DEF Marked
<1> HIDE DEF c1, s1
<1>3. /\ Marked(e, c, s) \in Entry
      /\ Marked(e, c, s).known = e.known /\ Marked(e, c, s).id = e.id
      /\ Marked(e, c, s).cancel = c1 /\ Marked(e, c, s).sent = s1
  BY <1>1, <1>2 DEF Entry
<1> QED
  BY <1>3 DEF c1, s1

\* A request of which a step changes nothing but what the host knows.
LEMMA EntryKept ==
    ASSUME NEW q \in Calls, EntryFollows(q), call'[q] = call[q], active'[q] = active[q],
           active[q].sent => Accounted(q)', http[q] # "none" => http'[q] # "none"
    PROVE  EntryFollows(q)'
BY DEF EntryFollows

\* What keeps a cancel accounted for: no knowledge of it goes.
LEMMA AccountedKept ==
    ASSUME NEW q \in Calls, Accounted(q), q \in told => q \in told', q \in missed => q \in missed',
           http[q] \in {"stopping", "done"} => http'[q] \in {"stopping", "done"},
           \A k \in Cancellers : q \in toTell[k] => q \in toTell'[k] \/ q \in told' \/ q \in missed'
    PROVE  Accounted(q)'
BY DEF Accounted

LEMMA BrokerStep ==
    ASSUME BrokerInv, [BrokerNext]_brokerVars
    PROVE  BrokerInv'
<1>0. BrokerTypeOK /\ \A q \in Calls : EntryFollows(q)
  BY DEF BrokerInv
<1>a. \A q \in Calls : active[q].sent => Accounted(q)
  BY <1>0 DEF EntryFollows
<1>1. CASE UNCHANGED brokerVars
  BY <1>0, <1>1 DEF brokerVars, BrokerInv, BrokerTypeOK, EntryFollows, Accounted
\* One request moves, and no knowledge of a cancel goes.
<1>2. ASSUME NEW q \in Calls, NEW stage \in Stages, NEW e \in Entry,
             call' = [call EXCEPT ![q] = stage], active' = [active EXCEPT ![q] = e],
             http' = http, told \subseteq told', missed \subseteq missed',
             toTell' \in [Cancellers -> SUBSET Calls],
             \A k \in Cancellers : \A p \in toTell[k] : p \in toTell'[k] \/ p \in told' \/ p \in missed',
             Accounted(q)' => EntryFollows(q)', ~active'[q].sent => EntryFollows(q)',
             active'[q].sent => active[q].sent
      PROVE  BrokerInv'
  <2>1. /\ BrokerTypeOK' /\ call'[q] = stage /\ active'[q] = e
        /\ \A p \in Calls \ {q} : call'[p] = call[p] /\ active'[p] = active[p]
    BY <1>0, <1>2 DEF BrokerTypeOK
  <2>2. \A p \in Calls : active[p].sent => Accounted(p)'
    BY <1>a, <1>2, AccountedKept
  <2>3. EntryFollows(q)'
    BY <1>2, <2>2
  <2>4. \A p \in Calls \ {q} : EntryFollows(p)'
    BY <1>0, <1>2, <2>1, <2>2, EntryKept
  <2> QED
    BY <2>1, <2>3, <2>4 DEF BrokerInv
\* The coroutine of q ends, and its entry goes.
<1>3. ASSUME NEW q \in Calls, call' = [call EXCEPT ![q] = "over"],
             active' = [active EXCEPT ![q] = NoEntry], http' = http,
             told \subseteq told', missed \subseteq missed', toTell' \in [Cancellers -> SUBSET Calls],
             \A k \in Cancellers : \A p \in toTell[k] : p \in toTell'[k] \/ p \in told' \/ p \in missed'
      PROVE  BrokerInv'
  <2>1. EntryFollows(q)' /\ ~active'[q].sent
    BY <1>0, <1>3, EntryFacts DEF EntryFollows, BrokerTypeOK
  <2> QED
    BY <1>2, <1>3, <2>1, EntryFacts DEF Stages
\* The coroutine of q goes on with its entry as it is.
<1>4. ASSUME NEW q \in Calls, NEW stage \in Stages, call' = [call EXCEPT ![q] = stage],
             UNCHANGED <<active, http>>,
             told \subseteq told', missed \subseteq missed', toTell' \in [Cancellers -> SUBSET Calls],
             \A k \in Cancellers : \A p \in toTell[k] : p \in toTell'[k] \/ p \in told' \/ p \in missed',
             \/ stage = "recording" /\ call[q] = "starting" /\ http[q] # "none"
             \/ stage = "collecting" /\ call[q] = "telling"
             \/ stage = "withdrawing" /\ call[q] \in {"recording", "telling", "collecting"}
      PROVE  BrokerInv'
  <2>1. /\ active' = [active EXCEPT ![q] = active[q]] /\ active[q] \in Entry
        /\ call'[q] = stage /\ active'[q] = active[q] /\ EntryFollows(q)
    BY <1>0, <1>4 DEF BrokerTypeOK
  <2>2. Accounted(q)' => EntryFollows(q)'
    BY <1>4, <2>1 DEF EntryFollows
  <2>3. ~active'[q].sent => EntryFollows(q)'
    BY <1>4, <2>1 DEF EntryFollows
  <2> QED
    BY <1>2, <1>4, <2>1, <2>2, <2>3
\* No coroutine moves.
<1>5. ASSUME UNCHANGED <<call, active>>, BrokerTypeOK',
             \A p \in Calls : active[p].sent => Accounted(p)',
             \A p \in Calls : http[p] # "none" => http'[p] # "none"
      PROVE  BrokerInv'
  BY <1>0, <1>5, EntryKept DEF BrokerInv
<1>6. ASSUME NEW q \in Calls, StartCall(q)
      PROVE  BrokerInv'
  <2> DEFINE e == [NoEntry EXCEPT !.known = TRUE]
  <2>1. e \in Entry /\ e.known /\ ~e.id /\ ~e.cancel /\ ~e.sent
    BY EntryFacts
  <2>2. /\ call' = [call EXCEPT ![q] = "starting"] /\ active' = [active EXCEPT ![q] = e]
        /\ UNCHANGED <<http, told, toTell, missed>> /\ toTell \in [Cancellers -> SUBSET Calls]
    BY <1>0, <1>6 DEF StartCall, BrokerTypeOK
  <2> HIDE DEF e
  <2>3. EntryFollows(q)' /\ ~active'[q].sent
    BY <1>0, <2>1, <2>2 DEF EntryFollows, BrokerTypeOK
  <2> QED
    BY <1>2, <2>1, <2>2, <2>3 DEF Stages
<1>7. ASSUME NEW q \in Calls, SetRequestId(q)
      PROVE  BrokerInv'
  <2> DEFINE e == [active[q] EXCEPT !.id = TRUE]
             c == IF active[q].cancel THEN "cancelling" ELSE "collecting"
  <2>1. active[q] \in Entry
    BY <1>0 DEF BrokerTypeOK
  <2>2. /\ e \in Entry /\ e.id /\ (e.known <=> active[q].known)
        /\ (e.cancel <=> active[q].cancel) /\ (e.sent <=> active[q].sent)
    BY <2>1, EntryFacts
  <2>3. /\ call[q] = "recording" /\ call' = [call EXCEPT ![q] = c]
        /\ active' = [active EXCEPT ![q] = e] /\ UNCHANGED <<http, told, toTell, missed>>
        /\ toTell \in [Cancellers -> SUBSET Calls]
    BY <1>0, <1>7 DEF SetRequestId, BrokerTypeOK
  <2> HIDE DEF e
  <2>4. call'[q] = c /\ active'[q] = e
    BY <1>0, <2>3 DEF BrokerTypeOK
  <2>5. EntryFollows(q)' /\ ~active'[q].sent
    BY <1>0, <2>2, <2>3, <2>4 DEF EntryFollows
  <2>6. c \in Stages
    BY DEF Stages
  <2> HIDE DEF c
  <2> QED
    BY <1>2, <2>2, <2>3, <2>5, <2>6
\* All requests of the run are marked, and those with an id are to be told.
<1>8. ASSUME NEW k \in Cancellers, MarkRequests(k), call' \in [Calls -> Stages],
             \A p \in Calls : call'[p] = call[p] \/ (call[p] = "cancelling" /\ call'[p] = "telling")
      PROVE  BrokerInv'
  <2>1. /\ toTell' = [toTell EXCEPT ![k] = @ \union ToCancel] /\ UNCHANGED <<http, told, missed>>
        /\ active' = [q \in Calls |-> Marked(active[q], active[q].known, q \in ToCancel)]
    BY <1>8 DEF MarkRequests, Marked
  <2>2. ASSUME NEW p \in Calls
        PROVE  /\ active'[p] \in Entry
               /\ active'[p].known = active[p].known /\ active'[p].id = active[p].id
               /\ active'[p].cancel <=> (active[p].cancel \/ active[p].known)
               /\ active'[p].sent <=> (active[p].sent \/ p \in ToCancel)
    <3>1. active[p] \in Entry /\ active[p].known \in BOOLEAN /\ (p \in ToCancel) \in BOOLEAN
      BY <1>0 DEF BrokerTypeOK, Entry
    <3>2. PICK b \in BOOLEAN, c \in BOOLEAN : b = active[p].known /\ c = (p \in ToCancel)
      BY <3>1
    <3>3. active'[p] = Marked(active[p], b, c)
      BY <2>1, <3>2
    <3>4. /\ active'[p] \in Entry
          /\ active'[p].known = active[p].known /\ active'[p].id = active[p].id
          /\ active'[p].cancel <=> (active[p].cancel \/ b)
          /\ active'[p].sent <=> (active[p].sent \/ c)
      <4>1. active[p] \in Entry
        BY <3>1
      <4>2. /\ Marked(active[p], b, c) \in Entry
            /\ Marked(active[p], b, c).known = active[p].known
            /\ Marked(active[p], b, c).id = active[p].id
            /\ Marked(active[p], b, c).cancel <=> (active[p].cancel \/ b)
            /\ Marked(active[p], b, c).sent <=> (active[p].sent \/ c)
        BY <4>1, MarkedFacts, Zenon
      <4> QED
        BY <3>3, <4>2, Zenon
    <3> QED
      BY <3>2, <3>4
  <2>3. /\ ToCancel \in SUBSET Calls /\ toTell' \in [Cancellers -> SUBSET Calls] /\ ToCancel \subseteq toTell'[k]
        /\ \A m \in Cancellers : toTell[m] \subseteq toTell'[m]
    BY <1>0, <2>1 DEF BrokerTypeOK, ToCancel
  <2>4. BrokerTypeOK'
    <3>1. active' \in [Calls -> Entry]
      BY <2>1, <2>2
    <3> QED
      BY <1>0, <1>8, <2>1, <2>3, <3>1 DEF BrokerTypeOK
  <2>5. \A p \in Calls : active'[p].sent => Accounted(p)'
    <3>1. \A p \in ToCancel : Accounted(p)'
      BY <2>3 DEF Accounted
    <3>2. \A p \in Calls : active[p].sent => Accounted(p)'
      BY <1>8, <1>a, <2>1, <2>3, AccountedKept
    <3> QED
      BY <2>2, <3>1, <3>2
  <2>6. ASSUME NEW p \in Calls
        PROVE  EntryFollows(p)'
    <3>1. p \in ToCancel <=> (active[p].known /\ active[p].id /\ ~active[p].sent)
      BY DEF ToCancel
    <3>2. CASE call[p] \in {"idle", "over"}
      <4>1. active[p] = NoEntry /\ call'[p] = call[p]
        BY <1>0, <1>8, <3>2 DEF EntryFollows
      <4>2. active'[p] = NoEntry
        <5>1. active'[p] \in Entry /\ ~active'[p].known /\ ~active'[p].id /\ ~active'[p].cancel
              /\ ~active'[p].sent
          BY <2>2, <3>1, <4>1, EntryFacts
        <5> QED
          BY <5>1 DEF Entry, NoEntry
      <4> QED
        BY <3>2, <4>1, <4>2, EntryFacts DEF EntryFollows
    <3>3. CASE call[p] \notin {"idle", "over"}
      <4>1. /\ EntryFollows(p) /\ http' = http
            /\ call'[p] = call[p] \/ (call[p] = "cancelling" /\ call'[p] = "telling")
        BY <1>0, <1>8, <2>1
      <4>2. call[p] \in Stages
        BY <1>0 DEF BrokerTypeOK
      <4> QED
        BY <2>2, <2>5, <3>1, <3>3, <4>1, <4>2 DEF EntryFollows, Stages
    <3> QED
      BY <3>2, <3>3
  <2> QED
    BY <2>4, <2>6 DEF BrokerInv
<1>9. CASE UserCancels
  BY <1>0, <1>8, <1>9 DEF UserCancels, BrokerTypeOK, Cancellers
<1>10. ASSUME NEW q \in Calls, CancelsItself(q)
       PROVE  BrokerInv'
  <2>1. q \in Cancellers
    BY DEF Cancellers
  <2>2. /\ call' \in [Calls -> Stages]
        /\ \A p \in Calls : call'[p] = call[p] \/ (call[p] = "cancelling" /\ call'[p] = "telling")
    BY <1>0, <1>10 DEF BrokerTypeOK, CancelsItself, Stages
  <2> QED
    BY <1>8, <1>10, <2>1, <2>2 DEF CancelsItself
<1>11. ASSUME NEW k \in Cancellers, NEW q \in Calls, TellHost(k, q)
       PROVE  BrokerInv'
  <2>1. /\ UNCHANGED <<call, active, http, missed>> /\ told' = told \union {q}
        /\ toTell' = [toTell EXCEPT ![k] = @ \ {q}]
    BY <1>11 DEF TellHost
  <2>2. BrokerTypeOK'
    BY <1>0, <2>1 DEF BrokerTypeOK
  <2>3. \A m \in Cancellers : \A p \in toTell[m] : p \in toTell'[m] \/ p \in told'
    BY <1>0, <2>1 DEF BrokerTypeOK
  <2>4. \A p \in Calls : active[p].sent => Accounted(p)'
    BY <1>a, <2>1, <2>3, AccountedKept
  <2> QED
    BY <1>5, <2>1, <2>2, <2>4
<1>12. ASSUME NEW k \in Cancellers, TellFails(k)
       PROVE  BrokerInv'
  <2>1. /\ UNCHANGED <<active, http, told>> /\ missed' = missed \union toTell[k]
        /\ toTell' = [toTell EXCEPT ![k] = {}]
    BY <1>12 DEF TellFails
  <2>2. /\ toTell' \in [Cancellers -> SUBSET Calls]
        /\ \A m \in Cancellers : \A p \in toTell[m] : p \in toTell'[m] \/ p \in told' \/ p \in missed'
    BY <1>0, <2>1 DEF BrokerTypeOK
  <2>3. CASE k = RunKey
    <3>1. call' = call
      BY <1>12, <2>3 DEF TellFails
    <3>2. BrokerTypeOK'
      BY <1>0, <2>1, <2>2, <3>1 DEF BrokerTypeOK
    <3>3. \A p \in Calls : active[p].sent => Accounted(p)'
      BY <1>a, <2>1, <2>2, AccountedKept
    <3> QED
      BY <1>5, <2>1, <3>1, <3>2, <3>3
  <2>4. CASE k # RunKey
    <3>1. k \in Calls /\ call[k] = "telling" /\ call' = [call EXCEPT ![k] = "withdrawing"]
      BY <1>12, <2>4 DEF TellFails, Fails, Cancellers
    <3> QED
      BY <1>4, <2>1, <2>2, <3>1 DEF Stages
  <2> QED
    BY <2>3, <2>4
<1>13. ASSUME NEW q \in Calls,
              \/ StartReturned(q) \/ RecordingFailed(q) \/ ToldAll(q) \/ CollectFails(q)
       PROVE  BrokerInv'
  <2>1. /\ UNCHANGED <<active, http, told, toTell, missed>> /\ toTell \in [Cancellers -> SUBSET Calls]
    BY <1>0, <1>13 DEF StartReturned, RecordingFailed, ToldAll, CollectFails, BrokerTypeOK
  <2>2. PICK stage \in Stages :
          /\ call' = [call EXCEPT ![q] = stage]
          /\ \/ stage = "recording" /\ call[q] = "starting" /\ http[q] # "none"
             \/ stage = "collecting" /\ call[q] = "telling"
             \/ stage = "withdrawing" /\ call[q] \in {"recording", "telling", "collecting"}
    BY <1>13 DEF StartReturned, RecordingFailed, ToldAll, CollectFails, Fails, Stages
  <2> QED
    BY <1>4, <2>1, <2>2
<1>14. ASSUME NEW q \in Calls, Collect(q)
       PROVE  BrokerInv'
  <2>0. /\ UNCHANGED <<http, told, toTell, missed>> /\ call[q] = "collecting"
        /\ toTell \in [Cancellers -> SUBSET Calls]
    BY <1>0, <1>14 DEF Collect, BrokerTypeOK
  <2>1. CASE /\ call' = [call EXCEPT ![q] = "over"] /\ active' = [active EXCEPT ![q] = NoEntry]
    BY <1>3, <2>0, <2>1
  <2>2. CASE Fails(q) /\ UNCHANGED active
    BY <1>4, <2>0, <2>2 DEF Fails, Stages
  <2>3. CASE UNCHANGED <<call, active>>
    <3>1. BrokerTypeOK' /\ \A p \in Calls : EntryFollows(p)'
      BY <1>0, <2>0, <2>3 DEF BrokerTypeOK, EntryFollows, Accounted
    <3> QED
      BY <3>1 DEF BrokerInv
  <2> QED
    BY <1>14, <2>1, <2>2, <2>3 DEF Collect
<1>15. ASSUME NEW q \in Calls,
              StartFailed(q) \/ TaskCancel(q) \/ \E tells \in BOOLEAN : Withdraw(q, tells)
       PROVE  BrokerInv'
  <2>1. /\ call' = [call EXCEPT ![q] = "over"] /\ active' = [active EXCEPT ![q] = NoEntry]
        /\ http' = http /\ told \subseteq told' /\ missed \subseteq missed'
    BY <1>15 DEF StartFailed, TaskCancel, Withdraw
  <2>2. toTell' = toTell \/ (toTell' = [toTell EXCEPT ![q] = {}] /\ missed' = missed \union toTell[q])
    BY <1>15 DEF StartFailed, TaskCancel, Withdraw
  <2>3. /\ toTell' \in [Cancellers -> SUBSET Calls]
        /\ \A k \in Cancellers : \A p \in toTell[k] : p \in toTell'[k] \/ p \in told' \/ p \in missed'
    BY <1>0, <2>2 DEF BrokerTypeOK
  <2> QED
    BY <1>3, <2>1, <2>3
<1>16. ASSUME NEW q \in Calls,
              \/ HttpStart(q) \/ Responds(q) \/ HttpDeadline(q)
              \/ \E kind \in Terminal \union {"delta"} : HttpEvent(q, kind)
       PROVE  BrokerInv'
  <2>1. /\ UNCHANGED <<call, active, told, toTell, missed>> /\ BrokerTypeOK'
        /\ \A p \in Calls : /\ http[p] # "none" => http'[p] # "none"
                            /\ http[p] \in {"stopping", "done"} => http'[p] \in {"stopping", "done"}
    BY <1>0, <1>16 DEF HttpStart, StartRequest, Responds, HttpDeadline, HttpEvent, BrokerTypeOK
  <2>2. \A p \in Calls : active[p].sent => Accounted(p)'
    BY <1>a, <2>1, AccountedKept
  <2> QED
    BY <1>5, <2>1, <2>2
<1>17. ASSUME NEW q \in Calls, HttpCancel(q) \/ HttpCancelLost(q)
       PROVE  BrokerInv'
  <2>1. /\ UNCHANGED <<call, active, toTell>> /\ BrokerTypeOK' /\ told' = told \ {q}
        /\ missed \subseteq missed'
        /\ \A p \in Calls : /\ http[p] # "none" => http'[p] # "none"
                            /\ http[p] \in {"stopping", "done"} => http'[p] \in {"stopping", "done"}
        /\ http'[q] \in {"stopping", "done", "none"} \/ q \in missed'
    BY <1>0, <1>17 DEF HttpCancel, HttpCancelLost, BrokerTypeOK
  <2>2. active[q].sent => http[q] # "none"
    BY <1>0 DEF EntryFollows
  <2>3. active[q].sent => Accounted(q)'
    BY <2>1, <2>2 DEF Accounted
  <2>4. \A p \in Calls \ {q} : active[p].sent => Accounted(p)'
    BY <1>a, <2>1, AccountedKept
  <2> QED
    BY <1>5, <2>1, <2>3, <2>4
<1>18. CASE BrokerNext
  BY <1>6, <1>7, <1>9, <1>10, <1>11, <1>12, <1>13, <1>14, <1>15, <1>16, <1>17, <1>18 DEF BrokerNext
<1> QED
  BY <1>1, <1>18

(***************************************************************************)
(* A cancel is lost only where a call to the host has failed, for any      *)
(* number of concurrent requests of a run and of cancels: a request that   *)
(* collects events after its run was cancelled is marked as sent, and the  *)
(* host knows, will be told, is done with it, or the call that was to tell *)
(* it is known to have failed (runtime/transport.py, rpc/reverse.rs).      *)
(***************************************************************************)
THEOREM CancelsReachTheHost == BrokerSpec => []CancelReachesHost
<1>1. BrokerInit => BrokerInv
  <2> SUFFICES ASSUME BrokerInit
               PROVE  BrokerInv
    OBVIOUS
  <2>1. BrokerTypeOK
    BY EntryFacts DEF BrokerInit, BrokerTypeOK, Stages
  <2>2. \A q \in Calls : EntryFollows(q)
    BY EntryFacts DEF BrokerInit, EntryFollows
  <2> QED
    BY <2>1, <2>2 DEF BrokerInv
<1>2. BrokerInv => CancelReachesHost
  BY DEF BrokerInv, EntryFollows, Accounted, CancelReachesHost
<1> QED
  BY <1>1, <1>2, BrokerStep, PTL DEF BrokerSpec

-----------------------------------------------------------------------------
(* SidecarServer: the connection and the session. *)

TaskRow == [conn : Conns \cup {NoConn}, method : FrameMethods,
            step : LiveSteps \cup {"none", "over"}]

LinkTypeOK ==
    /\ conn \in [Conns -> {"new", "refused", "open", "ending", "closed"}]
    /\ frame \in [Frames -> TaskRow]
    /\ session \in Conns \cup {NoConn} /\ connected \in BOOLEAN

\* The current session is that of the one connection that is served; the tasks at
\* work are its own, and the one in a handshake has proved the token.
LinkInv ==
    /\ LinkTypeOK
    /\ connected <=> session # NoConn
    /\ session # NoConn => conn[session] \in {"open", "ending"}
    /\ \A c \in Conns : conn[c] \in {"open", "ending"} => c = session
    /\ \A f \in Frames : frame[f].step \in LiveSteps =>
          frame[f].conn \in Conns /\ conn[frame[f].conn] = "open"
    /\ \A f \in Frames : frame[f].step = "locked" => hsLock = f /\ frame[f].conn \in proved
    /\ ReverseIsAuthenticated

\* The task of a frame after a step.
LEMMA TaskMoves ==
    ASSUME LinkTypeOK, NEW f \in Frames, NEW st \in LiveSteps \cup {"none", "over"},
           frame' = [frame EXCEPT ![f].step = st]
    PROVE  /\ frame' \in [Frames -> TaskRow]
           /\ frame'[f].conn = frame[f].conn /\ frame'[f].step = st
           /\ \A g \in Frames \ {f} : frame'[g] = frame[g]
BY DEF LinkTypeOK, TaskRow

LEMMA LinkStep ==
    ASSUME LinkInv, [ServerNext]_serverVars
    PROVE  LinkInv'
<1>0. /\ LinkTypeOK /\ ReverseIsAuthenticated
  BY DEF LinkInv
<1>1. CASE UNCHANGED <<conn, connected, session, ipc, reverse, frame, hsLock, proved>>
  BY <1>1 DEF LinkInv, LinkTypeOK, ReverseIsAuthenticated
\* A task ends, or begins to work on a command.
<1>2. ASSUME NEW f \in Frames, frame[f].step \in LiveSteps, NEW st \in {"over", "handling"},
             frame' = [frame EXCEPT ![f].step = st], frame[f].step # "locked",
             UNCHANGED <<conn, connected, session, hsLock, proved>>,
             UNCHANGED <<ipc, reverse>> \/ (ipc' = NoConn /\ reverse' = NoConn)
      PROVE  LinkInv'
  <2>1. /\ frame' \in [Frames -> TaskRow]
        /\ frame'[f].conn = frame[f].conn /\ frame'[f].step = st
        /\ \A g \in Frames \ {f} : frame'[g] = frame[g]
    BY <1>0, <1>2, TaskMoves DEF LiveSteps
  <2> QED
    BY <1>2, <2>1 DEF LinkInv, LinkTypeOK, ReverseIsAuthenticated
<1>3. ASSUME NEW c \in Conns, RefuseClient(c) \/ AcceptClient(c)
      PROVE  LinkInv'
  <2>1. CASE RefuseClient(c)
    <3>1. /\ conn' \in [Conns -> {"new", "refused", "open", "ending", "closed"}]
          /\ conn[c] = "new" /\ conn'[c] = "refused" /\ \A d \in Conns \ {c} : conn'[d] = conn[d]
          /\ UNCHANGED <<connected, session, ipc, reverse, frame, hsLock, proved>>
      BY <1>0, <2>1 DEF RefuseClient, LinkTypeOK
    <3> QED
      BY <3>1 DEF LinkInv, LinkTypeOK, ReverseIsAuthenticated
  <2>2. CASE AcceptClient(c)
    <3>1. /\ conn' \in [Conns -> {"new", "refused", "open", "ending", "closed"}]
          /\ conn[c] = "new" /\ conn'[c] = "open" /\ \A d \in Conns \ {c} : conn'[d] = conn[d]
          /\ UNCHANGED <<ipc, reverse, frame, hsLock, proved>>
          /\ ~connected /\ connected' /\ session' = c /\ connected' = TRUE
      BY <1>0, <2>2 DEF AcceptClient, LinkTypeOK
    <3>2. /\ session = NoConn /\ ipc = NoConn /\ reverse = NoConn
          /\ \A d \in Conns : conn[d] \notin {"open", "ending"}
      BY <3>1, ServerAssumption DEF LinkInv, ReverseIsAuthenticated
    <3>3. \A f \in Frames : frame[f].step \notin LiveSteps
      BY <3>2 DEF LinkInv
    <3> QED
      BY <3>1, <3>2, <3>3, ServerAssumption DEF LinkInv, LinkTypeOK, ReverseIsAuthenticated, LiveSteps
  <2> QED
    BY <1>3, <2>1, <2>2
<1>4. ASSUME NEW c \in Conns, End(c)
      PROVE  LinkInv'
  <2>1. /\ conn' \in [Conns -> {"new", "refused", "open", "ending", "closed"}]
        /\ conn[c] = "open" /\ conn'[c] = "ending" /\ \A d \in Conns \ {c} : conn'[d] = conn[d]
        /\ UNCHANGED <<connected, session, ipc, reverse, proved>>
    BY <1>0, <1>4 DEF End, LinkTypeOK
  <2>2. session = c
    BY <2>1 DEF LinkInv
  \* All tasks at work belong to the connection.
  <2>3. \A f \in Frames : frame[f].step \in LiveSteps => f \in TasksOf(c)
    BY <2>2 DEF LinkInv, TasksOf
  <2>4. ASSUME NEW f \in Frames
        PROVE  frame'[f] \in TaskRow /\ frame'[f].step \notin LiveSteps
    <3>1. frame[f] \in TaskRow
      BY <1>0 DEF LinkTypeOK
    <3>2. CASE f \in TasksOf(c)
      <4>1. frame'[f] = [frame[f] EXCEPT !.step = "over"]
        BY <1>4, <3>2 DEF End
      <4> QED
        BY <3>1, <4>1 DEF TaskRow, LiveSteps
    <3>3. CASE f \notin TasksOf(c)
      <4>1. frame'[f] = frame[f]
        BY <1>4, <3>3 DEF End
      <4> QED
        BY <2>3, <3>1, <3>3, <4>1
    <3> QED
      BY <3>2, <3>3
  <2>5. frame' \in [Frames -> TaskRow]
    BY <1>4, <2>4 DEF End
  <2> QED
    BY <2>1, <2>2, <2>4, <2>5 DEF LinkInv, LinkTypeOK, ReverseIsAuthenticated, LiveSteps
<1>5. ASSUME NEW c \in Conns, Cleanup(c)
      PROVE  LinkInv'
  <2>1. /\ conn' \in [Conns -> {"new", "refused", "open", "ending", "closed"}]
        /\ conn[c] = "ending" /\ conn'[c] = "closed" /\ \A d \in Conns \ {c} : conn'[d] = conn[d]
        /\ reverse' = NoConn /\ session' = NoConn /\ ipc' = NoConn /\ connected' = FALSE
        /\ UNCHANGED <<frame, hsLock, proved>>
    BY <1>0, <1>5 DEF Cleanup, LinkTypeOK
  <2>2. session = c
    BY <2>1 DEF LinkInv
  <2>3. \A d \in Conns : conn'[d] \notin {"open", "ending"}
    BY <2>1, <2>2 DEF LinkInv
  <2>4. \A f \in Frames : frame[f].step \notin LiveSteps
    BY <2>1, <2>2 DEF LinkInv
  <2> QED
    BY <2>1, <2>3, <2>4 DEF LinkInv, LinkTypeOK, ReverseIsAuthenticated, LiveSteps
<1>6. ASSUME NEW f \in Frames, NEW c \in Conns, NEW m \in FrameMethods, Receive(f, c, m)
      PROVE  LinkInv'
  <2> DEFINE st == IF Cardinality(TasksOf(c)) >= MaxInflight THEN "over" ELSE "queued"
             t == [conn |-> c, method |-> m, step |-> st]
  <2>1. st \in {"over", "queued"}
    OBVIOUS
  <2> HIDE DEF st
  <2>2. t \in TaskRow /\ t.conn = c /\ t.step = st
    BY <2>1 DEF TaskRow, LiveSteps
  <2>3. /\ conn[c] = "open" /\ frame[f].step = "none" /\ frame' = [frame EXCEPT ![f] = t]
        /\ UNCHANGED <<conn, connected, session, ipc, reverse, hsLock, proved>>
    BY <1>6 DEF Receive, linkVars, st
  <2> HIDE DEF t
  <2>4. /\ frame' \in [Frames -> TaskRow] /\ frame'[f] = t
        /\ \A g \in Frames \ {f} : frame'[g] = frame[g]
    BY <1>0, <2>2, <2>3 DEF LinkTypeOK
  <2> QED
    BY <2>1, <2>2, <2>3, <2>4 DEF LinkInv, LinkTypeOK, ReverseIsAuthenticated
<1>7. ASSUME NEW f \in Frames, BeginHandshake(f)
      PROVE  LinkInv'
  <2>1. /\ frame[f].step = "queued" /\ hsLock = NoFrame /\ ipc = NoConn
        /\ frame' = [frame EXCEPT ![f].step = "locked"] /\ hsLock' = f
        /\ proved' = proved \union {frame[f].conn}
        /\ UNCHANGED <<conn, connected, session, ipc, reverse>>
    BY <1>7 DEF BeginHandshake
  <2>2. /\ frame' \in [Frames -> TaskRow]
        /\ frame'[f].conn = frame[f].conn /\ frame'[f].step = "locked"
        /\ \A g \in Frames \ {f} : frame'[g] = frame[g]
    BY <1>0, <2>1, TaskMoves DEF LiveSteps
  <2>3. \A g \in Frames : frame[g].step # "locked"
    BY <2>1, ServerAssumption DEF LinkInv
  <2> QED
    BY <2>1, <2>2, <2>3 DEF LinkInv, LinkTypeOK, ReverseIsAuthenticated, LiveSteps
<1>8. ASSUME NEW f \in Frames, FinishHandshake(f) \/ NotReady(f)
      PROVE  LinkInv'
  <2>1. /\ frame[f].step = "locked" /\ frame' = [frame EXCEPT ![f].step = "over"]
        /\ hsLock' = NoFrame /\ UNCHANGED <<conn, connected, session, proved>>
        /\ \/ UNCHANGED <<ipc, reverse>>
           \/ ipc' = session /\ reverse' = IF session = NoConn THEN reverse ELSE session
    BY <1>8 DEF FinishHandshake, NotReady, EndTask, linkVars
  <2>2. /\ frame' \in [Frames -> TaskRow]
        /\ frame'[f].conn = frame[f].conn /\ frame'[f].step = "over"
        /\ \A g \in Frames \ {f} : frame'[g] = frame[g]
    BY <1>0, <2>1, TaskMoves
  <2>3. /\ hsLock = f /\ frame[f].conn \in proved /\ frame[f].conn \in Conns
        /\ conn[frame[f].conn] = "open"
    BY <2>1 DEF LinkInv, LiveSteps
  <2>4. session = frame[f].conn
    BY <2>3 DEF LinkInv
  <2>5. \A g \in Frames : frame'[g].step # "locked"
    BY <2>2, <2>3 DEF LinkInv
  <2>6. ReverseIsAuthenticated'
    BY <1>0, <2>1, <2>3, <2>4 DEF ReverseIsAuthenticated
  <2>7. LinkTypeOK'
    BY <1>0, <2>1, <2>2 DEF LinkTypeOK
  <2> QED
    BY <2>1, <2>2, <2>5, <2>6, <2>7 DEF LinkInv, LiveSteps
<1>9. ASSUME NEW f \in Frames, RefuseHandshake(f) \/ RejectCommand(f) \/ BeginCommand(f)
                               \/ FinishCommand(f) \/ Shutdown(f)
      PROVE  LinkInv'
  <2>1. CASE RefuseHandshake(f) \/ RejectCommand(f)
    BY <1>2, <2>1 DEF RefuseHandshake, RejectCommand, EndTask, linkVars, LiveSteps
  <2>2. CASE BeginCommand(f)
    BY <1>2, <2>2 DEF BeginCommand, linkVars, LiveSteps
  <2>3. CASE FinishCommand(f)
    BY <1>2, <2>3 DEF FinishCommand, EndTask, linkVars, LiveSteps
  <2>4. CASE Shutdown(f)
    BY <1>2, <2>4 DEF Shutdown, BeginStop, EndTask, LiveSteps
  <2> QED
    BY <1>9, <2>1, <2>2, <2>3, <2>4
<1>10. CASE ProcessEnds
  <2>1. /\ UNCHANGED <<conn, connected, session, frame, hsLock, proved>>
        /\ ipc' = NoConn /\ reverse' = NoConn
    BY <1>10 DEF ProcessEnds, BeginStop
  <2> QED
    BY <2>1 DEF LinkInv, LinkTypeOK, ReverseIsAuthenticated
<1>11. CASE \/ StopSession \/ StopServer \/ Stopped \/ Beat \/ MissBeat
            \/ \E c \in Conns, r \in Outcalls : Response(c, r)
            \/ \E r \in Outcalls : \/ Obtain(r) \/ Register(r) \/ Written(r) \/ GiveUp(r)
                                   \/ Return(r) \/ CallerCancelled(r)
  <2>1. UNCHANGED <<conn, connected, session, ipc, reverse, frame, hsLock, proved>>
    BY <1>11 DEF StopSession, StopServer, Stopped, Beat, MissBeat, Response, Obtain, Register,
                 Written, GiveUp, Return, CallerCancelled, linkVars
  <2> QED
    BY <1>1, <2>1
<1>12. CASE ServerNext
  BY <1>3, <1>4, <1>5, <1>6, <1>7, <1>8, <1>9, <1>10, <1>11, <1>12 DEF ServerNext
<1>13. CASE UNCHANGED serverVars
  BY <1>1, <1>13 DEF serverVars
<1> QED
  BY <1>12, <1>13

LEMMA LinkInit == ServerInit => LinkInv
<1> SUFFICES ASSUME ServerInit
             PROVE  LinkInv
  OBVIOUS
<1>1. LinkTypeOK
  BY DEF ServerInit, LinkTypeOK, TaskRow, NoTask, FrameMethods
<1>2. \A f \in Frames : frame[f].step = "none"
  BY DEF ServerInit, NoTask
<1> QED
  BY <1>1, <1>2 DEF ServerInit, LinkInv, ReverseIsAuthenticated, LiveSteps

(***************************************************************************)
(* The session in use belongs to the connection that is served and that    *)
(* itself proved the startup token, for any number of connections and of   *)
(* frames that overlap their ends.                                         *)
(***************************************************************************)
THEOREM ReverseSessionsAuthenticated == ServerSpec => []ReverseIsAuthenticated
<1>1. LinkInv => ReverseIsAuthenticated
  BY DEF LinkInv
<1> QED
  BY <1>1, LinkInit, LinkStep, PTL DEF ServerSpec

-----------------------------------------------------------------------------
(* SidecarServer: the calls to the host and the tables of the connections. *)

ReverseRow == [conn : Conns \cup {NoConn}, late : BOOLEAN,
               step : {"none", "held", "writing", "waiting", "over", "gone"},
               answer : {"none", "result", "error"}]

\* A table holds calls of its own connection that have been registered; a call
\* that is not answered is in it; and a connection that is closed was cancelled,
\* so that its table holds only what came later.
CallOwned(c, r) == rcall[r].conn = c /\ rcall[r].step \notin {"none", "held"}
CallHeld(r) ==
    /\ rcall[r].step # "none" => rcall[r].conn \in Conns
    /\ rcall[r].step \in {"writing", "waiting"} /\ rcall[r].answer = "none"
          => r \in pending[rcall[r].conn]

PendInv ==
    /\ pending \in [Conns -> SUBSET Outcalls]
    /\ rcall \in [Outcalls -> ReverseRow]
    /\ \A c \in Conns : \A r \in pending[c] : CallOwned(c, r)
    /\ \A r \in Outcalls : CallHeld(r)
    /\ \A c \in Conns : conn[c] = "closed" => c \in cancelled /\ \A r \in pending[c] : rcall[r].late

WithAnswer(e, value) == [e EXCEPT !.answer = value]

LEMMA AnsweredFacts ==
    ASSUME NEW e \in ReverseRow, NEW value \in {"result", "error"}
    PROVE  /\ WithAnswer(e, value) \in ReverseRow /\ WithAnswer(e, value).conn = e.conn
           /\ WithAnswer(e, value).late = e.late /\ WithAnswer(e, value).step = e.step
           /\ WithAnswer(e, value).answer = value
BY DEF ReverseRow, WithAnswer

\* Only the calls in rs lose their entry, and each of them is answered.
LEMMA ResolvedKeeps ==
    ASSUME PendInv, NEW c \in Conns, NEW rs \in SUBSET Outcalls,
           NEW value \in {"result", "error"}, Resolved(c, rs, value),
           cancelled \subseteq cancelled',
           \A d \in Conns : conn'[d] = "closed" =>
               conn[d] = "closed" \/ (d = c /\ rs = pending[c] /\ c \in cancelled')
    PROVE  PendInv'
<1> USE DEF PendInv
<1>1. pending' \in [Conns -> SUBSET Outcalls] /\ pending'[c] = pending[c] \ rs
      /\ \A d \in Conns : pending'[d] \subseteq pending[d] /\ (d # c => pending'[d] = pending[d])
  BY DEF Resolved
<1>2. \A r \in Outcalls :
         \/ rcall'[r] = rcall[r] /\ ~(r \in rs \cap pending[c] /\ rcall[r].answer = "none")
         \/ rcall'[r] = WithAnswer(rcall[r], value)
  BY DEF Resolved, WithAnswer
<1>4. \A r \in Outcalls :
         /\ rcall'[r] \in ReverseRow /\ rcall'[r].conn = rcall[r].conn
         /\ rcall'[r].late = rcall[r].late /\ rcall'[r].step = rcall[r].step
         /\ rcall'[r].answer = "none" => rcall[r].answer = "none" /\ ~(r \in rs \cap pending[c])
  <2> SUFFICES ASSUME NEW r \in Outcalls
               PROVE  /\ rcall'[r] \in ReverseRow /\ rcall'[r].conn = rcall[r].conn
                      /\ rcall'[r].late = rcall[r].late /\ rcall'[r].step = rcall[r].step
                      /\ rcall'[r].answer = "none" =>
                            rcall[r].answer = "none" /\ ~(r \in rs \cap pending[c])
    OBVIOUS
  <2>1. rcall[r] \in ReverseRow
    OBVIOUS
  <2>2. CASE rcall'[r] = rcall[r] /\ ~(r \in rs \cap pending[c] /\ rcall[r].answer = "none")
    BY <2>1, <2>2
  <2>3. CASE rcall'[r] = WithAnswer(rcall[r], value)
    BY <2>1, <2>3, AnsweredFacts
  <2> QED
    BY <1>2, <2>2, <2>3
<1>5. rcall' \in [Outcalls -> ReverseRow]
  <2>1. DOMAIN rcall' = Outcalls /\ rcall' = [r \in Outcalls |-> rcall'[r]]
    BY DEF Resolved
  <2> QED
    BY <2>1, <1>4
<1>6. \A d \in Conns : \A r \in pending'[d] : CallOwned(d, r)'
  BY <1>1, <1>4 DEF CallOwned
<1>7. \A r \in Outcalls : CallHeld(r)'
  <2> SUFFICES ASSUME NEW r \in Outcalls
               PROVE  CallHeld(r)'
    OBVIOUS
  <2>1. CallHeld(r)
    OBVIOUS
  <2>2. rcall[r].step # "none" => rcall[r].conn \in Conns
    BY <2>1 DEF CallHeld
  <2>3. ASSUME rcall'[r].step \in {"writing", "waiting"}, rcall'[r].answer = "none"
        PROVE  r \in pending'[rcall'[r].conn]
    <3>1. r \in pending[rcall[r].conn] /\ ~(r \in rs \cap pending[c]) /\ rcall[r].conn \in Conns
      BY <2>1, <2>3, <1>4 DEF CallHeld
    <3>2. r \in pending'[rcall[r].conn]
      BY <3>1, <1>1
    <3> QED
      BY <3>2, <1>4
  <2> QED
    BY <2>2, <2>3, <1>4 DEF CallHeld
<1>8. \A d \in Conns : conn'[d] = "closed" => d \in cancelled' /\ \A r \in pending'[d] : rcall'[r].late
  BY <1>1, <1>4
<1> QED
  BY <1>1, <1>5, <1>6, <1>7, <1>8

\* One call moves on, and at most its own entry comes or goes.
LEMMA CallMoves ==
    ASSUME PendInv, UNCHANGED <<conn, cancelled>>, NEW r \in Outcalls, NEW row \in ReverseRow,
           rcall' = [rcall EXCEPT ![r] = row],
           pending' \in [Conns -> SUBSET Outcalls],
           \A c \in Conns : pending'[c] \ {r} = pending[c] \ {r},
           \A c \in Conns : r \in pending'[c] =>
               /\ row.conn = c /\ row.step \notin {"none", "held"}
               /\ conn[c] = "closed" => row.late,
           row.step # "none" => row.conn \in Conns,
           row.step \in {"writing", "waiting"} /\ row.answer = "none" => r \in pending'[row.conn]
    PROVE  PendInv'
<1> USE DEF PendInv
<1>1. rcall' \in [Outcalls -> ReverseRow] /\ rcall'[r] = row
      /\ \A q \in Outcalls \ {r} : rcall'[q] = rcall[q]
  OBVIOUS
<1>2. \A c \in Conns : \A q \in pending'[c] : q # r => q \in pending[c]
  OBVIOUS
<1>3. \A c \in Conns : \A q \in pending[c] : q # r => q \in pending'[c]
  OBVIOUS
<1>4. ASSUME NEW c \in Conns, NEW q \in pending'[c]
      PROVE  CallOwned(c, q)' /\ (conn'[c] = "closed" => rcall'[q].late)
  <2>0. q \in Outcalls
    BY <1>4
  <2>1. CASE q = r
    BY <2>1, <1>1, <1>4 DEF CallOwned
  <2>2. CASE q # r
    <3>1. CallOwned(c, q) /\ rcall'[q] = rcall[q]
      BY <2>0, <2>2, <1>1, <1>2
    <3> QED
      BY <3>1, <2>2, <1>2 DEF CallOwned
  <2> QED
    BY <2>1, <2>2
<1>5. ASSUME NEW q \in Outcalls
      PROVE  CallHeld(q)'
  <2>1. CASE q = r
    BY <2>1, <1>1 DEF CallHeld
  <2>2. CASE q # r
    <3>1. CallHeld(q) /\ rcall'[q] = rcall[q]
      BY <2>2, <1>1
    <3> QED
      BY <3>1, <2>2, <1>3 DEF CallHeld
  <2> QED
    BY <2>1, <2>2
<1> QED
  BY <1>1, <1>4, <1>5

Stepped(e, st) == [e EXCEPT !.step = st]
Recorded(e, st, b) == [e EXCEPT !.step = st, !.late = b]
Ended(e) == [e EXCEPT !.step = "over", !.answer = IF @ = "none" THEN "error" ELSE @]

LEMMA SteppedFacts ==
    ASSUME NEW e \in ReverseRow, NEW st \in {"none", "held", "writing", "waiting", "over", "gone"}
    PROVE  /\ Stepped(e, st) \in ReverseRow /\ Stepped(e, st).conn = e.conn
           /\ Stepped(e, st).late = e.late /\ Stepped(e, st).step = st
           /\ Stepped(e, st).answer = e.answer
BY DEF ReverseRow, Stepped

LEMMA RecordedFacts ==
    ASSUME NEW e \in ReverseRow, NEW st \in {"over", "writing"}, NEW b \in BOOLEAN
    PROVE  /\ Recorded(e, st, b) \in ReverseRow /\ Recorded(e, st, b).conn = e.conn
           /\ Recorded(e, st, b).late = b /\ Recorded(e, st, b).step = st
BY DEF ReverseRow, Recorded

LEMMA EndedFacts ==
    ASSUME NEW e \in ReverseRow
    PROVE  /\ Ended(e) \in ReverseRow /\ Ended(e).conn = e.conn
           /\ Ended(e).late = e.late /\ Ended(e).step = "over"
BY DEF ReverseRow, Ended

BeatOK == heartbeat \in [conn : Conns \cup {NoConn}, missed : Nat]

LEMMA BeatStep ==
    ASSUME LinkInv, BeatOK, [ServerNext]_serverVars
    PROVE  BeatOK'
<1>1. session \in Conns \cup {NoConn} /\ NoBeat \in [conn : Conns \cup {NoConn}, missed : Nat]
  BY DEF LinkInv, LinkTypeOK, NoBeat
<1>2. \/ heartbeat' = heartbeat \/ heartbeat' = NoBeat
      \/ heartbeat' = [conn |-> session, missed |-> 0]
      \/ heartbeat' = [heartbeat EXCEPT !.missed = 0]
      \/ heartbeat' = [heartbeat EXCEPT !.missed = @ + 1]
  <2>1. CASE \E f \in Frames : FinishHandshake(f)
    BY <2>1 DEF FinishHandshake
  <2>2. CASE StopSession \/ Beat \/ MissBeat \/ \E c \in Conns : Cleanup(c)
    BY <2>2 DEF StopSession, Beat, MissBeat, Cleanup
  <2>3. CASE \/ ProcessEnds \/ StopServer \/ Stopped
             \/ \E c \in Conns : RefuseClient(c) \/ AcceptClient(c) \/ End(c)
             \/ \E f \in Frames : \/ BeginHandshake(f) \/ RefuseHandshake(f)
                                  \/ NotReady(f) \/ RejectCommand(f) \/ BeginCommand(f)
                                  \/ FinishCommand(f) \/ Shutdown(f)
             \/ \E f \in Frames, c \in Conns, m \in FrameMethods : Receive(f, c, m)
             \/ \E c \in Conns, r \in Outcalls : Response(c, r)
             \/ \E r \in Outcalls : \/ Obtain(r) \/ Register(r) \/ Written(r) \/ GiveUp(r)
                                    \/ Return(r) \/ CallerCancelled(r)
    <3>1. UNCHANGED heartbeat
      BY <2>3 DEF ProcessEnds, StopServer, Stopped, RefuseClient, AcceptClient, End,
                  BeginHandshake, RefuseHandshake, NotReady, RejectCommand, BeginCommand,
                  FinishCommand, Shutdown, Receive, Response, Obtain, Register, Written, GiveUp,
                  Return, CallerCancelled, linkVars
    <3> QED
      BY <3>1
  <2>4. CASE UNCHANGED serverVars
    BY <2>4 DEF serverVars
  <2> QED
    BY <2>1, <2>2, <2>3, <2>4 DEF ServerNext
<1> QED
  BY <1>1, <1>2 DEF BeatOK

LEMMA PendStep ==
    ASSUME LinkInv, BeatOK, PendInv, [ServerNext]_serverVars
    PROVE  PendInv'
<1> USE ServerAssumption
<1>1. ASSUME UNCHANGED <<cancelled, pending, rcall>>,
             \A d \in Conns : conn'[d] = "closed" => conn[d] = "closed"
      PROVE  PendInv'
  BY <1>1 DEF PendInv, CallOwned, CallHeld
<1>2. CASE \E c \in Conns : RefuseClient(c) \/ AcceptClient(c) \/ End(c)
  <2>1. PICK c \in Conns : RefuseClient(c) \/ AcceptClient(c) \/ End(c)
    BY <1>2
  <2>2. UNCHANGED <<cancelled, pending, rcall>>
    BY <2>1 DEF RefuseClient, AcceptClient, End
  <2>3. \A d \in Conns : conn'[d] = "closed" => conn[d] = "closed"
    BY <2>1 DEF RefuseClient, AcceptClient, End, LinkInv, LinkTypeOK
  <2> QED
    BY <1>1, <2>2, <2>3
<1>3. CASE \E c \in Conns : Cleanup(c)
  <2>1. PICK c \in Conns : Cleanup(c)
    BY <1>3
  <2>2. Resolved(c, pending[c], "error") /\ cancelled' = cancelled \cup {c}
    BY <2>1 DEF Cleanup, CancelSession, CancelAllPending
  <2>3. \A d \in Conns : conn'[d] = "closed" => conn[d] = "closed" \/ d = c
    BY <2>1 DEF Cleanup, LinkInv, LinkTypeOK
  <2>4. pending[c] \in SUBSET Outcalls
    BY DEF PendInv
  <2> QED
    BY <2>2, <2>3, <2>4, ResolvedKeeps
<1>4. CASE \E c \in Conns, r \in Outcalls : Response(c, r)
  <2>1. PICK c \in Conns, r \in Outcalls : Response(c, r)
    BY <1>4
  <2>2. PICK value \in {"result", "error"} : Resolved(c, {r}, value)
    BY <2>1 DEF Response
  <2>3. UNCHANGED <<conn, cancelled>>
    BY <2>1 DEF Response, linkVars
  <2> QED
    BY <2>2, <2>3, ResolvedKeeps
<1>5. CASE StopSession \/ MissBeat
  <2>0. UNCHANGED conn
    BY <1>5 DEF StopSession, MissBeat
  <2>1. session \in Conns \cup {NoConn} /\ heartbeat.conn \in Conns \cup {NoConn}
    BY DEF LinkInv, LinkTypeOK, BeatOK
  <2>2. \/ UNCHANGED <<cancelled, pending, rcall>>
        \/ session # NoConn /\ CancelSession(session)
        \/ heartbeat.conn # NoConn /\ CancelSession(heartbeat.conn)
    BY <1>5 DEF StopSession, MissBeat
  <2>3. ASSUME NEW c \in Conns, CancelSession(c)
        PROVE  PendInv'
    <3>1. Resolved(c, pending[c], "error") /\ cancelled' = cancelled \cup {c}
      BY <2>3 DEF CancelSession, CancelAllPending
    <3>2. pending[c] \in SUBSET Outcalls
      BY DEF PendInv
    <3> QED
      BY <2>0, <3>1, <3>2, ResolvedKeeps
  <2> QED
    BY <2>0, <2>1, <2>2, <2>3, <1>1
<1>6. CASE \E r \in Outcalls : Obtain(r)
  <2>1. PICK r \in Outcalls : Obtain(r)
    BY <1>6
  <2> DEFINE row == [NoReverse EXCEPT !.conn = reverse, !.step = "held"]
  <2>2. reverse \in Conns
    BY <2>1 DEF Obtain, LinkInv, LinkTypeOK, ReverseIsAuthenticated
  <2>3. row \in ReverseRow /\ row.step = "held" /\ row.conn = reverse
    BY <2>2 DEF ReverseRow, NoReverse
  <2>4. rcall' = [rcall EXCEPT ![r] = row] /\ UNCHANGED <<conn, cancelled, pending>>
    BY <2>1 DEF Obtain, linkVars
  <2>5. \A c \in Conns : r \notin pending[c]
    BY <2>1 DEF Obtain, PendInv, CallOwned
  <2>6. pending' \in [Conns -> SUBSET Outcalls]
    BY <2>4 DEF PendInv
  <2> HIDE DEF row
  <2> QED
    BY <2>2, <2>3, <2>4, <2>5, <2>6, CallMoves
<1>7. CASE \E r \in Outcalls : Register(r)
  <2>1. PICK r \in Outcalls : Register(r)
    BY <1>7
  <2> DEFINE cc == rcall[r].conn
  <2>2. PICK b \in BOOLEAN : b <=> (cc \in cancelled)
    BY Zenon
  <2>3. PICK st \in {"over", "writing"} :
           /\ st = "over" => pending' = pending
           /\ st = "writing" => pending' = [pending EXCEPT ![cc] = @ \cup {r}]
           /\ rcall' = [rcall EXCEPT ![r] = Recorded(rcall[r], st, cc \in cancelled)]
    <3>1. CASE Cardinality(pending[cc]) >= MaxPending
      BY <2>1, <3>1 DEF Register, Recorded
    <3>2. CASE ~(Cardinality(pending[cc]) >= MaxPending)
      BY <2>1, <3>2 DEF Register, Recorded
    <3> QED
      BY <3>1, <3>2
  <2>4. rcall[r] \in ReverseRow /\ cc \in Conns /\ rcall[r].step = "held"
        /\ UNCHANGED <<conn, cancelled>>
    BY <2>1 DEF Register, PendInv, CallHeld, linkVars
  <2>5. rcall' = [rcall EXCEPT ![r] = Recorded(rcall[r], st, b)]
    BY <2>2, <2>3, Zenon
  <2>6. /\ Recorded(rcall[r], st, b) \in ReverseRow /\ Recorded(rcall[r], st, b).conn = cc
        /\ Recorded(rcall[r], st, b).late = b /\ Recorded(rcall[r], st, b).step = st
    BY <2>4, RecordedFacts
  <2>7. \A c \in Conns : r \notin pending[c]
    BY <2>4 DEF PendInv, CallOwned
  <2> HIDE DEF cc
  <2>8. /\ pending' \in [Conns -> SUBSET Outcalls]
        /\ \A c \in Conns : pending'[c] \ {r} = pending[c] \ {r}
        /\ \A c \in Conns : r \in pending'[c] => c = cc /\ st = "writing"
        /\ st = "writing" => r \in pending'[cc]
    BY <2>3, <2>4, <2>7 DEF PendInv
  <2> DEFINE row == Recorded(rcall[r], st, b)
  <2>9. /\ row \in ReverseRow /\ row.conn = cc /\ row.step = st
        /\ conn[cc] = "closed" => row.late
    BY <2>2, <2>4, <2>6 DEF PendInv
  <2> HIDE DEF row
  <2>10. rcall' = [rcall EXCEPT ![r] = row]
    BY <2>5 DEF row
  <2> QED
    BY <2>4, <2>8, <2>9, <2>10, CallMoves
<1>8. CASE \E r \in Outcalls : Written(r) \/ Return(r) \/ CallerCancelled(r)
  <2>1. PICK r \in Outcalls : Written(r) \/ Return(r) \/ CallerCancelled(r)
    BY <1>8
  <2>2. PICK st \in {"waiting", "over", "gone"} :
          rcall' = [rcall EXCEPT ![r] = Stepped(rcall[r], st)]
    BY <2>1 DEF Written, Return, CallerCancelled, Stepped
  <2>3. rcall[r].step \in {"writing", "waiting"} /\ UNCHANGED <<conn, cancelled, pending>>
    BY <2>1 DEF Written, Return, CallerCancelled, linkVars
  <2>4. rcall[r] \in ReverseRow /\ CallHeld(r) /\ pending \in [Conns -> SUBSET Outcalls]
    BY DEF PendInv
  <2> DEFINE row == Stepped(rcall[r], st)
  <2>5. /\ row \in ReverseRow /\ row.conn = rcall[r].conn /\ row.late = rcall[r].late
        /\ row.step = st /\ row.answer = rcall[r].answer
    BY <2>4, SteppedFacts
  <2> HIDE DEF row
  <2>6. rcall' = [rcall EXCEPT ![r] = row]
    BY <2>2 DEF row
  <2>7. \A c \in Conns : r \in pending[c] => rcall[r].conn = c /\ (conn[c] = "closed" => rcall[r].late)
    BY DEF PendInv, CallOwned
  <2>8. row.step # "none" => row.conn \in Conns
    BY <2>3, <2>4, <2>5 DEF CallHeld
  <2>9. row.step \in {"writing", "waiting"} /\ row.answer = "none" => r \in pending'[row.conn]
    BY <2>2, <2>3, <2>4, <2>5 DEF CallHeld
  <2> QED
    BY <2>3, <2>4, <2>5, <2>6, <2>7, <2>8, <2>9, CallMoves
<1>9. CASE \E r \in Outcalls : GiveUp(r)
  <2>1. PICK r \in Outcalls : GiveUp(r)
    BY <1>9
  <2>2. /\ rcall' = [rcall EXCEPT ![r] = Ended(rcall[r])]
        /\ pending' = [pending EXCEPT ![rcall[r].conn] = @ \ {r}]
        /\ UNCHANGED <<conn, cancelled>>
    BY <2>1 DEF GiveUp, Ended, linkVars
  <2>3. rcall[r] \in ReverseRow /\ CallHeld(r) /\ rcall[r].step \in {"writing", "waiting"}
    BY <2>1 DEF GiveUp, PendInv
  <2>4. rcall[r].conn \in Conns
    BY <2>3 DEF CallHeld
  <2> DEFINE row == Ended(rcall[r])
  <2>5. row \in ReverseRow /\ row.conn = rcall[r].conn /\ row.step = "over"
    BY <2>3, EndedFacts
  <2> HIDE DEF row
  <2>6. /\ pending' \in [Conns -> SUBSET Outcalls]
        /\ \A c \in Conns : pending'[c] \ {r} = pending[c] \ {r}
        /\ \A c \in Conns : r \notin pending'[c]
    BY <2>2, <2>4 DEF PendInv, CallOwned
  <2>7. rcall' = [rcall EXCEPT ![r] = row]
    BY <2>2 DEF row
  <2> QED
    BY <2>2, <2>4, <2>5, <2>6, <2>7, CallMoves
<1>10. CASE \/ ProcessEnds \/ StopServer \/ Stopped \/ Beat
            \/ \E f \in Frames : \/ BeginHandshake(f) \/ RefuseHandshake(f) \/ FinishHandshake(f)
                                 \/ NotReady(f) \/ RejectCommand(f) \/ BeginCommand(f)
                                 \/ FinishCommand(f) \/ Shutdown(f)
            \/ \E f \in Frames, c \in Conns, m \in FrameMethods : Receive(f, c, m)
  <2>1. UNCHANGED <<conn, cancelled, pending, rcall>>
    BY <1>10 DEF ProcessEnds, StopServer, Stopped, Beat, BeginHandshake, RefuseHandshake,
                 FinishHandshake, NotReady, RejectCommand, BeginCommand, FinishCommand, Shutdown,
                 Receive, linkVars
  <2> QED
    BY <1>1, <2>1
<1>11. CASE ServerNext
  BY <1>2, <1>3, <1>4, <1>5, <1>6, <1>7, <1>8, <1>9, <1>10, <1>11 DEF ServerNext
<1>12. CASE UNCHANGED serverVars
  BY <1>1, <1>12 DEF serverVars
<1> QED
  BY <1>11, <1>12

(***************************************************************************)
(* A call that waits is in the table of its connection, and the loss of a  *)
(* connection leaves only calls made after it in its table, for any number *)
(* of connections, frames, calls and missed heartbeats, and for a caller   *)
(* that keeps its session across the loss.                                 *)
(***************************************************************************)
THEOREM LossesWakeCallers == ServerSpec => []LossWakesCallers
<1>1. ServerInit => BeatOK /\ PendInv
  <2> SUFFICES ASSUME ServerInit
               PROVE  BeatOK /\ PendInv
    OBVIOUS
  <2>1. NoReverse \in ReverseRow /\ NoReverse.step = "none"
    BY DEF NoReverse, ReverseRow
  <2>2. BeatOK
    BY DEF ServerInit, BeatOK, NoBeat
  <2> QED
    BY <2>1, <2>2 DEF ServerInit, PendInv, CallOwned, CallHeld
<1>2. PendInv => LossWakesCallers
  BY DEF PendInv, CallHeld, LossWakesCallers
<1> QED
  BY <1>1, <1>2, LinkInit, LinkStep, BeatStep, PendStep, PTL DEF ServerSpec


-----------------------------------------------------------------------------
(* Routing.  The candidates of a request are whatever the rankings give,   *)
(* so the rows are known by their fields only.                             *)

IsRequest(q) ==
    q = [state |-> q.state, cand |-> q.cand, role |-> q.role, seq |-> q.seq, try |-> q.try,
         result |-> q.result, kind |-> q.kind, dropped |-> q.dropped]
IsTurn(t) ==
    t = [pc |-> t.pc, kind |-> t.kind, ranked |-> t.ranked, primary |-> t.primary,
         lineup |-> t.lineup, queue |-> t.queue, next |-> t.next, failed |-> t.failed,
         granted |-> t.granted, decision |-> t.decision, outcome |-> t.outcome, number |-> t.number]
IsAttempt(a) == a = [cand |-> a.cand, role |-> a.role, status |-> a.status]

Requests(sl) == sl = [s \in Slots |-> sl[s]] /\ \A s \in Slots : IsRequest(sl[s])
Attempts(at) == at = [q \in DOMAIN at |-> at[q]] /\ \A q \in DOMAIN at : IsAttempt(at[q])

Awaiting == {"single", "quorum", "aggregate", "fallback"}
Proposing == {"proposing", "closing"}
Resting == {"idle", "planned", "over"}
Results == {"none", "answered", "unrecorded", "failed", "cancelled", "unsafe", "cancelling"}

\* A request that accounts for the open row of its sequence.
Holds(q, a) ==
    q.state \in UnderWay \/ q.result \in Unsafe \/ (q.dropped /\ a.status = "created")

RowsHeld(sl, at) ==
    \A q \in DOMAIN at : at[q].status \in Open =>
        \E s \in Slots : sl[s].seq = q /\ Holds(sl[s], at[q])

RowsThere(aud, sl, at) ==
    /\ ~aud => DOMAIN at = {}
    /\ \A s \in Slots : aud /\ sl[s].state \in UnderWay => sl[s].seq \in DOMAIN at

\* The safety errors of the proposers are those of tasks that were dropped.
Overlooked(sl) == \A s \in Slots \ {0} : sl[s].result \in Unsafe => sl[s].dropped

\* The requests a turn may have in each place of complete().
SlotsFit(t, sl) ==
    /\ \A s \in Slots : /\ sl[s].state \in {"idle", "to_send", "done"} \cup UnderWay
                        /\ sl[s].result \in Results
                        /\ sl[s].result \in Unsafe => sl[s].state = "done"
    /\ sl[0].dropped = FALSE /\ sl[0].result # "cancelling"
    /\ sl[0].state = "done" => sl[0].result # "none"
    /\ sl[0].state = "idle" => sl[0].result = "none"
    /\ t.pc \in Resting => \A s \in Slots : sl[s].state \in {"idle", "done"}
    /\ t.pc \in Proposing => /\ sl[0].state = "idle"
                             /\ \A s \in Slots : sl[s].state # "idle" => s \in 1..Len(t.lineup)
    /\ t.pc \in Awaiting => Overlooked(sl) /\ \A s \in Slots \ {0} : sl[s].state \in {"idle", "done"}
    /\ t.pc = "over" /\ t.outcome = "failed" => Overlooked(sl) /\ sl[0].result \notin Unsafe

TurnFits(t, at) ==
    /\ t.pc \in Resting \cup Proposing \cup Awaiting
    /\ t.kind \in {"single", "ensemble"}
    /\ t.pc = "planned" => DOMAIN at = {} /\ (t.kind = "single" => t.lineup = << >>)
    /\ t.pc \in Proposing \cup Awaiting => t.decision = "executing"
    /\ t.pc = "over" /\ t.outcome = "interrupted" =>
          /\ t.decision \notin {"planned", "executing"}
          /\ \A q \in DOMAIN at : at[q].status \notin Open
    /\ t.pc = "over" /\ t.outcome \in {"failed", "cancelled"} => t.decision \in {"none", t.outcome}

RunFits(aud, t, sl, at) ==
    /\ IsTurn(t) /\ Requests(sl) /\ Attempts(at)
    /\ RowsHeld(sl, at) /\ RowsThere(aud, sl, at)
    /\ SlotsFit(t, sl) /\ TurnFits(t, at)

RoutingInv ==
    /\ turn = [r \in Runs |-> turn[r]] /\ slot = [r \in Runs |-> slot[r]]
    /\ attempts = [r \in Runs |-> attempts[r]]
    /\ \A r \in Runs : RunFits(audited, turn[r], slot[r], attempts[r])

LEMMA SlotZero == 0 \in Slots /\ MaxProposers \in Nat
BY RoutingAssumption DEF Slots

\* A request that is under way takes a step, and the rows follow.
LEMMA SlotMoves ==
    ASSUME NEW aud, NEW t, NEW sl, NEW at, RunFits(aud, t, sl, at),
           NEW s \in Slots, sl[s].state \in {"to_send"} \cup UnderWay,
           NEW q, IsRequest(q), q.state \in {"to_send", "done"} \cup UnderWay, q.result \in Results,
           q.result \in Unsafe => q.state = "done",
           s = 0 => /\ q.dropped = sl[0].dropped /\ q.result # "cancelling"
                    /\ q.state = "done" => q.result # "none",
           NEW sl2, sl2 = [sl EXCEPT ![s] = q],
           NEW at2, Attempts(at2), RowsHeld(sl2, at2), RowsThere(aud, sl2, at2)
    PROVE  RunFits(aud, t, sl2, at2)
<1>1. Requests(sl) /\ SlotsFit(t, sl) /\ TurnFits(t, at)
  BY DEF RunFits
<1>2. \A x \in Slots : sl2[x] = IF x = s THEN q ELSE sl[x]
  BY <1>1 DEF Requests
<1>3. Requests(sl2)
  <2>1. sl2 = [x \in Slots |-> sl2[x]]
    BY <1>1 DEF Requests
  <2> QED
    BY <1>1, <1>2, <2>1 DEF Requests
<1>4. t.pc \notin Resting /\ sl[s].state # "idle"
  BY <1>1 DEF SlotsFit, UnderWay
<1>5. SlotsFit(t, sl2)
  <2>1. t.pc \in Awaiting => s = 0 /\ Overlooked(sl2)
    BY <1>1, <1>2 DEF SlotsFit, UnderWay, Overlooked
  <2>2. t.pc # "over"
    BY <1>4 DEF Resting
  <2> QED
    BY <1>1, <1>2, <1>4, <2>1, <2>2, SlotZero DEF SlotsFit, UnderWay, Results
<1>6. TurnFits(t, at2)
  BY <1>1, <1>4 DEF TurnFits, Resting
<1> QED
  BY <1>3, <1>5, <1>6 DEF RunFits

\* The row of a new attempt.
LEMMA Grown ==
    ASSUME NEW at, Attempts(at), NEW k, NEW a, IsAttempt(a),
           NEW at2, at2 = [x \in DOMAIN at \cup {k} |-> IF x = k THEN a ELSE at[x]]
    PROVE  /\ Attempts(at2) /\ DOMAIN at2 = DOMAIN at \cup {k} /\ at2[k] = a
           /\ \A x \in DOMAIN at : x # k => at2[x] = at[x]
<1>1. /\ DOMAIN at2 = DOMAIN at \cup {k}
      /\ \A x \in DOMAIN at \cup {k} : at2[x] = IF x = k THEN a ELSE at[x]
  OBVIOUS
<1>2. at2 = [x \in DOMAIN at2 |-> at2[x]]
  OBVIOUS
<1>3. \A x \in DOMAIN at2 : IsAttempt(at2[x])
  BY <1>1 DEF Attempts
<1> QED
  BY <1>1, <1>2, <1>3 DEF Attempts

\* A row changes its status.
WithStatus(a, status) == [a EXCEPT !.status = status]

LEMMA Restated ==
    ASSUME NEW at, Attempts(at), NEW q \in DOMAIN at, NEW status,
           NEW at2, at2 = [at EXCEPT ![q] = WithStatus(at[q], status)]
    PROVE  /\ Attempts(at2) /\ DOMAIN at2 = DOMAIN at /\ at2[q].status = status
           /\ \A x \in DOMAIN at : x # q => at2[x] = at[x]
<1>1. IsAttempt(WithStatus(at[q], status)) /\ WithStatus(at[q], status).status = status
  BY DEF Attempts, IsAttempt, WithStatus
<1>2. DOMAIN at2 = DOMAIN at /\ \A x \in DOMAIN at : at2[x] = IF x = q THEN WithStatus(at[q], status) ELSE at[x]
  BY DEF Attempts
<1>3. at2 = [x \in DOMAIN at2 |-> at2[x]]
  BY DEF Attempts
<1> QED
  BY <1>1, <1>2, <1>3 DEF Attempts

LEMMA RunMoves ==
    ASSUME RoutingInv, NEW r \in Runs, UNCHANGED audited, NEW t, NEW sl, NEW at,
           turn' = [turn EXCEPT ![r] = t], slot' = [slot EXCEPT ![r] = sl],
           attempts' = [attempts EXCEPT ![r] = at], RunFits(audited, t, sl, at)
    PROVE  RoutingInv'
<1>1. /\ turn' = [x \in Runs |-> turn'[x]] /\ slot' = [x \in Runs |-> slot'[x]]
      /\ attempts' = [x \in Runs |-> attempts'[x]]
  BY DEF RoutingInv
<1>2. /\ turn'[r] = t /\ slot'[r] = sl /\ attempts'[r] = at
      /\ \A x \in Runs : x # r => turn'[x] = turn[x] /\ slot'[x] = slot[x] /\ attempts'[x] = attempts[x]
  BY DEF RoutingInv
<1>3. \A x \in Runs : RunFits(audited, turn'[x], slot'[x], attempts'[x])
  BY <1>2 DEF RoutingInv
<1> QED
  BY <1>1, <1>3 DEF RoutingInv

-----------------------------------------------------------------------------
(* Who holds the open rows after a request has moved. *)

\* Only the row of the request has changed, and it is held or closed.
LEMMA HeldAfter ==
    ASSUME NEW sl, Requests(sl), NEW at, RowsHeld(sl, at), NEW s \in Slots, NEW q,
           NEW sl2, sl2 = [sl EXCEPT ![s] = q], NEW at2,
           \A x \in DOMAIN at2 : x # sl[s].seq => x \in DOMAIN at /\ at2[x] = at[x],
           sl[s].seq \in DOMAIN at2 /\ at2[sl[s].seq].status \in Open =>
               q.seq = sl[s].seq /\ Holds(q, at2[sl[s].seq])
    PROVE  RowsHeld(sl2, at2)
<1>1. \A x \in Slots : sl2[x] = IF x = s THEN q ELSE sl[x]
  BY DEF Requests
<1> SUFFICES ASSUME NEW x \in DOMAIN at2, at2[x].status \in Open
             PROVE  \E y \in Slots : sl2[y].seq = x /\ Holds(sl2[y], at2[x])
  BY DEF RowsHeld
<1>2. CASE x = sl[s].seq
  BY <1>1, <1>2
<1>3. CASE x # sl[s].seq
  <2>1. PICK y \in Slots : sl[y].seq = x /\ Holds(sl[y], at[x])
    BY <1>3 DEF RowsHeld
  <2> QED
    BY <1>1, <1>3, <2>1
<1> QED
  BY <1>2, <1>3

\* No row has changed, and the request holds what it held.
LEMMA HeldStill ==
    ASSUME NEW sl, Requests(sl), NEW at, RowsHeld(sl, at), NEW s \in Slots, NEW q,
           NEW sl2, sl2 = [sl EXCEPT ![s] = q],
           \A a : Holds(sl[s], a) => q.seq = sl[s].seq /\ Holds(q, a)
    PROVE  RowsHeld(sl2, at)
<1>1. \A x \in Slots : sl2[x] = IF x = s THEN q ELSE sl[x]
  BY DEF Requests
<1> SUFFICES ASSUME NEW x \in DOMAIN at, at[x].status \in Open
             PROVE  \E y \in Slots : sl2[y].seq = x /\ Holds(sl2[y], at[x])
  BY DEF RowsHeld
<1>2. PICK y \in Slots : sl[y].seq = x /\ Holds(sl[y], at[x])
  BY DEF RowsHeld
<1> QED
  BY <1>1, <1>2

LEMMA ThereAfter ==
    ASSUME NEW aud, NEW sl, Requests(sl), NEW at, RowsThere(aud, sl, at), NEW s \in Slots, NEW q,
           NEW sl2, sl2 = [sl EXCEPT ![s] = q], NEW at2, DOMAIN at \subseteq DOMAIN at2,
           ~aud => DOMAIN at2 = {}, aud /\ q.state \in UnderWay => q.seq \in DOMAIN at2
    PROVE  RowsThere(aud, sl2, at2)
<1>1. \A x \in Slots : sl2[x] = IF x = s THEN q ELSE sl[x]
  BY DEF Requests
<1> QED
  BY <1>1 DEF RowsThere

-----------------------------------------------------------------------------
(* The steps of a request. *)

\* What transition_attempt makes of the rows.
LEMMA RowsMove ==
    ASSUME RoutingInv, NEW r \in Runs, NEW s \in Slots, slot[r][s].state \in UnderWay,
           NEW expected, NEW status, AttemptTo(r, s, expected, status)
    PROVE  \E at : /\ attempts' = [attempts EXCEPT ![r] = at]
                   /\ Attempts(at) /\ DOMAIN at = DOMAIN attempts[r]
                   /\ \A x \in DOMAIN at : x # slot[r][s].seq => at[x] = attempts[r][x]
                   /\ slot[r][s].seq \in DOMAIN at /\ attempts[r][slot[r][s].seq].status \in expected =>
                          at[slot[r][s].seq].status = status
                   /\ slot[r][s].seq \in DOMAIN at /\ attempts[r][slot[r][s].seq].status \notin expected =>
                          at[slot[r][s].seq].status = attempts[r][slot[r][s].seq].status
<1> DEFINE q == slot[r][s].seq
           old == attempts[r]
<1>1. /\ RunFits(audited, turn[r], slot[r], attempts[r]) /\ attempts = [x \in Runs |-> attempts[x]]
  BY DEF RoutingInv
<1>2. Attempts(old) /\ (audited => q \in DOMAIN old) /\ (~audited => DOMAIN old = {})
  BY <1>1 DEF RunFits, RowsThere
<1>3. CASE ~(audited /\ old[q].status \in expected)
  <2>1. attempts' = [attempts EXCEPT ![r] = old]
    BY <1>1, <1>3 DEF AttemptTo
  <2> QED
    BY <2>1, <1>2, <1>3
<1>4. CASE audited /\ old[q].status \in expected
  <2> DEFINE new == [old EXCEPT ![q] = WithStatus(old[q], status)]
  <2>1. attempts' = [attempts EXCEPT ![r] = new]
    BY <1>1, <1>4 DEF AttemptTo, WithStatus
  <2>2. /\ Attempts(new) /\ DOMAIN new = DOMAIN old /\ new[q].status = status
        /\ \A x \in DOMAIN old : x # q => new[x] = old[x]
    BY <1>2, <1>4, Restated
  <2> HIDE DEF new
  <2> QED
    BY <2>1, <2>2, <1>4
<1> QED
  BY <1>3, <1>4

\* A request on the wire takes a step: the row stays with it, or is closed.
LEMMA WireMoves ==
    ASSUME RoutingInv, NEW r \in Runs, NEW s \in Slots, slot[r][s].state \in UnderWay,
           UNCHANGED <<audited, turn>>,
           NEW q, IsRequest(q), q.state \in {"to_send", "done"} \cup UnderWay, q.result \in Results,
           q.result \in Unsafe => q.state = "done",
           s = 0 => /\ q.dropped = slot[r][s].dropped /\ q.result # "cancelling"
                    /\ q.state = "done" => q.result # "none",
           slot' = [slot EXCEPT ![r] = [slot[r] EXCEPT ![s] = q]],
           NEW at, attempts' = [attempts EXCEPT ![r] = at], Attempts(at), DOMAIN at = DOMAIN attempts[r],
           \A x \in DOMAIN at : x # slot[r][s].seq => at[x] = attempts[r][x],
           slot[r][s].seq \in DOMAIN at /\ at[slot[r][s].seq].status \in Open =>
               q.seq = slot[r][s].seq /\ Holds(q, at[slot[r][s].seq]),
           q.state \in UnderWay => q.seq = slot[r][s].seq
    PROVE  RoutingInv'
<1> DEFINE sl == slot[r]
           sl2 == [sl EXCEPT ![s] = q]
<1>1. RunFits(audited, turn[r], sl, attempts[r]) /\ turn = [x \in Runs |-> turn[x]]
  BY DEF RoutingInv
<1>2. Requests(sl) /\ RowsHeld(sl, attempts[r]) /\ RowsThere(audited, sl, attempts[r])
  BY <1>1 DEF RunFits
<1>3. slot' = [slot EXCEPT ![r] = sl2] /\ turn' = [turn EXCEPT ![r] = turn[r]]
  BY <1>1
<1>4. RowsHeld(sl2, at)
  BY <1>2, HeldAfter
<1>5. RowsThere(audited, sl2, at)
  <2>1. /\ ~audited => DOMAIN at = {}
        /\ audited /\ q.state \in UnderWay => q.seq \in DOMAIN at
    BY <1>2 DEF RowsThere
  <2> QED
    BY <1>2, <2>1, ThereAfter
<1>6. s = 0 => q.dropped = sl[0].dropped
  OBVIOUS
<1>7. RunFits(audited, turn[r], sl2, at)
  BY <1>1, <1>4, <1>5, <1>6, SlotMoves
<1> HIDE DEF sl, sl2
<1> QED
  BY <1>3, <1>7, RunMoves

\* What an update of a request does to its fields.
InState(q, state) == [q EXCEPT !.state = state]
DoneWith(q, result) == [q EXCEPT !.state = "done", !.result = result]
FailedWith(q, kind) == [q EXCEPT !.state = "done", !.result = "failed", !.kind = kind]
Dropped(q) == [q EXCEPT !.dropped = TRUE]
Cancelling(q) == [q EXCEPT !.result = "cancelling"]

LEMMA StateUpdate ==
    ASSUME NEW q, IsRequest(q), NEW state, NEW n, n = InState(q, state)
    PROVE  IsRequest(n) /\ n.state = state /\ n.result = q.result /\ n.dropped = q.dropped /\ n.seq = q.seq
BY DEF IsRequest, InState

LEMMA DoneUpdate ==
    ASSUME NEW q, IsRequest(q), NEW result, NEW n, n = DoneWith(q, result)
    PROVE  IsRequest(n) /\ n.state = "done" /\ n.result = result /\ n.dropped = q.dropped /\ n.seq = q.seq
BY DEF IsRequest, DoneWith

LEMMA FailedUpdate ==
    ASSUME NEW q, IsRequest(q), NEW kind, NEW n, n = FailedWith(q, kind)
    PROVE  IsRequest(n) /\ n.state = "done" /\ n.result = "failed" /\ n.dropped = q.dropped
BY DEF IsRequest, FailedWith

LEMMA DroppedUpdate ==
    ASSUME NEW q, IsRequest(q), NEW n, n = Dropped(q)
    PROVE  IsRequest(n) /\ n.state = q.state /\ n.result = q.result /\ n.dropped /\ n.seq = q.seq
BY DEF IsRequest, Dropped

LEMMA CancellingUpdate ==
    ASSUME NEW q, IsRequest(q), NEW n, n = Cancelling(q)
    PROVE  IsRequest(n) /\ n.state = q.state /\ n.result = "cancelling" /\ n.dropped = q.dropped
BY DEF IsRequest, Cancelling

LEMMA RetryUpdates ==
    ASSUME NEW q, IsRequest(q), NEW t
    PROVE  /\ IsRequest(Retry(q, t)) /\ Retry(q, t).state = "to_send" /\ Retry(q, t).result = q.result
           /\ Retry(q, t).dropped = q.dropped
<1> DEFINE seq == IF q.role = "proposer" THEN q.seq + Proposers(t) ELSE q.seq + 1
           try == q.try + 1
<1>1. Retry(q, t) = [q EXCEPT !.state = "to_send", !.try = try, !.seq = seq]
  BY DEF Retry
<1> HIDE DEF seq, try
<1> QED
  BY <1>1 DEF IsRequest

LEMMA AcceptedKeeps ==
    ASSUME RoutingInv, NEW r \in Runs, NEW s \in Slots, Accepted(r, s) \/ Streaming(r, s)
    PROVE  RoutingInv'
<1> DEFINE q == slot[r][s]
<1>0. RunFits(audited, turn[r], slot[r], attempts[r]) /\ slot = [x \in Runs |-> slot[x]]
  BY DEF RoutingInv
<1>1. PICK to \in {"accepted", "streaming"}, from \in {"created", "accepted"} :
         /\ q.state \in {"sent", "accepted"} /\ slot' = [slot EXCEPT ![r][s].state = to]
         /\ AttemptTo(r, s, {from}, to) /\ UNCHANGED <<audited, turn>>
  BY DEF Accepted, Streaming
<1>2. q.state \in UnderWay /\ IsRequest(q) /\ Requests(slot[r])
  BY <1>0, <1>1 DEF UnderWay, RunFits, Requests
<1> DEFINE n == InState(q, to)
<1>3. slot' = [slot EXCEPT ![r] = [slot[r] EXCEPT ![s] = n]]
  BY <1>0, <1>1, <1>2 DEF Requests, InState
<1>4. IsRequest(n) /\ n.state = to /\ n.result = q.result /\ n.dropped = q.dropped /\ n.seq = q.seq
  BY <1>2, StateUpdate
<1>5. PICK at : /\ attempts' = [attempts EXCEPT ![r] = at]
                /\ Attempts(at) /\ DOMAIN at = DOMAIN attempts[r]
                /\ \A x \in DOMAIN at : x # q.seq => at[x] = attempts[r][x]
  BY <1>1, <1>2, RowsMove
<1>6. q.result \in Results /\ q.result \notin Unsafe /\ (s = 0 => q.result # "cancelling")
  BY <1>0, <1>2 DEF RunFits, SlotsFit, UnderWay
<1>7. n.state \in UnderWay /\ \A a : Holds(n, a)
  BY <1>4 DEF UnderWay, Holds
<1>8. /\ n.state \in {"to_send", "done"} \cup UnderWay /\ n.result \in Results /\ (n.result \in Unsafe => n.state = "done")
      /\ n.state # "done" /\ (s = 0 => n.result # "cancelling")
  BY <1>4, <1>6, <1>7
<1>9. n.seq = slot[r][s].seq /\ Holds(n, at[slot[r][s].seq]) /\ n.dropped = slot[r][s].dropped
  BY <1>4, <1>7
<1>10. UNCHANGED <<audited, turn>> /\ slot[r][s].state \in UnderWay /\ IsRequest(n)
  BY <1>1, <1>2, <1>4
<1> HIDE DEF n
<1>11. /\ n.result \in Unsafe => n.state = "done"
       /\ s = 0 => /\ n.dropped = slot[r][s].dropped /\ n.result # "cancelling"
                   /\ n.state = "done" => n.result # "none"
       /\ slot[r][s].seq \in DOMAIN at /\ at[slot[r][s].seq].status \in Open =>
              n.seq = slot[r][s].seq /\ Holds(n, at[slot[r][s].seq])
       /\ n.state \in UnderWay => n.seq = slot[r][s].seq
       /\ \A x \in DOMAIN at : x # slot[r][s].seq => at[x] = attempts[r][x]
  BY <1>5, <1>8, <1>9
<1>12. PICK m : m = n
  OBVIOUS
<1>13. /\ IsRequest(m) /\ m.state \in {"to_send", "done"} \cup UnderWay /\ m.result \in Results
       /\ m.result \in Unsafe => m.state = "done"
       /\ s = 0 => /\ m.dropped = slot[r][s].dropped /\ m.result # "cancelling"
                   /\ m.state = "done" => m.result # "none"
       /\ slot' = [slot EXCEPT ![r] = [slot[r] EXCEPT ![s] = m]]
       /\ slot[r][s].seq \in DOMAIN at /\ at[slot[r][s].seq].status \in Open =>
              m.seq = slot[r][s].seq /\ Holds(m, at[slot[r][s].seq])
       /\ m.state \in UnderWay => m.seq = slot[r][s].seq
  BY <1>3, <1>8, <1>10, <1>11, <1>12
<1>14. /\ slot[r][s].state \in UnderWay /\ UNCHANGED <<audited, turn>>
       /\ attempts' = [attempts EXCEPT ![r] = at] /\ Attempts(at) /\ DOMAIN at = DOMAIN attempts[r]
       /\ \A x \in DOMAIN at : x # slot[r][s].seq => at[x] = attempts[r][x]
  BY <1>5, <1>10
<1> QED
  BY <1>13, <1>14, WireMoves

LEMMA AnsweredKeeps ==
    ASSUME RoutingInv, NEW r \in Runs, NEW s \in Slots, Answered(r, s)
    PROVE  RoutingInv'
<1> DEFINE q == slot[r][s]
           result == IF audited THEN "unrecorded" ELSE "answered"
           n == DoneWith(q, result)
<1>0. /\ RunFits(audited, turn[r], slot[r], attempts[r]) /\ slot = [x \in Runs |-> slot[x]]
      /\ attempts = [x \in Runs |-> attempts[x]]
  BY DEF RoutingInv
<1>1. /\ q.state \in UnderWay /\ UNCHANGED <<audited, turn, attempts>>
      /\ slot' = [slot EXCEPT ![r][s].state = "done", ![r][s].result = result]
  BY DEF Answered, UnderWay
<1>2. IsRequest(q) /\ Requests(slot[r]) /\ Attempts(attempts[r]) /\ RowsThere(audited, slot[r], attempts[r])
  BY <1>0 DEF RunFits, Requests
<1> HIDE DEF result
<1>3. slot' = [slot EXCEPT ![r] = [slot[r] EXCEPT ![s] = n]]
  BY <1>0, <1>1, <1>2 DEF Requests, DoneWith
<1>4. IsRequest(n) /\ n.state = "done" /\ n.result = result /\ n.dropped = q.dropped /\ n.seq = q.seq
  BY <1>2, DoneUpdate
<1>5. attempts' = [attempts EXCEPT ![r] = attempts[r]]
  BY <1>0, <1>1
<1>6. result \in Results \ {"none", "cancelling"} /\ (audited => result = "unrecorded")
  BY DEF result, Results
<1>7. q.seq \in DOMAIN attempts[r] => \A a : Holds(n, a)
  BY <1>2, <1>4, <1>6 DEF RowsThere, Holds, Unsafe
<1>8. n.state \notin UnderWay
  BY <1>4 DEF UnderWay
<1>9. /\ n.state \in {"to_send", "done"} \cup UnderWay /\ n.result \in Results
      /\ n.result # "cancelling" /\ n.result # "none"
  BY <1>4, <1>6
<1>10. /\ n.seq = slot[r][s].seq /\ n.dropped = slot[r][s].dropped
       /\ slot[r][s].seq \in DOMAIN attempts[r] => Holds(n, attempts[r][slot[r][s].seq])
  BY <1>4, <1>7
<1>11. UNCHANGED <<audited, turn>> /\ slot[r][s].state \in UnderWay /\ IsRequest(n) /\ n.state = "done"
  BY <1>1, <1>4
<1> HIDE DEF n
<1>12. Attempts(attempts[r]) /\ DOMAIN attempts[r] = DOMAIN attempts[r]
  BY <1>2
<1> QED
  BY <1>3, <1>5, <1>9, <1>10, <1>11, <1>12, <1>8, WireMoves

\* A request on the wire ends or is retried, and its row is closed.
LEMMA ClosedKeeps ==
    ASSUME RoutingInv, NEW r \in Runs, NEW s \in Slots, slot[r][s].state \in UnderWay,
           UNCHANGED <<audited, turn>>,
           NEW status \in {"timed_out", "failed", "cancelled"}, CloseAttempt(r, s, status),
           NEW q, IsRequest(q), q.state \in {"to_send", "done"}, q.result \in Results \ Unsafe,
           s = 0 => /\ q.dropped = slot[r][s].dropped /\ q.result # "cancelling"
                    /\ q.state = "done" => q.result # "none",
           slot' = [slot EXCEPT ![r] = [slot[r] EXCEPT ![s] = q]]
    PROVE  RoutingInv'
<1>1. PICK at : /\ attempts' = [attempts EXCEPT ![r] = at]
                /\ Attempts(at) /\ DOMAIN at = DOMAIN attempts[r]
                /\ \A x \in DOMAIN at : x # slot[r][s].seq => at[x] = attempts[r][x]
                /\ slot[r][s].seq \in DOMAIN at => at[slot[r][s].seq].status \notin Open
  BY RowsMove DEF CloseAttempt, Open
<1>2. q.state \notin UnderWay
  BY DEF UnderWay
<1> QED
  BY <1>1, <1>2, WireMoves

LEMMA FailedKeeps ==
    ASSUME RoutingInv, NEW r \in Runs, NEW s \in Slots, NEW kind, NEW visible \in BOOLEAN,
           NEW inTime \in BOOLEAN, Failed(r, s, kind, visible, inTime)
    PROVE  RoutingInv'
<1> DEFINE q == slot[r][s]
           ended == FailedWith(q, RecordedKind(kind))
           n == IF MayRetry(q, turn[r], kind, visible, inTime) THEN Retry(q, turn[r]) ELSE ended
           status == ClosedAs(kind)
<1>0. RunFits(audited, turn[r], slot[r], attempts[r])
  BY DEF RoutingInv
<1>1. /\ q.state \in UnderWay /\ UNCHANGED <<audited, turn>> /\ CloseAttempt(r, s, status)
      /\ slot' = [slot EXCEPT ![r][s] = n]
  BY DEF Failed, FailedWith, Meets
<1>2. IsRequest(q) /\ q.result \in Results \ Unsafe /\ (s = 0 => q.result # "cancelling")
  BY <1>0, <1>1 DEF RunFits, Requests, SlotsFit, UnderWay
<1>3. IsRequest(ended) /\ ended.state = "done" /\ ended.result = "failed" /\ ended.dropped = q.dropped
  BY <1>2, FailedUpdate
<1>4. /\ IsRequest(n) /\ n.state \in {"to_send", "done"} /\ n.result \in Results \ Unsafe
      /\ n.dropped = q.dropped /\ (s = 0 => n.result # "cancelling") /\ (n.state = "done" => n.result # "none")
  <2> HIDE DEF ended
  <2> QED
    BY <1>2, <1>3, RetryUpdates DEF Results, Unsafe
<1>5. status \in {"timed_out", "failed", "cancelled"}
  BY DEF ClosedAs
<1> HIDE DEF n, status
<1>6. slot' = [slot EXCEPT ![r] = [slot[r] EXCEPT ![s] = n]]
  BY <1>1
<1> QED
  BY <1>1, <1>4, <1>5, <1>6, ClosedKeeps

LEMMA CancelledKeeps ==
    ASSUME RoutingInv, NEW r \in Runs, NEW s \in Slots, Cancelled(r, s)
    PROVE  RoutingInv'
<1> DEFINE q == slot[r][s]
           n == DoneWith(q, "cancelled")
<1>0. RunFits(audited, turn[r], slot[r], attempts[r]) /\ slot = [x \in Runs |-> slot[x]]
  BY DEF RoutingInv
<1>1. /\ q.state \in UnderWay /\ UNCHANGED <<audited, turn>> /\ CloseAttempt(r, s, "cancelled")
      /\ slot' = [slot EXCEPT ![r][s].state = "done", ![r][s].result = "cancelled"]
  BY DEF Cancelled
<1>2. IsRequest(q) /\ Requests(slot[r])
  BY <1>0 DEF RunFits, Requests
<1>3. slot' = [slot EXCEPT ![r] = [slot[r] EXCEPT ![s] = n]]
  BY <1>0, <1>1, <1>2 DEF Requests, DoneWith
<1>4. IsRequest(n) /\ n.state = "done" /\ n.result = "cancelled" /\ n.dropped = q.dropped
  BY <1>2, DoneUpdate
<1>5. n.result \in Results \ Unsafe
  BY <1>4 DEF Results, Unsafe
<1> HIDE DEF n
<1> QED
  BY <1>1, <1>3, <1>4, <1>5, ClosedKeeps

\* The row of an attempt is written, or cannot be.
LEMMA RowsGrow ==
    ASSUME RoutingInv, NEW r \in Runs, NEW s \in Slots, CreateAttempt(r, slot[r][s])
    PROVE  \E at : /\ attempts' = [attempts EXCEPT ![r] = at] /\ Attempts(at)
                   /\ ~audited => DOMAIN at = {}
                   /\ \/ at = attempts[r] /\ (~audited \/ SequenceTaken(r, slot[r][s]))
                      \/ /\ audited /\ ~SequenceTaken(r, slot[r][s])
                         /\ DOMAIN at = DOMAIN attempts[r] \cup {slot[r][s].seq}
                         /\ at[slot[r][s].seq].status = "created"
                         /\ \A x \in DOMAIN attempts[r] : x # slot[r][s].seq => at[x] = attempts[r][x]
<1> DEFINE q == slot[r][s]
<1>1. /\ RunFits(audited, turn[r], slot[r], attempts[r]) /\ attempts = [x \in Runs |-> attempts[x]]
  BY DEF RoutingInv
<1>2. Attempts(attempts[r]) /\ (~audited => DOMAIN attempts[r] = {})
  BY <1>1 DEF RunFits, RowsThere
<1>3. CASE ~audited \/ SequenceTaken(r, q)
  <2>1. attempts' = [attempts EXCEPT ![r] = attempts[r]]
    BY <1>1, <1>3 DEF CreateAttempt
  <2> QED
    BY <2>1, <1>2, <1>3
<1>4. CASE audited /\ ~SequenceTaken(r, q)
  <2>1. attempts' = [attempts EXCEPT ![r] = Inserted(attempts[r], q)]
    BY <1>1, <1>4 DEF CreateAttempt
  <2>2. PICK at, k, old, a : /\ at = Inserted(attempts[r], q) /\ k = q.seq /\ old = attempts[r]
                             /\ a = [cand |-> q.cand, role |-> q.role, status |-> "created"]
    OBVIOUS
  <2>3. /\ Attempts(at) /\ DOMAIN at = DOMAIN attempts[r] \cup {q.seq} /\ at[q.seq].status = "created"
        /\ \A x \in DOMAIN attempts[r] : x # q.seq => at[x] = attempts[r][x]
    <3>1. Attempts(old) /\ at = [x \in DOMAIN old \cup {k} |-> IF x = k THEN a ELSE old[x]]
      BY <1>2, <2>2 DEF Inserted
    <3>2. IsAttempt(a) /\ a.status = "created"
      BY <2>2 DEF IsAttempt
    <3>3. /\ Attempts(at) /\ DOMAIN at = DOMAIN old \cup {k} /\ at[k] = a
          /\ \A x \in DOMAIN old : x # k => at[x] = old[x]
      BY <3>1, <3>2, Grown
    <3> QED
      BY <3>2, <3>3, <2>2
  <2>4. attempts' = [attempts EXCEPT ![r] = at]
    BY <2>1, <2>2
  <2> WITNESS at
  <2> QED
    BY <2>3, <2>4, <1>4
<1> QED
  BY <1>3, <1>4

LEMMA SendKeeps ==
    ASSUME RoutingInv, NEW r \in Runs, NEW s \in Slots, SendAttempt(r, s)
    PROVE  RoutingInv'
<1> DEFINE q == slot[r][s]
           sl == slot[r]
           taken == SequenceTaken(r, q)
           n == IF taken THEN DoneWith(q, "unsafe") ELSE InState(q, "sent")
           sl2 == [sl EXCEPT ![s] = n]
<1>0. RunFits(audited, turn[r], sl, attempts[r]) /\ turn = [x \in Runs |-> turn[x]]
  BY DEF RoutingInv
<1>1. /\ q.state = "to_send" /\ CreateAttempt(r, q) /\ UNCHANGED <<audited, turn>>
      /\ slot' = [slot EXCEPT ![r][s] = n]
  BY DEF SendAttempt, DoneWith, InState
<1>2. /\ IsRequest(q) /\ Requests(sl) /\ RowsHeld(sl, attempts[r]) /\ RowsThere(audited, sl, attempts[r])
      /\ q.result \in Results /\ q.result \notin Unsafe /\ (s = 0 => q.result # "cancelling")
  BY <1>0, <1>1 DEF RunFits, Requests, SlotsFit
<1>3. PICK at : /\ attempts' = [attempts EXCEPT ![r] = at] /\ Attempts(at)
                /\ ~audited => DOMAIN at = {}
                /\ \/ at = attempts[r] /\ (~audited \/ taken)
                   \/ /\ audited /\ ~taken
                      /\ DOMAIN at = DOMAIN attempts[r] \cup {q.seq}
                      /\ at[q.seq].status = "created"
                      /\ \A x \in DOMAIN attempts[r] : x # q.seq => at[x] = attempts[r][x]
  BY <1>1, RowsGrow
<1>4. taken => n = DoneWith(q, "unsafe")
  OBVIOUS
<1>5. ~taken => n = InState(q, "sent")
  OBVIOUS
<1> HIDE DEF n, taken
<1>6. /\ IsRequest(n) /\ n.dropped = q.dropped /\ n.seq = q.seq
      /\ taken => n.state = "done" /\ n.result = "unsafe"
      /\ ~taken => n.state = "sent" /\ n.result = q.result
  BY <1>2, <1>4, <1>5, DoneUpdate, StateUpdate
<1>7. /\ n.state \in {"to_send", "done"} \cup UnderWay /\ n.result \in Results
      /\ n.result \in Unsafe => n.state = "done"
      /\ (s = 0 => n.result # "cancelling") /\ (n.state = "done" => n.result # "none")
      /\ n.state \in UnderWay => ~taken
  BY <1>2, <1>6 DEF UnderWay, Results
<1>8. RowsHeld(sl2, at)
  <2>1. CASE at = attempts[r]
    <3>1. \A a : Holds(q, a) => n.seq = q.seq /\ Holds(n, a)
      BY <1>1, <1>2, <1>6 DEF Holds, UnderWay
    <3> QED
      BY <2>1, <3>1, <1>2, HeldStill
  <2>2. CASE /\ ~taken /\ DOMAIN at = DOMAIN attempts[r] \cup {q.seq}
             /\ \A x \in DOMAIN attempts[r] : x # q.seq => at[x] = attempts[r][x]
    <3>1. n.seq = q.seq /\ \A a : Holds(n, a)
      BY <2>2, <1>6 DEF Holds, UnderWay
    <3> QED
      BY <2>2, <3>1, <1>2, HeldAfter
  <2> QED
    BY <1>3, <2>1, <2>2
<1>9. RowsThere(audited, sl2, at)
  <2>1. DOMAIN attempts[r] \subseteq DOMAIN at /\ (audited /\ n.state \in UnderWay => n.seq \in DOMAIN at)
    BY <1>3, <1>6, <1>7
  <2> QED
    BY <2>1, <1>2, <1>3, ThereAfter
<1>10. RunFits(audited, turn[r], sl2, at)
  <2>1. sl[s].state \in {"to_send"} \cup UnderWay /\ (s = 0 => n.dropped = sl[0].dropped)
    BY <1>1, <1>6
  <2>2. Attempts(at)
    BY <1>3
  <2> QED
    BY <2>1, <2>2, <1>0, <1>6, <1>7, <1>8, <1>9, SlotMoves
<1>11. slot' = [slot EXCEPT ![r] = sl2] /\ turn' = [turn EXCEPT ![r] = turn[r]]
  BY <1>0, <1>1
<1> HIDE DEF sl, sl2
<1> QED
  BY <1>1, <1>3, <1>10, <1>11, RunMoves

\* What happened to a request cannot be written.
LEMMA AuditKeeps ==
    ASSUME RoutingInv, NEW r \in Runs, NEW s \in Slots, AuditFails(r, s)
    PROVE  RoutingInv'
<1> DEFINE q == slot[r][s]
           sl == slot[r]
           n == DoneWith(q, "unsafe")
           sl2 == [sl EXCEPT ![s] = n]
<1>0. /\ RunFits(audited, turn[r], sl, attempts[r]) /\ turn = [x \in Runs |-> turn[x]]
      /\ slot = [x \in Runs |-> slot[x]] /\ attempts = [x \in Runs |-> attempts[x]]
  BY DEF RoutingInv
<1>1. /\ audited /\ q.state \in {"to_send"} \cup UnderWay /\ UNCHANGED <<audited, turn>>
      /\ slot' = [slot EXCEPT ![r][s].state = "done", ![r][s].result = "unsafe"]
      /\ \/ UNCHANGED attempts
         \/ CreateAttempt(r, q)
         \/ q.state \in UnderWay /\ \E status \in {"failed", "timed_out", "cancelled"} : CloseAttempt(r, s, status)
  BY DEF AuditFails, Meets, ClosedAs
<1>2. /\ IsRequest(q) /\ Requests(sl) /\ RowsHeld(sl, attempts[r]) /\ RowsThere(audited, sl, attempts[r])
      /\ Attempts(attempts[r])
  BY <1>0 DEF RunFits, Requests
<1>3. PICK at : /\ attempts' = [attempts EXCEPT ![r] = at] /\ Attempts(at) /\ DOMAIN attempts[r] \subseteq DOMAIN at
                /\ \A x \in DOMAIN at : x # q.seq => x \in DOMAIN attempts[r] /\ at[x] = attempts[r][x]
  <2>1. CASE UNCHANGED attempts
    <3>1. attempts' = [attempts EXCEPT ![r] = attempts[r]]
      BY <2>1, <1>0
    <3> QED
      BY <3>1, <1>2
  <2>2. CASE CreateAttempt(r, q)
    <3>1. PICK at : /\ attempts' = [attempts EXCEPT ![r] = at] /\ Attempts(at)
                    /\ \/ at = attempts[r]
                       \/ /\ DOMAIN at = DOMAIN attempts[r] \cup {q.seq}
                          /\ \A x \in DOMAIN attempts[r] : x # q.seq => at[x] = attempts[r][x]
      <4>1. PICK at : /\ attempts' = [attempts EXCEPT ![r] = at] /\ Attempts(at)
                      /\ ~audited => DOMAIN at = {}
                      /\ \/ at = attempts[r] /\ (~audited \/ SequenceTaken(r, q))
                         \/ /\ audited /\ ~SequenceTaken(r, q)
                            /\ DOMAIN at = DOMAIN attempts[r] \cup {q.seq}
                            /\ at[q.seq].status = "created"
                            /\ \A x \in DOMAIN attempts[r] : x # q.seq => at[x] = attempts[r][x]
        BY <2>2, RowsGrow
      <4> WITNESS at
      <4> QED
        BY <4>1
    <3> WITNESS at
    <3> QED
      BY <3>1
  <2>3. ASSUME q.state \in UnderWay, NEW status, CloseAttempt(r, s, status)
        PROVE  \E at : /\ attempts' = [attempts EXCEPT ![r] = at] /\ Attempts(at) /\ DOMAIN attempts[r] \subseteq DOMAIN at
                       /\ \A x \in DOMAIN at : x # q.seq => x \in DOMAIN attempts[r] /\ at[x] = attempts[r][x]
    <3>1. PICK at : /\ attempts' = [attempts EXCEPT ![r] = at] /\ Attempts(at) /\ DOMAIN at = DOMAIN attempts[r]
                    /\ \A x \in DOMAIN at : x # q.seq => at[x] = attempts[r][x]
      BY <2>3, RowsMove DEF CloseAttempt
    <3> WITNESS at
    <3> QED
      BY <3>1
  <2> QED
    BY <1>1, <2>1, <2>2, <2>3
<1>4. slot' = [slot EXCEPT ![r] = sl2] /\ turn' = [turn EXCEPT ![r] = turn[r]]
  BY <1>0, <1>1, <1>2 DEF Requests, DoneWith
<1>5. IsRequest(n) /\ n.state = "done" /\ n.result = "unsafe" /\ n.dropped = q.dropped /\ n.seq = q.seq
  BY <1>2, DoneUpdate
<1> HIDE DEF n
<1>6. /\ n.state \in {"to_send", "done"} \cup UnderWay /\ n.result \in Results /\ n.state \notin UnderWay
      /\ \A a : Holds(n, a)
  BY <1>5 DEF Results, UnderWay, Holds, Unsafe
<1>7. RowsHeld(sl2, at)
  BY <1>2, <1>3, <1>5, <1>6, HeldAfter
<1>8. RowsThere(audited, sl2, at)
  BY <1>1, <1>2, <1>3, <1>6, ThereAfter
<1>9. RunFits(audited, turn[r], sl2, at)
  <2>1. sl[s].state \in {"to_send"} \cup UnderWay /\ (s = 0 => n.dropped = sl[0].dropped)
    BY <1>1, <1>5
  <2>2. Attempts(at)
    BY <1>3
  <2> QED
    BY <2>1, <2>2, <1>0, <1>5, <1>6, <1>7, <1>8, SlotMoves
<1> HIDE DEF sl, sl2
<1> QED
  BY <1>1, <1>3, <1>4, <1>9, RunMoves

LEMMA TaskCancelledKeeps ==
    ASSUME RoutingInv, NEW r \in Runs, NEW s \in Slots \ {0}, NEW written \in BOOLEAN,
           NEW inTime \in BOOLEAN, TaskCancelled(r, s, written, inTime)
    PROVE  RoutingInv'
<1> DEFINE q == slot[r][s]
           sl == slot[r]
<1>0. /\ RunFits(audited, turn[r], sl, attempts[r]) /\ turn = [x \in Runs |-> turn[x]]
      /\ slot = [x \in Runs |-> slot[x]] /\ attempts = [x \in Runs |-> attempts[x]]
  BY DEF RoutingInv
<1>1. q.dropped /\ UNCHANGED <<audited, turn>>
  BY DEF TaskCancelled
<1>2. /\ IsRequest(q) /\ Requests(sl) /\ Attempts(attempts[r])
      /\ RowsHeld(sl, attempts[r]) /\ RowsThere(audited, sl, attempts[r]) /\ q.result \in Results
      /\ q.result \in Unsafe => q.state = "done"
  BY <1>0 DEF RunFits, Requests, SlotsFit
<1>3. CASE q.state = "to_send"
  <2> DEFINE n == DoneWith(q, "failed")
             sl2 == [sl EXCEPT ![s] = n]
  <2>1. /\ slot' = [slot EXCEPT ![r][s].state = "done", ![r][s].result = "failed"]
        /\ CreateAttempt(r, q) \/ UNCHANGED attempts
    BY <1>3 DEF TaskCancelled, UnderWay
  <2>2. slot' = [slot EXCEPT ![r] = sl2] /\ turn' = [turn EXCEPT ![r] = turn[r]]
    BY <1>0, <1>1, <1>2, <2>1 DEF Requests, DoneWith
  <2>3. /\ IsRequest(n) /\ n.state = "done" /\ n.result = "failed" /\ n.dropped = q.dropped /\ n.seq = q.seq
    BY <1>2, DoneUpdate
  <2>4. PICK at : /\ attempts' = [attempts EXCEPT ![r] = at] /\ Attempts(at)
                  /\ ~audited => DOMAIN at = {}
                  /\ \/ at = attempts[r]
                     \/ /\ DOMAIN at = DOMAIN attempts[r] \cup {q.seq}
                        /\ at[q.seq].status = "created"
                        /\ \A x \in DOMAIN attempts[r] : x # q.seq => at[x] = attempts[r][x]
    <3>1. CASE CreateAttempt(r, q)
      <4>1. PICK at : /\ attempts' = [attempts EXCEPT ![r] = at] /\ Attempts(at)
                      /\ ~audited => DOMAIN at = {}
                      /\ \/ at = attempts[r] /\ (~audited \/ SequenceTaken(r, q))
                         \/ /\ audited /\ ~SequenceTaken(r, q)
                            /\ DOMAIN at = DOMAIN attempts[r] \cup {q.seq}
                            /\ at[q.seq].status = "created"
                            /\ \A x \in DOMAIN attempts[r] : x # q.seq => at[x] = attempts[r][x]
        BY <3>1, RowsGrow
      <4> WITNESS at
      <4> QED
        BY <4>1
    <3>2. CASE UNCHANGED attempts
      <4>1. attempts' = [attempts EXCEPT ![r] = attempts[r]]
        BY <3>2, <1>0
      <4> QED
        BY <4>1, <1>2 DEF RowsThere
    <3> QED
      BY <2>1, <3>1, <3>2
  <2> HIDE DEF n
  <2>5. RowsHeld(sl2, at)
    <3>1. CASE at = attempts[r]
      <4>1. \A a : Holds(q, a) => n.seq = q.seq /\ Holds(n, a)
        BY <1>1, <1>2, <1>3, <2>3 DEF Holds, UnderWay
      <4> QED
        BY <3>1, <4>1, <1>2, HeldStill
    <3>2. CASE /\ DOMAIN at = DOMAIN attempts[r] \cup {q.seq} /\ at[q.seq].status = "created"
               /\ \A x \in DOMAIN attempts[r] : x # q.seq => at[x] = attempts[r][x]
      <4>1. n.seq = q.seq /\ Holds(n, at[q.seq])
        BY <3>2, <1>1, <2>3 DEF Holds
      <4> QED
        BY <3>2, <4>1, <1>2, HeldAfter
    <3> QED
      BY <2>4, <3>1, <3>2
  <2>6. RowsThere(audited, sl2, at)
    <3>1. DOMAIN attempts[r] \subseteq DOMAIN at /\ n.state \notin UnderWay
      BY <2>3, <2>4 DEF UnderWay
    <3> QED
      BY <3>1, <1>2, <2>4, ThereAfter
  <2>7. RunFits(audited, turn[r], sl2, at)
    <3>1. /\ sl[s].state \in {"to_send"} \cup UnderWay /\ s # 0 /\ n.state \in {"to_send", "done"} \cup UnderWay
          /\ n.result \in Results /\ n.result \notin Unsafe
      BY <1>3, <2>3 DEF Results, Unsafe
    <3>2. Attempts(at) /\ IsRequest(n)
      BY <2>3, <2>4
    <3> QED
      BY <3>1, <3>2, <1>0, <2>5, <2>6, SlotMoves
  <2> HIDE DEF sl, sl2
  <2> QED
    BY <1>1, <2>2, <2>4, <2>7, RunMoves
<1>4. CASE q.state \in UnderWay
  <2> DEFINE n == IF MayRetry(q, turn[r], "TIMEOUT", FALSE, inTime) THEN Cancelling(Retry(q, turn[r]))
                  ELSE DoneWith(q, "failed")
  <2>1. CloseAttempt(r, s, "timed_out") /\ slot' = [slot EXCEPT ![r][s] = n]
    BY <1>4 DEF TaskCancelled, UnderWay, Cancelling, DoneWith
  <2>2. slot' = [slot EXCEPT ![r] = [slot[r] EXCEPT ![s] = n]]
    BY <2>1
  <2>3. IsRequest(n) /\ n.state \in {"to_send", "done"} /\ n.result \in Results \ Unsafe
    <3>0. n = Cancelling(Retry(q, turn[r])) \/ n = DoneWith(q, "failed")
      OBVIOUS
    <3> HIDE DEF n
    <3>1. CASE n = Cancelling(Retry(q, turn[r]))
      <4>1. IsRequest(Retry(q, turn[r])) /\ Retry(q, turn[r]).state = "to_send"
        BY <1>2, RetryUpdates
      <4>2. IsRequest(n) /\ n.state = "to_send" /\ n.result = "cancelling"
        BY <3>1, <4>1, CancellingUpdate
      <4> QED
        BY <4>2 DEF Results, Unsafe
    <3>2. CASE n = DoneWith(q, "failed")
      <4>1. IsRequest(n) /\ n.state = "done" /\ n.result = "failed"
        BY <3>2, <1>2, DoneUpdate
      <4> QED
        BY <4>1 DEF Results, Unsafe
    <3> QED
      BY <3>0, <3>1, <3>2
  <2> HIDE DEF n
  <2> QED
    BY <1>1, <1>4, <2>1, <2>2, <2>3, ClosedKeeps
<1> QED
  BY <1>3, <1>4 DEF TaskCancelled

-----------------------------------------------------------------------------
(* The steps of complete() itself. *)

InPlace(t, pc) == [t EXCEPT !.pc = pc]
TurnEnded(t, outcome, decision) == [t EXCEPT !.pc = "over", !.outcome = outcome, !.decision = decision]

NextFallback(t, queue, next) == [t EXCEPT !.pc = "fallback", !.queue = queue, !.next = next]
AfterProposals(t, pc, failed) == [t EXCEPT !.pc = pc, !.failed = failed]

LEMMA FallbackUpdate ==
    ASSUME NEW t, IsTurn(t), NEW queue, NEW next, NEW n, n = NextFallback(t, queue, next)
    PROVE  IsTurn(n) /\ n.pc = "fallback" /\ n.kind = t.kind /\ n.decision = t.decision
BY DEF IsTurn, NextFallback

LEMMA ProposalsUpdate ==
    ASSUME NEW t, IsTurn(t), NEW pc, NEW failed, NEW n, n = AfterProposals(t, pc, failed)
    PROVE  IsTurn(n) /\ n.pc = pc /\ n.kind = t.kind /\ n.decision = t.decision
BY DEF IsTurn, AfterProposals

LEMMA PlaceUpdate ==
    ASSUME NEW t, IsTurn(t), NEW pc, NEW n, n = InPlace(t, pc)
    PROVE  /\ IsTurn(n) /\ n.pc = pc /\ n.kind = t.kind /\ n.decision = t.decision /\ n.lineup = t.lineup
           /\ n.outcome = t.outcome
BY DEF IsTurn, InPlace

LEMMA EndUpdate ==
    ASSUME NEW t, IsTurn(t), NEW outcome, NEW decision, NEW n, n = TurnEnded(t, outcome, decision)
    PROVE  IsTurn(n) /\ n.pc = "over" /\ n.kind = t.kind /\ n.decision = decision /\ n.outcome = outcome
BY DEF IsTurn, TurnEnded

LEMMA NoRequestFields ==
    ASSUME NEW q, q = NoRequest
    PROVE  IsRequest(q) /\ q.state = "idle" /\ q.result = "none" /\ q.dropped = FALSE
BY DEF NoRequest, IsRequest

LEMMA StopWaitingKeeps ==
    ASSUME RoutingInv, NEW r \in Runs, StopWaiting(r)
    PROVE  RoutingInv'
<1> DEFINE t == turn[r]
           sl == slot[r]
           t2 == InPlace(t, "closing")
           left == 1..Len(t.lineup) \ Finished(r)
           g(s) == IF s \in left THEN Dropped(sl[s]) ELSE sl[s]
           sl2 == [s \in Slots |-> g(s)]
<1>1. /\ RunFits(audited, t, sl, attempts[r]) /\ attempts = [x \in Runs |-> attempts[x]]
      /\ turn = [x \in Runs |-> turn[x]]
  BY DEF RoutingInv
<1>2. /\ IsTurn(t) /\ Requests(sl) /\ Attempts(attempts[r]) /\ RowsHeld(sl, attempts[r])
      /\ RowsThere(audited, sl, attempts[r]) /\ SlotsFit(t, sl) /\ TurnFits(t, attempts[r])
  BY <1>1 DEF RunFits
<1>3. /\ t.pc = "proposing" /\ slot' = [slot EXCEPT ![r] = sl2]
      /\ UNCHANGED <<audited, attempts>> /\ turn' = [turn EXCEPT ![r].pc = "closing"]
  BY DEF StopWaiting, Dropped
<1>4. turn' = [turn EXCEPT ![r] = t2] /\ attempts' = [attempts EXCEPT ![r] = attempts[r]]
  BY <1>1, <1>3 DEF InPlace
<1>5. IsTurn(t2) /\ t2.pc = "closing" /\ t2.kind = t.kind /\ t2.decision = t.decision /\ t2.lineup = t.lineup
  BY <1>2, PlaceUpdate
<1>6. \A s \in Slots : /\ IsRequest(g(s)) /\ g(s).state = sl[s].state /\ g(s).result = sl[s].result
                       /\ g(s).seq = sl[s].seq /\ (sl[s].dropped => g(s).dropped)
  <2> SUFFICES ASSUME NEW s \in Slots
               PROVE  /\ IsRequest(g(s)) /\ g(s).state = sl[s].state /\ g(s).result = sl[s].result
                      /\ g(s).seq = sl[s].seq /\ (sl[s].dropped => g(s).dropped)
    OBVIOUS
  <2>1. IsRequest(sl[s])
    BY <1>2 DEF Requests
  <2>2. CASE s \in left
    <3>1. g(s) = Dropped(sl[s])
      BY <2>2
    <3> HIDE DEF g
    <3> QED
      BY <2>1, <3>1, DroppedUpdate
  <2>3. CASE s \notin left
    <3>1. g(s) = sl[s]
      BY <2>3
    <3> HIDE DEF g
    <3> QED
      BY <2>1, <3>1
  <2> QED
    BY <2>2, <2>3
<1>7. g(0) = sl[0]
  <2>1. 0 \notin left
    OBVIOUS
  <2> QED
    BY <2>1
<1> HIDE DEF g
<1>8. sl2 = [s \in Slots |-> sl2[s]] /\ \A s \in Slots : sl2[s] = g(s)
  OBVIOUS
<1> HIDE DEF sl2, t2
<1>9. Requests(sl2)
  BY <1>6, <1>8 DEF Requests
<1>10. \A s \in Slots : \A a : Holds(sl[s], a) => Holds(sl2[s], a)
  BY <1>6, <1>8 DEF Holds
<1>11. RowsHeld(sl2, attempts[r])
  BY <1>2, <1>6, <1>8, <1>10 DEF RowsHeld
<1>12. RowsThere(audited, sl2, attempts[r])
  BY <1>2, <1>6, <1>8 DEF RowsThere
<1>13. sl2[0] = sl[0]
  BY <1>7, <1>8, SlotZero
<1>14. SlotsFit(t2, sl2)
  BY <1>2, <1>3, <1>5, <1>6, <1>8, <1>13, SlotZero DEF SlotsFit, Proposing, Resting, Awaiting
<1>15. TurnFits(t2, attempts[r])
  BY <1>2, <1>3, <1>5 DEF TurnFits, Proposing, Resting, Awaiting
<1>16. RunFits(audited, t2, sl2, attempts[r])
  BY <1>2, <1>5, <1>9, <1>11, <1>12, <1>14, <1>15 DEF RunFits
<1>17. UNCHANGED audited
  BY <1>3
<1> QED
  BY <1>3, <1>4, <1>16, <1>17, RunMoves

LEMMA TurnMoves ==
    ASSUME RoutingInv, NEW r \in Runs, NEW t, turn' = [turn EXCEPT ![r] = t],
           UNCHANGED <<audited, slot, attempts>>, RunFits(audited, t, slot[r], attempts[r])
    PROVE  RoutingInv'
<1>1. PICK sl, at : sl = slot[r] /\ at = attempts[r]
  OBVIOUS
<1>2. /\ slot' = [slot EXCEPT ![r] = sl] /\ attempts' = [attempts EXCEPT ![r] = at]
      /\ UNCHANGED audited /\ RunFits(audited, t, sl, at)
  BY <1>1 DEF RoutingInv
<1> QED
  BY <1>2, RunMoves

\* complete() returns or raises.
LEMMA EndKeeps ==
    ASSUME RoutingInv, NEW r \in Runs, NEW outcome \in {"succeeded", "failed", "cancelled", "unsafe"},
           turn[r].pc \in Awaiting \cup Proposing, \A s \in Slots : slot[r][s].state \in {"idle", "done"},
           outcome = "failed" => Overlooked(slot[r]) /\ slot[r][0].result \notin Unsafe,
           EndTurn(r, outcome), UNCHANGED <<audited, slot, attempts>>
    PROVE  RoutingInv'
<1> DEFINE t == turn[r]
<1>0. PICK final \in {outcome, "unsafe"} :
          turn' = [turn EXCEPT ![r].pc = "over", ![r].outcome = final,
                     ![r].decision = IF final = "unsafe" THEN @ ELSE TransitionDecision(@, final)]
  BY DEF EndTurn
<1> DEFINE decision == IF final = "unsafe" THEN t.decision ELSE TransitionDecision(t.decision, final)
           t2 == TurnEnded(t, final, decision)
<1>1. /\ RunFits(audited, t, slot[r], attempts[r]) /\ attempts = [x \in Runs |-> attempts[x]]
      /\ turn = [x \in Runs |-> turn[x]] /\ slot = [x \in Runs |-> slot[x]]
  BY DEF RoutingInv
<1>2. /\ IsTurn(t) /\ SlotsFit(t, slot[r]) /\ TurnFits(t, attempts[r])
  BY <1>1 DEF RunFits
<1>3. final # "unsafe" => decision = final
  BY <1>2 DEF TurnFits, TransitionDecision
<1>4. turn' = [turn EXCEPT ![r] = t2]
  BY <1>0, <1>1, <1>2 DEF TurnEnded, IsTurn
<1> HIDE DEF decision
<1>5. IsTurn(t2) /\ t2.pc = "over" /\ t2.kind = t.kind /\ t2.decision = decision /\ t2.outcome = final
  BY <1>2, EndUpdate
<1> HIDE DEF t2
<1>6. SlotsFit(t2, slot[r])
  BY <1>2, <1>5 DEF SlotsFit, Resting, Proposing, Awaiting
<1>7. TurnFits(t2, attempts[r])
  BY <1>2, <1>3, <1>5 DEF TurnFits, Resting, Proposing, Awaiting
<1>8. RunFits(audited, t2, slot[r], attempts[r])
  BY <1>1, <1>5, <1>6, <1>7 DEF RunFits
<1> QED
  BY <1>4, <1>8, TurnMoves

\* The next request that complete() awaits.
LEMMA AskKeeps ==
    ASSUME RoutingInv, NEW r \in Runs, turn[r].pc \in Awaiting \cup Proposing,
           \A s \in Slots \ {0} : slot[r][s].state \in {"idle", "done"},
           slot[r][0].state \notin UnderWay, slot[r][0].result \notin Unsafe, Overlooked(slot[r]),
           NEW c, NEW role, NEW seq, slot' = [slot EXCEPT ![r][0] = Request(c, role, seq)],
           NEW t2, IsTurn(t2), t2.pc \in Awaiting, t2.kind = turn[r].kind, t2.decision = turn[r].decision,
           turn' = [turn EXCEPT ![r] = t2], UNCHANGED <<audited, attempts>>
    PROVE  RoutingInv'
<1> DEFINE t == turn[r]
           sl == slot[r]
<1>0. PICK q : q = Request(c, role, seq)
  OBVIOUS
<1> DEFINE sl2 == [sl EXCEPT ![0] = q]
<1>1. /\ RunFits(audited, t, sl, attempts[r]) /\ attempts = [x \in Runs |-> attempts[x]]
      /\ slot = [x \in Runs |-> slot[x]]
  BY DEF RoutingInv
<1>2. /\ Requests(sl) /\ RowsHeld(sl, attempts[r]) /\ Attempts(attempts[r])
      /\ RowsThere(audited, sl, attempts[r]) /\ SlotsFit(t, sl) /\ TurnFits(t, attempts[r])
  BY <1>1 DEF RunFits
<1>3. IsRequest(q) /\ q.state = "to_send" /\ q.result = "none" /\ q.dropped = FALSE
  BY <1>0 DEF Request, NoRequest, IsRequest
<1>4. \A a : ~Holds(sl[0], a)
  BY <1>2 DEF SlotsFit, Holds
<1>5. RowsHeld(sl2, attempts[r])
  BY <1>2, <1>4, SlotZero, HeldStill
<1>6. RowsThere(audited, sl2, attempts[r])
  <2>1. q.state \notin UnderWay /\ (~audited => DOMAIN attempts[r] = {})
    BY <1>2, <1>3 DEF UnderWay, RowsThere
  <2> QED
    BY <2>1, <1>2, SlotZero, ThereAfter
<1>7. \A x \in Slots : sl2[x] = IF x = 0 THEN q ELSE sl[x]
  BY <1>2 DEF Requests
<1>8. Requests(sl2)
  <2>1. sl2 = [x \in Slots |-> sl2[x]]
    BY <1>2 DEF Requests
  <2> QED
    BY <2>1, <1>2, <1>3, <1>7 DEF Requests
<1>9. slot' = [slot EXCEPT ![r] = sl2] /\ attempts' = [attempts EXCEPT ![r] = attempts[r]] /\ UNCHANGED audited
  BY <1>0, <1>1
<1> HIDE DEF sl2
<1>10. SlotsFit(t2, sl2)
  <2>1. Overlooked(sl2)
    BY <1>7 DEF Overlooked
  <2> QED
    BY <1>2, <1>3, <1>7, <2>1, SlotZero DEF SlotsFit, Resting, Proposing, Awaiting, Results, Unsafe
<1>11. TurnFits(t2, attempts[r])
  BY <1>2 DEF TurnFits, Resting, Proposing, Awaiting
<1>12. RunFits(audited, t2, sl2, attempts[r])
  BY <1>2, <1>5, <1>6, <1>8, <1>10, <1>11 DEF RunFits
<1> QED
  BY <1>9, <1>12, RunMoves

LEMMA FallbackKeeps ==
    ASSUME RoutingInv, NEW r \in Runs, turn[r].pc \in Awaiting, slot[r][0].state = "done",
           slot[r][0].result = "failed", NEW queue, NEW next, TryFallback(r, queue, next, turn[r]),
           UNCHANGED <<audited, attempts>>
    PROVE  RoutingInv'
<1> DEFINE t == turn[r]
           waiting == Tail(queue)
           later == next + 1
           t2 == NextFallback(t, waiting, later)
<1>1. /\ RunFits(audited, t, slot[r], attempts[r])
  BY DEF RoutingInv
<1>2. /\ IsTurn(t) /\ SlotsFit(t, slot[r])
  BY <1>1 DEF RunFits
<1>3. /\ \A s \in Slots \ {0} : slot[r][s].state \in {"idle", "done"}
      /\ Overlooked(slot[r]) /\ slot[r][0].result \notin Unsafe
  BY <1>2 DEF SlotsFit, Unsafe
<1>4. CASE queue = << >>
  <2>1. EndTurn(r, "failed") /\ UNCHANGED <<audited, slot, attempts>>
    BY <1>4 DEF TryFallback
  <2>2. \A s \in Slots : slot[r][s].state \in {"idle", "done"}
    BY <1>3
  <2> QED
    BY <1>3, <2>1, <2>2, EndKeeps
<1>5. CASE queue # << >>
  <2>1. turn' = [turn EXCEPT ![r] = t2] /\ slot' = [slot EXCEPT ![r][0] = Request(Head(queue), "fallback", next)]
    BY <1>5 DEF TryFallback, NextFallback
  <2> HIDE DEF waiting, later
  <2>2. IsTurn(t2) /\ t2.pc = "fallback" /\ t2.kind = t.kind /\ t2.decision = t.decision
    BY <1>2, FallbackUpdate
  <2> HIDE DEF t2
  <2>3. t2.pc \in Awaiting /\ slot[r][0].state \notin UnderWay /\ slot[r][0].result \notin Unsafe
    BY <1>3, <2>2 DEF Awaiting, UnderWay
  <2> QED
    BY <2>1, <2>2, <2>3, <1>3, AskKeeps
<1> QED
  BY <1>4, <1>5

LEMMA SettleKeeps ==
    ASSUME RoutingInv, NEW r \in Runs, Settle(r)
    PROVE  RoutingInv'
<1> DEFINE t == turn[r]
           q == slot[r][0]
<1>1. RunFits(audited, t, slot[r], attempts[r])
  BY DEF RoutingInv
<1>2. /\ q.state = "done" /\ t.pc \in Awaiting /\ UNCHANGED <<audited, attempts>>
  BY DEF Settle, Awaiting
<1>3. /\ q.result \in Results /\ q.result # "none" /\ q.result # "cancelling"
      /\ \A s \in Slots : slot[r][s].state \in {"idle", "done"}
  BY <1>1, <1>2, SlotZero DEF RunFits, SlotsFit
<1>4. CASE q.result # "failed"
  <2>1. q.result \in {"answered", "cancelled"} \cup Unsafe
    BY <1>3, <1>4 DEF Results, Unsafe
  <2>2. /\ EndTurn(r, "succeeded") \/ EndTurn(r, "cancelled") \/ EndTurn(r, "unsafe")
        /\ UNCHANGED slot
    BY <2>1 DEF Settle, Unsafe
  <2> QED
    BY <1>2, <1>3, <2>2, EndKeeps
<1>5. CASE q.result = "failed"
  <2>1. \/ TryFallback(r, t.queue, t.next, t)
        \/ AggregatorFallback(r) \/ StartFallbacks(r, q.seq + 1)
    BY <1>2, <1>5 DEF Settle, Unsafe, Awaiting
  <2>2. PICK queue, next : TryFallback(r, queue, next, t)
    BY <2>1 DEF AggregatorFallback, StartFallbacks
  <2> QED
    BY <2>2, <1>2, <1>5, FallbackKeeps
<1> QED
  BY <1>4, <1>5

LEMMA ConcludeKeeps ==
    ASSUME RoutingInv, NEW r \in Runs, Conclude(r)
    PROVE  RoutingInv'
<1> DEFINE t == turn[r]
           failed == {t.lineup[s] : s \in Finished(r) \ AnsweredBy(r)}
           asked == QuorumFallback(r, failed)
<1>1. RunFits(audited, t, slot[r], attempts[r])
  BY DEF RoutingInv
<1>2. /\ t.pc = "closing" /\ AllEnded(r) /\ UNCHANGED <<audited, attempts>>
  BY DEF Conclude
<1>3. IsTurn(t) /\ SlotsFit(t, slot[r]) /\ t.pc \in Proposing
  BY <1>1, <1>2 DEF RunFits, Proposing
<1>4. /\ slot[r][0].state = "idle" /\ slot[r][0].result = "none"
      /\ \A s \in Slots : slot[r][s].state \in {"idle", "done"}
  BY <1>2, <1>3 DEF SlotsFit, AllEnded, Finished
<1> DEFINE heard == \E s \in Finished(r) : slot[r][s].result \in Unsafe /\ ~slot[r][s].dropped
<1>5. \/ /\ EndTurn(r, "cancelled") \/ EndTurn(r, "unsafe") \/ (EndTurn(r, "failed") /\ ~heard)
         /\ UNCHANGED slot
      \/ /\ turn' = [turn EXCEPT ![r].pc = "aggregate", ![r].failed = failed \union {t.primary}]
         /\ slot' = [slot EXCEPT ![r][0] = AggregatorRequest(t)] /\ ~heard
      \/ /\ turn' = [turn EXCEPT ![r].pc = "quorum", ![r].failed = failed]
         /\ slot' = [slot EXCEPT ![r][0] = asked] /\ ~heard
  BY DEF Conclude
<1>11. ~heard => Overlooked(slot[r]) /\ slot[r][0].result \notin Unsafe
  BY <1>3, <1>4 DEF SlotsFit, Overlooked, Finished, Proposing, Unsafe
<1> HIDE DEF heard
<1>6. CASE /\ EndTurn(r, "cancelled") \/ EndTurn(r, "unsafe") \/ (EndTurn(r, "failed") /\ ~heard)
           /\ UNCHANGED slot
  BY <1>2, <1>3, <1>4, <1>6, <1>11, EndKeeps
<1> HIDE DEF failed
<1>7. \E c, role, seq : asked = Request(c, role, seq)
  BY DEF QuorumFallback
<1>8. \E c, role, seq : AggregatorRequest(t) = Request(c, role, seq)
  BY DEF AggregatorRequest
<1>9. slot[r][0].state \notin UnderWay /\ slot[r][0].result \notin Unsafe
  BY <1>4 DEF UnderWay, Unsafe
<1>10. ASSUME ~heard, NEW pc \in {"aggregate", "quorum"}, NEW set, turn' = [turn EXCEPT ![r].pc = pc, ![r].failed = set],
              NEW q, slot' = [slot EXCEPT ![r][0] = q], \E c, role, seq : q = Request(c, role, seq)
       PROVE  RoutingInv'
  <2> DEFINE t2 == AfterProposals(t, pc, set)
  <2>1. PICK c, role, seq : q = Request(c, role, seq)
    BY <1>10
  <2>2. turn' = [turn EXCEPT ![r] = t2]
    BY <1>10, <1>3 DEF RoutingInv, IsTurn, AfterProposals
  <2>3. IsTurn(t2) /\ t2.pc = pc /\ t2.kind = t.kind /\ t2.decision = t.decision
    BY <1>3, ProposalsUpdate
  <2> HIDE DEF t2
  <2>4. t2.pc \in Awaiting /\ slot' = [slot EXCEPT ![r][0] = Request(c, role, seq)]
    BY <1>10, <2>1, <2>3 DEF Awaiting
  <2>5. Overlooked(slot[r]) /\ turn[r].pc \in Awaiting \cup Proposing /\ UNCHANGED <<audited, attempts>>
    BY <1>2, <1>3, <1>10, <1>11
  <2>6. \A s \in Slots \ {0} : slot[r][s].state \in {"idle", "done"}
    BY <1>4
  <2> QED
    BY <1>9, <2>2, <2>3, <2>4, <2>5, <2>6, AskKeeps
<1> HIDE DEF asked
<1> QED
  BY <1>5, <1>6, <1>7, <1>8, <1>10

\* A turn that has made no request yet.
LEMMA NoSlotsFit ==
    ASSUME NEW aud, NEW t, IsTurn(t), NEW at, Attempts(at), ~aud => DOMAIN at = {}, TurnFits(t, at),
           t.pc \in Resting, \A q \in DOMAIN at : at[q].status \notin Open,
           NEW sl, sl = [s \in Slots |-> NoRequest]
    PROVE  RunFits(aud, t, sl, at)
<1>1. \A s \in Slots : IsRequest(sl[s]) /\ sl[s].state = "idle" /\ sl[s].result = "none" /\ sl[s].dropped = FALSE
  <2>1. PICK n : n = NoRequest
    OBVIOUS
  <2>2. IsRequest(n) /\ n.state = "idle" /\ n.result = "none" /\ n.dropped = FALSE
    BY <2>1, NoRequestFields
  <2>3. \A s \in Slots : sl[s] = n
    BY <2>1
  <2> QED
    BY <2>2, <2>3
<1>2. Requests(sl)
  BY <1>1 DEF Requests
<1>3. RowsHeld(sl, at) /\ RowsThere(aud, sl, at)
  BY <1>1 DEF RowsHeld, RowsThere, UnderWay
<1>4. SlotsFit(t, sl)
  BY <1>1, SlotZero DEF SlotsFit, Overlooked, Resting, Proposing, Awaiting, Results, Unsafe
<1> QED
  BY <1>2, <1>3, <1>4 DEF RunFits

LEMMA NoAttempts == Attempts(<< >>) /\ DOMAIN << >> = {}
BY DEF Attempts

Refused(t) == [t EXCEPT !.pc = "over", !.outcome = "failed"]
Headed(t, primary) == [t EXCEPT !.primary = primary]
HeadedBy(t, primary, lineup) == [t EXCEPT !.primary = primary, !.lineup = lineup]

LEMMA RefusedUpdate ==
    ASSUME NEW t, IsTurn(t), NEW n, n = Refused(t)
    PROVE  IsTurn(n) /\ n.pc = "over" /\ n.outcome = "failed" /\ n.kind = t.kind /\ n.decision = t.decision
BY DEF IsTurn, Refused

LEMMA DecisionUpdate ==
    ASSUME NEW t, IsTurn(t), NEW kind, NEW selections, NEW n, n = NewDecision(t, kind, selections)
    PROVE  IsTurn(n) /\ n.pc = "planned" /\ n.kind = kind /\ n.lineup = t.lineup
BY DEF IsTurn, NewDecision

LEMMA HeadedUpdate ==
    ASSUME NEW t, IsTurn(t), NEW primary, NEW n, n = Headed(t, primary)
    PROVE  IsTurn(n) /\ n.pc = t.pc /\ n.kind = t.kind /\ n.lineup = t.lineup
BY DEF IsTurn, Headed

LEMMA HeadedByUpdate ==
    ASSUME NEW t, IsTurn(t), NEW primary, NEW lineup, NEW n, n = HeadedBy(t, primary, lineup)
    PROVE  IsTurn(n) /\ n.pc = t.pc /\ n.kind = t.kind
BY DEF IsTurn, HeadedBy

LEMMA PlanKeeps ==
    ASSUME RoutingInv, NEW r \in Runs, NEW mode, NEW order, NEW able, NEW ensemble \in BOOLEAN,
           PlanTurn(r, mode, order, able, ensemble)
    PROVE  RoutingInv'
<1> DEFINE state == LoadHealth(r)
           ranked == Keep(order, {c \in able : IsEligible(state[c])})
           aggregator == FirstOf(WithRole(ranked, "aggregator"))
           primary == Primary(mode, ranked)
           number == turn[r].number + 1
           begun == [NoTurn EXCEPT !.number = number, !.ranked = ranked]
           none == [s \in Slots |-> NoRequest]
<1>1. /\ \E lineup : turn' = [turn EXCEPT ![r] =
                    CASE primary = NoCandidate -> Refused(begun)
                      [] ensemble /\ primary # NoCandidate -> PersistEnsemble(begun, lineup, aggregator)
                      [] OTHER -> PersistSingle(begun, state, primary)]
      /\ slot' = [slot EXCEPT ![r] = none]
      /\ attempts' = [attempts EXCEPT ![r] = << >>] /\ UNCHANGED audited
  BY DEF PlanTurn, Refused
<1> HIDE DEF number, ranked, aggregator, primary, state
<1>2. PICK b : b = begun
  OBVIOUS
<1>3. IsTurn(b) /\ b.kind = "single" /\ b.lineup = << >> /\ b.decision = "none"
  BY <1>2 DEF NoTurn, IsTurn
<1> HIDE DEF begun
<1>4. PICK t2, lineup :
         /\ turn' = [turn EXCEPT ![r] = t2]
         /\ t2 = Refused(b) \/ t2 = PersistEnsemble(b, lineup, aggregator) \/ t2 = PersistSingle(b, state, primary)
  BY <1>1, <1>2
<1>5. CASE t2 = Refused(b)
  <2>1. IsTurn(t2) /\ t2.pc = "over" /\ t2.outcome = "failed" /\ t2.kind = "single" /\ t2.decision = "none"
    BY <1>3, <1>5, RefusedUpdate
  <2>2. TurnFits(t2, << >>) /\ t2.pc \in Resting
    BY <2>1, NoAttempts DEF TurnFits, Resting, Proposing, Awaiting
  <2>3. RunFits(audited, t2, none, << >>)
    BY <2>1, <2>2, NoAttempts, NoSlotsFit
  <2> HIDE DEF none
  <2> QED
    BY <1>1, <1>4, <2>3, RunMoves
<1>6. CASE t2 = PersistEnsemble(b, lineup, aggregator) \/ t2 = PersistSingle(b, state, primary)
  <2>3. /\ IsTurn(t2) /\ t2.pc = "planned" /\ t2.kind \in {"single", "ensemble"}
        /\ t2.kind = "single" => t2.lineup = << >>
    <3>1. CASE t2 = PersistSingle(b, state, primary)
      <4>1. PICK selections, n : n = NewDecision(b, "single", selections) /\ t2 = Headed(n, primary)
        BY <3>1 DEF PersistSingle, Headed
      <4>2. IsTurn(n) /\ n.pc = "planned" /\ n.kind = "single" /\ n.lineup = << >>
        BY <1>3, <4>1, DecisionUpdate
      <4> QED
        BY <4>1, <4>2, HeadedUpdate
    <3>2. CASE t2 = PersistEnsemble(b, lineup, aggregator)
      <4>1. PICK selections, n : n = NewDecision(b, "ensemble", selections) /\ t2 = HeadedBy(n, aggregator, lineup)
        BY <3>2 DEF PersistEnsemble, HeadedBy
      <4>2. IsTurn(n) /\ n.pc = "planned" /\ n.kind = "ensemble"
        BY <1>3, <4>1, DecisionUpdate
      <4> QED
        BY <4>1, <4>2, HeadedByUpdate
    <3> QED
      BY <1>6, <3>1, <3>2
  <2>4. TurnFits(t2, << >>) /\ t2.pc \in Resting
    BY <2>3, NoAttempts DEF TurnFits, Resting, Proposing, Awaiting
  <2>5. RunFits(audited, t2, none, << >>)
    BY <2>3, <2>4, NoAttempts, NoSlotsFit
  <2> HIDE DEF none
  <2> QED
    BY <1>1, <1>4, <2>5, RunMoves
<1> QED
  BY <1>4, <1>5, <1>6

Registered(t, pc) == [t EXCEPT !.pc = pc, !.decision = "executing"]
NotRegistered(t) == [t EXCEPT !.pc = "over", !.outcome = "unsafe", !.granted = {}]

LEMMA AuthorisedUpdate ==
    ASSUME NEW t, IsTurn(t), NEW pc, NEW n, n = Registered(t, pc)
    PROVE  IsTurn(n) /\ n.pc = pc /\ n.kind = t.kind /\ n.decision = "executing" /\ n.lineup = t.lineup
BY DEF IsTurn, Registered

LEMMA NotAuthorisedUpdate ==
    ASSUME NEW t, IsTurn(t), NEW n, n = NotRegistered(t)
    PROVE  IsTurn(n) /\ n.pc = "over" /\ n.kind = t.kind /\ n.outcome = "unsafe"
BY DEF IsTurn, NotRegistered

LEMMA RegisterKeeps ==
    ASSUME RoutingInv, NEW r \in Runs, NEW reached \in BOOLEAN, RegisterDecision(r, reached)
    PROVE  RoutingInv'
<1> DEFINE t == turn[r]
           at == attempts[r]
           ok == reached /\ \A pair \in t.granted : pair[2] \in Roles[pair[1]]
           g(s) == CASE ok /\ s = 0 /\ t.kind = "single" -> Request(t.primary, "single", 1)
                     [] ok /\ s \in 1..Len(t.lineup) -> Request(t.lineup[s], "proposer", s)
                     [] OTHER -> NoRequest
           sl2 == [s \in Slots |-> g(s)]
<1>1. /\ RunFits(audited, t, slot[r], at) /\ attempts = [x \in Runs |-> attempts[x]]
  BY DEF RoutingInv
<1>2. /\ t.pc = "planned" /\ slot' = [slot EXCEPT ![r] = sl2] /\ UNCHANGED <<audited, attempts>>
      /\ turn' = [turn EXCEPT ![r] =
                    CASE ~ok -> NotRegistered(t)
                      [] ok /\ t.kind = "single" -> Registered(t, "single")
                      [] ok /\ t.kind = "ensemble" -> Registered(t, "proposing")]
  BY DEF RegisterDecision, NotRegistered, Registered
<1>3. /\ IsTurn(t) /\ Attempts(at) /\ TurnFits(t, at)
  BY <1>1 DEF RunFits
<1>4. DOMAIN at = {} /\ t.kind \in {"single", "ensemble"} /\ (t.kind = "single" => t.lineup = << >>)
  BY <1>2, <1>3 DEF TurnFits
<1>5. attempts' = [attempts EXCEPT ![r] = at] /\ UNCHANGED audited
  BY <1>1, <1>2
<1>6. CASE ~ok
  <2>1. PICK t2 : t2 = NotRegistered(t)
    OBVIOUS
  <2>2. turn' = [turn EXCEPT ![r] = t2]
    BY <1>2, <1>6, <2>1
  <2>3. sl2 = [s \in Slots |-> NoRequest]
    BY <1>6
  <2>4. IsTurn(t2) /\ t2.pc = "over" /\ t2.kind = t.kind /\ t2.outcome = "unsafe"
    BY <1>3, <2>1, NotAuthorisedUpdate
  <2>5. TurnFits(t2, at) /\ t2.pc \in Resting
    BY <1>4, <2>4 DEF TurnFits, Resting, Proposing, Awaiting
  <2>6. RunFits(audited, t2, sl2, at)
    BY <1>3, <1>4, <2>3, <2>4, <2>5, NoSlotsFit
  <2> HIDE DEF sl2
  <2> QED
    BY <1>2, <1>5, <2>2, <2>6, RunMoves
<1>7. CASE ok
  <2>1. PICK pc, t2 : /\ t2 = Registered(t, pc) /\ turn' = [turn EXCEPT ![r] = t2]
                      /\ \/ pc = "single" /\ t.kind = "single"
                         \/ pc = "proposing" /\ t.kind = "ensemble"
    BY <1>2, <1>4, <1>7
  <2>2. IsTurn(t2) /\ t2.pc = pc /\ t2.kind = t.kind /\ t2.decision = "executing" /\ t2.lineup = t.lineup
    BY <1>3, <2>1, AuthorisedUpdate
  <2>3. \A s \in Slots :
           \/ g(s) = NoRequest
           \/ /\ \E c, role, seq : g(s) = Request(c, role, seq)
              /\ (s = 0 /\ t.kind = "single") \/ s \in 1..Len(t.lineup)
    OBVIOUS
  <2>4. \A s \in Slots :
           /\ IsRequest(g(s)) /\ g(s).result = "none" /\ g(s).dropped = FALSE
           /\ \/ g(s).state = "idle"
              \/ g(s).state = "to_send" /\ ((s = 0 /\ t.kind = "single") \/ s \in 1..Len(t.lineup))
    <3> SUFFICES ASSUME NEW s \in Slots
                 PROVE  /\ IsRequest(g(s)) /\ g(s).result = "none" /\ g(s).dropped = FALSE
                        /\ \/ g(s).state = "idle"
                           \/ g(s).state = "to_send" /\ ((s = 0 /\ t.kind = "single") \/ s \in 1..Len(t.lineup))
      OBVIOUS
    <3>1. PICK n : n = g(s)
      OBVIOUS
    <3>2. CASE n = NoRequest
      BY <3>1, <3>2, NoRequestFields
    <3>3. CASE /\ \E c, role, seq : n = Request(c, role, seq)
               /\ (s = 0 /\ t.kind = "single") \/ s \in 1..Len(t.lineup)
      <4>1. IsRequest(n) /\ n.state = "to_send" /\ n.result = "none" /\ n.dropped = FALSE
        BY <3>3 DEF Request, NoRequest, IsRequest
      <4> HIDE DEF g
      <4> QED
        BY <3>1, <3>3, <4>1
    <3> HIDE DEF g
    <3> QED
      BY <2>3, <3>1, <3>2, <3>3
  <2> HIDE DEF g
  <2>5. sl2 = [s \in Slots |-> sl2[s]] /\ \A s \in Slots : sl2[s] = g(s)
    OBVIOUS
  <2> HIDE DEF sl2
  <2>6. Requests(sl2)
    BY <2>4, <2>5 DEF Requests
  <2>7. RowsHeld(sl2, at) /\ RowsThere(audited, sl2, at)
    BY <1>4, <2>4, <2>5 DEF RowsHeld, RowsThere, UnderWay
  <2>8. TurnFits(t2, at)
    BY <1>4, <2>1, <2>2 DEF TurnFits, Resting, Proposing, Awaiting
  <2>9. SlotsFit(t2, sl2)
    <3>1. 0 \notin 1..Len(t.lineup) /\ (t.kind = "single" => 1..Len(t.lineup) = {})
      BY <1>4
    <3> QED
      BY <2>1, <2>2, <2>4, <2>5, <3>1, SlotZero DEF SlotsFit, Overlooked, Resting, Proposing, Awaiting, Results, Unsafe
  <2>10. RunFits(audited, t2, sl2, at)
    BY <1>3, <2>2, <2>6, <2>7, <2>8, <2>9 DEF RunFits
  <2>11. slot' = [slot EXCEPT ![r] = sl2] /\ turn' = [turn EXCEPT ![r] = t2]
    BY <1>2, <2>1
  <2> HIDE DEF at
  <2> QED
    BY <1>5, <2>10, <2>11, RunMoves
<1> QED
  BY <1>6, <1>7

RowStopped(a) == [a EXCEPT !.status = Interrupted(a.status)]

LEMMA StoppedUpdate ==
    ASSUME NEW a, IsAttempt(a), NEW n, n = RowStopped(a)
    PROVE  IsAttempt(n) /\ n.status \notin Open
<1> DEFINE status == Interrupted(a.status)
<1>1. status \notin Open
  BY DEF Interrupted, Open
<1>2. n = [a EXCEPT !.status = status]
  BY DEF RowStopped
<1> HIDE DEF status
<1> QED
  BY <1>1, <1>2 DEF IsAttempt

LEMMA RestartKeeps ==
    ASSUME RoutingInv, RestartSidecar
    PROVE  RoutingInv'
<1> DEFINE over(r) == [NoTurn EXCEPT !.pc = "over", !.outcome = "interrupted", !.number = turn[r].number,
                                     !.decision = Interrupted(turn[r].decision)]
           t(r) == IF turn[r].pc = "idle" THEN turn[r] ELSE over(r)
           none == [s \in Slots |-> NoRequest]
           at(r) == [seq \in DOMAIN attempts[r] |-> RowStopped(attempts[r][seq])]
<1>1. /\ turn' = [r \in Runs |-> t(r)] /\ slot' = [r \in Runs |-> none]
      /\ attempts' = [r \in Runs |-> at(r)] /\ UNCHANGED audited
  BY DEF RestartSidecar, RowStopped
<1>2. ASSUME NEW r \in Runs
      PROVE  RunFits(audited, t(r), none, at(r))
  <2>1. RunFits(audited, turn[r], slot[r], attempts[r])
    BY DEF RoutingInv
  <2>2. /\ IsTurn(turn[r]) /\ Attempts(attempts[r]) /\ TurnFits(turn[r], attempts[r])
        /\ ~audited => DOMAIN attempts[r] = {}
    BY <2>1 DEF RunFits, RowsThere
  <2>3. /\ Attempts(at(r)) /\ DOMAIN at(r) = DOMAIN attempts[r]
        /\ \A q \in DOMAIN at(r) : at(r)[q].status \notin Open
    <3> DEFINE f(q) == RowStopped(attempts[r][q])
    <3>1. \A q \in DOMAIN attempts[r] : IsAttempt(f(q)) /\ f(q).status \notin Open
      <4> SUFFICES ASSUME NEW q \in DOMAIN attempts[r]
                   PROVE  IsAttempt(f(q)) /\ f(q).status \notin Open
        OBVIOUS
      <4>1. PICK n : n = f(q)
        OBVIOUS
      <4>2. IsAttempt(attempts[r][q])
        BY <2>2 DEF Attempts
      <4>3. IsAttempt(n) /\ n.status \notin Open
        BY <4>1, <4>2, StoppedUpdate
      <4> QED
        BY <4>1, <4>3
    <3>2. at(r) = [q \in DOMAIN attempts[r] |-> f(q)]
      OBVIOUS
    <3> HIDE DEF at, f
    <3>3. /\ DOMAIN at(r) = DOMAIN attempts[r] /\ at(r) = [q \in DOMAIN at(r) |-> at(r)[q]]
          /\ \A q \in DOMAIN at(r) : at(r)[q] = f(q)
      BY <3>2
    <3> QED
      BY <3>1, <3>3 DEF Attempts
  <2> HIDE DEF at
  <2>4. /\ IsTurn(t(r)) /\ t(r).pc \in Resting /\ TurnFits(t(r), at(r))
    <3>1. CASE turn[r].pc = "idle"
      <4>1. t(r) = turn[r]
        BY <3>1
      <4> HIDE DEF t
      <4> QED
        BY <2>2, <3>1, <4>1 DEF TurnFits, Resting, Proposing, Awaiting
    <3>2. CASE turn[r].pc # "idle"
      <4>1. PICK n, number, decision :
               /\ n = [NoTurn EXCEPT !.pc = "over", !.outcome = "interrupted", !.number = number,
                                     !.decision = decision]
               /\ decision = Interrupted(turn[r].decision) /\ t(r) = n
        BY <3>2
      <4>2. IsTurn(n) /\ n.pc = "over" /\ n.outcome = "interrupted" /\ n.kind = "single" /\ n.decision = decision
        BY <4>1 DEF NoTurn, IsTurn
      <4>3. decision \notin {"planned", "executing"}
        BY <4>1 DEF Interrupted
      <4>4. TurnFits(n, at(r)) /\ n.pc \in Resting
        BY <2>3, <4>2, <4>3 DEF TurnFits, Resting, Proposing, Awaiting
      <4> HIDE DEF t
      <4> QED
        BY <4>1, <4>2, <4>4
    <3> QED
      BY <3>1, <3>2
  <2> HIDE DEF t
  <2> QED
    BY <2>2, <2>3, <2>4, NoSlotsFit
<1> HIDE DEF t, at, none
<1> QED
  BY <1>1, <1>2 DEF RoutingInv

LEMMA RoutingStarts == RoutingInit => RoutingInv
<1> SUFFICES ASSUME RoutingInit, NEW r \in Runs
             PROVE  RunFits(audited, turn[r], slot[r], attempts[r])
  BY DEF RoutingInit, RoutingInv
<1>1. PICK t : t = NoTurn
  OBVIOUS
<1>2. IsTurn(t) /\ t.pc = "idle" /\ t.kind = "single"
  BY <1>1 DEF NoTurn, IsTurn
<1>3. TurnFits(t, << >>) /\ t.pc \in Resting
  BY <1>2 DEF TurnFits, Resting, Proposing, Awaiting
<1>4. RunFits(audited, t, [s \in Slots |-> NoRequest], << >>)
  BY <1>2, <1>3, NoAttempts, NoSlotsFit
<1> QED
  BY <1>1, <1>4 DEF RoutingInit

LEMMA RoutingClosed == RoutingInv => TurnClosed
<1> SUFFICES ASSUME RoutingInv, NEW r \in Runs, turn[r].pc = "over"
             PROVE  /\ \A s \in Slots : slot[r][s].state \in {"idle", "done"}
                    /\ turn[r].outcome = "interrupted" =>
                         /\ turn[r].decision \notin {"planned", "executing"}
                         /\ \A seq \in DOMAIN attempts[r] : attempts[r][seq].status \notin Open
                    /\ turn[r].outcome \in {"failed", "cancelled"} =>
                         /\ turn[r].decision \in {"none", turn[r].outcome}
                         /\ \A seq \in DOMAIN attempts[r] :
                              attempts[r][seq].status \in Open => \E s \in Slots :
                                  /\ slot[r][s].seq = seq
                                  /\ \/ /\ slot[r][s].result \in Unsafe
                                        /\ slot[r][s].dropped \/ turn[r].outcome = "cancelled"
                                     \/ slot[r][s].dropped /\ attempts[r][seq].status = "created"
  BY DEF TurnClosed
<1>1. /\ RowsHeld(slot[r], attempts[r]) /\ SlotsFit(turn[r], slot[r]) /\ TurnFits(turn[r], attempts[r])
  BY DEF RoutingInv, RunFits
<1>2. \A s \in Slots : slot[r][s].state \in {"idle", "done"}
  BY <1>1 DEF SlotsFit, Resting
<1>3. \A s \in Slots : slot[r][s].state \notin UnderWay
  BY <1>2 DEF UnderWay
<1>4. turn[r].outcome = "failed" => \A s \in Slots : slot[r][s].result \in Unsafe => slot[r][s].dropped
  BY <1>1 DEF SlotsFit, Overlooked
<1> QED
  BY <1>1, <1>2, <1>3, <1>4 DEF TurnFits, RowsHeld, Holds

LEMMA RoutingStep == RoutingInv /\ [RoutingNext]_routingVars => RoutingInv'
<1> SUFFICES ASSUME RoutingInv, [RoutingNext]_routingVars PROVE RoutingInv'
  OBVIOUS
<1>1. CASE UNCHANGED routingVars
  BY <1>1 DEF routingVars, RoutingInv
<1>2. CASE \E r \in Runs, mode \in {"fixed", "smart_single", "selective_ensemble"}, order \in Orders,
              able \in AbleSets, ensemble \in BOOLEAN : PlanTurn(r, mode, order, able, ensemble)
  BY <1>2, PlanKeeps
<1>3. CASE \E r \in Runs, reached \in BOOLEAN : RegisterDecision(r, reached)
  BY <1>3, RegisterKeeps
<1>4. CASE \E r \in Runs, s \in Slots :
             \/ SendAttempt(r, s) \/ Accepted(r, s) \/ Streaming(r, s) \/ Answered(r, s) \/ Cancelled(r, s)
             \/ AuditFails(r, s)
  BY <1>4, SendKeeps, AcceptedKeeps, AnsweredKeeps, CancelledKeeps, AuditKeeps
<1>5. CASE \E r \in Runs, s \in Slots, kind \in Kinds, visible, inTime \in BOOLEAN :
             Failed(r, s, kind, visible, inTime)
  BY <1>5, FailedKeeps
<1>6. CASE \E r \in Runs : Settle(r) \/ StopWaiting(r) \/ Conclude(r)
  BY <1>6, SettleKeeps, StopWaitingKeeps, ConcludeKeeps
<1>7. CASE \E r \in Runs, s \in Slots \ {0}, written, inTime \in BOOLEAN : TaskCancelled(r, s, written, inTime)
  BY <1>7, TaskCancelledKeeps
<1>8. CASE \E c \in Candidates : BenchExpires(c)
  BY <1>8 DEF BenchExpires, RoutingInv
<1>9. CASE RestartSidecar
  BY <1>9, RestartKeeps
<1> QED
  BY <1>1, <1>2, <1>3, <1>4, <1>5, <1>6, <1>7, <1>8, <1>9 DEF RoutingNext

(***************************************************************************)
(* RoutedModelTransport.complete, for any policy, any number of runs and   *)
(* any rankings, whatever fails to be written: when it has returned no     *)
(* task of it is left, the decision has the outcome it raised, and every   *)
(* attempt still open is one whose safety error was overlooked or one that *)
(* was dropped while its row was being written (TurnClosed).               *)
(***************************************************************************)
THEOREM TurnsAreClosed == RoutingSpec => []TurnClosed
BY RoutingStarts, RoutingStep, RoutingClosed, PTL DEF RoutingSpec

-----------------------------------------------------------------------------
(* Routing: a single decision calls only what it registered. *)

\* The least number principle, for a set instead of a predicate.
LEMMA LeastNumber ==
    ASSUME NEW T \in SUBSET Nat, T # {}
    PROVE  \E m \in T : \A n \in T : m <= n
<1> DEFINE R == OpToRel(<, Nat)
<1>1. IsWellFoundedOn(R, Nat)
  BY NatLessThanWellFounded
<1> HIDE DEF R
<1>2. PICK x \in T : \A y \in T : ~ (<<y, x>> \in R)
  BY <1>1, WFMin
<1>3. \A y \in T : y < x => <<y, x>> \in R
  BY DEF R, OpToRel
<1>4. \A y \in T : y \in Nat /\ x \in Nat
  OBVIOUS
<1>5. \A y \in T : ~(y < x)
  BY <1>2, <1>3
<1>6. \A y \in T : x <= y
  BY <1>4, <1>5
<1> QED
  BY <1>6

\* A number with a property has a first one, whose predecessor does not have it.
LEMMA FirstNumber ==
    ASSUME NEW T \in SUBSET Nat, T # {}
    PROVE  \E m \in T : m # 0 => m - 1 \in Nat /\ m - 1 \notin T
<1>1. PICK m \in T : \A n \in T : m <= n
  BY LeastNumber
<1>2. m \in Nat /\ (m # 0 => m - 1 \in Nat /\ ~(m <= m - 1))
  OBVIOUS
<1> QED
  BY <1>1, <1>2

\* One element more.
Longer(list, e, set) == IF e \in set THEN Append(list, e) ELSE list

\* The recursion of Keep has a solution, so Keep is its last value.
LEMMA KeepUnfolds ==
    ASSUME NEW seq, NEW set, Len(seq) \in Nat
    PROVE  \E kept : /\ kept[0] = << >>
                     /\ \A n \in 1..Len(seq) : kept[n] = Longer(kept[n - 1], seq[n], set)
                     /\ Keep(seq, set) = kept[Len(seq)]
<1> DEFINE N == Len(seq)
           D(x, i) == Longer(x, seq[i], set)
           Body(f, n) == [i \in 0..n |-> IF i = 0 THEN << >> ELSE D(f[i - 1], i)]
<1>1. Keep(seq, set) = (CHOOSE f : f = Body(f, N))[N]
  BY DEF Keep, Longer
<1> HIDE DEF D
<1>2. \A n \in Nat : \E f : f = Body(f, n)
  <2> DEFINE T == {n \in Nat : ~ \E f : f = Body(f, n)}
  <2> SUFFICES ASSUME T # {} PROVE FALSE
    OBVIOUS
  <2>1. PICK m \in T : m # 0 => m - 1 \in Nat /\ m - 1 \notin T
    BY FirstNumber
  <2>2. CASE m = 0
    <3> DEFINE f == [i \in 0..0 |-> << >>]
    <3>1. f = Body(f, 0)
      OBVIOUS
    <3> QED
      BY <2>1, <2>2, <3>1
  <2>3. CASE m # 0
    <3>1. m \in Nat /\ m - 1 \in Nat
      BY <2>1, <2>3
    <3>2. PICK f : f = Body(f, m - 1)
      BY <2>1, <2>3
    <3> DEFINE g == [i \in 0..m |-> IF i = m THEN D(f[m - 1], m) ELSE f[i]]
    <3>3. \A i \in 0..(m - 1) : f[i] = IF i = 0 THEN << >> ELSE D(f[i - 1], i)
      BY <3>2
    <3>4. \A i \in 0..m : g[i] = IF i = 0 THEN << >> ELSE D(g[i - 1], i)
      <4> SUFFICES ASSUME NEW i \in 0..m PROVE g[i] = IF i = 0 THEN << >> ELSE D(g[i - 1], i)
        OBVIOUS
      <4>1. CASE i = m
        <5>1. g[i] = D(f[m - 1], m) /\ g[i - 1] = f[m - 1]
          BY <3>1, <4>1, <2>3
        <5> QED
          BY <5>1, <4>1, <2>3
      <4>2. CASE i # m
        <5>1. i \in 0..(m - 1) /\ g[i] = f[i] /\ (i # 0 => g[i - 1] = f[i - 1])
          BY <3>1, <4>2
        <5> QED
          BY <5>1, <3>3
      <4> QED
        BY <4>1, <4>2
    <3>5. g = [i \in 0..m |-> g[i]]
      OBVIOUS
    <3> HIDE DEF g
    <3>6. g = Body(g, m)
      BY <3>4, <3>5
    <3> QED
      BY <2>1, <3>6
  <2> QED
    BY <2>2, <2>3
<1>3. PICK f : f = Body(f, N) /\ Keep(seq, set) = f[N]
  BY <1>1, <1>2
<1>4. f[0] = << >> /\ \A n \in 1..N : f[n] = D(f[n - 1], n)
  BY <1>3
<1> QED
  BY <1>3, <1>4 DEF D

\* Keep returns a list of the elements that are in the set, and of all of them.
LEMMA KeepList ==
    ASSUME NEW X, NEW seq \in Seq(X), NEW set
    PROVE  /\ Keep(seq, set) \in Seq(X)
           /\ Range(Keep(seq, set)) = Range(seq) \cap set
<1> DEFINE N == Len(seq)
<1>0. N \in Nat /\ DOMAIN seq = 1..N /\ \A i \in 1..N : seq[i] \in X
  OBVIOUS
<1>1. PICK kept : /\ kept[0] = << >>
                  /\ \A n \in 1..N : kept[n] = Longer(kept[n - 1], seq[n], set)
                  /\ Keep(seq, set) = kept[N]
  BY <1>0, KeepUnfolds
<1> DEFINE In(n) == {seq[i] : i \in 1..n} \cap set
           T == {n \in Nat : n <= N /\ ~(kept[n] \in Seq(X) /\ Range(kept[n]) = In(n))}
<1>2. T = {}
  <2> SUFFICES ASSUME T # {} PROVE FALSE
    OBVIOUS
  <2>1. PICK m \in T : m # 0 => m - 1 \in Nat /\ m - 1 \notin T
    BY FirstNumber
  <2>2. m \in Nat /\ m <= N
    BY <2>1
  <2>3. CASE m = 0
    <3>1. << >> \in Seq(X) /\ Range(<< >>) = {} /\ In(0) = {}
      BY DEF Range
    <3> QED
      BY <1>1, <2>1, <2>3, <3>1
  <2>4. CASE m # 0
    <3>1. m - 1 \in Nat /\ m - 1 <= N /\ m \in 1..N /\ m - 1 \notin T
      BY <1>0, <2>1, <2>2, <2>4
    <3>2. kept[m - 1] \in Seq(X) /\ Range(kept[m - 1]) = In(m - 1)
      BY <3>1
    <3>3. PICK old : old = kept[m - 1]
      OBVIOUS
    <3>4. kept[m] = Longer(old, seq[m], set) /\ seq[m] \in X
      BY <1>0, <1>1, <3>1, <3>3
    <3>5. In(m) = IF seq[m] \in set THEN In(m - 1) \cup {seq[m]} ELSE In(m - 1)
      <4>1. 1..m = 1..(m - 1) \cup {m}
        BY <2>2, <3>1
      <4> QED
        BY <4>1
    <3>6. \A e \in X : Append(old, e) \in Seq(X) /\ Range(Append(old, e)) = Range(old) \cup {e}
      <4> SUFFICES ASSUME NEW e \in X PROVE Append(old, e) \in Seq(X) /\ Range(Append(old, e)) = Range(old) \cup {e}
        OBVIOUS
      <4>1. PICK k : k = Len(old)
        OBVIOUS
      <4>2. PICK new : new = Append(old, e)
        OBVIOUS
      <4>3. k \in Nat /\ DOMAIN old = 1..k /\ new \in Seq(X) /\ DOMAIN new = 1..(k + 1)
        BY <3>2, <3>3, <4>1, <4>2
      <4>4. new[k + 1] = e /\ \A i \in 1..k : new[i] = old[i]
        BY <3>2, <3>3, <4>1, <4>2
      <4>5. 1..(k + 1) = 1..k \cup {k + 1}
        BY <4>3
      <4> QED
        BY <4>2, <4>3, <4>4, <4>5 DEF Range
    <3>7. kept[m] \in Seq(X) /\ Range(kept[m]) = In(m)
      <4> HIDE DEF In, T
      <4> QED
        BY <3>2, <3>3, <3>4, <3>5, <3>6 DEF Longer
    <3> HIDE DEF In
    <3> QED
      BY <2>1, <3>7
  <2> QED
    BY <2>3, <2>4
<1>3. kept[N] \in Seq(X) /\ Range(kept[N]) = In(N)
  <2> HIDE DEF In
  <2>1. N <= N /\ N \notin T
    BY <1>0, <1>2
  <2> QED
    BY <1>0, <2>1
<1>4. In(N) = Range(seq) \cap set
  BY <1>0 DEF Range
<1> QED
  BY <1>1, <1>3, <1>4

\* The candidates of a ranking that may stand in for a failed one.
Backups(ranked, primary) == {c \in Range(ranked) : "fallback" \in Roles[c] /\ c # primary}

LEMMA JoinedRange ==
    ASSUME NEW X, NEW a \in Seq(X), NEW b \in Seq(X)
    PROVE  a \o b \in Seq(X) /\ Range(a \o b) = Range(a) \cup Range(b)
<1>1. PICK m, n, j : m = Len(a) /\ n = Len(b) /\ j = a \o b
  OBVIOUS
<1>2. /\ m \in Nat /\ n \in Nat /\ DOMAIN a = 1..m /\ DOMAIN b = 1..n /\ j \in Seq(X) /\ DOMAIN j = 1..(m + n)
      /\ \A i \in 1..(m + n) : j[i] = IF i <= m THEN a[i] ELSE b[i - m]
  BY <1>1
<1>3. Range(j) \subseteq Range(a) \cup Range(b)
  <2> SUFFICES ASSUME NEW i \in 1..(m + n) PROVE j[i] \in Range(a) \cup Range(b)
    BY <1>2 DEF Range
  <2>1. CASE i <= m
    BY <1>2, <2>1 DEF Range
  <2>2. CASE ~(i <= m)
    <3>1. i - m \in 1..n /\ j[i] = b[i - m]
      BY <1>2, <2>2
    <3> QED
      BY <1>2, <3>1 DEF Range
  <2> QED
    BY <2>1, <2>2
<1>4. Range(a) \subseteq Range(j)
  <2> SUFFICES ASSUME NEW i \in 1..m PROVE a[i] \in Range(j)
    BY <1>2 DEF Range
  <2>1. i \in 1..(m + n) /\ j[i] = a[i]
    BY <1>2
  <2> QED
    BY <1>2, <2>1 DEF Range
<1>5. Range(b) \subseteq Range(j)
  <2> SUFFICES ASSUME NEW i \in 1..n PROVE b[i] \in Range(j)
    BY <1>2 DEF Range
  <2>1. m + i \in 1..(m + n) /\ j[m + i] = b[i]
    BY <1>2
  <2> QED
    BY <1>2, <2>1 DEF Range
<1> QED
  BY <1>1, <1>2, <1>3, <1>4, <1>5

\* The fallbacks of a request are backups; before anything failed they are the
\* backups that are eligible.
LEMMA FallbacksAre ==
    ASSUME NEW state, NEW ranked \in Seq(Candidates), NEW primary, NEW kind, NEW excluded,
           NEW list, list = FallbackCandidates(state, ranked, primary, kind, excluded)
    PROVE  /\ list \in Seq(Candidates) /\ Range(list) \subseteq Backups(ranked, primary)
           /\ kind = "none" /\ excluded = {} =>
                {c \in Backups(ranked, primary) : IsEligible(state[c])} \subseteq Range(list)
<1> DEFINE Allowed(c) ==
               /\ kind \notin {"BAD_REQUEST", "POLICY_REFUSAL"}
               /\ c # primary /\ c \notin excluded /\ IsEligible(state[c])
               /\ kind = "CONTEXT_OVERFLOW" => Window[c] > Window[primary]
               /\ kind \in {"AUTH_INVALID", "INSUFFICIENT_CREDITS"} => Account[c] # Account[primary]
           able == {c \in Candidates : "fallback" \in Roles[c]}
           allowed == {c \in Candidates : Allowed(c)}
           ranks == Keep(ranked, able)
           chain == Keep(ranks, allowed)
           first == Keep(FallbackOrder, Range(chain))
           rest == Keep(chain, Candidates \ Range(FallbackOrder))
<1>1. list = first \o rest
  BY DEF FallbackCandidates, WithRole
<1>2. \A c \in allowed : c \in Candidates /\ c # primary
  OBVIOUS
<1>3. kind = "none" /\ excluded = {} => \A c \in Candidates : c # primary /\ IsEligible(state[c]) => c \in allowed
  OBVIOUS
<1> HIDE DEF allowed
<1>4. ranks \in Seq(Candidates) /\ Range(ranks) = Range(ranked) \cap able
  BY KeepList
<1> HIDE DEF ranks
<1>5. chain \in Seq(Candidates) /\ Range(chain) = Range(ranks) \cap allowed
  BY <1>4, KeepList
<1> HIDE DEF chain
<1>6. first \in Seq(Candidates) /\ Range(first) = Range(FallbackOrder) \cap Range(chain)
  BY KeepList, RoutingAssumption
<1>7. rest \in Seq(Candidates) /\ Range(rest) = Range(chain) \cap (Candidates \ Range(FallbackOrder))
  BY <1>5, KeepList
<1> HIDE DEF first, rest
<1>8. first \o rest \in Seq(Candidates) /\ Range(first \o rest) = Range(first) \cup Range(rest)
  BY <1>6, <1>7, JoinedRange
<1>9. Range(ranked) \subseteq Candidates
  BY DEF Range
<1>10. Range(first \o rest) = Range(ranked) \cap able \cap allowed
  BY <1>2, <1>4, <1>5, <1>6, <1>7, <1>8
<1>11. Range(first \o rest) \subseteq Backups(ranked, primary)
  BY <1>2, <1>10 DEF Backups
<1>12. kind = "none" /\ excluded = {} =>
          {c \in Backups(ranked, primary) : IsEligible(state[c])} \subseteq Range(first \o rest)
  BY <1>3, <1>9, <1>10 DEF Backups
<1> QED
  BY <1>1, <1>8, <1>11, <1>12

\* What a single decision has registered covers what it can still ask.
Registers(t) ==
    /\ <<t.primary, "single">> \in t.granted
    /\ \A c \in Backups(t.ranked, t.primary) : <<c, "fallback">> \in t.granted

CallsFit(t, sl) ==
    /\ t.ranked \in Seq(Candidates)
    /\ t.pc \in {"proposing", "closing", "quorum", "aggregate"} => t.kind = "ensemble"
    /\ t.kind = "single" =>
         /\ t.pc \in {"planned", "single", "fallback"} => Registers(t)
         /\ t.pc \in {"idle", "planned"} => \A s \in Slots : sl[s].state = "idle"
         /\ t.pc = "single" => sl[0].cand = t.primary
         /\ t.pc = "fallback" => t.queue \in Seq(Backups(t.ranked, t.primary))
         /\ \A s \in Slots : sl[s].state # "idle" => <<sl[s].cand, sl[s].role>> \in t.granted

CallsInv == \A r \in Runs : CallsFit(turn[r], slot[r])

LEMMA CallsAuthorised == CallsInv => SingleCallsAuthorised
BY DEF CallsInv, CallsFit, SingleCallsAuthorised

\* Only the turn and the requests of one run change.
LEMMA CallsMove ==
    ASSUME RoutingInv, CallsInv, NEW r \in Runs, NEW t, NEW sl,
           turn' = [turn EXCEPT ![r] = t], slot' = [slot EXCEPT ![r] = sl], CallsFit(t, sl)
    PROVE  CallsInv'
<1>1. /\ turn'[r] = t /\ slot'[r] = sl
      /\ \A x \in Runs : x # r => turn'[x] = turn[x] /\ slot'[x] = slot[x]
  BY DEF RoutingInv
<1> QED
  BY <1>1 DEF CallsInv

\* A request that is under way keeps its candidate and its role.
LEMMA RequestMoves ==
    ASSUME RoutingInv, CallsInv, NEW r \in Runs, NEW s \in Slots, slot[r][s].state # "idle",
           NEW q, q.cand = slot[r][s].cand, q.role = slot[r][s].role,
           UNCHANGED turn, slot' = [slot EXCEPT ![r] = [slot[r] EXCEPT ![s] = q]]
    PROVE  CallsInv'
<1> DEFINE t == turn[r]
           sl == [slot[r] EXCEPT ![s] = q]
<1>1. CallsFit(t, slot[r]) /\ Requests(slot[r]) /\ turn = [x \in Runs |-> turn[x]]
  BY DEF CallsInv, RoutingInv, RunFits
<1>2. \A x \in Slots : sl[x] = IF x = s THEN q ELSE slot[r][x]
  BY <1>1 DEF Requests
<1>3. turn' = [turn EXCEPT ![r] = t]
  BY <1>1
<1> HIDE DEF sl
<1>4. CallsFit(t, sl)
  BY <1>1, <1>2, SlotZero DEF CallsFit
<1> QED
  BY <1>3, <1>4, CallsMove DEF sl

SameCall(q, n) == n.cand = q.cand /\ n.role = q.role

LEMMA CallKept ==
    ASSUME NEW q, IsRequest(q), NEW n,
           \/ \E state : n = InState(q, state)
           \/ \E result : n = DoneWith(q, result)
           \/ \E kind : n = FailedWith(q, kind)
           \/ n = Cancelling(q)
    PROVE  SameCall(q, n)
BY DEF IsRequest, InState, DoneWith, FailedWith, Cancelling, SameCall

LEMMA RetryKept ==
    ASSUME NEW q, IsRequest(q), NEW t, NEW n, n = Retry(q, t)
    PROVE  SameCall(q, n)
<1> DEFINE seq == IF q.role = "proposer" THEN q.seq + Proposers(t) ELSE q.seq + 1
           try == q.try + 1
<1>1. n = [q EXCEPT !.state = "to_send", !.try = try, !.seq = seq]
  BY DEF Retry
<1> HIDE DEF seq, try
<1> QED
  BY <1>1 DEF IsRequest, SameCall

LEMMA RequestSteps ==
    ASSUME RoutingInv, CallsInv, NEW r \in Runs, NEW s \in Slots,
           \/ SendAttempt(r, s) \/ Accepted(r, s) \/ Streaming(r, s) \/ Answered(r, s) \/ Cancelled(r, s)
           \/ AuditFails(r, s)
           \/ \E kind, visible, inTime : Failed(r, s, kind, visible, inTime)
           \/ \E written, inTime : TaskCancelled(r, s, written, inTime)
    PROVE  CallsInv'
<1> DEFINE q == slot[r][s]
<1>1. Requests(slot[r]) /\ IsRequest(q) /\ slot = [x \in Runs |-> slot[x]]
  BY DEF RoutingInv, RunFits, Requests
<1>2. q.state # "idle" /\ UNCHANGED turn
  BY DEF SendAttempt, Accepted, Streaming, Answered, Cancelled, AuditFails, Failed, Meets, TaskCancelled, UnderWay
<1>3. ASSUME NEW n, SameCall(q, n), slot' = [slot EXCEPT ![r] = [slot[r] EXCEPT ![s] = n]]
      PROVE  CallsInv'
  BY <1>2, <1>3, RequestMoves DEF SameCall
<1>4. CASE SendAttempt(r, s)
  <2> DEFINE n == IF SequenceTaken(r, q) THEN DoneWith(q, "unsafe") ELSE InState(q, "sent")
  <2>1. slot' = [slot EXCEPT ![r] = [slot[r] EXCEPT ![s] = n]]
    BY <1>4 DEF SendAttempt, DoneWith, InState
  <2>2. n = DoneWith(q, "unsafe") \/ n = InState(q, "sent")
    OBVIOUS
  <2> HIDE DEF n
  <2>3. SameCall(q, n)
    BY <1>1, <2>2, CallKept
  <2> QED
    BY <1>3, <2>1, <2>3
<1>5. CASE Accepted(r, s) \/ Streaming(r, s)
  <2>1. PICK state : slot' = [slot EXCEPT ![r][s].state = state]
    BY <1>5 DEF Accepted, Streaming
  <2>2. PICK n : n = InState(q, state)
    OBVIOUS
  <2>3. slot' = [slot EXCEPT ![r] = [slot[r] EXCEPT ![s] = n]]
    BY <1>1, <2>1, <2>2 DEF InState, Requests
  <2>4. SameCall(q, n)
    BY <1>1, <2>2, CallKept
  <2> QED
    BY <1>3, <2>3, <2>4
<1>6. CASE Answered(r, s) \/ Cancelled(r, s) \/ AuditFails(r, s)
  <2>1. PICK result : slot' = [slot EXCEPT ![r][s].state = "done", ![r][s].result = result]
    BY <1>6 DEF Answered, Cancelled, AuditFails
  <2>2. PICK n : n = DoneWith(q, result)
    OBVIOUS
  <2>3. slot' = [slot EXCEPT ![r] = [slot[r] EXCEPT ![s] = n]]
    BY <1>1, <2>1, <2>2 DEF DoneWith, Requests
  <2>4. SameCall(q, n)
    BY <1>1, <2>2, CallKept
  <2> QED
    BY <1>3, <2>3, <2>4
<1>7. ASSUME NEW kind, NEW visible, NEW inTime, Failed(r, s, kind, visible, inTime)
      PROVE  CallsInv'
  <2> DEFINE n == IF MayRetry(q, turn[r], kind, visible, inTime) THEN Retry(q, turn[r])
                  ELSE FailedWith(q, RecordedKind(kind))
  <2>1. slot' = [slot EXCEPT ![r] = [slot[r] EXCEPT ![s] = n]]
    BY <1>7 DEF Failed, FailedWith
  <2>2. n = Retry(q, turn[r]) \/ \E k : n = FailedWith(q, k)
    OBVIOUS
  <2> HIDE DEF n
  <2>3. SameCall(q, n)
    BY <1>1, <2>2, CallKept, RetryKept
  <2> QED
    BY <1>3, <2>1, <2>3
<1>8. ASSUME NEW written, NEW inTime, TaskCancelled(r, s, written, inTime)
      PROVE  CallsInv'
  <2>1. CASE slot' = [slot EXCEPT ![r][s].state = "done", ![r][s].result = "failed"]
    <3>1. PICK n : n = DoneWith(q, "failed")
      OBVIOUS
    <3>2. slot' = [slot EXCEPT ![r] = [slot[r] EXCEPT ![s] = n]]
      BY <1>1, <2>1, <3>1 DEF DoneWith, Requests
    <3>3. SameCall(q, n)
      BY <1>1, <3>1, CallKept
    <3> QED
      BY <1>3, <3>2, <3>3
  <2> DEFINE n == IF MayRetry(q, turn[r], "TIMEOUT", FALSE, inTime) THEN Cancelling(Retry(q, turn[r]))
                  ELSE DoneWith(q, "failed")
  <2>2. CASE slot' = [slot EXCEPT ![r][s] = n]
    <3>1. slot' = [slot EXCEPT ![r] = [slot[r] EXCEPT ![s] = n]]
      BY <2>2
    <3>2. n = Cancelling(Retry(q, turn[r])) \/ n = DoneWith(q, "failed")
      OBVIOUS
    <3> HIDE DEF n
    <3>3. SameCall(q, n)
      <4>1. PICK p : p = Retry(q, turn[r])
        OBVIOUS
      <4>2. IsRequest(p) /\ SameCall(q, p)
        BY <1>1, <4>1, RetryUpdates, RetryKept
      <4>3. CASE n = Cancelling(p)
        BY <4>2, <4>3, CallKept DEF SameCall
      <4>4. CASE n = DoneWith(q, "failed")
        BY <1>1, <4>4, CallKept
      <4> QED
        BY <3>2, <4>1, <4>3, <4>4
    <3> QED
      BY <1>3, <3>1, <3>3
  <2> QED
    BY <1>8, <2>1, <2>2 DEF TaskCancelled, Cancelling, DoneWith
<1> QED
  BY <1>4, <1>5, <1>6, <1>7, <1>8

\* Turn rows that keep what was registered.
LEMMA RegisteredKept ==
    ASSUME NEW t, IsTurn(t), NEW n,
           \/ \E outcome, decision : n = TurnEnded(t, outcome, decision)
           \/ \E pc : n = InPlace(t, pc)
           \/ \E pc, failed : n = AfterProposals(t, pc, failed)
           \/ \E pc : n = Registered(t, pc)
           \/ \E queue, next : n = NextFallback(t, queue, next)
    PROVE  n.kind = t.kind /\ n.ranked = t.ranked /\ n.primary = t.primary /\ n.granted = t.granted
BY DEF IsTurn, TurnEnded, InPlace, AfterProposals, Registered, NextFallback

LEMMA EndedCalls ==
    ASSUME RoutingInv, CallsInv, NEW r \in Runs, NEW outcome, EndTurn(r, outcome), UNCHANGED slot
    PROVE  CallsInv'
<1> DEFINE t == turn[r]
<1>0. PICK final :
          turn' = [turn EXCEPT ![r].pc = "over", ![r].outcome = final,
                     ![r].decision = IF final = "unsafe" THEN @ ELSE TransitionDecision(@, final)]
  BY DEF EndTurn
<1> DEFINE decision == IF final = "unsafe" THEN t.decision ELSE TransitionDecision(t.decision, final)
           t2 == TurnEnded(t, final, decision)
<1>1. /\ IsTurn(t) /\ CallsFit(t, slot[r]) /\ turn = [x \in Runs |-> turn[x]] /\ slot = [x \in Runs |-> slot[x]]
  BY DEF RoutingInv, RunFits, CallsInv
<1>2. turn' = [turn EXCEPT ![r] = t2]
  BY <1>0, <1>1 DEF TurnEnded, IsTurn
<1> HIDE DEF decision
<1>3. t2.pc = "over" /\ t2.kind = t.kind /\ t2.ranked = t.ranked /\ t2.granted = t.granted
  BY <1>1, EndUpdate, RegisteredKept
<1> HIDE DEF t2
<1>4. CallsFit(t2, slot[r])
  BY <1>1, <1>3 DEF CallsFit
<1>5. slot' = [slot EXCEPT ![r] = slot[r]]
  BY <1>1
<1> QED
  BY <1>2, <1>4, <1>5, CallsMove

\* The next request of a fallback queue.
LEMMA FallbackCalls ==
    ASSUME RoutingInv, CallsInv, NEW r \in Runs, NEW queue, NEW next, TryFallback(r, queue, next, turn[r]),
           turn[r].kind = "single" =>
               /\ turn[r].pc \in {"single", "fallback"}
               /\ queue \in Seq(Backups(turn[r].ranked, turn[r].primary))
    PROVE  CallsInv'
<1> DEFINE t == turn[r]
           waiting == Tail(queue)
           later == next + 1
           t2 == NextFallback(t, waiting, later)
<1>1. /\ IsTurn(t) /\ CallsFit(t, slot[r]) /\ Requests(slot[r]) /\ slot = [x \in Runs |-> slot[x]]
  BY DEF RoutingInv, RunFits, CallsInv
<1>2. CASE queue = << >>
  BY <1>2, EndedCalls DEF TryFallback
<1>3. CASE queue # << >>
  <2>1. PICK q : q = Request(Head(queue), "fallback", next)
    OBVIOUS
  <2> DEFINE sl == [slot[r] EXCEPT ![0] = q]
  <2>2. turn' = [turn EXCEPT ![r] = t2] /\ slot' = [slot EXCEPT ![r] = sl]
    BY <1>1, <1>3, <2>1 DEF TryFallback, NextFallback
  <2>3. q.cand = Head(queue) /\ q.role = "fallback"
    BY <2>1 DEF Request, NoRequest
  <2>4. \A x \in Slots : sl[x] = IF x = 0 THEN q ELSE slot[r][x]
    BY <1>1 DEF Requests
  <2>5. t.kind = "single" => Head(queue) \in Backups(t.ranked, t.primary)
                             /\ Tail(queue) \in Seq(Backups(t.ranked, t.primary))
    BY <1>3
  <2>6. waiting = Tail(queue)
    OBVIOUS
  <2> HIDE DEF waiting, later, sl
  <2>7. /\ t2.pc = "fallback" /\ t2.kind = t.kind /\ t2.ranked = t.ranked /\ t2.primary = t.primary
        /\ t2.granted = t.granted
    BY <1>1, FallbackUpdate, RegisteredKept
  <2>8. t2.queue = waiting
    BY <1>1 DEF IsTurn, NextFallback
  <2> HIDE DEF t2
  <2>9. CallsFit(t2, sl)
    <3>1. CASE t.kind # "single"
      BY <1>1, <2>7, <3>1 DEF CallsFit
    <3>2. CASE t.kind = "single"
      <4>1. Registers(t) /\ Registers(t2)
        BY <1>1, <2>7, <3>2 DEF CallsFit, Registers
      <4>2. \A s \in Slots : sl[s].state # "idle" => <<sl[s].cand, sl[s].role>> \in t2.granted
        BY <1>1, <2>3, <2>4, <2>5, <2>7, <3>2, <4>1 DEF CallsFit, Registers
      <4> QED
        BY <1>1, <2>5, <2>6, <2>7, <2>8, <3>2, <4>1, <4>2 DEF CallsFit
    <3> QED
      BY <3>1, <3>2
  <2> QED
    BY <2>2, <2>9, CallsMove
<1> QED
  BY <1>2, <1>3

LEMMA InBackups ==
    ASSUME NEW list \in Seq(Candidates), NEW set, Range(list) \subseteq set
    PROVE  list \in Seq(set)
<1>1. DOMAIN list = 1..Len(list) /\ Len(list) \in Nat /\ list = [i \in 1..Len(list) |-> list[i]]
  OBVIOUS
<1>2. \A i \in 1..Len(list) : list[i] \in set
  BY <1>1 DEF Range
<1> QED
  BY <1>1, <1>2

LEMMA SettleCalls ==
    ASSUME RoutingInv, CallsInv, NEW r \in Runs, Settle(r)
    PROVE  CallsInv'
<1> DEFINE t == turn[r]
           q == slot[r][0]
<1>1. RunFits(audited, t, slot[r], attempts[r]) /\ CallsFit(t, slot[r])
  BY DEF RoutingInv, CallsInv
<1>2. q.state = "done" /\ t.pc \in Awaiting
  BY DEF Settle, Awaiting
<1>3. q.result \in Results /\ q.result # "none" /\ q.result # "cancelling"
  BY <1>1, <1>2, SlotZero DEF RunFits, SlotsFit
<1>4. CASE q.result # "failed"
  <2>1. q.result \in {"answered", "cancelled"} \cup Unsafe
    BY <1>3, <1>4 DEF Results, Unsafe
  <2>2. (\E outcome : EndTurn(r, outcome)) /\ UNCHANGED slot
    BY <2>1 DEF Settle, Unsafe
  <2> QED
    BY <2>2, EndedCalls
<1>5. CASE q.result = "failed"
  <2>1. CASE t.pc = "fallback"
    <3>1. TryFallback(r, t.queue, t.next, t)
      BY <1>2, <1>5, <2>1 DEF Settle, Unsafe, Awaiting
    <3>2. t.kind = "single" => t.queue \in Seq(Backups(t.ranked, t.primary))
      BY <1>1, <2>1 DEF CallsFit
    <3> QED
      BY <2>1, <3>1, <3>2, FallbackCalls
  <2>2. CASE t.pc # "fallback"
    <3>1. AggregatorFallback(r) \/ StartFallbacks(r, q.seq + 1)
      BY <1>2, <1>5, <2>2 DEF Settle, Unsafe, Awaiting
    <3>2. PICK list, next : /\ TryFallback(r, list, next, t)
                            /\ list = FallbackCandidates(health[r], t.ranked, q.cand, q.kind, t.failed)
      BY <3>1 DEF AggregatorFallback, StartFallbacks
    <3>3. t.kind = "single" => t.pc = "single" /\ q.cand = t.primary
      BY <1>1, <1>2, <2>2 DEF CallsFit, Awaiting
    <3>4. t.kind = "single" => list \in Seq(Backups(t.ranked, t.primary))
      <4>0. PICK ranked, cand, kind, failed, state :
               /\ ranked = t.ranked /\ cand = q.cand /\ kind = q.kind /\ failed = t.failed /\ state = health[r]
        OBVIOUS
      <4>1. ranked \in Seq(Candidates) /\ list = FallbackCandidates(state, ranked, cand, kind, failed)
        BY <1>1, <3>2, <4>0 DEF CallsFit
      <4>2. list \in Seq(Candidates) /\ Range(list) \subseteq Backups(ranked, cand)
        BY <4>1, FallbacksAre
      <4> QED
        BY <3>3, <4>0, <4>2, InBackups
    <3> QED
      BY <3>2, <3>3, <3>4, FallbackCalls
  <2> QED
    BY <2>1, <2>2
<1> QED
  BY <1>4, <1>5

\* An ensemble is not a single decision, whatever its requests are.
LEMMA EnsembleCalls ==
    ASSUME RoutingInv, CallsInv, NEW r \in Runs, turn[r].pc \in Proposing, NEW t2,
           \/ \E pc : t2 = InPlace(turn[r], pc)
           \/ \E pc, failed : t2 = AfterProposals(turn[r], pc, failed),
           turn' = [turn EXCEPT ![r] = t2], NEW sl, slot' = [slot EXCEPT ![r] = sl]
    PROVE  CallsInv'
<1>1. IsTurn(turn[r]) /\ CallsFit(turn[r], slot[r])
  BY DEF RoutingInv, RunFits, CallsInv
<1>2. turn[r].kind = "ensemble" /\ turn[r].ranked \in Seq(Candidates)
  BY <1>1 DEF CallsFit, Proposing
<1>3. t2.kind = "ensemble" /\ t2.ranked = turn[r].ranked
  BY <1>1, <1>2, RegisteredKept
<1>4. CallsFit(t2, sl)
  BY <1>2, <1>3 DEF CallsFit
<1> QED
  BY <1>4, CallsMove

LEMMA ProposerCalls ==
    ASSUME RoutingInv, CallsInv, NEW r \in Runs, StopWaiting(r) \/ Conclude(r)
    PROVE  CallsInv'
<1> DEFINE t == turn[r]
           failed == {t.lineup[s] : s \in Finished(r) \ AnsweredBy(r)}
<1>1. IsTurn(t) /\ turn = [x \in Runs |-> turn[x]] /\ slot = [x \in Runs |-> slot[x]] /\ t.pc \in Proposing
  BY DEF RoutingInv, RunFits, StopWaiting, Conclude, Proposing
<1>2. \/ (\E outcome : EndTurn(r, outcome)) /\ UNCHANGED slot
      \/ (\E pc : turn' = [turn EXCEPT ![r].pc = pc]) /\ \E sl : slot' = [slot EXCEPT ![r] = sl]
      \/ /\ \E pc, set : turn' = [turn EXCEPT ![r].pc = pc, ![r].failed = set]
         /\ \E q : slot' = [slot EXCEPT ![r][0] = q]
  <2>1. CASE StopWaiting(r)
    BY <2>1 DEF StopWaiting
  <2>2. CASE Conclude(r)
    <3> DEFINE asked == QuorumFallback(r, failed)
    <3>1. \/ /\ EndTurn(r, "cancelled") \/ EndTurn(r, "unsafe") \/ EndTurn(r, "failed")
             /\ UNCHANGED slot
          \/ /\ turn' = [turn EXCEPT ![r].pc = "aggregate", ![r].failed = failed \union {t.primary}]
             /\ slot' = [slot EXCEPT ![r][0] = AggregatorRequest(t)]
          \/ /\ turn' = [turn EXCEPT ![r].pc = "quorum", ![r].failed = failed]
             /\ slot' = [slot EXCEPT ![r][0] = asked]
      BY <2>2 DEF Conclude
    <3> HIDE DEF failed, asked
    <3> QED
      BY <3>1
  <2> QED
    BY <2>1, <2>2
<1>3. ASSUME NEW pc, turn' = [turn EXCEPT ![r].pc = pc], NEW sl, slot' = [slot EXCEPT ![r] = sl]
      PROVE  CallsInv'
  <2>1. turn' = [turn EXCEPT ![r] = InPlace(t, pc)]
    BY <1>1, <1>3 DEF InPlace, IsTurn
  <2> QED
    BY <1>1, <1>3, <2>1, EnsembleCalls
<1>4. ASSUME NEW pc, NEW set, turn' = [turn EXCEPT ![r].pc = pc, ![r].failed = set],
             NEW q, slot' = [slot EXCEPT ![r][0] = q]
      PROVE  CallsInv'
  <2>1. turn' = [turn EXCEPT ![r] = AfterProposals(t, pc, set)]
    BY <1>1, <1>4 DEF AfterProposals, IsTurn
  <2>2. slot' = [slot EXCEPT ![r] = [slot[r] EXCEPT ![0] = q]]
    BY <1>1, <1>4
  <2> QED
    BY <1>1, <2>1, <2>2, EnsembleCalls
<1> QED
  BY <1>2, <1>3, <1>4, EndedCalls

\* A turn that has made no request yet.
LEMMA NoCalls ==
    ASSUME NEW t, t.ranked \in Seq(Candidates), t.pc \in {"planned", "over", "idle"},
           t.pc = "planned" /\ t.kind = "single" => Registers(t),
           NEW sl, sl = [s \in Slots |-> NoRequest]
    PROVE  CallsFit(t, sl)
<1>1. \A s \in Slots : sl[s] = NoRequest
  OBVIOUS
<1>2. \A s \in Slots : sl[s].state = "idle"
  BY <1>1, NoRequestFields
<1> QED
  BY <1>2 DEF CallsFit

LEMMA PlannedFacts ==
    ASSUME NEW b, IsTurn(b), NEW set, NEW primary, NEW n, n = Headed(NewDecision(b, "single", set), primary)
    PROVE  /\ n.pc = "planned" /\ n.kind = "single" /\ n.ranked = b.ranked /\ n.primary = primary
           /\ n.granted = set
<1>1. PICK d : d = NewDecision(b, "single", set)
  OBVIOUS
<1>2. /\ IsTurn(d) /\ d.pc = "planned" /\ d.kind = "single" /\ d.ranked = b.ranked /\ d.granted = set
  BY <1>1 DEF NewDecision, IsTurn
<1>3. n = Headed(d, primary)
  BY <1>1
<1> QED
  BY <1>2, <1>3 DEF Headed, IsTurn

LEMMA PlannedEnsemble ==
    ASSUME NEW b, IsTurn(b), NEW set, NEW primary, NEW lineup, NEW n,
           n = HeadedBy(NewDecision(b, "ensemble", set), primary, lineup)
    PROVE  n.pc = "planned" /\ n.kind = "ensemble" /\ n.ranked = b.ranked
<1>1. PICK d : d = NewDecision(b, "ensemble", set)
  OBVIOUS
<1>2. /\ IsTurn(d) /\ d.pc = "planned" /\ d.kind = "ensemble" /\ d.ranked = b.ranked
  BY <1>1 DEF NewDecision, IsTurn
<1>3. n = HeadedBy(d, primary, lineup)
  BY <1>1
<1> QED
  BY <1>2, <1>3 DEF HeadedBy, IsTurn

\* What is registered for a single candidate: itself and all its backups, for a
\* ranking holds only candidates that are eligible.
LEMMA SelectionsCover ==
    ASSUME NEW ranked \in Seq(Candidates), NEW primary, NEW state, NEW set, set = SingleSelections(state, ranked, primary),
           \A c \in Range(ranked) : IsEligible(state[c])
    PROVE  /\ <<primary, "single">> \in set
           /\ \A c \in Backups(ranked, primary) : <<c, "fallback">> \in set
<1>1. PICK list : list = FallbackCandidates(state, ranked, primary, "none", {})
  OBVIOUS
<1>2. set = {<<primary, "single">>} \cup {<<c, "fallback">> : c \in Range(list)}
  BY <1>1 DEF SingleSelections
<1>3. {c \in Backups(ranked, primary) : IsEligible(state[c])} \subseteq Range(list)
  BY <1>1, FallbacksAre
<1>4. Backups(ranked, primary) \subseteq Range(list)
  BY <1>3 DEF Backups
<1> QED
  BY <1>2, <1>4

LEMMA PlanCalls ==
    ASSUME RoutingInv, CallsInv, NEW r \in Runs, NEW mode, NEW order \in Orders, NEW able, NEW ensemble \in BOOLEAN,
           PlanTurn(r, mode, order, able, ensemble)
    PROVE  CallsInv'
<1> DEFINE state == LoadHealth(r)
           eligible == {c \in able : IsEligible(state[c])}
           ranked == Keep(order, eligible)
           aggregator == FirstOf(WithRole(ranked, "aggregator"))
           primary == Primary(mode, ranked)
           number == turn[r].number + 1
           begun == [NoTurn EXCEPT !.number = number, !.ranked = ranked]
           none == [s \in Slots |-> NoRequest]
<1>1. /\ \E lineup : turn' = [turn EXCEPT ![r] =
                    CASE primary = NoCandidate -> Refused(begun)
                      [] ensemble /\ primary # NoCandidate -> PersistEnsemble(begun, lineup, aggregator)
                      [] OTHER -> PersistSingle(begun, state, primary)]
      /\ slot' = [slot EXCEPT ![r] = none]
  BY DEF PlanTurn, Refused
<1> HIDE DEF state
<1>2. order \in Seq(Candidates) /\ \A c \in eligible : IsEligible(state[c])
  BY RoutingAssumption
<1> HIDE DEF eligible
<1>3. ranked \in Seq(Candidates) /\ \A c \in Range(ranked) : IsEligible(state[c])
  BY <1>2, KeepList
<1> HIDE DEF number, ranked, aggregator, primary
<1>4. PICK b : b = begun
  OBVIOUS
<1>5. IsTurn(b) /\ b.ranked = ranked
  BY <1>4 DEF NoTurn, IsTurn
<1> HIDE DEF begun
<1>6. PICK t2, lineup :
         /\ turn' = [turn EXCEPT ![r] = t2]
         /\ t2 = Refused(b) \/ t2 = PersistEnsemble(b, lineup, aggregator) \/ t2 = PersistSingle(b, state, primary)
  BY <1>1, <1>4
<1>7. /\ t2.ranked = ranked /\ t2.pc \in {"planned", "over"}
      /\ t2.pc = "planned" /\ t2.kind = "single" => Registers(t2)
  <2>1. CASE t2 = Refused(b)
    BY <1>5, <2>1 DEF Refused, IsTurn
  <2>2. CASE t2 = PersistEnsemble(b, lineup, aggregator)
    <3>1. PICK set : t2 = HeadedBy(NewDecision(b, "ensemble", set), aggregator, lineup)
      BY <2>2 DEF PersistEnsemble, HeadedBy
    <3> QED
      BY <1>5, <3>1, PlannedEnsemble
  <2>3. CASE t2 = PersistSingle(b, state, primary)
    <3>1. PICK set : set = SingleSelections(state, ranked, primary)
      OBVIOUS
    <3>2. t2 = Headed(NewDecision(b, "single", set), primary)
      BY <1>5, <2>3, <3>1 DEF PersistSingle, Headed
    <3>3. /\ t2.pc = "planned" /\ t2.kind = "single" /\ t2.ranked = ranked /\ t2.primary = primary
          /\ t2.granted = set
      BY <1>5, <3>2, PlannedFacts
    <3>4. /\ <<primary, "single">> \in set
          /\ \A c \in Backups(ranked, primary) : <<c, "fallback">> \in set
      BY <1>3, <3>1, SelectionsCover
    <3> QED
      BY <3>3, <3>4 DEF Registers
  <2> QED
    BY <1>6, <2>1, <2>2, <2>3
<1>8. CallsFit(t2, none)
  BY <1>3, <1>7, NoCalls
<1> HIDE DEF none
<1> QED
  BY <1>1, <1>6, <1>8, CallsMove

LEMMA RegisterCalls ==
    ASSUME RoutingInv, CallsInv, NEW r \in Runs, NEW reached \in BOOLEAN, RegisterDecision(r, reached)
    PROVE  CallsInv'
<1> DEFINE t == turn[r]
           ok == reached /\ \A pair \in t.granted : pair[2] \in Roles[pair[1]]
           g(s) == CASE ok /\ s = 0 /\ t.kind = "single" -> Request(t.primary, "single", 1)
                     [] ok /\ s \in 1..Len(t.lineup) -> Request(t.lineup[s], "proposer", s)
                     [] OTHER -> NoRequest
           sl2 == [s \in Slots |-> g(s)]
<1>1. /\ IsTurn(t) /\ TurnFits(t, attempts[r]) /\ CallsFit(t, slot[r])
  BY DEF RoutingInv, RunFits, CallsInv
<1>2. /\ t.pc = "planned" /\ slot' = [slot EXCEPT ![r] = sl2]
      /\ turn' = [turn EXCEPT ![r] =
                    CASE ~ok -> NotRegistered(t)
                      [] ok /\ t.kind = "single" -> Registered(t, "single")
                      [] ok /\ t.kind = "ensemble" -> Registered(t, "proposing")]
  BY DEF RegisterDecision, NotRegistered, Registered
<1>3. t.kind \in {"single", "ensemble"} /\ (t.kind = "single" => t.lineup = << >>) /\ t.ranked \in Seq(Candidates)
  BY <1>1, <1>2 DEF TurnFits, CallsFit
<1>4. CASE ~ok
  <2>1. PICK t2 : t2 = NotRegistered(t)
    OBVIOUS
  <2>2. turn' = [turn EXCEPT ![r] = t2]
    BY <1>2, <1>4, <2>1
  <2>3. sl2 = [s \in Slots |-> NoRequest]
    BY <1>4
  <2>4. t2.pc = "over" /\ t2.ranked = t.ranked
    BY <1>1, <2>1 DEF NotRegistered, IsTurn
  <2>5. CallsFit(t2, sl2)
    BY <1>3, <2>3, <2>4, NoCalls
  <2> HIDE DEF sl2
  <2> QED
    BY <1>2, <2>2, <2>5, CallsMove
<1>5. CASE ok
  <2>1. PICK pc, t2 : /\ t2 = Registered(t, pc) /\ turn' = [turn EXCEPT ![r] = t2]
                      /\ \/ pc = "single" /\ t.kind = "single"
                         \/ pc = "proposing" /\ t.kind = "ensemble"
    BY <1>2, <1>3, <1>5
  <2>2. /\ t2.pc = pc /\ t2.kind = t.kind /\ t2.ranked = t.ranked /\ t2.primary = t.primary
        /\ t2.granted = t.granted
    BY <1>1, <2>1, AuthorisedUpdate, RegisteredKept
  <2>3. ASSUME t.kind = "single"
        PROVE  /\ g(0) = Request(t.primary, "single", 1)
               /\ \A s \in Slots : s # 0 => g(s) = NoRequest
    <3>1. Len(t.lineup) = 0
      BY <1>3, <2>3
    <3> QED
      BY <1>5, <2>3, <3>1
  <2> HIDE DEF g
  <2>4. \A s \in Slots : sl2[s] = g(s)
    OBVIOUS
  <2> HIDE DEF sl2
  <2>5. CallsFit(t2, sl2)
    <3>1. CASE t.kind # "single"
      BY <1>3, <2>2, <3>1 DEF CallsFit
    <3>2. CASE t.kind = "single"
      <4>1. PICK q : q = Request(t.primary, "single", 1)
        OBVIOUS
      <4>2. q.cand = t.primary /\ q.role = "single"
        BY <4>1 DEF Request, NoRequest
      <4>3. sl2[0] = q /\ \A s \in Slots : s # 0 => sl2[s].state = "idle"
        BY <2>3, <2>4, <3>2, <4>1, SlotZero, NoRequestFields
      <4>4. Registers(t) /\ Registers(t2)
        BY <1>1, <1>2, <2>2, <3>2 DEF CallsFit, Registers
      <4>5. \A s \in Slots : sl2[s].state # "idle" => <<sl2[s].cand, sl2[s].role>> \in t2.granted
        BY <2>2, <4>2, <4>3, <4>4 DEF Registers
      <4> QED
        BY <1>3, <2>1, <2>2, <4>2, <4>3, <4>4, <4>5 DEF CallsFit
    <3> QED
      BY <3>1, <3>2
  <2> QED
    BY <1>2, <2>1, <2>5, CallsMove
<1> QED
  BY <1>4, <1>5

LEMMA RestartCalls ==
    ASSUME RoutingInv, CallsInv, RestartSidecar
    PROVE  CallsInv'
<1> SUFFICES ASSUME NEW r \in Runs PROVE CallsFit(turn'[r], slot'[r])
  BY DEF CallsInv
<1>1. slot'[r] = [s \in Slots |-> NoRequest]
  BY DEF RestartSidecar
<1>2. CallsFit(turn[r], slot[r])
  BY DEF CallsInv
<1>3. CASE turn[r].pc = "idle"
  <2>1. turn'[r] = turn[r]
    BY <1>3 DEF RestartSidecar
  <2>2. turn[r].ranked \in Seq(Candidates)
    BY <1>2 DEF CallsFit
  <2> QED
    BY <1>1, <1>3, <2>1, <2>2, NoCalls
<1>4. CASE turn[r].pc # "idle"
  <2>1. PICK number, decision :
           turn'[r] = [NoTurn EXCEPT !.pc = "over", !.outcome = "interrupted", !.number = number,
                                     !.decision = decision]
    BY <1>4 DEF RestartSidecar
  <2>2. PICK t : t = turn'[r]
    OBVIOUS
  <2>3. t.pc = "over" /\ t.ranked \in Seq(Candidates)
    BY <2>1, <2>2 DEF NoTurn
  <2>4. CallsFit(t, slot'[r])
    BY <1>1, <2>3, NoCalls
  <2> QED
    BY <2>2, <2>4
<1> QED
  BY <1>3, <1>4

(***************************************************************************)
(* RoutedModelTransport with a single candidate, for any policy, rankings  *)
(* and health: every request it makes, the retries and the fallbacks it    *)
(* computes again after a failure included, is one the host was told of    *)
(* when the decision was registered.                                       *)
(***************************************************************************)
THEOREM SingleCallsAreAuthorised == RoutingSpec => []SingleCallsAuthorised
<1>1. RoutingInit => RoutingInv /\ CallsInv
  <2> SUFFICES ASSUME RoutingInit, NEW r \in Runs PROVE CallsFit(turn[r], slot[r])
    BY RoutingStarts DEF CallsInv
  <2>1. PICK t : t = NoTurn
    OBVIOUS
  <2>2. turn[r] = t /\ slot[r] = [s \in Slots |-> NoRequest]
    BY <2>1 DEF RoutingInit
  <2>3. t.pc = "idle" /\ t.ranked \in Seq(Candidates)
    BY <2>1 DEF NoTurn
  <2>4. CallsFit(t, slot[r])
    BY <2>2, <2>3, NoCalls
  <2> QED
    BY <2>2, <2>4
<1>2. RoutingInv /\ CallsInv /\ [RoutingNext]_routingVars => RoutingInv' /\ CallsInv'
  <2> SUFFICES ASSUME RoutingInv, CallsInv, [RoutingNext]_routingVars PROVE CallsInv'
    BY RoutingStep
  <2>1. CASE UNCHANGED routingVars
    BY <2>1 DEF routingVars, CallsInv
  <2>2. CASE \E r \in Runs, mode \in {"fixed", "smart_single", "selective_ensemble"}, order \in Orders,
                able \in AbleSets, ensemble \in BOOLEAN : PlanTurn(r, mode, order, able, ensemble)
    BY <2>2, PlanCalls
  <2>3. CASE \E r \in Runs, reached \in BOOLEAN : RegisterDecision(r, reached)
    BY <2>3, RegisterCalls
  <2>4. CASE \E r \in Runs, s \in Slots :
               \/ SendAttempt(r, s) \/ Accepted(r, s) \/ Streaming(r, s) \/ Answered(r, s) \/ Cancelled(r, s)
               \/ AuditFails(r, s)
               \/ \E kind, visible, inTime : Failed(r, s, kind, visible, inTime)
               \/ \E written, inTime : TaskCancelled(r, s, written, inTime)
    BY <2>4, RequestSteps
  <2>5. CASE \E r \in Runs : Settle(r) \/ StopWaiting(r) \/ Conclude(r)
    BY <2>5, SettleCalls, ProposerCalls
  <2>6. CASE \E c \in Candidates : BenchExpires(c)
    BY <2>6 DEF BenchExpires, CallsInv
  <2>7. CASE RestartSidecar
    BY <2>7, RestartCalls
  <2> QED
    BY <2>1, <2>2, <2>3, <2>4, <2>5, <2>6, <2>7 DEF RoutingNext
<1> QED
  BY <1>1, <1>2, CallsAuthorised, PTL DEF RoutingSpec
=============================================================================
