----------------------------- MODULE ModelBroker -----------------------------
(***************************************************************************)
(* The provider requests of one run.  In the Sidecar, a request registers  *)
(* a queue for events and an entry that a cancel can find, asks the host   *)
(* to start, and collects events (runtime/transport.py).  In the host, one *)
(* task runs the HTTP request and another forwards its events              *)
(* (broker/http.rs, rpc/reverse.rs).                                       *)
(*                                                                         *)
(* Queues are found by request id and else by run id, so the proposers of  *)
(* one run share the second key.  A payload is abstracted to the request   *)
(* it is about.  Time is abstracted: any deadline may pass at any step.    *)
(***************************************************************************)
EXTENDS Integers, Sequences, FiniteSets

CONSTANTS
    Calls,        \* the concurrent requests of the run
    RunKey,       \* the run id as a key of _broker_event_queues
    NoRequestId,  \* no queue
    QueueSize     \* maxsize of a queue, 64 in the code

ASSUME BrokerAssumption == RunKey \notin Calls /\ NoRequestId \notin Calls /\ QueueSize \in Nat \ {0}

VARIABLES
    call,     \* the coroutine complete() of each request
    active,   \* _active_model_requests of the run
    route,    \* _broker_event_queues: key -> the request whose queue it is
    mailbox,  \* the queues: whose event and its kind
    http,     \* the request in the host
    told,     \* requests for which credential.http.cancel is on its way
    toTell,   \* per execution of cancel_model_run, the requests it has marked and not told
    missed    \* history: requests whose cancel was given up or got lost

brokerVars == <<call, active, route, mailbox, http, told, toTell, missed>>

\* Who executes cancel_model_run: a request, or run.cancel of the user under the
\* key of the run.  The write queue takes one run.cancel at a time.
Cancellers == Calls \union {RunKey}

NoEntry == [known |-> FALSE, id |-> FALSE, cancel |-> FALSE, sent |-> FALSE]
Terminal == {"completed", "failed", "cancelled"}

\* unregister_broker_stream of the run and of the request.
Unregister(keys) == [k \in DOMAIN route |-> IF k \in keys THEN NoRequestId ELSE route[k]]

----------------------------------------------------------------------------
(* The Sidecar. *)

StartCall(q) ==
    /\ call[q] = "idle"
    /\ call' = [call EXCEPT ![q] = "starting"]
    /\ route' = [route EXCEPT ![RunKey] = q]
    /\ active' = [active EXCEPT ![q] = [NoEntry EXCEPT !.known = TRUE]]
    /\ UNCHANGED <<mailbox, http, told, toTell, missed>>

\* credential.http.start has returned; the row of the attempt is being written.
StartReturned(q) ==
    /\ call[q] = "starting" /\ http[q] # "none"
    /\ call' = [call EXCEPT ![q] = "recording"]
    /\ UNCHANGED <<active, route, mailbox, http, told, toTell, missed>>

\* The call has no answer, or an error for one: nothing is known to cancel.
StartFailed(q) ==
    /\ call[q] = "starting"
    /\ call' = [call EXCEPT ![q] = "over"]
    /\ route' = Unregister({RunKey})
    /\ active' = [active EXCEPT ![q] = NoEntry]
    /\ UNCHANGED <<mailbox, http, told, toTell, missed>>

\* Deliberately wrong: a cancel that came before the id is not looked at.
SetRequestIdBlindly(q) ==
    /\ call[q] = "recording"
    /\ active' = [active EXCEPT ![q].id = TRUE]
    /\ route' = [route EXCEPT ![q] = q]
    /\ call' = [call EXCEPT ![q] = "collecting"]
    /\ UNCHANGED <<mailbox, http, told, toTell, missed>>

\* _set_active_model_request_id, and the cancel it may find.
SetRequestId(q) ==
    /\ call[q] = "recording"
    /\ active' = [active EXCEPT ![q].id = TRUE]
    /\ route' = [route EXCEPT ![q] = q]
    /\ call' = [call EXCEPT ![q] = IF active[q].cancel THEN "cancelling" ELSE "collecting"]
    /\ UNCHANGED <<mailbox, http, told, toTell, missed>>

\* The except branch of complete: the queues go and the host is told, before the
\* entry of the request goes.
Fails(q) ==
    /\ call' = [call EXCEPT ![q] = "withdrawing"]
    /\ route' = Unregister({RunKey, q})

\* The row could not be written: the accepted request is cancelled.
RecordingFailed(q) ==
    /\ call[q] = "recording"
    /\ Fails(q)
    /\ UNCHANGED <<active, mailbox, http, told, toTell, missed>>

\* The request's own credential.http.cancel; a failure is logged.
Withdraw(q, tells) ==
    /\ call[q] = "withdrawing"
    /\ call' = [call EXCEPT ![q] = "over"]
    /\ active' = [active EXCEPT ![q] = NoEntry]
    /\ told' = IF tells THEN told \union {q} ELSE told
    /\ missed' = IF tells THEN missed ELSE missed \union {q}
    /\ UNCHANGED <<route, mailbox, http, toTell>>

\* The requests that cancel_model_run is to tell the host of.
ToCancel == {q \in Calls : active[q].known /\ active[q].id /\ ~active[q].sent}

\* cancel_model_run under its lock: all requests of the run are marked, and those
\* with an id as sent.
MarkRequests(k) ==
    /\ \E q \in Calls : active[q].known
    /\ active' = [q \in Calls |->
                   [active[q] EXCEPT !.cancel = @ \/ active[q].known, !.sent = @ \/ q \in ToCancel]]
    /\ toTell' = [toTell EXCEPT ![k] = @ \union ToCancel]
    /\ UNCHANGED <<route, mailbox, http, told, missed>>

UserCancels ==
    /\ toTell[RunKey] = {}
    /\ \E q \in Calls : active[q].known /\ (~active[q].cancel \/ q \in ToCancel)
    /\ MarkRequests(RunKey)
    /\ UNCHANGED call

CancelsItself(q) ==
    /\ call[q] = "cancelling"
    /\ MarkRequests(q)
    /\ call' = [call EXCEPT ![q] = "telling"]

\* cancel_model_run after its lock: one credential.http.cancel after another.
TellHost(k, q) ==
    /\ q \in toTell[k]
    /\ told' = told \union {q}
    /\ toTell' = [toTell EXCEPT ![k] = @ \ {q}]
    /\ UNCHANGED <<call, active, route, mailbox, http, missed>>

\* One of these calls raises (no session, a lost connection, an error of the host
\* such as CREDENTIAL_HTTP_CANCEL_TIMEOUT): the others are not made.
TellFails(k) ==
    /\ k = RunKey => toTell[k] # {}
    /\ k # RunKey => call[k] = "telling"
    /\ missed' = missed \union toTell[k]
    /\ toTell' = [toTell EXCEPT ![k] = {}]
    /\ IF k = RunKey THEN UNCHANGED <<call, route>> ELSE Fails(k)
    /\ UNCHANGED <<active, mailbox, http, told>>

\* cancel_model_run has returned to the request.
ToldAll(q) ==
    /\ call[q] = "telling" /\ toTell[q] = {}
    /\ call' = [call EXCEPT ![q] = "collecting"]
    /\ UNCHANGED <<active, route, mailbox, http, told, toTell, missed>>

\* One event of the queue, whoever it is about.  A completed one ends the call, the
\* others of the terminal ones raise.
Collect(q) ==
    LET kind == Head(mailbox[q]).kind
    IN  /\ call[q] = "collecting" /\ mailbox[q] # << >>
        /\ mailbox' = [mailbox EXCEPT ![q] = Tail(@)]
        /\ \/ kind = "completed"
              /\ call' = [call EXCEPT ![q] = "over"]
              /\ route' = Unregister({RunKey, q})
              /\ active' = [active EXCEPT ![q] = NoEntry]
           \/ kind \in {"failed", "cancelled"} /\ Fails(q) /\ UNCHANGED active
           \/ kind = "delta" /\ UNCHANGED <<call, route, active>>
        /\ UNCHANGED <<http, told, toTell, missed>>

\* TimeoutError of the collection, or a failed callback.
CollectFails(q) ==
    /\ call[q] = "collecting"
    /\ Fails(q)
    /\ UNCHANGED <<active, mailbox, http, told, toTell, missed>>

\* The task is cancelled: CancelledError is no Exception, so the host is not
\* told, and the keys go only if the collection had begun.
TaskCancel(q) ==
    /\ call[q] \notin {"idle", "over"}
    /\ call' = [call EXCEPT ![q] = "over"]
    /\ route' = IF call[q] = "collecting" THEN Unregister({RunKey, q}) ELSE route
    /\ active' = [active EXCEPT ![q] = NoEntry]
    /\ missed' = missed \union toTell[q]
    /\ toTell' = [toTell EXCEPT ![q] = {}]
    /\ UNCHANGED <<mailbox, http, told>>

----------------------------------------------------------------------------
(* The host. *)

\* HttpBroker.start: the credential, the leases and the stream of the request
\* are there, and its task is spawned.
StartRequest(q) == http' = [http EXCEPT ![q] = "connecting"]

\* handle_credential_http_start, once authorised.
HttpStart(q) ==
    /\ call[q] = "starting" /\ http[q] = "none"
    /\ StartRequest(q)
    /\ UNCHANGED <<call, active, route, mailbox, told, toTell, missed>>

\* execute_request: after some tries the provider answers with success.  Else the
\* request ends with the failed event below.
Responds(q) ==
    /\ http[q] = "connecting"
    /\ http' = [http EXCEPT ![q] = "running"]
    /\ UNCHANGED <<call, active, route, mailbox, told, toTell, missed>>

\* The queue of the request, else the queue of the run, else none.
QueueFor(q) == IF route[q] # NoRequestId THEN route[q] ELSE route[RunKey]

\* A full queue is an error and the event is lost.
Deliver(to, event) ==
    IF to = NoRequestId \/ Len(mailbox[to]) = QueueSize THEN mailbox
    ELSE [mailbox EXCEPT ![to] = Append(@, event)]

\* credential.http.event reaches publish_broker_event.
HttpEvent(q, kind) ==
    /\ http[q] \in {"connecting", "running", "stopping"}
    /\ http[q] = "connecting" => kind = "failed"
    /\ kind = "cancelled" => http[q] = "stopping"
    /\ http' = IF kind \in Terminal THEN [http EXCEPT ![q] = "done"] ELSE http
    /\ mailbox' = Deliver(QueueFor(q), [about |-> q, kind |-> kind])
    /\ UNCHANGED <<call, active, route, told, toTell, missed>>

\* handle_credential_http_cancel: the sender is removed and used.
HttpCancel(q) ==
    /\ q \in told
    /\ told' = told \ {q}
    /\ http' = IF http[q] \in {"connecting", "running"} THEN [http EXCEPT ![q] = "stopping"] ELSE http
    /\ UNCHANGED <<call, active, route, mailbox, toTell, missed>>

\* The connection is lost before the host has read the cancel.
HttpCancelLost(q) ==
    /\ q \in told
    /\ told' = told \ {q} /\ missed' = missed \union {q}
    /\ UNCHANGED <<call, active, route, mailbox, http, toTell>>

\* The deadline of the forwarder: it cancels, and forwards nothing more.
HttpDeadline(q) ==
    /\ http[q] \in {"connecting", "running", "stopping"}
    /\ http' = [http EXCEPT ![q] = "done"]
    /\ UNCHANGED <<call, active, route, mailbox, told, toTell, missed>>

----------------------------------------------------------------------------
BrokerInit ==
    /\ call = [q \in Calls |-> "idle"]
    /\ active = [q \in Calls |-> NoEntry]
    /\ route = [k \in Calls \union {RunKey} |-> NoRequestId]
    /\ mailbox = [q \in Calls |-> << >>]
    /\ http = [q \in Calls |-> "none"]
    /\ told = {}
    /\ toTell = [k \in Cancellers |-> {}] /\ missed = {}

BrokerNext ==
    \/ \E q \in Calls :
         \/ StartCall(q) \/ StartReturned(q) \/ StartFailed(q) \/ SetRequestId(q) \/ RecordingFailed(q)
         \/ CancelsItself(q) \/ ToldAll(q) \/ Collect(q) \/ CollectFails(q) \/ TaskCancel(q)
         \/ HttpStart(q) \/ Responds(q) \/ HttpCancel(q) \/ HttpCancelLost(q) \/ HttpDeadline(q)
    \/ \E q \in Calls, tells \in BOOLEAN : Withdraw(q, tells)
    \/ \E q \in Calls, kind \in Terminal \union {"delta"} : HttpEvent(q, kind)
    \/ \E k \in Cancellers, q \in Calls : TellHost(k, q)
    \/ \E k \in Cancellers : TellFails(k)
    \/ UserCancels

BrokerSpec == BrokerInit /\ [][BrokerNext]_brokerVars

----------------------------------------------------------------------------
(* Properties. *)

(***************************************************************************)
(* A cancel is lost only where a call to the host has failed, even one     *)
(* that comes while the answer to credential.http.start is on its way: a   *)
(* request that collects events after its run was cancelled was marked as  *)
(* sent, and the host is told, will be told by the cancel_model_run that   *)
(* marked it, or is done - or that cancel_model_run was cut short, or the  *)
(* message got lost.                                                       *)
(***************************************************************************)
CancelReachesHost ==
    \A q \in Calls :
        call[q] = "collecting" /\ active[q].cancel =>
            /\ active[q].sent
            /\ \/ q \in told \/ http[q] \in {"stopping", "done"}
               \/ \E k \in Cancellers : q \in toTell[k]
               \/ q \in missed
=============================================================================
