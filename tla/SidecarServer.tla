---------------------------- MODULE SidecarServer ----------------------------
(***************************************************************************)
(* The RPC server of the Sidecar (rpc/production_server.py) and the        *)
(* sessions it hands to the callers of the host (rpc/session.py,           *)
(* rpc/multiplexer.py).                                                    *)
(*                                                                         *)
(* One reader serves one connection at a time.  A frame with a method      *)
(* becomes a task; the tasks of a connection and of several callers of the *)
(* host are interleaved at every await.  A session id is abstracted to the *)
(* connection it was bound to, since each is a fresh uuid; proofs, meta    *)
(* data and payloads are abstracted to whether they are accepted.  Time is *)
(* abstracted: any deadline may pass at any step.                          *)
(***************************************************************************)
EXTENDS Integers, FiniteSets

CONSTANTS
    Conns,        \* the connections that the host opens, one after another
    Frames,       \* the frames with a method that arrive
    Outcalls,      \* the calls that the Sidecar makes to the host
    NoConn,       \* no session
    NoFrame,      \* nobody holds the handshake lock
    MaxInflight,  \* MAX_INFLIGHT_REQUESTS, 256 in the code
    MaxPending,   \* MAX_PENDING_PER_DIRECTION, 256 in the code
    MaxMissed     \* MAX_MISSED_HEARTBEATS, 3 in the code

ASSUME ServerAssumption ==
    /\ NoConn \notin Conns /\ NoFrame \notin Frames
    /\ IsFiniteSet(Frames) /\ IsFiniteSet(Outcalls)
    /\ MaxInflight \in Nat /\ MaxPending \in Nat /\ MaxMissed \in Nat \ {0}

VARIABLES
    conn,       \* _handle_client of each connection
    connected,  \* _client_connected
    session,    \* _session, by its connection
    ipc,        \* _ipc_session_id, by the session that bears it
    reverse,    \* _reverse_rpc_session of runtime/transport.py
    cancelled,  \* the sessions with _cancelled
    frame,      \* the dispatch task of each frame: its connection, method and step
    hsLock,     \* the frame that holds _handshake_lock
    heartbeat,  \* the session that _heartbeat_task serves, and its missed beats
    pending,    \* _pending of the multiplexer of each connection
    rcall,      \* IpcSession.call: its session, its step and what its future holds
    stopping,   \* how far stop() has come
    proved      \* connections on which a proof of the startup token came (history)

serverVars == <<conn, connected, session, ipc, reverse, cancelled, frame, hsLock, heartbeat,
                pending, rcall, stopping, proved>>
linkVars == <<conn, connected, session, ipc, reverse, heartbeat, stopping, proved>>

FrameMethods == {"handshake", "shutdown", "command"}
NoTask == [conn |-> NoConn, method |-> "command", step |-> "none"]
NoReverse == [conn |-> NoConn, step |-> "none", answer |-> "none", late |-> FALSE]
NoBeat == [conn |-> NoConn, missed |-> 0]
LiveSteps == {"queued", "locked", "handling"}

TasksOf(c) == {f \in Frames : frame[f].conn = c /\ frame[f].step \in LiveSteps}

\* Multiplexer.resolve_pending of the calls rs: each leaves the table, and its
\* future is set unless it is done.
Resolved(c, rs, value) ==
    /\ pending' = [pending EXCEPT ![c] = @ \ rs]
    /\ rcall' = [r \in Outcalls |-> IF r \in rs \intersect pending[c] /\ rcall[r].answer = "none"
                                   THEN [rcall[r] EXCEPT !.answer = value] ELSE rcall[r]]

\* Multiplexer.cancel_all.
CancelAllPending(c) == Resolved(c, pending[c], "error")

\* IpcSession.cancel: the flag, and cancel_all of its multiplexer.
CancelSession(c) ==
    /\ cancelled' = cancelled \union {c}
    /\ CancelAllPending(c)

----------------------------------------------------------------------------
(* _handle_client. *)

\* A second connection is closed at once.
RefuseClient(c) ==
    /\ conn[c] = "new" /\ connected /\ stopping \notin {"server", "done"}
    /\ conn' = [conn EXCEPT ![c] = "refused"]
    /\ UNCHANGED <<connected, session, ipc, reverse, cancelled, frame, hsLock, heartbeat, pending,
                   rcall, stopping, proved>>

AcceptClient(c) ==
    /\ conn[c] = "new" /\ ~connected /\ stopping \notin {"server", "done"}
    /\ conn' = [conn EXCEPT ![c] = "open"]
    /\ connected' = TRUE
    /\ session' = c
    /\ UNCHANGED <<ipc, reverse, cancelled, frame, hsLock, heartbeat, pending, rcall, stopping, proved>>

\* A frame with a method: a task of its own, or IPC_BACKPRESSURE.
Receive(f, c, m) ==
    /\ conn[c] = "open" /\ frame[f].step = "none"
    /\ frame' = [frame EXCEPT ![f] = [conn |-> c, method |-> m,
                    step |-> IF Cardinality(TasksOf(c)) >= MaxInflight THEN "over" ELSE "queued"]]
    /\ UNCHANGED <<linkVars, cancelled, hsLock, pending, rcall>>

\* A frame with the answer of the host to a call that it received.
Response(c, r) ==
    /\ conn[c] = "open" /\ rcall[r].conn = c /\ rcall[r].step \in {"waiting", "gone"}
    /\ r \in pending[c]
    /\ \E value \in {"result", "error"} : Resolved(c, {r}, value)
    /\ UNCHANGED <<linkVars, cancelled, frame, hsLock>>

\* Deliberately wrong: the tasks of the connection are left to run.
EndAlone(c) ==
    /\ conn[c] = "open"
    /\ conn' = [conn EXCEPT ![c] = "ending"]
    /\ UNCHANGED <<connected, session, ipc, reverse, cancelled, frame, hsLock, heartbeat, pending,
                   rcall, stopping, proved>>

\* The stream ends or a frame is neither a request nor an answer: the tasks of
\* the connection are cancelled, and a lock that one of them held is free.
End(c) ==
    /\ conn[c] = "open"
    /\ conn' = [conn EXCEPT ![c] = "ending"]
    /\ frame' = [f \in Frames |-> IF f \in TasksOf(c) THEN [frame[f] EXCEPT !.step = "over"] ELSE frame[f]]
    /\ hsLock' = IF hsLock \in TasksOf(c) THEN NoFrame ELSE hsLock
    /\ UNCHANGED <<connected, session, ipc, reverse, cancelled, heartbeat, pending, rcall, stopping, proved>>

\* Deliberately wrong: the pending calls are left to their deadlines.
CleanupSilently(c) ==
    /\ conn[c] = "ending"
    /\ conn' = [conn EXCEPT ![c] = "closed"]
    /\ heartbeat' = NoBeat
    /\ cancelled' = cancelled \union {c}
    /\ reverse' = NoConn /\ session' = NoConn /\ ipc' = NoConn /\ connected' = FALSE
    /\ UNCHANGED <<frame, hsLock, stopping, proved, pending, rcall>>

\* The rest of the finally block, once the tasks and the heartbeat have ended.
Cleanup(c) ==
    /\ conn[c] = "ending"
    /\ conn' = [conn EXCEPT ![c] = "closed"]
    /\ heartbeat' = NoBeat
    /\ CancelSession(c)
    /\ reverse' = NoConn /\ session' = NoConn /\ ipc' = NoConn /\ connected' = FALSE
    /\ UNCHANGED <<frame, hsLock, stopping, proved>>

----------------------------------------------------------------------------
(* _dispatch. *)

EndTask(f) == frame' = [frame EXCEPT ![f].step = "over"]

\* The proof is checked under the lock; then the health is awaited.
BeginHandshake(f) ==
    /\ frame[f].step = "queued" /\ frame[f].method = "handshake"
    /\ hsLock = NoFrame /\ ipc = NoConn
    /\ frame' = [frame EXCEPT ![f].step = "locked"]
    /\ hsLock' = f
    /\ proved' = proved \union {frame[f].conn}
    /\ UNCHANGED <<conn, connected, session, ipc, reverse, heartbeat, stopping, cancelled, pending, rcall>>

\* A session is bound already, or the parameters or the proof are not right.
RefuseHandshake(f) ==
    /\ frame[f].step = "queued" /\ frame[f].method = "handshake" /\ hsLock = NoFrame
    /\ EndTask(f)
    /\ UNCHANGED <<linkVars, cancelled, hsLock, pending, rcall>>

\* The health is good: the session that is current now is bound.
FinishHandshake(f) ==
    /\ frame[f].step = "locked"
    /\ EndTask(f) /\ hsLock' = NoFrame
    /\ ipc' = session
    /\ reverse' = IF session = NoConn THEN reverse ELSE session
    /\ heartbeat' = IF session # NoConn /\ heartbeat.conn = NoConn
                    THEN [conn |-> session, missed |-> 0] ELSE heartbeat
    /\ UNCHANGED <<conn, connected, session, stopping, proved, cancelled, pending, rcall>>

\* SIDECAR_NOT_READY.
NotReady(f) ==
    /\ frame[f].step = "locked"
    /\ EndTask(f) /\ hsLock' = NoFrame
    /\ UNCHANGED <<linkVars, cancelled, pending, rcall>>

Authorised(f) == ipc # NoConn /\ ipc = frame[f].conn

\* IPC_SESSION_INVALID, an unknown method, or meta data that is not accepted.
RejectCommand(f) ==
    /\ frame[f].step = "queued" /\ frame[f].method \in {"command", "shutdown"}
    /\ Authorised(f) => frame[f].method = "command"
    /\ EndTask(f)
    /\ UNCHANGED <<linkVars, cancelled, hsLock, pending, rcall>>

\* The handler of the method is awaited.
BeginCommand(f) ==
    /\ frame[f].step = "queued" /\ frame[f].method = "command" /\ Authorised(f)
    /\ frame' = [frame EXCEPT ![f].step = "handling"]
    /\ UNCHANGED <<linkVars, cancelled, hsLock, pending, rcall>>

\* It returned or raised, and the answer was written.
FinishCommand(f) ==
    /\ frame[f].step = "handling"
    /\ EndTask(f)
    /\ UNCHANGED <<linkVars, cancelled, hsLock, pending, rcall>>

----------------------------------------------------------------------------
(* stop(), as a task of system.shutdown or from the end of the process. *)

\* A second stop() repeats what the first one has done or has still to do.
BeginStop ==
    /\ reverse' = NoConn /\ ipc' = NoConn
    /\ stopping' = IF stopping = "no" THEN "heartbeat" ELSE stopping

Shutdown(f) ==
    /\ frame[f].step = "queued" /\ frame[f].method = "shutdown" /\ Authorised(f)
    /\ EndTask(f) /\ BeginStop
    /\ UNCHANGED <<conn, connected, session, heartbeat, proved, cancelled, hsLock, pending, rcall>>

ProcessEnds ==
    /\ stopping = "no" /\ BeginStop
    /\ UNCHANGED <<conn, connected, session, heartbeat, proved, cancelled, frame, hsLock, pending, rcall>>

\* The heartbeat has ended; IpcSession.close of the current session.
StopSession ==
    /\ stopping = "heartbeat"
    /\ stopping' = "session"
    /\ heartbeat' = NoBeat
    /\ IF session = NoConn THEN UNCHANGED <<cancelled, pending, rcall>> ELSE CancelSession(session)
    /\ UNCHANGED <<conn, connected, session, ipc, reverse, proved, frame, hsLock>>

StopServer ==
    /\ stopping = "session"
    /\ stopping' = "server"
    /\ UNCHANGED <<conn, connected, session, ipc, reverse, heartbeat, proved, cancelled, frame, hsLock,
                   pending, rcall>>

\* wait_closed, and the socket is removed.
Stopped ==
    /\ stopping = "server" /\ \A c \in Conns : conn[c] \notin {"open", "ending"}
    /\ stopping' = "done"
    /\ UNCHANGED <<conn, connected, session, ipc, reverse, heartbeat, proved, cancelled, frame, hsLock,
                   pending, rcall>>

----------------------------------------------------------------------------
(* The session: heartbeats and the calls to the host. *)

\* start_heartbeat: a notification that went out, or that could not.
Beat ==
    /\ heartbeat.conn # NoConn /\ heartbeat.conn \notin cancelled /\ heartbeat.missed # 0
    /\ heartbeat' = [heartbeat EXCEPT !.missed = 0]
    /\ UNCHANGED <<conn, connected, session, ipc, reverse, stopping, proved, cancelled, frame, hsLock,
                   pending, rcall>>

MissBeat ==
    /\ heartbeat.conn # NoConn /\ heartbeat.conn \notin cancelled
    /\ IF heartbeat.missed + 1 >= MaxMissed
       THEN heartbeat' = NoBeat /\ CancelSession(heartbeat.conn)
       ELSE /\ heartbeat' = [heartbeat EXCEPT !.missed = @ + 1]
            /\ UNCHANGED <<cancelled, pending, rcall>>
    /\ UNCHANGED <<conn, connected, session, ipc, reverse, stopping, proved, frame, hsLock>>

\* A transport takes the current session; it keeps it across awaits.
Obtain(r) ==
    /\ rcall[r].step = "none" /\ reverse # NoConn
    /\ rcall' = [rcall EXCEPT ![r] = [NoReverse EXCEPT !.conn = reverse, !.step = "held"]]
    /\ UNCHANGED <<linkVars, cancelled, frame, hsLock, pending>>

\* register_pending, or IpcBackpressureError.
Register(r) ==
    LET c    == rcall[r].conn
        full == Cardinality(pending[c]) >= MaxPending
    IN  /\ rcall[r].step = "held"
        /\ pending' = IF full THEN pending ELSE [pending EXCEPT ![c] = @ \union {r}]
        /\ rcall' = [rcall EXCEPT ![r].step = IF full THEN "over" ELSE "writing",
                                  ![r].late = c \in cancelled]
        /\ UNCHANGED <<linkVars, cancelled, frame, hsLock>>

\* The request is in the buffer of the stream, which may still take it while
\* the stream closes.
Written(r) ==
    /\ rcall[r].step = "writing"
    /\ rcall' = [rcall EXCEPT ![r].step = "waiting"]
    /\ UNCHANGED <<linkVars, cancelled, frame, hsLock, pending>>

\* A failed write, or the deadline: cancel_pending, and the error is raised.
GiveUp(r) ==
    LET c == rcall[r].conn
    IN  /\ rcall[r].step \in {"writing", "waiting"}
        /\ pending' = [pending EXCEPT ![c] = @ \ {r}]
        /\ rcall' = [rcall EXCEPT ![r].step = "over",
                                  ![r].answer = IF @ = "none" THEN "error" ELSE @]
        /\ UNCHANGED <<linkVars, cancelled, frame, hsLock>>

Return(r) ==
    /\ rcall[r].step = "waiting" /\ rcall[r].answer # "none"
    /\ rcall' = [rcall EXCEPT ![r].step = "over"]
    /\ UNCHANGED <<linkVars, cancelled, frame, hsLock, pending>>

\* The task of the caller is cancelled: CancelledError is no Exception, so the
\* entry stays in the table of the connection.
CallerCancelled(r) ==
    /\ rcall[r].step \in {"writing", "waiting"}
    /\ rcall' = [rcall EXCEPT ![r].step = "gone"]
    /\ UNCHANGED <<linkVars, cancelled, frame, hsLock, pending>>

----------------------------------------------------------------------------
ServerInit ==
    /\ conn = [c \in Conns |-> "new"]
    /\ connected = FALSE
    /\ session = NoConn /\ ipc = NoConn /\ reverse = NoConn
    /\ cancelled = {}
    /\ frame = [f \in Frames |-> NoTask]
    /\ hsLock = NoFrame
    /\ heartbeat = NoBeat
    /\ pending = [c \in Conns |-> {}]
    /\ rcall = [r \in Outcalls |-> NoReverse]
    /\ stopping = "no"
    /\ proved = {}

ServerNext ==
    \/ \E c \in Conns : RefuseClient(c) \/ AcceptClient(c) \/ End(c) \/ Cleanup(c)
    \/ \E f \in Frames, c \in Conns, m \in FrameMethods : Receive(f, c, m)
    \/ \E c \in Conns, r \in Outcalls : Response(c, r)
    \/ \E f \in Frames :
         \/ BeginHandshake(f) \/ RefuseHandshake(f) \/ FinishHandshake(f) \/ NotReady(f)
         \/ RejectCommand(f) \/ BeginCommand(f) \/ FinishCommand(f) \/ Shutdown(f)
    \/ ProcessEnds \/ StopSession \/ StopServer \/ Stopped
    \/ Beat \/ MissBeat
    \/ \E r \in Outcalls :
         Obtain(r) \/ Register(r) \/ Written(r) \/ GiveUp(r) \/ Return(r) \/ CallerCancelled(r)

ServerSpec == ServerInit /\ [][ServerNext]_serverVars

----------------------------------------------------------------------------
(* Properties. *)

(***************************************************************************)
(* The session that the transports use is the one of the connection that   *)
(* is served now, and that connection itself proved the startup token: a   *)
(* handshake that outlives its connection never binds the next one.        *)
(* (_handshake binds self._session after an await.)                        *)
(***************************************************************************)
ReverseIsAuthenticated ==
    /\ reverse # NoConn => reverse = session /\ reverse = ipc
    /\ ipc # NoConn => ipc = session /\ ipc \in proved /\ conn[ipc] \in {"open", "ending"}

(***************************************************************************)
(* A caller that waits without an answer is in the table of its            *)
(* connection, where the answer or the loss of the connection finds it,    *)
(* and the table of a lost connection holds only calls made after the      *)
(* loss.  (IpcSession.cancel: a disconnect must wake every reverse call.)  *)
(***************************************************************************)
LossWakesCallers ==
    /\ \A r \in Outcalls : rcall[r].step \in {"writing", "waiting"} /\ rcall[r].answer = "none"
                          => r \in pending[rcall[r].conn]
    /\ \A c \in Conns : conn[c] = "closed" => \A r \in pending[c] : rcall[r].late
=============================================================================
