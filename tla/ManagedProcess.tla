--------------------------- MODULE ManagedProcess ---------------------------
(***************************************************************************)
(* The agent processes the host runs for the Sidecar.                      *)
(*                                                                         *)
(* Host (apps/desktop-core/src/process/mod.rs): a start request checks the *)
(* index of runs, makes the directory of the run, takes an egress lease,   *)
(* probes and spawns the program, and enters it in the index; one task     *)
(* waits for the process and cleans up, one enforces the deadline, two     *)
(* read its output.  The tasks of several starts interleave at each await. *)
(* The link to the Sidecar is rpc/sidecar.rs.                              *)
(*                                                                         *)
(* Sidecar (runtime/process_supervisor.py): merges the notifications of    *)
(* the host.  A chunk of output is abstracted to its process and number.   *)
(* A start and the process it makes have the same name.                    *)
(***************************************************************************)
EXTENDS Integers, Sequences, FiniteSets

CONSTANTS
    Starts,     \* start requests
    ProcRuns,
    RunOf,      \* the run a start is for
    NoProc,
    MaxChunks,  \* chunks each process writes at most
    WireSize,   \* notifications the socket holds
    MaxOpens    \* times a profile is opened

ASSUME ProcessAssumption ==
    /\ RunOf \in [Starts -> ProcRuns] /\ NoProc \notin Starts
    /\ MaxChunks \in [Starts -> Nat] /\ MaxOpens \in Nat /\ WireSize \in Nat

VARIABLES
    phase,    \* the start request, then the task that waits for its process
    alive,    \* processes of the system
    mute,     \* processes of whose streams none is read any more
    fate,     \* ProcessState: cancelled, timed_out
    sent,     \* last_sequence of a process
    leases,   \* egress leases, by start
    index,    \* run_index
    records,
    closing,  \* cancel_all under way: the records it copied, and for whom
    link,     \* SidecarClient and the profile
    wire,     \* notifications on their way to the Sidecar
    merged    \* Sidecar: _notification_outputs

procVars == <<phase, alive, mute, fate, sent, leases, index, records,
              closing, link, wire, merged>>
hostTables == <<leases, index, records>>

Begun == {"registering", "running"}             \* in records, completed_at is None
Status(p) == IF "timed_out" \in fate[p] THEN "timed_out"
             ELSE IF "cancelled" \in fate[p] THEN "cancelled" ELSE "exited"
NothingMerged == [proc |-> NoProc, chunks |-> << >>, ended |-> "no"]
NotClosing == [by |-> "none", snap |-> {}]

\* emit: nothing is written without a client, and an error is the answer when the
\* socket is gone or stays full.
EmitFails == link.state = "lost" \/ (link.state = "open" /\ Len(wire) = WireSize)
EmitFrame(frame) == wire' = IF link.state = "open" /\ ~EmitFails THEN Append(wire, frame) ELSE wire

----------------------------------------------------------------------------
(* start *)

\* ProcessSupervisor.start has sent runtime.process.start, perhaps on a link that
\* is lost by the time the host looks at it.
Requested(p) == phase[p] = "idle" /\ link.state # "closed"

\* What validate_request says of it.
Validity == BOOLEAN

\* Validation, the grant and the open profile, the first look at the index, and
\* the policies of the agent release.
CheckStart(p, valid) ==
    /\ Requested(p)
    /\ phase' = [phase EXCEPT ![p] = IF valid /\ index[RunOf[p]] = NoProc THEN "checked" ELSE "refused"]
    /\ UNCHANGED <<alive, mute, fate, sent, closing, link, wire>>
    /\ UNCHANGED merged /\ UNCHANGED hostTables

\* prepare_runtime_dirs and create_lease.
Prepare(p) ==
    /\ phase[p] = "checked"
    /\ \/ /\ phase' = [phase EXCEPT ![p] = "leased"]
          /\ leases' = leases \union {p}
       \/ /\ phase' = [phase EXCEPT ![p] = "refused"]
          /\ UNCHANGED leases
    /\ UNCHANGED <<alive, mute, fate, sent, index, records, closing, link, wire>>
    /\ UNCHANGED merged

\* verify_agent_version: a probe with a time-out of its own.
ProbeVersion(p) ==
    /\ phase[p] = "leased"
    /\ \/ /\ phase' = [phase EXCEPT ![p] = "probed"]
          /\ UNCHANGED leases
       \/ /\ phase' = [phase EXCEPT ![p] = "refused"]
          /\ leases' = leases \ {p}
    /\ UNCHANGED <<alive, mute, fate, sent, index, records, closing, link, wire>>
    /\ UNCHANGED merged

\* The spawn or the write of stdin fails: the lease is revoked and the directory
\* of the run removed, whoever else uses it.
StartFails(p) ==
    /\ phase[p] \in {"probed", "spawned"}
    /\ phase' = [phase EXCEPT ![p] = "refused"]
    /\ alive' = alive \ {p}
    /\ leases' = leases \ {p}
    /\ UNCHANGED <<mute, fate, sent, index, records, closing, link, wire>>
    /\ UNCHANGED merged

Spawn(p) ==
    /\ phase[p] = "probed"
    /\ phase' = [phase EXCEPT ![p] = "spawned"]
    /\ alive' = alive \union {p}
    /\ UNCHANGED <<mute, fate, sent, closing, link, wire>>
    /\ UNCHANGED merged /\ UNCHANGED hostTables

\* The second look at the index, under its lock.
Register(p) ==
    /\ phase[p] = "spawned"
    /\ IF index[RunOf[p]] # NoProc
       THEN /\ phase' = [phase EXCEPT ![p] = "refused"]
            /\ alive' = alive \ {p}
            /\ leases' = leases \ {p}
            /\ UNCHANGED <<records, index>>
       ELSE /\ phase' = [phase EXCEPT ![p] = "registering"]
            /\ records' = records \union {p}
            /\ index' = [index EXCEPT ![RunOf[p]] = p]
            /\ UNCHANGED <<alive, leases>>
    /\ UNCHANGED <<mute, fate, sent, closing, link, wire>>
    /\ UNCHANGED merged

\* runtime.process.registered, the spawn of the waiting and the deadline task,
\* and the answer to the Sidecar.
Announce(p) ==
    /\ phase[p] = "registering"
    /\ phase' = [phase EXCEPT ![p] = "running"]
    /\ EmitFrame([kind |-> "registered", proc |-> p, seq |-> 0, status |-> "running"])
    /\ UNCHANGED <<alive, mute, fate, sent, closing, link>>
    /\ UNCHANGED merged /\ UNCHANGED hostTables

----------------------------------------------------------------------------
(* The process, its output and its end. *)

\* read_output: the number and the frame are one critical section.  A frame
\* that cannot be written kills the process and ends the reader; the one of the
\* other stream may still have output.
ReadOutput(p) ==
    /\ phase[p] \in Begun /\ p \notin mute /\ sent[p] < MaxChunks[p]
    /\ sent' = [sent EXCEPT ![p] = @ + 1]
    /\ \/ /\ ~EmitFails
          /\ EmitFrame([kind |-> "output", proc |-> p, seq |-> sent[p] + 1, status |-> "running"])
          /\ UNCHANGED <<alive, mute>>
       \/ /\ EmitFails
          /\ alive' = alive \ {p} /\ mute' \in {mute, mute \union {p}}
          /\ UNCHANGED wire
    /\ UNCHANGED <<phase, fate, closing, link>>
    /\ UNCHANGED merged /\ UNCHANGED hostTables

\* OutputBuffer.append refuses the chunk.
OutputLimit(p) ==
    /\ phase[p] \in Begun /\ p \notin mute
    /\ alive' = alive \ {p} /\ mute' \in {mute, mute \union {p}}
    /\ UNCHANGED <<phase, fate, sent, closing, link, wire>>
    /\ UNCHANGED merged /\ UNCHANGED hostTables

\* The process ends by itself, on a signal, or (last) on SIGKILL.
Exits(p) ==
    /\ p \in alive
    /\ alive' = alive \ {p}
    /\ UNCHANGED <<phase, mute, fate, sent, closing, link, wire>>
    /\ UNCHANGED merged /\ UNCHANGED hostTables

\* A cancelled or late process is sent SIGINT, SIGTERM and at last SIGKILL.
Escalate(p) == fate[p] # {} /\ phase[p] \in Begun /\ Exits(p)

\* Deliberately wrong: the deadline asks the table of records.
DeadlineOfRecord(p) ==
    /\ phase[p] = "running" /\ "timed_out" \notin fate[p] /\ p \in records
    /\ fate' = [fate EXCEPT ![p] = @ \union {"timed_out"}]
    /\ UNCHANGED <<phase, alive, mute, sent, closing, link, wire>>
    /\ UNCHANGED merged /\ UNCHANGED hostTables

Deadline(p) ==
    /\ phase[p] = "running" /\ "timed_out" \notin fate[p]
    /\ fate' = [fate EXCEPT ![p] = @ \union {"timed_out"}]
    /\ UNCHANGED <<phase, alive, mute, sent, closing, link, wire>>
    /\ UNCHANGED merged /\ UNCHANGED hostTables

\* child.wait returns and both readers have ended: nothing is read after this
\* step, however late it comes.  completed_at is set.
Reap(p) ==
    /\ phase[p] = "running" /\ p \notin alive
    /\ phase' = [phase EXCEPT ![p] = "reaped"]
    /\ UNCHANGED <<alive, mute, fate, sent, closing, link, wire>>
    /\ UNCHANGED merged /\ UNCHANGED hostTables

ReportExit(p) ==
    /\ phase[p] = "reaped"
    /\ phase' = [phase EXCEPT ![p] = "reported"]
    /\ EmitFrame([kind |-> "exited", proc |-> p, seq |-> sent[p], status |-> Status(p)])
    /\ UNCHANGED <<alive, mute, fate, sent, closing, link>>
    /\ UNCHANGED merged /\ UNCHANGED hostTables

\* The entry of the run and its directory go, whichever process holds them.
Release(p) ==
    /\ phase[p] = "reported"
    /\ phase' = [phase EXCEPT ![p] = "released"]
    /\ leases' = leases \ {p}
    /\ index' = [index EXCEPT ![RunOf[p]] = NoProc]
    /\ UNCHANGED <<alive, mute, fate, sent, records, closing, link, wire>>
    /\ UNCHANGED merged

----------------------------------------------------------------------------
(* Cancellation and the profile. *)

\* Only a process that has not completed is marked.
MarkCancelled(ps) ==
    LET live == {p \in ps : phase[p] \in Begun}
    IN  fate' = [p \in Starts |-> IF p \in live THEN fate[p] \union {"cancelled"} ELSE fate[p]]

\* runtime.process.cancel, from kill or from a wait that ran out of time.  The
\* Sidecar has the name of the process from the answer to its start.
Cancel(p) ==
    /\ link.state = "open" /\ p \in records /\ phase[p] # "registering"
    /\ MarkCancelled({p})
    /\ UNCHANGED <<phase, alive, mute, sent, closing, link, wire>>
    /\ UNCHANGED merged /\ UNCHANGED hostTables

\* cancel_all up to its first wait, on behalf of the hook or of reset.
CancelAll(by) ==
    /\ closing' = [by |-> by, snap |-> records]
    /\ MarkCancelled(records)

\* The rest of cancel_all, and of reset.
FinishCancelAll ==
    LET runs == {RunOf[p] : p \in closing.snap}
    IN  /\ closing # NotClosing
        /\ closing' = NotClosing
        /\ alive' = alive \ {p \in closing.snap : phase[p] \in Begun}
        /\ leases' = {p \in leases : RunOf[p] \notin runs}
        /\ IF closing.by = "reset"
           THEN /\ records' = {} /\ index' = [r \in ProcRuns |-> NoProc]
                /\ link' = [link EXCEPT !.state = "closed"]
           ELSE UNCHANGED <<records, index, link>>
        /\ UNCHANGED <<phase, mute, fate, sent, wire>>
        /\ UNCHANGED merged

\* connect_and_handshake: the reader task copies the hook as it stands, and none
\* is bound yet.
Handshaken == [state |-> "open", hook |-> FALSE, readerHook |-> FALSE, opens |-> link.opens + 1]

\* A Sidecar is started for a profile; one at a time.  A start that fails leaves
\* nothing behind.
Connect ==
    /\ link.state = "closed" /\ closing = NotClosing /\ link.opens < MaxOpens
    /\ link' = Handshaken
    /\ UNCHANGED <<phase, alive, mute, fate, sent, closing, wire>>
    /\ UNCHANGED merged /\ UNCHANGED hostTables

\* bind_disconnect_hook, after connect_and_handshake.
BindHook ==
    /\ link.state = "open" /\ ~link.hook
    /\ link' = [link EXCEPT !.hook = TRUE]
    /\ UNCHANGED <<phase, alive, mute, fate, sent, closing, wire>>
    /\ UNCHANGED merged /\ UNCHANGED hostTables

\* disconnect: nothing more is written or read, and the tables of the Sidecar are
\* gone with it.
Disconnect ==
    /\ link' = [link EXCEPT !.state = "lost"]
    /\ wire' = << >>
    /\ merged' = [r \in ProcRuns |-> NothingMerged]

\* The Sidecar is gone: reader_loop ends and calls the hook it has copied.
ReaderEof ==
    /\ link.state = "open" /\ closing = NotClosing
    /\ Disconnect
    /\ IF link.readerHook
       THEN CancelAll("hook")
       ELSE UNCHANGED <<closing, fate>>
    /\ UNCHANGED <<phase, alive, mute, sent>>
    /\ UNCHANGED hostTables

\* stop: the Sidecar is asked to end, else killed, and the client disconnects.
StopSidecar == link.state \in {"open", "lost"} /\ Disconnect

\* auth_close_profile: stop, which disconnects and so calls the bound hook once,
\* then reset; both cancel what they find in the records.
CloseProfile ==
    /\ closing = NotClosing
    /\ StopSidecar
    /\ CancelAll("reset")
    /\ UNCHANGED <<phase, alive, mute, sent>>
    /\ UNCHANGED hostTables

----------------------------------------------------------------------------
(* The Sidecar. *)

\* Deliberately wrong: a gap in the numbers is not looked at.
MergeAnyLater(m, out) ==
    IF m.seq <= Len(out.chunks) THEN out
    ELSE [out EXCEPT !.chunks = Append(@, <<m.proc, m.seq>>)]

\* handle_notification: output must be of the known process and next in order.
MergeOutput(m, out) ==
    IF out.proc # m.proc \/ m.seq # Len(out.chunks) + 1 THEN out
    ELSE [out EXCEPT !.chunks = Append(@, <<m.proc, m.seq>>)]

MergeExit(m, out) ==
    IF out.proc # m.proc \/ m.seq # Len(out.chunks) THEN out
    ELSE [out EXCEPT !.ended = m.status]

Receive ==
    LET m   == Head(wire)
        r   == RunOf[m.proc]
        out == IF merged[r].proc = NoProc THEN [merged[r] EXCEPT !.proc = m.proc] ELSE merged[r]
    IN  /\ wire # << >>
        /\ wire' = Tail(wire)
        /\ merged' = CASE m.kind = "registered" -> [merged EXCEPT ![r] = out]
                       [] m.kind = "output" -> [merged EXCEPT ![r] = MergeOutput(m, out)]
                       [] m.kind = "exited" -> [merged EXCEPT ![r] = MergeExit(m, out)]
        /\ UNCHANGED <<phase, alive, mute, fate, sent, closing, link>>
        /\ UNCHANGED hostTables

\* A notification that finds MAX_INFLIGHT_REQUESTS in flight is dropped.
Lose ==
    /\ wire # << >>
    /\ wire' = Tail(wire)
    /\ UNCHANGED <<phase, alive, mute, fate, sent, closing, link>>
    /\ UNCHANGED merged /\ UNCHANGED hostTables

----------------------------------------------------------------------------
ProcInit ==
    /\ phase = [p \in Starts |-> "idle"]
    /\ alive = {} /\ mute = {}
    /\ fate = [p \in Starts |-> {}]
    /\ sent = [p \in Starts |-> 0]
    /\ leases = {} /\ records = {}
    /\ index = [r \in ProcRuns |-> NoProc]
    /\ closing = NotClosing
    /\ link = [state |-> "closed", hook |-> FALSE, readerHook |-> FALSE, opens |-> 0]
    /\ wire = << >>
    /\ merged = [r \in ProcRuns |-> NothingMerged]

Starting(p) == Prepare(p) \/ ProbeVersion(p) \/ StartFails(p) \/ Spawn(p) \/ Register(p) \/ Announce(p)
StartStep(p) == (\E valid \in Validity : CheckStart(p, valid)) \/ Starting(p)
WaitStep(p) == Reap(p) \/ ReportExit(p) \/ Release(p)

ProcNext ==
    \/ \E p \in Starts : \/ StartStep(p) \/ WaitStep(p) \/ Deadline(p) \/ Escalate(p)
                         \/ ReadOutput(p) \/ OutputLimit(p) \/ Exits(p)
    \/ \E p \in Starts : Cancel(p)
    \/ FinishCancelAll \/ Connect \/ BindHook \/ ReaderEof \/ CloseProfile
    \/ Receive \/ Lose

\* Tasks of the host run on, its timers fire and SIGKILL kills.  Nothing is
\* assumed of the Sidecar, of the user or of the process.
ProcFairness ==
    /\ \A p \in Starts : /\ WF_procVars(Starting(p))
                         /\ WF_procVars(WaitStep(p))
                         /\ WF_procVars(Deadline(p))
                         /\ WF_procVars(Escalate(p))
    /\ WF_procVars(FinishCancelAll)

ProcSpec == ProcInit /\ [][ProcNext]_procVars /\ ProcFairness

----------------------------------------------------------------------------
(***************************************************************************)
(* Every start that passes the first check ends with its process gone and  *)
(* its egress lease revoked: whatever the Sidecar, the process or a close  *)
(* of the profile in between do (start, cancel_all and reset of            *)
(* process/mod.rs).                                                        *)
(***************************************************************************)
EveryProcessReleased ==
    \A p \in Starts : phase[p] = "checked" ~>
        phase[p] \in {"released", "refused"} /\ p \notin alive /\ p \notin leases

(***************************************************************************)
(* What the Sidecar merged for a run is the output of one process from its *)
(* first chunk, in order and without a gap; an exit it accepted comes      *)
(* after all of the output and says what runtime.process.status answers    *)
(* (read_output and the waiting task of mod.rs, handle_notification).      *)
(***************************************************************************)
MergedOutputIsAPrefix ==
    \A r \in ProcRuns :
        LET out == merged[r]
        IN  /\ out.chunks = [i \in 1..Len(out.chunks) |-> <<out.proc, i>>]
            /\ out.ended # "no" => /\ Len(out.chunks) = sent[out.proc]
                                   /\ out.ended = Status(out.proc)
=============================================================================
