--------------------------- MODULE ProcessProofs ---------------------------
(***************************************************************************)
(* What the Sidecar makes of the notifications of the host (module         *)
(* ManagedProcess), for any number of starts, runs, chunks and             *)
(* notifications on the wire; and how often the supervisor restarts a      *)
(* worker (module Workers), for any window, limit and growing back-offs.   *)
(***************************************************************************)
EXTENDS ManagedProcess, Workers, FiniteSetTheorems, TLAPS

Phases == {"idle", "checked", "leased", "probed", "spawned", "registering", "running",
           "reaped", "reported", "released", "refused"}
Statuses == {"running", "timed_out", "cancelled", "exited"}
Frames == [kind : {"registered", "output", "exited"}, proc : Starts, seq : Nat, status : Statuses]
Outputs == [proc : Starts \cup {NoProc}, chunks : Seq(Starts \X Nat), ended : Statuses \cup {"no"}]

ProcTypeOK ==
    /\ phase \in [Starts -> Phases]
    /\ sent \in [Starts -> Nat]
    /\ fate \in [Starts -> SUBSET {"timed_out", "cancelled"}]
    /\ wire \in Seq(Frames)
    /\ merged \in [ProcRuns -> Outputs]

\* The process has been reported; nothing more is read from it or done to it.
Final(p) == phase[p] \in {"reported", "released"}

\* A frame on the wire tells no more than what has been sent, and an exit tells
\* how the process ended and how much it has sent in all.
FrameOK(m) ==
    /\ m.seq <= sent[m.proc]
    /\ m.kind = "exited" => Final(m.proc) /\ m.seq = sent[m.proc] /\ m.status = Status(m.proc)

InOrder(out) == out.chunks = [i \in 1..Len(out.chunks) |-> <<out.proc, i>>]

EndOK(out) ==
    out.ended # "no" => /\ out.proc \in Starts /\ Final(out.proc)
                        /\ Len(out.chunks) = sent[out.proc] /\ out.ended = Status(out.proc)

EmptyOK(out) == out.proc = NoProc => out.chunks = << >> /\ out.ended = "no"

ProcInv ==
    /\ ProcTypeOK
    /\ \A i \in 1..Len(wire) : FrameOK(wire[i])
    /\ \A r \in ProcRuns : InOrder(merged[r]) /\ EndOK(merged[r]) /\ EmptyOK(merged[r])

\* What has been sent stays sent, and a final process does not change.
Settled ==
    \A p \in Starts : /\ sent[p] <= sent'[p]
                      /\ Final(p) => Final(p)' /\ sent'[p] = sent[p] /\ fate'[p] = fate[p]

LEMMA FramesStay ==
    ASSUME ProcTypeOK, ProcTypeOK', Settled, NEW m \in Frames, FrameOK(m)
    PROVE  FrameOK(m)'
<1>1. m.proc \in Starts /\ m.seq \in Nat
  BY DEF Frames
<1>2. sent[m.proc] \in Nat /\ sent'[m.proc] \in Nat
  BY <1>1 DEF ProcTypeOK
<1>3. Final(m.proc) => Status(m.proc)' = Status(m.proc)
  BY <1>1 DEF Settled, Status
<1> QED
  BY <1>1, <1>2, <1>3 DEF Settled, FrameOK

LEMMA OutputsStay ==
    ASSUME Settled, NEW out, EndOK(out)
    PROVE  EndOK(out)'
<1>1. out.proc \in Starts /\ Final(out.proc) => Status(out.proc)' = Status(out.proc)
  BY DEF Settled, Status
<1> QED
  BY <1>1 DEF Settled, EndOK

\* A frame that is emitted joins the wire or is not written.
LEMMA EmitKeeps ==
    ASSUME ProcInv, NEW frame \in Frames, EmitFrame(frame), UNCHANGED <<sent, fate, merged>>,
           FrameOK(frame)', phase' \in [Starts -> Phases], Settled
    PROVE  ProcInv'
<1>1. ProcTypeOK'
  BY DEF ProcInv, ProcTypeOK, EmitFrame
<1>2. \A i \in 1..Len(wire) : wire[i] \in Frames
  BY DEF ProcInv, ProcTypeOK
<1>3. \A i \in 1..Len(wire') : wire'[i] = frame \/ (i \in 1..Len(wire) /\ wire'[i] = wire[i])
  BY DEF ProcInv, ProcTypeOK, EmitFrame
<1>4. \A m \in Frames : FrameOK(m) => FrameOK(m)'
  BY <1>1, FramesStay DEF ProcInv
<1>5. (\A i \in 1..Len(wire) : FrameOK(wire[i]))'
  BY <1>2, <1>3, <1>4 DEF ProcInv
<1>6. \A r \in ProcRuns : EndOK(merged[r])'
  BY OutputsStay DEF ProcInv
<1> QED
  BY <1>1, <1>5, <1>6 DEF ProcInv, InOrder, EmptyOK

\* A step that writes nothing.
LEMMA QuietKeeps ==
    ASSUME ProcInv, ProcTypeOK', UNCHANGED <<wire, merged>>, Settled
    PROVE  ProcInv'
<1>1. \A i \in 1..Len(wire) : wire[i] \in Frames
  BY DEF ProcInv, ProcTypeOK
<1>2. (\A i \in 1..Len(wire) : FrameOK(wire[i]))'
  BY <1>1, FramesStay DEF ProcInv
<1>3. \A r \in ProcRuns : EndOK(merged[r])'
  BY OutputsStay DEF ProcInv
<1> QED
  BY <1>2, <1>3 DEF ProcInv, InOrder, EmptyOK

-----------------------------------------------------------------------------
(* The Sidecar merges a frame. *)

OutputOK(out) == out \in Outputs /\ InOrder(out) /\ EndOK(out) /\ EmptyOK(out)

\* The first frame of a run names the process.
Opened(m, out) == IF out.proc = NoProc THEN [out EXCEPT !.proc = m.proc] ELSE out

LEMMA OpenedFits ==
    ASSUME NEW m \in Frames, NEW out, OutputOK(out)
    PROVE  OutputOK(Opened(m, out)) /\ Opened(m, out).proc \in Starts
<1>1. m.proc \in Starts /\ m.proc # NoProc
  BY ProcessAssumption DEF Frames
<1>2. CASE out.proc = NoProc
  <2>1. Opened(m, out) = [out EXCEPT !.proc = m.proc] /\ out.chunks = << >> /\ out.ended = "no"
    BY <1>2 DEF Opened, OutputOK, EmptyOK
  <2>2. /\ Opened(m, out) \in Outputs /\ Opened(m, out).proc = m.proc
        /\ Opened(m, out).chunks = << >> /\ Opened(m, out).ended = "no"
    BY <2>1, <1>1 DEF OutputOK, Outputs
  <2>3. << >> = [i \in 1..Len(<< >>) |-> <<m.proc, i>>]
    OBVIOUS
  <2> QED
    BY <2>2, <2>3, <1>1 DEF OutputOK, InOrder, EndOK, EmptyOK
<1>3. CASE out.proc # NoProc
  BY <1>3 DEF Opened, OutputOK, Outputs
<1> QED
  BY <1>2, <1>3

LEMMA OutputMerges ==
    ASSUME ProcTypeOK, NEW m \in Frames, FrameOK(m), NEW out, OutputOK(out), out.proc \in Starts
    PROVE  OutputOK(MergeOutput(m, out))
<1>1. m.proc \in Starts /\ m.seq \in Nat /\ sent[m.proc] \in Nat
  BY DEF Frames, ProcTypeOK
<1>2. CASE out.proc # m.proc \/ m.seq # Len(out.chunks) + 1
  BY <1>2 DEF MergeOutput
<1>3. CASE out.proc = m.proc /\ m.seq = Len(out.chunks) + 1
  <2> DEFINE next == MergeOutput(m, out)
  <2>1. next = [out EXCEPT !.chunks = Append(@, <<m.proc, m.seq>>)]
    BY <1>3 DEF MergeOutput
  <2>2. out.chunks \in Seq(Starts \X Nat) /\ Len(out.chunks) \in Nat
    BY DEF OutputOK, Outputs
  <2>3. /\ next.chunks = Append(out.chunks, <<m.proc, m.seq>>)
        /\ next.proc = out.proc /\ next.ended = out.ended /\ next \in Outputs
    <3>1. Append(out.chunks, <<m.proc, m.seq>>) \in Seq(Starts \X Nat)
      BY <2>2, <1>1
    <3> DEFINE longer == Append(out.chunks, <<m.proc, m.seq>>)
    <3>2. next = [out EXCEPT !.chunks = longer]
      BY <2>1
    <3> HIDE DEF longer, next
    <3> QED
      BY <3>1, <3>2 DEF OutputOK, Outputs, longer
  <2>4. Len(next.chunks) = Len(out.chunks) + 1 /\ next.chunks \in Seq(Starts \X Nat)
    BY <2>2, <2>3, <1>1
  <2>5. \A i \in 1..Len(next.chunks) : next.chunks[i] = <<next.proc, i>>
    <3>1. \A i \in 1..Len(out.chunks) : out.chunks[i] = <<out.proc, i>>
      BY DEF OutputOK, InOrder
    <3> QED
      BY <3>1, <2>2, <2>3, <2>4, <1>3
  <2>6. InOrder(next)
    <3>1. DOMAIN next.chunks = 1..Len(next.chunks)
      BY <2>4
    <3>2. next.chunks = [i \in DOMAIN next.chunks |-> next.chunks[i]]
      BY <2>4
    <3> QED
      BY <3>1, <3>2, <2>5 DEF InOrder
  <2>7. out.ended = "no"
    BY <1>1, <1>3, <2>2 DEF OutputOK, EndOK, FrameOK
  <2> QED
    BY <2>3, <2>6, <2>7, ProcessAssumption DEF OutputOK, EndOK, EmptyOK
<1> QED
  BY <1>2, <1>3

LEMMA ExitMerges ==
    ASSUME ProcTypeOK, NEW m \in Frames, FrameOK(m), m.kind = "exited",
           NEW out, OutputOK(out), out.proc \in Starts
    PROVE  OutputOK(MergeExit(m, out))
<1>1. m.proc \in Starts /\ m.status \in Statuses
  BY DEF Frames
<1>2. CASE out.proc # m.proc \/ m.seq # Len(out.chunks)
  BY <1>2 DEF MergeExit
<1>3. CASE out.proc = m.proc /\ m.seq = Len(out.chunks)
  <2> DEFINE next == MergeExit(m, out)
  <2>1. next = [out EXCEPT !.ended = m.status]
    BY <1>3 DEF MergeExit
  <2>2. next.chunks = out.chunks /\ next.proc = out.proc /\ next.ended = m.status /\ next \in Outputs
    BY <2>1, <1>1 DEF OutputOK, Outputs
  <2> QED
    BY <2>2, <1>1, <1>3, ProcessAssumption DEF OutputOK, InOrder, EndOK, EmptyOK, FrameOK
<1> QED
  BY <1>2, <1>3

LEMMA ReceiveKeeps ==
    ASSUME ProcInv, Receive
    PROVE  ProcInv'
<1> DEFINE m == Head(wire)
           r == RunOf[m.proc]
           out == Opened(m, merged[r])
<1>1. wire \in Seq(Frames) /\ wire # << >> /\ wire' = Tail(wire) /\ UNCHANGED <<phase, fate, sent>>
  BY DEF Receive, ProcInv, ProcTypeOK
<1>2. m = wire[1] /\ m \in Frames /\ 1 \in 1..Len(wire)
  BY <1>1
<1>3. FrameOK(m) /\ r \in ProcRuns
  BY <1>2, ProcessAssumption DEF ProcInv, Frames
<1>4. \A q \in ProcRuns : OutputOK(merged[q])
  BY DEF ProcInv, ProcTypeOK, OutputOK
<1>5. OutputOK(out) /\ out.proc \in Starts
  BY <1>2, <1>3, <1>4, OpenedFits
<1>6. merged' = CASE m.kind = "registered" -> [merged EXCEPT ![r] = out]
                  [] m.kind = "output" -> [merged EXCEPT ![r] = MergeOutput(m, out)]
                  [] m.kind = "exited" -> [merged EXCEPT ![r] = MergeExit(m, out)]
  BY DEF Receive, Opened
<1>7. m.kind \in {"registered", "output", "exited"} /\ ProcTypeOK
  BY <1>2 DEF Frames, ProcInv
<1> HIDE DEF m, r, out
<1>8. PICK new : merged' = [merged EXCEPT ![r] = new] /\ OutputOK(new)
  <2>1. CASE m.kind = "registered"
    BY <2>1, <1>5, <1>6
  <2>2. CASE m.kind = "output"
    BY <2>2, <1>2, <1>3, <1>5, <1>6, <1>7, OutputMerges
  <2>3. CASE m.kind = "exited"
    BY <2>3, <1>2, <1>3, <1>5, <1>6, <1>7, ExitMerges
  <2> QED
    BY <1>7, <2>1, <2>2, <2>3
<1>9. \A q \in ProcRuns : OutputOK(merged'[q])
  BY <1>3, <1>4, <1>8 DEF ProcInv, ProcTypeOK
<1>10. ProcTypeOK'
  <2>1. merged' \in [ProcRuns -> Outputs]
    BY <1>3, <1>8 DEF ProcInv, ProcTypeOK, OutputOK
  <2> QED
    BY <2>1, <1>1, <1>7 DEF ProcTypeOK
<1>11. \A i \in 1..Len(wire') : i + 1 \in 1..Len(wire) /\ wire'[i] = wire[i + 1]
  BY <1>1
<1>12. (\A i \in 1..Len(wire) : FrameOK(wire[i]))'
  BY <1>1, <1>11 DEF ProcInv, FrameOK, Final, Status
<1>13. (\A q \in ProcRuns : InOrder(merged[q]) /\ EndOK(merged[q]) /\ EmptyOK(merged[q]))'
  BY <1>1, <1>9 DEF OutputOK, InOrder, EndOK, EmptyOK, Final, Status
<1> QED
  BY <1>10, <1>12, <1>13 DEF ProcInv

LEMMA LoseKeeps ==
    ASSUME ProcInv, Lose
    PROVE  ProcInv'
<1>1. wire \in Seq(Frames) /\ wire # << >> /\ wire' = Tail(wire) /\ UNCHANGED <<phase, fate, sent, merged>>
  BY DEF Lose, ProcInv, ProcTypeOK
<1>2. \A i \in 1..Len(wire') : i + 1 \in 1..Len(wire) /\ wire'[i] = wire[i + 1]
  BY <1>1
<1>3. (\A i \in 1..Len(wire) : FrameOK(wire[i]))'
  BY <1>1, <1>2 DEF ProcInv, FrameOK, Final, Status
<1>4. ProcTypeOK'
  BY <1>1 DEF ProcInv, ProcTypeOK
<1> QED
  BY <1>1, <1>3, <1>4 DEF ProcInv, InOrder, EndOK, EmptyOK, Final, Status

-----------------------------------------------------------------------------
(* The host. *)

\* A step that moves one process from one phase to another that is as final.
LEMMA MoveSettles ==
    ASSUME ProcTypeOK, NEW p \in Starts, NEW to \in Phases,
           phase' = [phase EXCEPT ![p] = to], ~Final(p), UNCHANGED <<sent, fate>>
    PROVE  Settled /\ phase' \in [Starts -> Phases]
BY DEF ProcTypeOK, Settled, Final

LEMMA StartingKeeps ==
    ASSUME ProcInv, NEW p \in Starts, StartStep(p) \/ WaitStep(p)
    PROVE  ProcInv'
<1>0. ProcTypeOK
  BY DEF ProcInv
<1>1. CASE \E valid \in Validity : CheckStart(p, valid)
  <2>1. PICK to \in Phases : /\ phase' = [phase EXCEPT ![p] = to] /\ ~Final(p)
                             /\ UNCHANGED <<sent, fate, wire, merged>>
    BY <1>1 DEF CheckStart, Requested, Phases, Final
  <2> QED
    BY <2>1, <1>0, MoveSettles, QuietKeeps DEF ProcTypeOK
<1>2. CASE Prepare(p) \/ ProbeVersion(p) \/ StartFails(p) \/ Spawn(p) \/ Register(p) \/ Reap(p)
  <2>1. PICK to \in Phases : /\ phase' = [phase EXCEPT ![p] = to] /\ ~Final(p)
                             /\ UNCHANGED <<sent, fate, wire, merged>>
    BY <1>2 DEF Prepare, ProbeVersion, StartFails, Spawn, Register, Reap, Phases, Final
  <2> QED
    BY <2>1, <1>0, MoveSettles, QuietKeeps DEF ProcTypeOK
<1>3. CASE Release(p)
  <2>1. phase[p] = "reported" /\ phase' = [phase EXCEPT ![p] = "released"] /\ UNCHANGED <<sent, fate, wire, merged>>
    BY <1>3 DEF Release
  <2>2. Settled /\ phase' \in [Starts -> Phases]
    BY <2>1, <1>0 DEF ProcTypeOK, Settled, Final, Phases
  <2> QED
    BY <2>1, <2>2, <1>0, QuietKeeps DEF ProcTypeOK
<1>4. CASE Announce(p)
  <2> DEFINE frame == [kind |-> "registered", proc |-> p, seq |-> 0, status |-> "running"]
  <2>1. /\ phase' = [phase EXCEPT ![p] = "running"] /\ ~Final(p) /\ EmitFrame(frame)
        /\ UNCHANGED <<sent, fate, merged>>
    BY <1>4 DEF Announce, Final
  <2>2. frame \in Frames
    BY DEF Frames, Statuses
  <2>3. FrameOK(frame)'
    BY <2>1, <1>0 DEF FrameOK, ProcTypeOK
  <2>4. Settled /\ phase' \in [Starts -> Phases]
    BY <2>1, <1>0, MoveSettles DEF Phases
  <2> HIDE DEF frame
  <2> QED
    BY <2>1, <2>2, <2>3, <2>4, EmitKeeps
<1>5. CASE ReportExit(p)
  <2>0. [kind |-> "exited", proc |-> p, seq |-> sent[p], status |-> Status(p)] \in Frames
    BY <1>0 DEF Frames, Statuses, Status, ProcTypeOK
  <2>2. PICK frame \in Frames : frame = [kind |-> "exited", proc |-> p, seq |-> sent[p], status |-> Status(p)]
    BY <2>0
  <2>1. /\ phase' = [phase EXCEPT ![p] = "reported"] /\ ~Final(p) /\ EmitFrame(frame)
        /\ UNCHANGED <<sent, fate, merged>>
    BY <1>5, <2>2 DEF ReportExit, Final
  <2>3. Final(p)' /\ Status(p)' = Status(p)
    BY <2>1, <1>0 DEF Final, Status, ProcTypeOK
  <2>4. FrameOK(frame)'
    BY <2>1, <2>2, <2>3, <1>0 DEF FrameOK, ProcTypeOK
  <2>5. Settled /\ phase' \in [Starts -> Phases]
    BY <2>1, <1>0, MoveSettles DEF Phases
  <2> QED
    BY <2>1, <2>4, <2>5, EmitKeeps
<1> QED
  BY <1>1, <1>2, <1>3, <1>4, <1>5 DEF StartStep, Starting, WaitStep

LEMMA ReadKeeps ==
    ASSUME ProcInv, NEW p \in Starts, ReadOutput(p)
    PROVE  ProcInv'
<1>0. [kind |-> "output", proc |-> p, seq |-> sent[p] + 1, status |-> "running"] \in Frames
  BY DEF ProcInv, ProcTypeOK, Frames, Statuses
<1>2. PICK frame \in Frames : frame = [kind |-> "output", proc |-> p, seq |-> sent[p] + 1, status |-> "running"]
  BY <1>0
<1>1. /\ ProcTypeOK /\ ~Final(p) /\ sent' = [sent EXCEPT ![p] = @ + 1]
      /\ UNCHANGED <<phase, fate, merged>> /\ (wire' = wire \/ wire' = Append(wire, frame))
  BY <1>2 DEF ReadOutput, EmitFrame, Begun, Final, ProcInv
<1>3. Settled /\ sent' \in [Starts -> Nat] /\ sent'[p] = sent[p] + 1
  BY <1>1 DEF ProcTypeOK, Settled, Final
<1>4. ProcTypeOK'
  <2>1. wire \in Seq(Frames)
    BY <1>1 DEF ProcTypeOK
  <2>2. wire' \in Seq(Frames)
    BY <2>1, <1>1
  <2> QED
    BY <2>2, <1>1, <1>3 DEF ProcTypeOK
<1>5. FrameOK(frame)'
  BY <1>2, <1>3, <1>4 DEF FrameOK, ProcTypeOK
<1>6. \A m \in Frames : FrameOK(m) => FrameOK(m)'
  BY <1>1, <1>3, <1>4, FramesStay
<1>7. \A i \in 1..Len(wire') : wire'[i] = frame \/ (i \in 1..Len(wire) /\ wire'[i] = wire[i] /\ wire[i] \in Frames)
  <2>1. wire \in Seq(Frames)
    BY <1>1 DEF ProcTypeOK
  <2>2. CASE wire' = wire
    BY <2>1, <2>2
  <2>3. CASE wire' = Append(wire, frame)
    BY <2>1, <2>3
  <2> QED
    BY <1>1, <2>2, <2>3
<1>8. (\A i \in 1..Len(wire) : FrameOK(wire[i]))'
  BY <1>5, <1>6, <1>7 DEF ProcInv
<1>9. \A r \in ProcRuns : EndOK(merged[r])'
  BY <1>1, <1>3, OutputsStay DEF ProcInv
<1> QED
  BY <1>1, <1>4, <1>8, <1>9 DEF ProcInv, InOrder, EmptyOK

\* Deadlines and cancellations mark what has not completed.
LEMMA FateKeeps ==
    ASSUME ProcInv, NEW ps, NEW mark \in {"timed_out", "cancelled"}, \A p \in ps : ~Final(p),
           fate' = [p \in Starts |-> IF p \in ps THEN fate[p] \cup {mark} ELSE fate[p]],
           UNCHANGED <<phase, sent, wire, merged>>
    PROVE  ProcInv'
<1>1. ProcTypeOK'
  BY DEF ProcInv, ProcTypeOK
<1>2. Settled
  BY DEF ProcInv, ProcTypeOK, Settled, Final
<1> QED
  BY <1>1, <1>2, QuietKeeps

\* The link is lost: the wire is empty and the Sidecar forgets, whatever is marked.
LEMMA DisconnectKeeps ==
    ASSUME ProcInv, Disconnect, UNCHANGED <<phase, sent>>,
           fate' \in [Starts -> SUBSET {"timed_out", "cancelled"}]
    PROVE  ProcInv'
<1>1. wire' = << >> /\ merged' = [r \in ProcRuns |-> NothingMerged]
  BY DEF Disconnect
<1>2. NothingMerged \in Outputs /\ NothingMerged.proc = NoProc /\ NothingMerged.chunks = << >>
      /\ NothingMerged.ended = "no"
  BY DEF NothingMerged, Outputs
<1>3. ProcTypeOK'
  BY <1>1, <1>2 DEF ProcInv, ProcTypeOK
<1>4. \A r \in ProcRuns : merged'[r] = NothingMerged
  BY <1>1
<1>5. << >> = [i \in 1..Len(<< >>) |-> <<NoProc, i>>]
  OBVIOUS
<1>6. (\A r \in ProcRuns : InOrder(merged[r]) /\ EndOK(merged[r]) /\ EmptyOK(merged[r]))'
  BY <1>2, <1>4, <1>5 DEF InOrder, EndOK, EmptyOK
<1> QED
  BY <1>1, <1>3, <1>6 DEF ProcInv

LEMMA ProcStep == ProcInv /\ [ProcNext]_procVars => ProcInv'
<1> SUFFICES ASSUME ProcInv, [ProcNext]_procVars
             PROVE  ProcInv'
  OBVIOUS
<1>0. ProcTypeOK
  BY DEF ProcInv
<1>1. CASE UNCHANGED <<phase, sent, fate, wire, merged>>
  <2>1. ProcTypeOK' /\ Settled
    BY <1>0, <1>1 DEF ProcTypeOK, Settled, Final
  <2> QED
    BY <1>1, <2>1, QuietKeeps
<1>2. ASSUME NEW p \in Starts, Deadline(p)
      PROVE  ProcInv'
  <2> DEFINE late == {p}
  <2>1. /\ \A q \in late : ~Final(q)
        /\ fate' = [q \in Starts |-> IF q \in late THEN fate[q] \cup {"timed_out"} ELSE fate[q]]
        /\ UNCHANGED <<phase, sent, wire, merged>>
    BY <1>0, <1>2 DEF Deadline, Final, ProcTypeOK
  <2> HIDE DEF late
  <2> QED
    BY <2>1, FateKeeps
<1>3. ASSUME NEW p \in Starts, Cancel(p)
      PROVE  ProcInv'
  <2> DEFINE live == {q \in {p} : phase[q] \in Begun}
  <2>1. /\ \A q \in live : ~Final(q)
        /\ fate' = [q \in Starts |-> IF q \in live THEN fate[q] \cup {"cancelled"} ELSE fate[q]]
        /\ UNCHANGED <<phase, sent, wire, merged>>
    BY <1>3 DEF Cancel, MarkCancelled, Final, Begun
  <2> HIDE DEF live
  <2> QED
    BY <2>1, FateKeeps
<1>4. CASE ReaderEof \/ CloseProfile
  <2>1. Disconnect /\ UNCHANGED <<phase, sent>> /\ (UNCHANGED fate \/ MarkCancelled(records))
    BY <1>4 DEF ReaderEof, CloseProfile, StopSidecar, CancelAll
  <2>2. fate' \in [Starts -> SUBSET {"timed_out", "cancelled"}]
    BY <2>1, <1>0 DEF MarkCancelled, ProcTypeOK
  <2> QED
    BY <2>1, <2>2, DisconnectKeeps
<1>5. CASE FinishCancelAll \/ Connect \/ BindHook
  BY <1>1, <1>5 DEF FinishCancelAll, Connect, BindHook
<1>6. ASSUME NEW p \in Starts, Escalate(p) \/ OutputLimit(p) \/ Exits(p)
      PROVE  ProcInv'
  BY <1>1, <1>6 DEF Escalate, OutputLimit, Exits
<1>7. CASE UNCHANGED procVars
  BY <1>1, <1>7 DEF procVars
<1> QED
  BY <1>2, <1>3, <1>4, <1>5, <1>6, <1>7, StartingKeeps, ReadKeeps, ReceiveKeeps, LoseKeeps DEF ProcNext

LEMMA ProcBegins == ProcInit => ProcInv
<1> SUFFICES ASSUME ProcInit
             PROVE  ProcInv
  OBVIOUS
<1>1. NothingMerged \in Outputs /\ NothingMerged.proc = NoProc /\ NothingMerged.chunks = << >>
      /\ NothingMerged.ended = "no"
  BY DEF NothingMerged, Outputs
<1>2. ProcTypeOK
  BY <1>1 DEF ProcInit, ProcTypeOK, Phases
<1>3. wire = << >> /\ \A r \in ProcRuns : merged[r] = NothingMerged
  BY DEF ProcInit
<1>4. << >> = [i \in 1..Len(<< >>) |-> <<NoProc, i>>]
  OBVIOUS
<1> QED
  BY <1>1, <1>2, <1>3, <1>4 DEF ProcInv, InOrder, EndOK, EmptyOK

(***************************************************************************)
(* Whatever is lost on the way and whichever start of a run comes first,   *)
(* the Sidecar merges the output of one process from its first chunk, and  *)
(* an exit only when nothing is missing before it.                         *)
(***************************************************************************)
THEOREM OutputIsMergedInOrder == ProcSpec => []MergedOutputIsAPrefix
<1>1. ProcInv => MergedOutputIsAPrefix
  BY DEF ProcInv, InOrder, EndOK, MergedOutputIsAPrefix
<1> QED
  BY <1>1, ProcBegins, ProcStep, PTL DEF ProcSpec
-----------------------------------------------------------------------------
(* The restarts of a worker.  Two counts tie the restarts of a window to   *)
(* its failures: each restart comes at most the longest delay after the    *)
(* failure it answers, and no later than the failure that follows it.      *)

\* The delay after MaxRestarts failures; no delay is longer.
Longest ==
    IF MaxRestarts = 0 THEN 0
    ELSE Backoff[IF MaxRestarts < Len(Backoff) THEN MaxRestarts ELSE Len(Backoff)]

\* The times of a set that the window of y still holds.
Since(T, y) == {t \in T : t + RestartWindow > y}

NoneAfter(T, y) == \A t \in T : t <= y

Times(T) == T \in SUBSET Nat /\ IsFiniteSet(T)

\* Every restart answers a failure of its own, at most the longest delay earlier
\* (served: the failures that were answered) ...
Own(F, served, R) ==
    \A y \in Nat : NoneAfter(F, y) =>
        Cardinality(Since(R, y + Longest)) <= Cardinality(Since(served, y))

\* ... and is followed by one, but for the last.
Followed(F, R, last) ==
    \A y \in Nat : NoneAfter(F, y) =>
        Cardinality(Since(R, y)) <= Cardinality(Since(F, y)) + last

LEMMA SinceFacts ==
    ASSUME NEW T, Times(T), NEW y \in Nat
    PROVE  /\ IsFiniteSet(Since(T, y)) /\ Cardinality(Since(T, y)) \in Nat
           /\ Cardinality(Since(T, y)) <= Cardinality(T) /\ Cardinality(T) \in Nat
BY FS_Subset, FS_CardinalityType DEF Since, Times

LEMMA DelayFacts ==
    ASSUME NEW F, Times(F), F # {}, Cardinality(F) <= MaxRestarts
    PROVE  /\ Longest \in Nat /\ Delay(F) \in Nat \ {0} /\ Delay(F) <= Longest
           /\ Cardinality(F) = MaxRestarts => Delay(F) = Longest
           /\ Cardinality(F) \in Nat \ {0}
<1>1. Cardinality(F) \in Nat \ {0}
  BY FS_CardinalityType, FS_EmptySet DEF Times
<1>2. Len(Backoff) \in Nat \ {0} /\ DOMAIN Backoff = 1..Len(Backoff)
  BY BackoffAssumption
<1>3. \A i \in 1..Len(Backoff) : Backoff[i] \in Nat \ {0}
  BY BackoffAssumption
<1> DEFINE n == Cardinality(F)
           i == IF n < Len(Backoff) THEN n ELSE Len(Backoff)
           j == IF MaxRestarts < Len(Backoff) THEN MaxRestarts ELSE Len(Backoff)
<1>4. i \in 1..Len(Backoff) /\ j \in 1..Len(Backoff) /\ i <= j /\ (n = MaxRestarts => i = j)
  BY <1>1, <1>2, SupervisorAssumption
<1>5. Delay(F) = Backoff[i] /\ Longest = Backoff[j]
  BY <1>1, SupervisorAssumption DEF Delay, Longest
<1> HIDE DEF i, j, n
<1>6. Backoff[i] <= Backoff[j]
  BY <1>2, <1>4, BackoffAssumption
<1> QED
  BY <1>1, <1>3, <1>4, <1>5, <1>6 DEF n

LEMMA LongestType == Longest \in Nat
<1>1. Len(Backoff) \in Nat \ {0} /\ \A i \in 1..Len(Backoff) : Backoff[i] \in Nat \ {0}
  BY BackoffAssumption
<1> QED
  BY <1>1, SupervisorAssumption DEF Longest

\* A restart that is owed may stay owed for good.
LEMMA Forgiven ==
    ASSUME NEW F, Times(F), NEW R, Times(R), NEW f, Own(F, F \ {f}, R), Followed(F, R, 0)
    PROVE  Own(F, F, R) /\ Followed(F, R, 1)
<1>1. Times(F \ {f})
  BY FS_RemoveElement DEF Times
<1>2. ASSUME NEW y \in Nat, NoneAfter(F, y)
      PROVE  Cardinality(Since(R, y + Longest)) <= Cardinality(Since(F, y))
  <2>1. Since(F \ {f}, y) \subseteq Since(F, y)
    BY DEF Since
  <2>2. /\ IsFiniteSet(Since(F, y)) /\ y + Longest \in Nat /\ Cardinality(Since(F, y)) \in Nat
        /\ Cardinality(Since(F \ {f}, y)) \in Nat
    BY <1>1, SinceFacts, LongestType
  <2>3. Cardinality(Since(R, y + Longest)) \in Nat
    BY <2>2, SinceFacts
  <2>4. Cardinality(Since(F \ {f}, y)) <= Cardinality(Since(F, y))
    BY <2>1, <2>2, FS_Subset
  <2>5. Cardinality(Since(R, y + Longest)) <= Cardinality(Since(F \ {f}, y))
    BY <1>2 DEF Own
  <2> QED
    BY <2>2, <2>3, <2>4, <2>5
<1>3. ASSUME NEW y \in Nat, NoneAfter(F, y)
      PROVE  Cardinality(Since(R, y)) <= Cardinality(Since(F, y)) + 1
  <2>1. Cardinality(Since(R, y)) <= Cardinality(Since(F, y)) + 0
    BY <1>3 DEF Followed
  <2>2. Cardinality(Since(F, y)) \in Nat /\ Cardinality(Since(R, y)) \in Nat
    BY SinceFacts
  <2> QED
    BY <2>1, <2>2
<1> QED
  BY <1>2, <1>3 DEF Own, Followed

\* A work raises now: the failure is not answered yet.
LEMMA RaiseCounts ==
    ASSUME NEW F, Times(F), NEW R, Times(R), NEW now \in Nat,
           \A g \in F : g < now, NoneAfter(R, now), Own(F, F, R), Followed(F, R, 1)
    PROVE  LET next == Recent(F, now)
           IN  /\ Times(next) /\ now \in next /\ NoneAfter(next, now)
               /\ Own(next, next \ {now}, R) /\ Followed(next, R, 0)
<1> DEFINE next == Recent(F, now)
<1>0. RestartWindow \in Nat \ {0} /\ F \subseteq Nat /\ R \subseteq Nat
  BY SupervisorAssumption DEF Times
<1>1. Times(next)
  <2>1. IsFiniteSet(F \cup {now})
    BY FS_AddElement DEF Times
  <2>2. next \subseteq F \cup {now}
    BY DEF Recent
  <2> QED
    BY <2>1, <2>2, <1>0, FS_Subset DEF Times
<1>2. now \in next /\ NoneAfter(next, now) /\ now \notin F
  BY <1>0 DEF Recent, NoneAfter
<1>3. ASSUME NEW y \in Nat, NoneAfter(next, y)
      PROVE  /\ NoneAfter(F, y) /\ now <= y
             /\ Since(next \ {now}, y) = Since(F, y)
             /\ now + RestartWindow > y => Since(next, y) = Since(F, y) \cup {now}
             /\ now + RestartWindow <= y => Since(R, y) = {}
  <2>1. now <= y
    BY <1>2, <1>3 DEF NoneAfter
  <2>2. \A g \in F : g + RestartWindow > y => g \in next
    BY <2>1, <1>0 DEF Recent
  <2>3. \A g \in next : g \in F \/ g = now
    BY DEF Recent
  <2> HIDE DEF next
  <2>4. NoneAfter(F, y)
    BY <2>1, <1>0 DEF NoneAfter
  <2>5. Since(next \ {now}, y) = Since(F, y)
    BY <2>2, <2>3, <1>2 DEF Since
  <2>6. now + RestartWindow > y => Since(next, y) = Since(F, y) \cup {now}
    BY <2>2, <2>3, <1>2 DEF Since
  <2>7. now + RestartWindow <= y => Since(R, y) = {}
    <3> SUFFICES ASSUME now + RestartWindow <= y, NEW u \in R
                 PROVE  ~(u + RestartWindow > y)
      BY DEF Since
    <3>1. u \in Nat /\ u <= now
      BY <1>0 DEF NoneAfter
    <3> QED
      BY <3>1, <1>0
  <2> QED
    BY <2>1, <2>4, <2>5, <2>6, <2>7
<1>4. Own(next, next \ {now}, R)
  BY <1>3 DEF Own
<1>5. ASSUME NEW y \in Nat, NoneAfter(next, y)
      PROVE  Cardinality(Since(R, y)) <= Cardinality(Since(next, y)) + 0
  <2>1. /\ Cardinality(Since(R, y)) \in Nat /\ Cardinality(Since(F, y)) \in Nat
        /\ Cardinality(Since(next, y)) \in Nat /\ IsFiniteSet(Since(F, y))
    BY <1>1, SinceFacts
  <2>2. CASE now + RestartWindow > y
    <3>1. Since(next, y) = Since(F, y) \cup {now} /\ now \notin Since(F, y)
      BY <1>2, <1>3, <1>5, <2>2 DEF Since
    <3>2. Cardinality(Since(next, y)) = Cardinality(Since(F, y)) + 1
      BY <3>1, <2>1, FS_AddElement
    <3>3. Cardinality(Since(R, y)) <= Cardinality(Since(F, y)) + 1
      BY <1>3, <1>5 DEF Followed
    <3> QED
      BY <2>1, <3>2, <3>3
  <2>3. CASE now + RestartWindow <= y
    <3>1. Cardinality(Since(R, y)) = 0
      BY <1>3, <1>5, <2>3, FS_EmptySet
    <3> QED
      BY <3>1, <2>1
  <2> QED
    BY <2>2, <2>3, <1>0
<1>6. Followed(next, R, 0)
  BY <1>5 DEF Followed
<1> QED
  BY <1>1, <1>2, <1>4, <1>6

\* The restart that answers the last failure f, and why it is allowed.
LEMMA RestartCounts ==
    ASSUME NEW F, Times(F), NEW R, Times(R), NEW f \in F, NoneAfter(F, f),
           Cardinality(F) <= MaxRestarts, NEW now, now = f + Delay(F), NoneAfter(R, now),
           Own(F, F \ {f}, R), Followed(F, R, 0)
    PROVE  /\ Own(F, F, R \cup {now}) /\ Followed(F, R \cup {now}, 1)
           /\ Cardinality(Since(R \cup {now}, now)) <= MaxRestarts
<1>0. /\ RestartWindow \in Nat \ {0} /\ F \subseteq Nat /\ R \subseteq Nat /\ f \in Nat
      /\ MaxRestarts \in Nat
  BY SupervisorAssumption DEF Times
<1>1. /\ Longest \in Nat /\ Delay(F) \in Nat \ {0} /\ Delay(F) <= Longest
      /\ Cardinality(F) = MaxRestarts => Delay(F) = Longest
      /\ Cardinality(F) \in Nat \ {0}
  BY DelayFacts
<1>2. now \in Nat /\ now > f
  BY <1>0, <1>1
<1>3. Times(F \ {f}) /\ Cardinality(F \ {f}) = Cardinality(F) - 1
  BY <1>0, FS_RemoveElement DEF Times
<1> DEFINE more == R \cup {now}
<1>4. \A y \in Nat :
         /\ Cardinality(Since(more, y)) \in Nat
         /\ Cardinality(Since(more, y)) <= Cardinality(Since(R, y)) + 1
         /\ now + RestartWindow <= y => Since(more, y) = Since(R, y)
  <2> TAKE y \in Nat
  <2>1. IsFiniteSet(Since(R, y)) /\ Cardinality(Since(R, y)) \in Nat
    BY SinceFacts
  <2>2. IsFiniteSet(Since(R, y) \cup {now}) /\ Cardinality(Since(R, y) \cup {now}) <= Cardinality(Since(R, y)) + 1
    BY <2>1, FS_AddElement
  <2>3. Since(more, y) \subseteq Since(R, y) \cup {now}
    BY DEF Since
  <2>4. /\ Cardinality(Since(more, y)) \in Nat
        /\ Cardinality(Since(more, y)) <= Cardinality(Since(R, y) \cup {now})
    BY <2>2, <2>3, FS_Subset, FS_CardinalityType
  <2>5. Cardinality(Since(R, y) \cup {now}) \in Nat
    BY <2>2, FS_CardinalityType
  <2>6. now + RestartWindow <= y => Since(more, y) = Since(R, y)
    BY <1>0, <1>2 DEF Since
  <2> QED
    BY <2>1, <2>2, <2>4, <2>5, <2>6
<1> HIDE DEF more
<1>5. ASSUME NEW y \in Nat, NoneAfter(F, y)
      PROVE  Cardinality(Since(more, y + Longest)) <= Cardinality(Since(F, y))
  <2>1. Cardinality(Since(R, y + Longest)) <= Cardinality(Since(F \ {f}, y))
    BY <1>5 DEF Own
  <2>2. /\ Cardinality(Since(F, y)) \in Nat /\ IsFiniteSet(Since(F, y))
        /\ Cardinality(Since(F \ {f}, y)) \in Nat /\ IsFiniteSet(Since(F \ {f}, y))
        /\ y + Longest \in Nat /\ Cardinality(Since(R, y + Longest)) \in Nat
    BY <1>1, <1>3, SinceFacts
  <2>3. CASE f + RestartWindow > y
    <3>1. Since(F, y) = Since(F \ {f}, y) \cup {f} /\ f \notin Since(F \ {f}, y)
      BY <2>3 DEF Since
    <3>2. Cardinality(Since(F, y)) = Cardinality(Since(F \ {f}, y)) + 1
      BY <3>1, <2>2, FS_AddElement
    <3> QED
      BY <3>2, <2>1, <2>2, <1>4
  <2>4. CASE f + RestartWindow <= y
    <3>1. now + RestartWindow <= y + Longest
      BY <2>4, <1>0, <1>1
    <3>2. Since(F, y) = Since(F \ {f}, y)
      BY <2>4, <1>0 DEF Since
    <3> QED
      BY <3>1, <3>2, <2>1, <2>2, <1>4
  <2> QED
    BY <2>3, <2>4, <1>0
<1>6. ASSUME NEW y \in Nat, NoneAfter(F, y)
      PROVE  Cardinality(Since(more, y)) <= Cardinality(Since(F, y)) + 1
  <2>1. Cardinality(Since(R, y)) <= Cardinality(Since(F, y)) + 0
    BY <1>6 DEF Followed
  <2>2. Cardinality(Since(F, y)) \in Nat /\ Cardinality(Since(R, y)) \in Nat
    BY SinceFacts
  <2> QED
    BY <2>1, <2>2, <1>4
<1>7. Cardinality(Since(R, now)) <= MaxRestarts - 1
  <2>1. CASE Cardinality(F) = MaxRestarts
    <3>1. now = f + Longest
      BY <2>1, <1>1
    <3>2. Cardinality(Since(R, f + Longest)) <= Cardinality(Since(F \ {f}, f))
      BY <1>0 DEF Own
    <3>3. /\ Cardinality(Since(F \ {f}, f)) <= Cardinality(F \ {f})
          /\ Cardinality(Since(F \ {f}, f)) \in Nat /\ Cardinality(F \ {f}) \in Nat
          /\ Cardinality(Since(R, now)) \in Nat
      BY <1>0, <1>2, <1>3, SinceFacts
    <3> QED
      BY <3>1, <3>2, <3>3, <2>1, <1>0, <1>3
  <2>2. CASE Cardinality(F) # MaxRestarts
    <3>1. NoneAfter(F, now)
      BY <1>0, <1>2 DEF NoneAfter
    <3>2. Cardinality(Since(R, now)) <= Cardinality(Since(F, now)) + 0
      BY <3>1, <1>2 DEF Followed
    <3>3. /\ Cardinality(Since(F, now)) <= Cardinality(F) /\ Cardinality(Since(F, now)) \in Nat
          /\ Cardinality(Since(R, now)) \in Nat
      BY <1>2, SinceFacts
    <3> QED
      BY <3>2, <3>3, <2>2, <1>0, <1>1
  <2> QED
    BY <2>1, <2>2
<1>8. Cardinality(Since(more, now)) <= MaxRestarts
  <2>1. Cardinality(Since(R, now)) \in Nat
    BY <1>2, SinceFacts
  <2> QED
    BY <2>1, <1>0, <1>2, <1>4, <1>7
<1> QED
  BY <1>5, <1>6, <1>8 DEF Own, Followed, more

-----------------------------------------------------------------------------
(* The supervisor keeps these counts. *)

\* In its back-off a worker owes a restart to its last failure.
Owes(w) ==
    \E f \in failures[w] :
        /\ NoneAfter(failures[w], f) /\ Cardinality(failures[w]) <= MaxRestarts
        /\ wake[w] = f + Delay(failures[w]) /\ uptime <= wake[w]
        /\ Own(failures[w], failures[w] \ {f}, restarts[w]) /\ Followed(failures[w], restarts[w], 0)

Even(w) == Own(failures[w], failures[w], restarts[w]) /\ Followed(failures[w], restarts[w], 1)

WithinWindow(R, t) == Cardinality({u \in R : u <= t /\ t < u + RestartWindow}) <= MaxRestarts

WorkerOK(w) ==
    /\ Times(failures[w]) /\ Times(restarts[w])
    /\ NoneAfter(failures[w], uptime) /\ NoneAfter(restarts[w], uptime)
    /\ loop[w] \notin {"backoff", "given_up", "ended"} => \A g \in failures[w] : g < uptime
    /\ IF loop[w] = "backoff" THEN Owes(w) ELSE Even(w)
    /\ \A t \in restarts[w] : WithinWindow(restarts[w], t)

WorkersInv == WorkersTypeOK /\ \A w \in Workers : WorkerOK(w)

\* A worker that owes a restart is even as well.
LEMMA OwingIsEven ==
    ASSUME NEW w \in Workers, WorkerOK(w)
    PROVE  Even(w)
<1> SUFFICES ASSUME loop[w] = "backoff"
             PROVE  Even(w)
  BY DEF WorkerOK
<1>1. PICK f \in failures[w] :
         /\ Own(failures[w], failures[w] \ {f}, restarts[w]) /\ Followed(failures[w], restarts[w], 0)
  BY DEF WorkerOK, Owes
<1> QED
  BY <1>1, Forgiven DEF WorkerOK, Even

\* A step that changes neither the failures nor the restarts of a worker and does
\* not end its back-off.
LEMMA WorkerStays ==
    ASSUME WorkersInv, WorkersTypeOK', NEW w \in Workers,
           failures'[w] = failures[w], restarts'[w] = restarts[w], uptime <= uptime',
           loop'[w] = "backoff" => loop[w] = "backoff" /\ wake'[w] = wake[w] /\ uptime' <= wake[w],
           loop'[w] \notin {"backoff", "given_up", "ended"} => loop[w] \notin {"backoff", "given_up", "ended"}
    PROVE  WorkerOK(w)'
<1>1. WorkerOK(w) /\ uptime \in Nat /\ uptime' \in Nat
  BY DEF WorkersInv, WorkersTypeOK
<1>2. /\ Times(failures[w])' /\ Times(restarts[w])' /\ failures[w] \subseteq Nat /\ restarts[w] \subseteq Nat
  BY <1>1 DEF WorkerOK, Times
<1>3. NoneAfter(failures'[w], uptime') /\ NoneAfter(restarts'[w], uptime')
  BY <1>1, <1>2 DEF WorkerOK, NoneAfter
<1>4. loop'[w] \notin {"backoff", "given_up", "ended"} => \A g \in failures'[w] : g < uptime'
  BY <1>1, <1>2 DEF WorkerOK
<1>5. Even(w)'
  BY <1>1, OwingIsEven DEF Even
<1>6. loop'[w] = "backoff" => Owes(w)'
  BY <1>1 DEF WorkerOK, Owes
<1>7. \A t \in restarts'[w] : WithinWindow(restarts'[w], t)
  BY <1>1 DEF WorkerOK
<1> QED
  BY <1>2, <1>3, <1>4, <1>5, <1>6, <1>7 DEF WorkerOK

LEMMA RaiseKeeps ==
    ASSUME WorkersInv, NEW w \in Workers, WorkRaises(w)
    PROVE  WorkersInv'
<1> DEFINE next == Recent(failures[w], uptime)
<1>1. /\ loop[w] = "working" /\ failures' = [failures EXCEPT ![w] = next]
      /\ \/ Exceeded(next) /\ loop' = [loop EXCEPT ![w] = "given_up"] /\ UNCHANGED wake
         \/ /\ ~Exceeded(next) /\ loop' = [loop EXCEPT ![w] = "backoff"]
            /\ wake' = [wake EXCEPT ![w] = uptime + Delay(next)]
      /\ UNCHANGED <<uptime, restarts>>
  BY DEF WorkRaises
<1>2. WorkersTypeOK /\ WorkerOK(w) /\ uptime \in Nat
  BY DEF WorkersInv, WorkersTypeOK
<1>3. /\ Times(next) /\ uptime \in next /\ NoneAfter(next, uptime)
      /\ Own(next, next \ {uptime}, restarts[w]) /\ Followed(next, restarts[w], 0)
  <2>1. /\ Times(failures[w]) /\ Times(restarts[w]) /\ \A g \in failures[w] : g < uptime
        /\ NoneAfter(restarts[w], uptime)
        /\ Own(failures[w], failures[w], restarts[w]) /\ Followed(failures[w], restarts[w], 1)
    BY <1>1, <1>2 DEF WorkerOK, Even
  <2> HIDE DEF next
  <2> QED
    BY <2>1, <1>2, RaiseCounts DEF next
<1>4. ~Exceeded(next) => Cardinality(next) <= MaxRestarts /\ Delay(next) \in Nat \ {0}
  <2>1. Cardinality(next) \in Nat /\ MaxRestarts \in Nat
    BY <1>3, FS_CardinalityType, SupervisorAssumption DEF Times
  <2> HIDE DEF next
  <2> QED
    BY <2>1, <1>3, DelayFacts DEF Exceeded
<1> HIDE DEF next
<1>5. WorkersTypeOK'
  BY <1>1, <1>2, <1>3, <1>4 DEF WorkersTypeOK, Times
<1>6. WorkerOK(w)'
  <2>1. failures'[w] = next /\ restarts'[w] = restarts[w] /\ uptime' = uptime
    BY <1>1, <1>2 DEF WorkersTypeOK
  <2>2. /\ Times(failures[w])' /\ Times(restarts[w])'
        /\ NoneAfter(failures[w], uptime)' /\ NoneAfter(restarts[w], uptime)'
        /\ (\A t \in restarts[w] : WithinWindow(restarts[w], t))'
    BY <2>1, <1>2, <1>3 DEF WorkerOK
  <2>3. CASE ~Exceeded(next) /\ loop' = [loop EXCEPT ![w] = "backoff"]
             /\ wake' = [wake EXCEPT ![w] = uptime + Delay(next)]
    <3>1. loop'[w] = "backoff" /\ wake'[w] = uptime + Delay(next)
      BY <2>3, <1>2 DEF WorkersTypeOK
    <3>2. uptime <= wake'[w]
      BY <3>1, <2>3, <1>2, <1>4
    <3>3. Owes(w)'
      BY <3>1, <3>2, <2>1, <2>3, <1>3, <1>4 DEF Owes
    <3> QED
      BY <3>1, <3>3, <2>2 DEF WorkerOK
  <2>4. CASE loop' = [loop EXCEPT ![w] = "given_up"]
    <3>1. loop'[w] = "given_up"
      BY <2>4, <1>2 DEF WorkersTypeOK
    <3>2. Own(next, next, restarts[w]) /\ Followed(next, restarts[w], 1)
      BY <1>2, <1>3, Forgiven DEF WorkerOK
    <3> QED
      BY <3>1, <3>2, <2>1, <2>2 DEF WorkerOK, Even
  <2> QED
    BY <1>1, <2>3, <2>4
<1>7. ASSUME NEW v \in Workers, v # w
      PROVE  WorkerOK(v)'
  <2>1. /\ failures'[v] = failures[v] /\ restarts'[v] = restarts[v] /\ uptime' = uptime
        /\ loop'[v] = loop[v] /\ wake'[v] = wake[v]
    BY <1>1, <1>2, <1>7 DEF WorkersTypeOK
  <2>2. loop[v] = "backoff" => uptime <= wake[v]
    BY DEF WorkersInv, WorkerOK, Owes
  <2> QED
    BY <2>1, <2>2, <1>2, <1>5, WorkerStays
<1> QED
  BY <1>5, <1>6, <1>7 DEF WorkersInv

LEMMA RestartKeeps ==
    ASSUME WorkersInv, NEW w \in Workers, RestartWorker(w)
    PROVE  WorkersInv'
<1>1. /\ loop[w] = "backoff" /\ wake[w] <= uptime /\ loop' = [loop EXCEPT ![w] = "entering"]
      /\ restarts' = [restarts EXCEPT ![w] = @ \cup {uptime}] /\ UNCHANGED <<uptime, failures, wake>>
  BY DEF RestartWorker, EnterLoop
<1>2. WorkersTypeOK /\ WorkerOK(w) /\ uptime \in Nat
  BY DEF WorkersInv, WorkersTypeOK
<1>3. WorkersTypeOK'
  BY <1>1, <1>2 DEF WorkersTypeOK
<1> DEFINE F == failures[w]
           R == restarts[w]
           more == R \cup {uptime}
<1>4. /\ failures'[w] = F /\ restarts'[w] = more /\ loop'[w] = "entering" /\ uptime' = uptime
      /\ Times(F) /\ Times(R) /\ NoneAfter(F, uptime) /\ NoneAfter(R, uptime)
      /\ \A t \in R : WithinWindow(R, t)
  BY <1>1, <1>2 DEF WorkersTypeOK, WorkerOK
<1>5. PICK f \in F : /\ NoneAfter(F, f) /\ Cardinality(F) <= MaxRestarts
                     /\ wake[w] = f + Delay(F) /\ uptime <= wake[w]
                     /\ Own(F, F \ {f}, R) /\ Followed(F, R, 0)
  BY <1>1, <1>2 DEF WorkerOK, Owes
<1>6. Delay(F) \in Nat \ {0} /\ f \in Nat
  BY <1>4, <1>5, DelayFacts DEF Times
<1>7. uptime = f + Delay(F)
  BY <1>1, <1>2, <1>5, <1>6
<1>8. /\ Own(F, F, more) /\ Followed(F, more, 1) /\ Cardinality(Since(more, uptime)) <= MaxRestarts
  BY <1>4, <1>5, <1>7, RestartCounts
<1>9. Times(more) /\ NoneAfter(more, uptime)
  BY <1>2, <1>4, FS_AddElement DEF Times, NoneAfter
<1>10. \A g \in F : g < uptime
  BY <1>4, <1>5, <1>6, <1>7 DEF NoneAfter, Times
<1>11. ASSUME NEW t \in more
       PROVE  WithinWindow(more, t)
  <2>1. t \in Nat /\ t <= uptime
    BY <1>9 DEF Times, NoneAfter
  <2>2. CASE t = uptime
    <3>1. {u \in more : u <= t /\ t < u + RestartWindow} = Since(more, uptime)
      BY <2>2, <1>9, SupervisorAssumption DEF Since, NoneAfter, Times
    <3> QED
      BY <3>1, <1>8 DEF WithinWindow
  <2>3. CASE t # uptime
    <3>1. t \in R /\ {u \in more : u <= t /\ t < u + RestartWindow} = {u \in R : u <= t /\ t < u + RestartWindow}
      BY <2>1, <2>3, <1>2
    <3> QED
      BY <3>1, <1>4 DEF WithinWindow
  <2> QED
    BY <2>2, <2>3
<1> HIDE DEF F, R, more
<1>12. WorkerOK(w)'
  BY <1>4, <1>8, <1>9, <1>10, <1>11 DEF WorkerOK, Even
<1>13. ASSUME NEW v \in Workers, v # w
       PROVE  WorkerOK(v)'
  <2>1. /\ failures'[v] = failures[v] /\ restarts'[v] = restarts[v] /\ uptime' = uptime
        /\ loop'[v] = loop[v] /\ wake'[v] = wake[v]
    BY <1>1, <1>2, <1>13 DEF WorkersTypeOK
  <2>2. loop[v] = "backoff" => uptime <= wake[v]
    BY DEF WorkersInv, WorkerOK, Owes
  <2> QED
    BY <2>1, <2>2, <1>2, <1>3, WorkerStays
<1> QED
  BY <1>3, <1>12, <1>13 DEF WorkersInv

LEMMA WorkersStep == WorkersInv /\ [WorkersNext]_workerVars => WorkersInv'
<1> SUFFICES ASSUME WorkersInv, [WorkersNext]_workerVars
             PROVE  WorkersInv'
  OBVIOUS
<1>0. WorkersTypeOK /\ \A v \in Workers : loop[v] = "backoff" => uptime <= wake[v]
  BY DEF WorkersInv, WorkerOK, Owes
<1>1. ASSUME NEW w \in Workers, FirstEntry(w) \/ BeginWork(w) \/ WorkReturns(w)
      PROVE  WorkersInv'
  <2>1. PICK to \in {"entering", "working", "polling"} :
           /\ loop[w] \in {"created", "entering", "polling", "working"}
           /\ loop' = [loop EXCEPT ![w] = to] /\ UNCHANGED <<uptime, failures, restarts>>
           /\ wake' = wake \/ wake' = [wake EXCEPT ![w] = uptime + PollSleep]
    BY <1>1 DEF FirstEntry, EnterLoop, BeginWork, WorkReturns
  <2>2. WorkersTypeOK'
    BY <1>0, <2>1, SupervisorAssumption DEF WorkersTypeOK
  <2>3. ASSUME NEW v \in Workers
        PROVE  WorkerOK(v)'
    <3>1. /\ failures'[v] = failures[v] /\ restarts'[v] = restarts[v] /\ uptime' = uptime /\ uptime \in Nat
          /\ v # w => loop'[v] = loop[v] /\ wake'[v] = wake[v]
          /\ v = w => loop'[v] = to
      BY <1>0, <2>1 DEF WorkersTypeOK
    <3> QED
      BY <3>1, <2>1, <2>2, <1>0, WorkerStays
  <2> QED
    BY <2>2, <2>3 DEF WorkersInv
<1>2. CASE PassTime
  <2>1. uptime' = uptime + 1 /\ UNCHANGED <<loop, failures, wake, restarts>>
        /\ \A w \in Workers : loop[w] = "backoff" => wake[w] > uptime
    BY <1>2 DEF PassTime, Sleeping
  <2>2. WorkersTypeOK' /\ uptime \in Nat
    BY <1>0, <2>1 DEF WorkersTypeOK
  <2>3. \A w \in Workers : wake[w] \in Nat
    BY <1>0 DEF WorkersTypeOK
  <2>4. \A v \in Workers : WorkerOK(v)'
    BY <2>1, <2>2, <2>3, WorkerStays
  <2> QED
    BY <2>2, <2>4 DEF WorkersInv
<1>3. CASE StartWorkers \/ StopWorkers
  <2>1. PICK to \in {"created", "ended"} :
           /\ loop' = [v \in Workers |-> to] /\ UNCHANGED <<uptime, failures, wake, restarts>>
           /\ to = "created" => \A v \in Workers : loop[v] = "none"
    BY <1>3 DEF StartWorkers, StopWorkers
  <2>2. WorkersTypeOK' /\ uptime \in Nat
    BY <1>0, <2>1 DEF WorkersTypeOK
  <2>3. \A v \in Workers : WorkerOK(v)'
    BY <2>1, <2>2, WorkerStays
  <2> QED
    BY <2>2, <2>3 DEF WorkersInv
<1>4. CASE UNCHANGED workerVars
  <2>1. UNCHANGED <<uptime, loop, failures, wake, restarts>>
    BY <1>4 DEF workerVars
  <2>2. WorkersTypeOK' /\ uptime \in Nat
    BY <1>0, <2>1 DEF WorkersTypeOK
  <2>3. \A v \in Workers : WorkerOK(v)'
    BY <2>1, <2>2, <1>0, WorkerStays
  <2> QED
    BY <2>2, <2>3 DEF WorkersInv
<1> QED
  BY <1>1, <1>2, <1>3, <1>4, RaiseKeeps, RestartKeeps DEF WorkersNext

LEMMA WorkersBegin == WorkersInit => WorkersInv
<1> SUFFICES ASSUME WorkersInit
             PROVE  WorkersInv
  OBVIOUS
<1>1. WorkersTypeOK
  BY DEF WorkersInit, WorkersTypeOK
<1>2. ASSUME NEW w \in Workers
      PROVE  WorkerOK(w)
  <2>1. failures[w] = {} /\ restarts[w] = {} /\ loop[w] = "none"
    BY DEF WorkersInit
  <2>2. \A y : Since({}, y) = {}
    BY DEF Since
  <2>3. Cardinality({}) = 0 /\ Times({}) /\ NoneAfter({}, uptime)
    BY FS_EmptySet DEF Times, NoneAfter
  <2>4. Own({}, {}, {}) /\ Followed({}, {}, 1)
    BY <2>2, <2>3 DEF Own, Followed
  <2> QED
    BY <2>1, <2>3, <2>4 DEF WorkerOK, Even
<1> QED
  BY <1>1, <1>2 DEF WorkersInv

(***************************************************************************)
(* A worker that keeps failing is not restarted more often than the limit  *)
(* in any window, for any window, limit and growing back-offs: _run_worker *)
(* counts failures, and each restart is tied both to the failure it        *)
(* answers and to the one that follows it.                                 *)
(***************************************************************************)
THEOREM RestartsStayBounded == WorkersSpec => []RestartsBounded
<1>1. WorkersInv => RestartsBounded
  BY DEF WorkersInv, WorkerOK, WithinWindow, RestartsBounded
<1> QED
  BY <1>1, WorkersBegin, WorkersStep, PTL DEF WorkersSpec
=============================================================================
