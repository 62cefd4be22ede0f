---------------------------- MODULE MCWriteQueue ----------------------------
(***************************************************************************)
(* Two sets of callers: a request, its retry, and another request that     *)
(* reuses the key by mistake; or a request, a worker's write without a     *)
(* key, and a backup barrier (without a restart, which forgets barriers).  *)
(***************************************************************************)
EXTENDS WriteQueue

CONSTANTS first, retry, other, plain, bar, k1

VARIABLE callers

MCKeyOf == [e \in Envelopes |-> IF e \in {plain, bar} THEN NoKey ELSE k1]
MCHashOf == [e \in Envelopes |-> IF e = other THEN 2 ELSE 1]

MCInit == Init /\ callers \in {{first, retry, other}, {first, plain, bar}}

MCNext ==
    /\ Next
    /\ \A e \in Envelopes \ callers : future'[e] = future[e]
    /\ bar \in callers => restarts' = 0
    /\ UNCHANGED callers

\* FairSpec, for these callers.
MCSpec ==
    /\ MCInit /\ [][MCNext]_<<vars, callers>>
    /\ WF_vars(Worker)
    /\ WF_vars(\E late \in BOOLEAN : StopCancels(late))
    /\ WF_vars(CloseWriter)
=============================================================================
