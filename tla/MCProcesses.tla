---------------------------- MODULE MCProcesses ----------------------------
(***************************************************************************)
(* The agent processes of the host, the claim order of the RuntimeWorker   *)
(* between two companies, and the supervisor of the workers.  They share   *)
(* no variable: part says which one moves, and the others stay in their    *)
(* initial states.                                                         *)
(*                                                                         *)
(* ManagedProcess: two starts of the same run, one with two chunks of      *)
(* output, one reopening of the link, and a wire that holds one            *)
(* notification.  Workers: one worker, two restarts in a window of five    *)
(* and back-offs of one and two.                                           *)
(***************************************************************************)
EXTENDS MCFairness, ManagedProcess, Workers

CONSTANTS p1, p2

VARIABLE part

MCRunOf == [p \in Starts |-> r1]
MCChunks == [p \in Starts |-> IF p = p1 THEN 2 ELSE 1]

MCBackoff == <<1, 2>>

MCNext ==
    /\ UNCHANGED part
    /\ \/ part = "processes" /\ ProcNext /\ UNCHANGED <<vars, passed, workerVars>>
       \/ part = "companies" /\ FairnessNext /\ UNCHANGED <<procVars, workerVars>>
       \/ part = "workers" /\ WorkersNext /\ UNCHANGED <<vars, passed, procVars>>

MCInit ==
    /\ part \in {"processes", "companies", "workers"}
    /\ FairnessInit /\ ProcInit /\ WorkersInit

\* In the initial state of ManagedProcess no action of ProcFairness is enabled.
MCSpec ==
    /\ MCInit
    /\ [][MCNext]_<<part, vars, passed, procVars, workerVars>>
    /\ ProcFairness
=============================================================================
