--------------------------- MODULE CompanyFairness ---------------------------
(***************************************************************************)
(* The claim order of the RuntimeWorker between companies: the machine of  *)
(* RuntimeExecution with a history variable that counts, for a company     *)
(* with a ready run, the claims of other companies since its last turn.    *)
(***************************************************************************)
EXTENDS RuntimeExecution

\* Companies are rows of a table.
ASSUME CompanyAssumption == IsFiniteSet(Companies)

VARIABLE passed  \* claims for other companies since a company's turn (history)

HasReady(c) == \E r \in Runs : CompanyOf[r] = c /\ queue[r] = "ready"
Dispatched(c) == \E r \in Runs : ClaimNext(r) /\ CompanyOf[r] = c

\* A company's count starts again with its turn, or when it has nothing ready.
CountPassed ==
    passed' = [c \in Companies |->
                  IF Dispatched(c) \/ ~HasReady(c) THEN 0
                  ELSE IF \E d \in Companies : Dispatched(d) THEN passed[c] + 1
                  ELSE passed[c]]

FairnessInit == Init /\ passed = [c \in Companies |-> 0]
FairnessNext == Next /\ CountPassed
FairnessSpec == FairnessInit /\ [][FairnessNext]_<<vars, passed>>

(***************************************************************************)
(* No company starves: while a company has a ready run, each of the other  *)
(* companies is served at most once before it, whatever the priorities of  *)
(* their runs and however many runs they queue.  (_claim_next orders by    *)
(* runtime_company_fairness.last_dispatched_at first.)                     *)
(***************************************************************************)
NoCompanyStarves == \A c \in Companies : passed[c] <= Cardinality(Companies) - 1
=============================================================================
