------------------------ MODULE MCRuntimeExecution ------------------------
(* Instances of RuntimeExecution for TLC. *)
EXTENDS RuntimeExecution

CONSTANTS r1, r2, c1, e1, t1, i1

\* Two runs of one company and one employee: a run of an employee task on the
\* CLI, and an interactive turn on an API model.
MCEmployeeOf == [r \in Runs |-> e1]
MCCompanyOf == [r \in Runs |-> c1]
MCPriority == [r \in Runs |-> IF r = r1 THEN 10 ELSE 0]
MCWorkItem == [r \in Runs |-> IF r = r1 THEN t1 ELSE i1]
=============================================================================
