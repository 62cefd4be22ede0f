----------------------------- MODULE MCFairness -----------------------------
(* Two companies: one has two interactive turns, the other one background run. *)
EXTENDS CompanyFairness

CONSTANTS r1, r2, r3, c1, c2, e1, i1, i2, i3

MCEmployeeOf == [r \in Runs |-> e1]
MCCompanyOf == [r \in Runs |-> IF r = r3 THEN c2 ELSE c1]
MCPriority == [r \in Runs |-> IF r = r3 THEN 20 ELSE 0]
MCWorkItem == [r \in Runs |-> IF r = r1 THEN i1 ELSE IF r = r2 THEN i2 ELSE i3]
=============================================================================
