------------------------------ MODULE MCTasks ------------------------------
(***************************************************************************)
(* Three plans: two segments of one department of which one is deferred, a *)
(* task in each of two departments, and a plan with a dependency between   *)
(* departments.  In the first an employee may be replaced.                 *)
(***************************************************************************)
EXTENDS TaskLifecycle

CONSTANTS d1, d2, t1, t2, t3

Plan(deptOf, upstream, refs, spare) ==
    [tasks |-> DOMAIN deptOf, depts |-> DOMAIN refs,
     deptOf |-> deptOf, upstream |-> upstream, refs |-> refs, spare |-> spare]

Nothing == [x \in {t1, t2} |-> {}]

MCPlans ==
    {Plan([t \in {t1, t2} |-> d1], [Nothing EXCEPT ![t2] = {t1}], [d \in {d1} |-> {}], {t3}),
     Plan([t \in {t1, t2} |-> IF t = t1 THEN d1 ELSE d2], Nothing, [d \in {d1, d2} |-> {}], {}),
     Plan([t \in {t1, t2} |-> IF t = t1 THEN d1 ELSE d2], Nothing,
          [d \in {d1, d2} |-> IF d = d2 THEN {d1} ELSE {}], {})}
=============================================================================
