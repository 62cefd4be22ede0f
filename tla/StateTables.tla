---------------------------- MODULE StateTables ----------------------------
(***************************************************************************)
(* The transition tables of state_machine.py and the check can_transition. *)
(* A table maps a status to the statuses it may be followed by; a terminal *)
(* status has none.                                                        *)
(***************************************************************************)

CompanyTaskTransitions ==
    [draft                      |-> {"analyzing", "cancelling"},
     analyzing                  |-> {"awaiting_user_confirmation", "waiting_resource",
                                     "cancelling", "failed"},
     awaiting_user_confirmation |-> {"revision_requested", "approved", "rejected",
                                     "cancelling"},
     revision_requested         |-> {"analyzing", "rejected", "cancelling"},
     approved                   |-> {"dispatching", "cancelling"},
     dispatching                |-> {"checking_resources", "waiting_dependency",
                                     "waiting_resource", "cancelling", "failed"},
     checking_resources         |-> {"executing", "waiting_dependency", "waiting_resource",
                                     "waiting_permission", "cancelling", "failed"},
     executing                  |-> {"reviewing", "waiting_dependency", "waiting_resource",
                                     "waiting_permission", "paused", "cancelling", "failed"},
     reviewing                  |-> {"fixing", "final_review", "waiting_resource",
                                     "waiting_permission", "paused", "cancelling", "failed"},
     fixing                     |-> {"reviewing", "waiting_resource", "waiting_permission",
                                     "paused", "cancelling", "failed"},
     final_review               |-> {"fixing", "completed", "waiting_resource",
                                     "waiting_permission", "paused", "cancelling", "failed"},
     waiting_dependency         |-> {"cancelling", "failed"},
     waiting_resource           |-> {"cancelling", "failed"},
     waiting_permission         |-> {"cancelling", "failed"},
     paused                     |-> {"cancelling", "failed"},
     cancelling                 |-> {"cancelled", "failed"},
     rejected |-> {}, completed |-> {}, cancelled |-> {}, failed |-> {}]

DepartmentTaskTransitions ==
    [draft              |-> {"checking_resources", "cancelled"},
     checking_resources |-> {"ready", "waiting_resource", "waiting_permission", "paused",
                             "cancelled", "failed"},
     ready              |-> {"executing", "waiting_dependency", "waiting_resource",
                             "waiting_permission", "paused", "cancelled", "failed"},
     executing          |-> {"reviewing", "waiting_resource", "waiting_permission", "paused",
                             "cancelled", "failed"},
     reviewing          |-> {"fixing", "completed", "waiting_resource", "waiting_permission",
                             "paused", "cancelled", "failed"},
     fixing             |-> {"reviewing", "waiting_resource", "waiting_permission", "paused",
                             "cancelled", "failed"},
     paused             |-> {"checking_resources", "ready", "executing", "reviewing", "fixing",
                             "cancelled", "failed"},
     waiting_dependency |-> {"paused", "cancelled", "failed"},
     waiting_resource   |-> {"cancelled", "failed"},
     waiting_permission |-> {"cancelled", "failed"},
     completed |-> {}, cancelled |-> {}, failed |-> {}]

EmployeeTaskTransitions ==
    [assigned          |-> {"ready", "waiting_resource", "paused", "cancelled", "failed"},
     ready             |-> {"running", "waiting_resource", "paused", "cancelled", "failed"},
     running           |-> {"submitted", "waiting_resource", "paused", "cancelled", "failed",
                            "needs_review", "needs_rework"},
     submitted         |-> {"peer_reviewing", "paused", "failed"},
     peer_reviewing    |-> {"changes_requested", "accepted", "paused", "failed"},
     changes_requested |-> {"ready", "waiting_resource", "paused", "cancelled", "failed"},
     needs_review      |-> {"ready", "waiting_resource", "paused", "cancelled", "failed"},
     needs_rework      |-> {"ready", "waiting_resource", "paused", "cancelled", "failed"},
     waiting_resource  |-> {"paused", "cancelled", "failed"},
     paused            |-> {"ready", "running", "cancelled", "failed"},
     accepted |-> {}, cancelled |-> {}, failed |-> {}]

AgentRunTransitions ==
    [queued           |-> {"probing", "cancelled"},
     probing          |-> {"starting", "waiting_resource", "cancelled", "failed"},
     starting         |-> {"running", "retrying", "waiting_resource", "cancelled", "timed_out",
                           "failed"},
     running          |-> {"waiting_approval", "verifying", "retrying", "waiting_resource",
                           "cancelled", "timed_out", "failed", "lost"},
     waiting_approval |-> {"running", "cancelled", "timed_out", "failed"},
     waiting_resource |-> {"running", "cancelled", "timed_out", "failed"},
     verifying        |-> {"succeeded", "retrying", "waiting_approval", "waiting_resource",
                           "cancelled", "timed_out", "failed"},
     retrying         |-> {"starting", "cancelled", "timed_out", "failed"},
     lost             |-> {"retrying", "waiting_approval", "cancelled", "failed"},
     succeeded |-> {}, cancelled |-> {}, timed_out |-> {}, failed |-> {}]

CompanyPlanVersionTransitions ==
    [draft                      |-> {"awaiting_user_confirmation", "rejected"},
     awaiting_user_confirmation |-> {"approved", "superseded", "rejected"},
     approved |-> {}, superseded |-> {}, rejected |-> {}]

WaitingStatuses == {"waiting_dependency", "waiting_resource", "waiting_permission", "paused",
                    "waiting_approval"}

\* can_transition: a waiting status may also return to its resume_state.
CanTransition(table, from, to, resume) ==
    /\ from \in DOMAIN table
    /\ to \in table[from] \/ (from \in WaitingStatuses /\ to = resume)
=============================================================================
