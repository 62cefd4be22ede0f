------------------------------- MODULE Review -------------------------------
(***************************************************************************)
(* The reviews of a deliverable: an artifact is published and superseded,  *)
(* its reviewers are assigned, reports are fused into one verdict, and a   *)
(* low confidence opens another round (application/review_handlers.py,     *)
(* review_aggregation.py, domain/review, artifacts/service.py).            *)
(*                                                                         *)
(* create_artifact finds an artifact of the same content and returns it,   *)
(* so an artifact is its content.  A report has at most one issue; a       *)
(* verdict "failed" is a needs_changes with a severe issue.                *)
(* One deliverable is modelled: a new version supersedes the current one.  *)
(* Weights, accuracies and confidences are in thousandths, which is how    *)
(* the code rounds them.                                                   *)
(***************************************************************************)
EXTENDS Integers, FiniteSets, FiniteSetsExt

CONSTANTS
    Artifacts,
    Authors, Reviewers,  \* employees who publish, employees who review
    SpecReviewers, SpecRounds, Threshold, \* the deliverable_review_specs row
    MinSample,     \* reports a reviewer needs before its accuracy counts
    MaxRound,      \* bound on the rounds that users ask for
    MaxReports,    \* bound on the reports
    MaxIssues,     \* bound on the reports that raise an issue
    NoArtifact     \* SQL NULL

ASSUME ReviewAssumption ==
    /\ SpecReviewers \subseteq Reviewers /\ NoArtifact \notin Artifacts
    /\ SpecRounds \in 1..MaxRound /\ Threshold \in 0..1000 /\ MinSample \in Nat /\ MaxReports \in Nat /\ MaxIssues \in Nat /\ MaxRound \in Nat

VARIABLES
    artifact,            \* is_current and the contributor of each artifact
    review,              \* assignments with their report, issue and score
    fused,               \* review_verdicts
    accuracy, samples,   \* reviewer_stats
    available,           \* reviewers whose status is active
    reports              \* number of reports

reviewVars == <<artifact, review, fused, accuracy, samples, available, reports>>

Keys == Artifacts \X Reviewers \X (1..MaxRound)   \* the UNIQUE of the table
ArtifactOf(k) == k[1]
ReviewerOf(k) == k[2]
RoundOf(k) == k[3]
KeysOf(a) == {k \in Keys : ArtifactOf(k) = a}

Assignment(status) ==
    [status |-> status, verdict |-> "none", latest |-> FALSE,
     issue |-> "none", severe |-> FALSE, superseded |-> FALSE, credited |-> FALSE]
NoAssignment == Assignment("none")

Live == {"assigned", "in_review"}
Current(a) == artifact[a].state = "current"
Submitted(rows, a) == {k \in KeysOf(a) : rows[k].status = "submitted"}
OpenSevere(row) ==
    row.severe /\ ~row.superseded /\ row.issue \notin {"none", "closed", "rejected"}

----------------------------------------------------------------------------
(* Fusion of the verdicts. *)

ComputeWeight(r) ==
    IF samples[r] < MinSample THEN 500
    ELSE Max({300, Min({950, accuracy[r]})})

\* One opinion per reviewer: the report of its last round.
Opinions(rows, a) ==
    {k \in Submitted(rows, a) :
        \A other \in Submitted(rows, a) :
            ReviewerOf(other) = ReviewerOf(k) => RoundOf(other) <= RoundOf(k)}

HardVeto(rows, a) ==
    \/ \E k \in Opinions(rows, a) : rows[k].verdict # "pass"
    \/ \E k \in Submitted(rows, a) : OpenSevere(rows[k])

\* round(1 - prod(1 - w), 3)
Confidence(rows, a) ==
    LET opinions == Opinions(rows, a)
        miss  == FoldSet(LAMBDA k, p : p * (1000 - ComputeWeight(ReviewerOf(k))), 1, opinions)
        scale == 1000 ^ (Cardinality(opinions) - 1)
    IN  1000 - (2 * miss + scale) \div (2 * scale)

CurrentRound(rows, a) ==
    Max({RoundOf(k) : k \in {k \in KeysOf(a) : rows[k].status # "none"}})
Pending(rows, a) ==
    {k \in KeysOf(a) : RoundOf(k) = CurrentRound(rows, a) /\ rows[k].status \in Live}

RerunDecision(rows, a) ==
    CASE HardVeto(rows, a) -> "blocked"
      [] ~HardVeto(rows, a) /\ Pending(rows, a) # {} -> "wait_quorum"
      [] ~HardVeto(rows, a) /\ Pending(rows, a) = {} ->
           CASE Confidence(rows, a) >= Threshold -> "pass"
             [] CurrentRound(rows, a) >= SpecRounds /\ ~(Confidence(rows, a) >= Threshold) -> "exhausted"
             [] OTHER -> "rerun"

\* The submitted report of the highest round, then the latest one.
RerunSource(rows, a) ==
    CHOOSE k \in Submitted(rows, a) :
        rows[k].latest /\ \A other \in Submitted(rows, a) : RoundOf(other) <= RoundOf(k)

NextRound(k) == <<ArtifactOf(k), ReviewerOf(k), RoundOf(k) + 1>>

\* create_rerun_assignment: an error other than a duplicate is a ValueError.
Eligible(k) ==
    /\ Current(ArtifactOf(k))
    /\ ReviewerOf(k) \in available
    /\ artifact[ArtifactOf(k)].by # ReviewerOf(k)

\* The stats are updated report by report (the query has no ORDER BY).
FinalizeScores(rows, a, verdict) ==
    LET open == {k \in KeysOf(a) : rows[k].verdict # "none" /\ ~rows[k].credited}
        Mean(r) ==
            FoldSet(LAMBDA k, mean :
                      (7 * mean + (IF rows[k].verdict = verdict THEN 3000 ELSE 0) + 5) \div 10,
                    accuracy[r], {k \in open : ReviewerOf(k) = r})
    IN  /\ accuracy' = [r \in Reviewers |-> Mean(r)]
        /\ samples' = [r \in Reviewers |->
                         samples[r] + Cardinality({k \in open : ReviewerOf(k) = r})]

\* vote_correct is set: these reports are not counted again.
Credit(rows, a) ==
    [k \in Keys |-> [rows[k] EXCEPT !.credited = @ \/ (ArtifactOf(k) = a /\ rows[k].verdict # "none")]]

----------------------------------------------------------------------------
(* Artifacts. *)

NewReviews(a, r) ==
    {<<a, reviewer, 1>> : reviewer \in (SpecReviewers \intersect available) \ {r}}

\* Deliberately wrong: only the reviews that wait for a report become stale.
PublishKeepingReports(a, r, old) ==
    /\ artifact[a].state = "none"
    /\ {x \in Artifacts : Current(x)} = {old} \ {NoArtifact}
    /\ artifact' = [x \in Artifacts |->
                      CASE x = a -> [state |-> "current", by |-> r]
                        [] x = old -> [artifact[x] EXCEPT !.state = "old"]
                        [] OTHER -> artifact[x]]
    /\ review' = [k \in Keys |->
                    CASE k \in NewReviews(a, r) -> Assignment("assigned")
                      [] ArtifactOf(k) = old /\ review[k].status \in Live ->
                           [review[k] EXCEPT !.status = "stale"]
                      [] OTHER -> review[k]]
    /\ UNCHANGED <<fused, accuracy, samples, available, reports>>

\* artifact.create: the old version and what was said of it become stale, and
\* the first round is assigned.
Publish(a, r, old) ==
    /\ artifact[a].state = "none"
    /\ {x \in Artifacts : Current(x)} = {old} \ {NoArtifact}
    /\ artifact' = [x \in Artifacts |->
                      CASE x = a -> [state |-> "current", by |-> r]
                        [] x = old -> [artifact[x] EXCEPT !.state = "old"]
                        [] OTHER -> artifact[x]]
    /\ review' = [k \in Keys |->
                    CASE k \in NewReviews(a, r) -> Assignment("assigned")
                      [] ArtifactOf(k) = old /\ review[k].status # "none" ->
                           [review[k] EXCEPT !.status = "stale", !.superseded = review[k].issue # "none"]
                      [] OTHER -> review[k]]
    /\ UNCHANGED <<fused, accuracy, samples, available, reports>>

----------------------------------------------------------------------------
(* Assignments and reports. *)

AssignmentTransitions ==
    [assigned |-> {"in_review", "stale", "cancelled"},
     in_review |-> {"submitted", "stale", "cancelled"},
     submitted |-> {"stale"}, stale |-> {}, cancelled |-> {}]

\* lock_assignment and transition: the row exists and the table allows the step.
Assigned(k) == review[k].status # "none"
MayMove(k, target) == Assigned(k) /\ target \in AssignmentTransitions[review[k].status]

StartReview(k) ==
    /\ MayMove(k, "in_review")
    /\ review' = [review EXCEPT ![k].status = "in_review"]
    /\ UNCHANGED <<artifact, fused, accuracy, samples, available, reports>>

\* assign_existing_reviewer: a live assignment moves to another reviewer.
AssignExistingReviewer(k, r) ==
    LET new == <<ArtifactOf(k), r, RoundOf(k)>>
    IN  /\ review[k].status \in Live
        /\ r \in available /\ artifact[ArtifactOf(k)].by # r
        /\ review[new].status = "none"
        /\ review' = [review EXCEPT ![k] = NoAssignment, ![new] = review[k]]
        /\ UNCHANGED <<artifact, fused, accuracy, samples, available, reports>>

\* The guards accept an assigned review, the transition table does not.
Reportable(k) ==
    /\ MayMove(k, "submitted")
    /\ Current(ArtifactOf(k)) /\ artifact[ArtifactOf(k)].by # ReviewerOf(k)

Reported(k, verdict, severe) ==
    [x \in Keys |->
        CASE x = k -> [review[x] EXCEPT !.status = "submitted", !.verdict = verdict, !.latest = TRUE,
                                        !.issue = IF verdict = "pass" THEN "none" ELSE "open",
                                        !.severe = severe]
          [] x # k /\ ArtifactOf(x) = ArtifactOf(k) /\ RoundOf(x) = RoundOf(k) ->
               [review[x] EXCEPT !.latest = FALSE]
          [] OTHER -> review[x]]

\* Deliberately wrong: a rerun that cannot be assigned is forgotten.
AggregateForgetful(rows, a) ==
    LET decision == RerunDecision(rows, a)
        next     == NextRound(RerunSource(rows, a))
    IN  [decision |-> decision, exhausted |-> decision = "exhausted",
         next |-> IF decision = "rerun" /\ Eligible(next) THEN {next} ELSE {}]

\* on_report_submitted: a rerun nobody can do counts as exhausted.
Aggregate(rows, a) ==
    LET decision == RerunDecision(rows, a)
        next     == NextRound(RerunSource(rows, a))
    IN  [decision  |-> decision,
         exhausted |-> decision = "exhausted" \/ (decision = "rerun" /\ ~Eligible(next)),
         next      |-> IF decision = "rerun" /\ Eligible(next) THEN {next} ELSE {}]

\* _upsert_verdict: the row of the artifact takes the last fusion.
VerdictRow(outcome) == [decision |-> outcome.decision, exhausted |-> outcome.exhausted]

\* review.submit: one transaction for the report, its issue, the fused verdict,
\* the scores and the next round; a duplicate key would refuse all of it.
SubmitReview(k, verdict, severe) ==
    LET a       == ArtifactOf(k)
        rows    == Reported(k, verdict, severe)
        outcome == Aggregate(rows, a)
        final   == outcome.decision \in {"pass", "exhausted"}
    IN  /\ Reportable(k) /\ reports < MaxReports
        /\ verdict = "pass" => ~severe
        /\ verdict # "pass" => Cardinality({x \in Keys : review[x].issue # "none"}) < MaxIssues
        /\ \A next \in outcome.next : rows[next].status = "none"
        /\ review' = [x \in Keys |->
                        IF x \in outcome.next THEN Assignment("assigned")
                        ELSE (IF final THEN Credit(rows, a) ELSE rows)[x]]
        /\ fused' = [fused EXCEPT ![a] = VerdictRow(outcome)]
        /\ reports' = reports + 1
        /\ IF final THEN FinalizeScores(rows, a, "pass") ELSE UNCHANGED <<accuracy, samples>>
        /\ UNCHANGED <<artifact, available>>

\* review.rerun, by a user.
RerunReview(k) ==
    /\ review[k].verdict # "none" /\ RoundOf(k) < MaxRound
    /\ Eligible(k) /\ review[NextRound(k)].status = "none"
    /\ review' = [review EXCEPT ![NextRound(k)] = Assignment("assigned")]
    /\ UNCHANGED <<artifact, fused, accuracy, samples, available, reports>>

----------------------------------------------------------------------------
(* Issues. *)

IssueTransitions ==
    [open |-> {"fixing", "rejected"}, fixing |-> {"resolved"},
     resolved |-> {"verified", "fixing"}, verified |-> {"closed", "fixing"},
     closed |-> {}, rejected |-> {}]

HasIssue(k) == review[k].issue # "none"

\* transition_issue: a severe issue is not rejected, an active employee verifies.
MayMoveIssue(k, target) ==
    /\ HasIssue(k) /\ target \in IssueTransitions[review[k].issue]
    /\ target = "rejected" => ~review[k].severe
    /\ target = "verified" => available # {}

\* resolve_issue_with_evidence: a current artifact resolves the issue; whether a
\* repair run and a retest of it exist is left open.
Resolvable(k) == review[k].issue = "fixing" /\ \E a \in Artifacts : Current(a)

TransitionIssue(k, target) ==
    /\ IF target = "resolved" THEN Resolvable(k) ELSE MayMoveIssue(k, target)
    /\ review' = [review EXCEPT ![k].issue = target]
    /\ UNCHANGED <<artifact, fused, accuracy, samples, available, reports>>

\* An employee is archived (module Organisation).
DeactivateEmployee(r) ==
    /\ r \in available
    /\ available' = available \ {r}
    /\ UNCHANGED <<artifact, review, fused, accuracy, samples, reports>>

----------------------------------------------------------------------------
ReviewInit ==
    /\ artifact = [a \in Artifacts |-> [state |-> "none", by |-> NoArtifact]]
    /\ review = [k \in Keys |-> NoAssignment]
    /\ fused = [a \in Artifacts |-> [decision |-> "none", exhausted |-> FALSE]]
    /\ accuracy = [r \in Reviewers |-> 0] /\ samples = [r \in Reviewers |-> 0]
    /\ available = Reviewers /\ reports = 0

ReviewNext ==
    \/ \E a \in Artifacts, r \in Authors, old \in Artifacts \union {NoArtifact} : Publish(a, r, old)
    \/ \E k \in Keys : StartReview(k) \/ RerunReview(k)
    \/ \E k \in Keys, r \in Reviewers : AssignExistingReviewer(k, r)
    \/ \E k \in Keys, verdict \in {"pass", "needs_changes"}, severe \in BOOLEAN :
         SubmitReview(k, verdict, severe)
    \/ \E k \in Keys, target \in DOMAIN IssueTransitions : TransitionIssue(k, target)
    \/ \E r \in Reviewers : DeactivateEmployee(r)

ReviewSpec == ReviewInit /\ [][ReviewNext]_reviewVars

----------------------------------------------------------------------------
(* Properties. *)

\* review_not_submitted, review_not_passed and blocking_issue_open of the gate.
GateReviewed(a) ==
    \A k \in KeysOf(a) : review[k].status \notin {"none", "stale"} =>
        review[k].status = "submitted" /\ review[k].verdict = "pass" /\ ~OpenSevere(review[k])

(***************************************************************************)
(* What counts is about the current version: a live or submitted review,   *)
(* and an open severe issue, belong to a current artifact.  Publishing,    *)
(* reruns, reassignment and issue handling are separate commands; one that *)
(* comes late would let the old version decide about the new one.          *)
(***************************************************************************)
LiveReviewsAreCurrent ==
    \A k \in Keys :
        review[k].status \in Live \union {"submitted"} \/ OpenSevere(review[k]) => Current(ArtifactOf(k))

(***************************************************************************)
(* The gate opens only on a decided deliverable: when no review of it is   *)
(* open and all have passed, the last fusion was final, or it recorded     *)
(* that no further round is possible.                                      *)
(***************************************************************************)
GateMeansDecided ==
    \A a \in Artifacts :
        Current(a) /\ GateReviewed(a) /\ (\E k \in KeysOf(a) : review[k].status # "none") =>
            fused[a].decision \in {"pass", "exhausted"} \/ fused[a].exhausted
=============================================================================
