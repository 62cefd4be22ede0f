----------------------------- MODULE TaskProofs -----------------------------
(***************************************************************************)
(* Reviews of a deliverable, for any artifacts, reviewers and rounds, and  *)
(* the life of a company task, for any plans, departments and tasks.       *)
(***************************************************************************)
EXTENDS Review, TaskLifecycle, WellFoundedInduction, TLAPS

-----------------------------------------------------------------------------
(* The least number principle, for a set instead of a predicate. *)

LEMMA LeastNumber ==
    ASSUME NEW T \in SUBSET Nat, T # {}
    PROVE  \E m \in T : \A n \in T : m <= n
<1> DEFINE R == OpToRel(<, Nat)
<1>1. IsWellFoundedOn(R, Nat)
  BY NatLessThanWellFounded
<1> HIDE DEF R
<1>2. PICK x \in T : \A y \in T : ~ (<<y, x>> \in R)
  BY <1>1, WFMin
<1>3. \A y \in T : y < x => <<y, x>> \in R
  BY DEF R, OpToRel
<1>4. \A y \in T : y \in Nat /\ x \in Nat
  OBVIOUS
<1>5. \A y \in T : ~(y < x)
  BY <1>2, <1>3
<1>6. \A y \in T : x <= y
  BY <1>4, <1>5
<1> QED
  BY <1>6

LEMMA GreatestNumber ==
    ASSUME NEW N \in Nat, NEW T, T # {}, \A n \in T : n \in Nat /\ n <= N
    PROVE  \E m \in T : \A n \in T : n <= m
<1> DEFINE U == {N - n : n \in T}
<1>1. U \in SUBSET Nat /\ U # {}
  <2>1. \A n \in T : N - n \in Nat
    OBVIOUS
  <2> QED
    BY <2>1
<1>2. PICK u \in U : \A w \in U : u <= w
  BY <1>1, LeastNumber
<1>3. PICK m \in T : u = N - m
  BY <1>2
<1>4. \A n \in T : N - m <= N - n
  BY <1>2, <1>3
<1>5. \A n \in T : n \in Int /\ m \in Int
  OBVIOUS
<1> QED
  BY <1>4, <1>5

LEMMA MaxIs ==
    ASSUME NEW N \in Nat, NEW T, T # {}, \A n \in T : n \in Nat /\ n <= N
    PROVE  Max(T) \in T /\ \A n \in T : n <= Max(T)
<1>1. \E m \in T : \A n \in T : m >= n
  BY GreatestNumber
<1>2. Max(T) \in T /\ \A n \in T : Max(T) >= n
  BY <1>1 DEF Max
<1>3. \A n \in T : n \in Int /\ Max(T) \in Int
  BY <1>2
<1> QED
  BY <1>2, <1>3

-----------------------------------------------------------------------------
(* Review. *)

ReviewRow == [status : {"none", "assigned", "in_review", "submitted", "stale"},
              verdict : {"none", "pass", "needs_changes"}, latest : BOOLEAN,
              issue : {"none", "open", "fixing", "resolved", "verified", "closed", "rejected"},
              severe : BOOLEAN, superseded : BOOLEAN, credited : BOOLEAN]

ArtifactRow == [state : {"none", "current", "old"}, by : Authors \cup {NoArtifact}]

ReviewTypeOK ==
    /\ artifact \in [Artifacts -> ArtifactRow]
    /\ review \in [Keys -> ReviewRow]
    /\ DOMAIN fused = Artifacts /\ fused = [a \in Artifacts |-> fused[a]]

\* No issue without a report, and none with a report that passes.
RowSound(row) == row.status = "none" \/ row.verdict = "pass" => row.issue = "none"

\* A round that has a report has a latest one.
LatestThere(rows) ==
    \A k \in Keys : rows[k].status = "submitted" =>
        \E x \in Keys : /\ ArtifactOf(x) = ArtifactOf(k) /\ RoundOf(x) = RoundOf(k)
                        /\ rows[x].status = "submitted" /\ rows[x].latest

ReviewInv ==
    /\ ReviewTypeOK
    /\ \A k \in Keys : RowSound(review[k])
    /\ LiveReviewsAreCurrent
    /\ \A k \in Keys : review[k].status = "stale" => artifact[ArtifactOf(k)].state = "old"
    /\ LatestThere(review)

LEMMA KeyFacts ==
    /\ \A k \in Keys : /\ ArtifactOf(k) \in Artifacts /\ ReviewerOf(k) \in Reviewers
                       /\ RoundOf(k) \in 1..MaxRound
                       /\ k = <<ArtifactOf(k), ReviewerOf(k), RoundOf(k)>>
    /\ \A a \in Artifacts, r \in Reviewers, n \in 1..MaxRound :
          /\ <<a, r, n>> \in Keys /\ ArtifactOf(<<a, r, n>>) = a
          /\ ReviewerOf(<<a, r, n>>) = r /\ RoundOf(<<a, r, n>>) = n
BY DEF Keys, ArtifactOf, ReviewerOf, RoundOf

(* What the commands do to a row. *)

Retired(row) == [row EXCEPT !.state = "old"]
Stale(row) == [row EXCEPT !.status = "stale", !.superseded = row.issue # "none"]
InStatus(row, status) == [row EXCEPT !.status = status]
WithIssue(row, issue) == [row EXCEPT !.issue = issue]
WithReport(row, verdict, severe) ==
    [row EXCEPT !.status = "submitted", !.verdict = verdict, !.latest = TRUE,
                !.issue = IF verdict = "pass" THEN "none" ELSE "open", !.severe = severe]
NotLatest(row) == [row EXCEPT !.latest = FALSE]
WithCredit(row, b) == [row EXCEPT !.credited = b]

LEMMA StaleFacts ==
    ASSUME NEW row \in ReviewRow
    PROVE  /\ Stale(row) \in ReviewRow /\ Stale(row).status = "stale"
           /\ Stale(row).issue = row.issue /\ Stale(row).verdict = row.verdict
           /\ ~OpenSevere(Stale(row))
<1>1. PICK b \in BOOLEAN : b <=> (row.issue # "none")
  BY Zenon
<1>2. Stale(row) = [row EXCEPT !.status = "stale", !.superseded = b]
  BY <1>1, Zenon DEF Stale
<1> DEFINE d == [row EXCEPT !.status = "stale", !.superseded = b]
<1>3. d \in ReviewRow /\ d.status = "stale" /\ d.issue = row.issue /\ d.verdict = row.verdict
      /\ d.superseded = b
  BY DEF ReviewRow
<1> HIDE DEF d
<1>4. ~OpenSevere(d)
  BY <1>1, <1>3 DEF OpenSevere
<1> QED
  BY <1>2, <1>3, <1>4 DEF d

LEMMA StatusFacts ==
    ASSUME NEW row \in ReviewRow, NEW st \in {"assigned", "in_review"}
    PROVE  /\ InStatus(row, st) \in ReviewRow /\ InStatus(row, st).status = st
           /\ InStatus(row, st).issue = row.issue /\ InStatus(row, st).verdict = row.verdict
           /\ InStatus(row, st).severe = row.severe /\ InStatus(row, st).superseded = row.superseded
           /\ InStatus(row, st).latest = row.latest
BY DEF ReviewRow, InStatus

LEMMA IssueFacts ==
    ASSUME NEW row \in ReviewRow,
           NEW is \in {"open", "fixing", "resolved", "verified", "closed", "rejected"}
    PROVE  /\ WithIssue(row, is) \in ReviewRow /\ WithIssue(row, is).status = row.status
           /\ WithIssue(row, is).issue = is /\ WithIssue(row, is).verdict = row.verdict
           /\ WithIssue(row, is).severe = row.severe /\ WithIssue(row, is).superseded = row.superseded
           /\ WithIssue(row, is).latest = row.latest
BY DEF ReviewRow, WithIssue

LEMMA ReportFacts ==
    ASSUME NEW row \in ReviewRow, NEW verdict \in {"pass", "needs_changes"}, NEW severe \in BOOLEAN
    PROVE  /\ WithReport(row, verdict, severe) \in ReviewRow
           /\ WithReport(row, verdict, severe).status = "submitted"
           /\ WithReport(row, verdict, severe).verdict = verdict
           /\ WithReport(row, verdict, severe).latest
           /\ verdict = "pass" => WithReport(row, verdict, severe).issue = "none"
BY DEF ReviewRow, WithReport

LEMMA LatestFacts ==
    ASSUME NEW row \in ReviewRow
    PROVE  /\ NotLatest(row) \in ReviewRow /\ NotLatest(row).status = row.status
           /\ NotLatest(row).issue = row.issue /\ NotLatest(row).verdict = row.verdict
           /\ NotLatest(row).severe = row.severe /\ NotLatest(row).superseded = row.superseded
BY DEF ReviewRow, NotLatest

LEMMA CreditFacts ==
    ASSUME NEW row \in ReviewRow, NEW b \in BOOLEAN
    PROVE  /\ WithCredit(row, b) \in ReviewRow /\ WithCredit(row, b).status = row.status
           /\ WithCredit(row, b).issue = row.issue /\ WithCredit(row, b).verdict = row.verdict
           /\ WithCredit(row, b).severe = row.severe /\ WithCredit(row, b).superseded = row.superseded
           /\ WithCredit(row, b).latest = row.latest
BY DEF ReviewRow, WithCredit

LEMMA NewFacts ==
    /\ \A st \in {"none", "assigned"} :
          /\ Assignment(st) \in ReviewRow /\ Assignment(st).status = st
          /\ Assignment(st).issue = "none" /\ Assignment(st).verdict = "none"
    /\ NoAssignment = Assignment("none")
BY DEF ReviewRow, Assignment, NoAssignment

\* One row changes; one that has a report keeps it.
LEMMA RowMoves ==
    ASSUME ReviewInv, NEW k \in Keys, NEW row \in ReviewRow, review' = [review EXCEPT ![k] = row],
           UNCHANGED <<artifact, fused>>, RowSound(row),
           row.status \in Live \cup {"submitted"} \/ OpenSevere(row) => Current(ArtifactOf(k)),
           row.status = "stale" => review[k].status = "stale",
           row.status = "submitted" <=> review[k].status = "submitted",
           row.status = "submitted" => row.latest = review[k].latest
    PROVE  ReviewInv'
<1> USE DEF ReviewInv
<1>1. review' \in [Keys -> ReviewRow] /\ review'[k] = row
      /\ \A x \in Keys : x # k => review'[x] = review[x]
  BY DEF ReviewTypeOK
<1>2. ReviewTypeOK'
  BY <1>1 DEF ReviewTypeOK
<1>3. \A x \in Keys : RowSound(review'[x])
  BY <1>1
<1>4. LiveReviewsAreCurrent'
  BY <1>1 DEF LiveReviewsAreCurrent, Current
<1>5. \A x \in Keys : review'[x].status = "stale" => artifact'[ArtifactOf(x)].state = "old"
  BY <1>1
<1>6. LatestThere(review')
  <2> SUFFICES ASSUME NEW y \in Keys, review'[y].status = "submitted"
               PROVE  \E x \in Keys : /\ ArtifactOf(x) = ArtifactOf(y) /\ RoundOf(x) = RoundOf(y)
                                      /\ review'[x].status = "submitted" /\ review'[x].latest
    BY DEF LatestThere
  <2>1. review[y].status = "submitted"
    BY <1>1
  <2>2. PICK x \in Keys : /\ ArtifactOf(x) = ArtifactOf(y) /\ RoundOf(x) = RoundOf(y)
                          /\ review[x].status = "submitted" /\ review[x].latest
    BY <2>1 DEF LatestThere
  <2>3. review'[x].status = "submitted" /\ review'[x].latest
    BY <2>2, <1>1
  <2> QED
    BY <2>2, <2>3
<1> QED
  BY <1>2, <1>3, <1>4, <1>5, <1>6

LEMMA StartKeeps ==
    ASSUME ReviewInv, NEW k \in Keys, StartReview(k)
    PROVE  ReviewInv'
<1> DEFINE row == InStatus(review[k], "in_review")
<1>1. review[k] \in ReviewRow /\ UNCHANGED <<artifact, fused>> /\ review' = [review EXCEPT ![k] = row]
  BY DEF StartReview, ReviewInv, ReviewTypeOK, InStatus
<1>2. review[k].status = "assigned"
  BY <1>1 DEF StartReview, MayMove, Assigned, AssignmentTransitions, ReviewRow
<1>3. /\ row \in ReviewRow /\ row.status = "in_review" /\ row.issue = review[k].issue
      /\ row.verdict = review[k].verdict
  BY <1>1, StatusFacts
<1>4. RowSound(review[k]) /\ Current(ArtifactOf(k))
  BY <1>2 DEF ReviewInv, LiveReviewsAreCurrent, Live
<1> HIDE DEF row
<1>5. RowSound(row)
  BY <1>2, <1>3, <1>4 DEF RowSound
<1> QED
  BY <1>1, <1>2, <1>3, <1>4, <1>5, RowMoves

LEMMA RerunKeeps ==
    ASSUME ReviewInv, NEW k \in Keys, RerunReview(k)
    PROVE  ReviewInv'
<1> DEFINE x == NextRound(k)
           row == Assignment("assigned")
<1>1. x \in Keys /\ ArtifactOf(x) = ArtifactOf(k)
  <2>1. ArtifactOf(k) \in Artifacts /\ ReviewerOf(k) \in Reviewers /\ RoundOf(k) \in 1..MaxRound
        /\ RoundOf(k) < MaxRound
    BY KeyFacts DEF RerunReview
  <2>2. RoundOf(k) + 1 \in 1..MaxRound
    BY <2>1, ReviewAssumption
  <2> QED
    BY <2>1, <2>2, KeyFacts DEF NextRound
<1>2. review[x].status = "none" /\ Current(ArtifactOf(k)) /\ UNCHANGED <<artifact, fused>>
      /\ review' = [review EXCEPT ![x] = row]
  BY DEF RerunReview, Eligible
<1>3. row \in ReviewRow /\ row.status = "assigned" /\ row.issue = "none"
  BY NewFacts
<1> HIDE DEF row, x
<1>4. RowSound(row)
  BY <1>3 DEF RowSound
<1> QED
  BY <1>1, <1>2, <1>3, <1>4, RowMoves

LEMMA IssueKeeps ==
    ASSUME ReviewInv, NEW k \in Keys, NEW target \in DOMAIN IssueTransitions, TransitionIssue(k, target)
    PROVE  ReviewInv'
<1> DEFINE row == WithIssue(review[k], target)
<1>1. review[k] \in ReviewRow /\ UNCHANGED <<artifact, fused>> /\ review' = [review EXCEPT ![k] = row]
  BY DEF TransitionIssue, ReviewInv, ReviewTypeOK, WithIssue
<1>2. target \in {"open", "fixing", "resolved", "verified", "closed", "rejected"}
  BY DEF IssueTransitions
<1>3. review[k].issue \notin {"none", "closed", "rejected"}
  <2>1. CASE target = "resolved"
    BY <2>1 DEF TransitionIssue, Resolvable
  <2>2. CASE target # "resolved"
    BY <2>2, <1>1 DEF TransitionIssue, MayMoveIssue, HasIssue, IssueTransitions, ReviewRow
  <2> QED
    BY <2>1, <2>2
<1>4. /\ row \in ReviewRow /\ row.status = review[k].status /\ row.issue = target
      /\ row.verdict = review[k].verdict /\ row.severe = review[k].severe
      /\ row.superseded = review[k].superseded /\ row.latest = review[k].latest
  BY <1>1, <1>2, IssueFacts
<1> HIDE DEF row
<1>5. RowSound(review[k])
  BY DEF ReviewInv
<1>6. RowSound(row)
  BY <1>3, <1>4, <1>5 DEF RowSound
<1>7. OpenSevere(row) => OpenSevere(review[k])
  BY <1>3, <1>4 DEF OpenSevere
<1>8. row.status \in Live \cup {"submitted"} \/ OpenSevere(row) => Current(ArtifactOf(k))
  BY <1>4, <1>7 DEF ReviewInv, LiveReviewsAreCurrent
<1> QED
  BY <1>1, <1>4, <1>6, <1>8, RowMoves

LEMMA AssignKeeps ==
    ASSUME ReviewInv, NEW k \in Keys, NEW r \in Reviewers, AssignExistingReviewer(k, r)
    PROVE  ReviewInv'
<1> USE DEF ReviewInv
<1> DEFINE new == <<ArtifactOf(k), r, RoundOf(k)>>
<1>1. new \in Keys /\ ArtifactOf(new) = ArtifactOf(k)
  BY KeyFacts
<1>2. /\ review[k].status \in Live /\ review[new].status = "none" /\ UNCHANGED <<artifact, fused>>
      /\ review' = [review EXCEPT ![k] = NoAssignment, ![new] = review[k]]
  BY DEF AssignExistingReviewer
<1> HIDE DEF new
<1>3. /\ NoAssignment \in ReviewRow /\ NoAssignment.status = "none" /\ NoAssignment.issue = "none"
  BY NewFacts
<1>4. new # k
  BY <1>2 DEF Live
<1>5. /\ review' \in [Keys -> ReviewRow] /\ review'[k] = NoAssignment /\ review'[new] = review[k]
      /\ \A x \in Keys : x # k /\ x # new => review'[x] = review[x]
  BY <1>1, <1>2, <1>3, <1>4 DEF ReviewTypeOK
<1>6. ReviewTypeOK'
  BY <1>2, <1>5 DEF ReviewTypeOK
<1>7. \A x \in Keys : RowSound(review'[x])
  BY <1>3, <1>5 DEF RowSound
<1>8. LiveReviewsAreCurrent'
  <2>1. Current(ArtifactOf(k))
    BY <1>2 DEF LiveReviewsAreCurrent
  <2>2. ~OpenSevere(NoAssignment) /\ NoAssignment.status \notin Live \cup {"submitted"}
    BY <1>3 DEF OpenSevere, Live
  <2>3. \A a : Current(a)' <=> Current(a)
    BY <1>2 DEF Current
  <2>4. ASSUME NEW x \in Keys, review'[x].status \in Live \cup {"submitted"} \/ OpenSevere(review'[x])
        PROVE  Current(ArtifactOf(x))
    <3>1. CASE x = k
      BY <2>2, <2>4, <3>1, <1>5
    <3>2. CASE x = new
      BY <2>1, <3>2, <1>1
    <3>3. CASE x # k /\ x # new
      BY <2>4, <3>3, <1>5 DEF LiveReviewsAreCurrent
    <3> QED
      BY <3>1, <3>2, <3>3
  <2> QED
    BY <2>3, <2>4 DEF LiveReviewsAreCurrent
<1>9. \A x \in Keys : review'[x].status = "stale" => artifact'[ArtifactOf(x)].state = "old"
  BY <1>1, <1>2, <1>3, <1>5
<1>10. LatestThere(review')
  <2> SUFFICES ASSUME NEW y \in Keys, review'[y].status = "submitted"
               PROVE  \E x \in Keys : /\ ArtifactOf(x) = ArtifactOf(y) /\ RoundOf(x) = RoundOf(y)
                                      /\ review'[x].status = "submitted" /\ review'[x].latest
    BY DEF LatestThere
  <2>1. review[y].status = "submitted"
    BY <1>2, <1>3, <1>5 DEF Live
  <2>2. PICK x \in Keys : /\ ArtifactOf(x) = ArtifactOf(y) /\ RoundOf(x) = RoundOf(y)
                          /\ review[x].status = "submitted" /\ review[x].latest
    BY <2>1 DEF LatestThere
  <2>3. review'[x].status = "submitted" /\ review'[x].latest
    BY <2>2, <1>2, <1>5 DEF Live
  <2> QED
    BY <2>2, <2>3
<1> QED
  BY <1>6, <1>7, <1>8, <1>9, <1>10

LEMMA PublishKeeps ==
    ASSUME ReviewInv, NEW a \in Artifacts, NEW r \in Authors, NEW old \in Artifacts \cup {NoArtifact},
           Publish(a, r, old)
    PROVE  ReviewInv'
<1> USE DEF ReviewInv
<1> DEFINE new == NewReviews(a, r)
<1>1. /\ artifact[a].state = "none" /\ UNCHANGED fused
      /\ \A x \in Artifacts : Current(x) => x = old
  BY DEF Publish
<1>2. old # a
  BY <1>1, ReviewAssumption DEF Publish, Current
<1>3. /\ artifact' \in [Artifacts -> ArtifactRow]
      /\ artifact'[a].state = "current" /\ (old \in Artifacts => artifact'[old].state = "old")
      /\ \A x \in Artifacts : x # a /\ x # old => artifact'[x] = artifact[x]
  <2> DEFINE g(x) == CASE x = a -> [state |-> "current", by |-> r]
                       [] x = old -> Retired(artifact[x])
                       [] OTHER -> artifact[x]
  <2>1. artifact' = [x \in Artifacts |-> g(x)]
    BY DEF Publish, Retired
  <2>2. \A x \in Artifacts : /\ x = a => g(x) = [state |-> "current", by |-> r]
                             /\ x = old => g(x) = Retired(artifact[x])
                             /\ x # a /\ x # old => g(x) = artifact[x]
    BY <1>2
  <2> HIDE DEF g
  <2>3. [state |-> "current", by |-> r] \in ArtifactRow
    BY DEF ArtifactRow
  <2>4. \A x \in Artifacts : artifact[x] \in ArtifactRow
    BY DEF ReviewTypeOK
  <2>5. \A x \in Artifacts : Retired(artifact[x]) \in ArtifactRow /\ Retired(artifact[x]).state = "old"
    BY <2>4 DEF ArtifactRow, Retired
  <2>6. \A x \in Artifacts : g(x) \in ArtifactRow
    BY <2>2, <2>3, <2>4, <2>5
  <2> QED
    BY <2>1, <2>2, <2>5, <2>6
<1>4. \A k \in new : k \in Keys /\ ArtifactOf(k) = a
  BY KeyFacts, ReviewAssumption DEF NewReviews
<1> HIDE DEF new
<1>5. \A k \in Keys :
         \/ k \in new /\ review'[k] = Assignment("assigned")
         \/ k \notin new /\ ArtifactOf(k) = old /\ review[k].status # "none" /\ review'[k] = Stale(review[k])
         \/ /\ k \notin new /\ ~(ArtifactOf(k) = old /\ review[k].status # "none")
            /\ review'[k] = review[k]
  <2>1. review' = [k \in Keys |->
                    CASE k \in new -> Assignment("assigned")
                      [] ArtifactOf(k) = old /\ review[k].status # "none" -> Stale(review[k])
                      [] OTHER -> review[k]]
    BY Zenon DEF Publish, Stale, new
  <2>2. \A k \in new : ArtifactOf(k) # old
    BY <1>2, <1>4
  <2> QED
    BY <2>1, <2>2
<1>6. \A k \in Keys : review[k] \in ReviewRow /\ RowSound(review[k]) /\ ArtifactOf(k) \in Artifacts
  BY KeyFacts DEF ReviewTypeOK
<1>7. \A k \in Keys :
         \/ /\ ArtifactOf(k) = a /\ review'[k] \in ReviewRow /\ review'[k].status = "assigned"
            /\ review'[k].issue = "none"
         \/ /\ ArtifactOf(k) = old /\ review'[k] \in ReviewRow /\ review'[k].status = "stale"
            /\ review'[k].issue = review[k].issue /\ review'[k].verdict = review[k].verdict
            /\ ~OpenSevere(review'[k]) /\ review[k].status # "none"
         \/ /\ ArtifactOf(k) = old /\ review[k].status = "none" /\ review'[k] = review[k]
         \/ /\ ArtifactOf(k) # old /\ review'[k] = review[k]
  <2> SUFFICES ASSUME NEW k \in Keys
               PROVE
         \/ /\ ArtifactOf(k) = a /\ review'[k] \in ReviewRow /\ review'[k].status = "assigned"
            /\ review'[k].issue = "none"
         \/ /\ ArtifactOf(k) = old /\ review'[k] \in ReviewRow /\ review'[k].status = "stale"
            /\ review'[k].issue = review[k].issue /\ review'[k].verdict = review[k].verdict
            /\ ~OpenSevere(review'[k]) /\ review[k].status # "none"
         \/ /\ ArtifactOf(k) = old /\ review[k].status = "none" /\ review'[k] = review[k]
         \/ /\ ArtifactOf(k) # old /\ review'[k] = review[k]
    OBVIOUS
  <2>1. CASE k \in new /\ review'[k] = Assignment("assigned")
    BY <2>1, <1>4, NewFacts
  <2>2. CASE ArtifactOf(k) = old /\ review[k].status # "none" /\ review'[k] = Stale(review[k])
    BY <2>2, <1>6, StaleFacts
  <2>3. CASE ~(ArtifactOf(k) = old /\ review[k].status # "none") /\ review'[k] = review[k]
    BY <2>3
  <2> QED
    BY <1>5, <2>1, <2>2, <2>3
<1>8. review' \in [Keys -> ReviewRow]
  <2> DEFINE g(k) == CASE k \in new -> Assignment("assigned")
                       [] ArtifactOf(k) = old /\ review[k].status # "none" -> Stale(review[k])
                       [] OTHER -> review[k]
  <2>0. review' = [k \in Keys |-> g(k)]
    BY Zenon DEF Publish, Stale, new
  <2> HIDE DEF g
  <2>1. review' = [k \in Keys |-> review'[k]]
    BY <2>0
  <2>2. \A k \in Keys : review'[k] \in ReviewRow
    BY <1>6, <1>7
  <2> QED
    BY <2>1, <2>2
<1>9. ReviewTypeOK'
  BY <1>1, <1>3, <1>8 DEF ReviewTypeOK
<1>10. \A k \in Keys : RowSound(review'[k])
  BY <1>6, <1>7 DEF RowSound
<1>11. ASSUME NEW k \in Keys, review'[k].status \in Live \cup {"submitted"} \/ OpenSevere(review'[k])
       PROVE  Current(ArtifactOf(k))'
  <2>1. CASE ArtifactOf(k) = a
    BY <2>1, <1>3 DEF Current
  <2>2. CASE ArtifactOf(k) = old
    <3>1. review[k].status = "none" => ~OpenSevere(review[k])
      BY <1>6 DEF RowSound, OpenSevere
    <3> QED
      BY <3>1, <2>2, <1>2, <1>7, <1>11 DEF Live
  <2>3. CASE ArtifactOf(k) # a /\ ArtifactOf(k) # old
    <3>1. review'[k] = review[k]
      BY <2>3, <1>7
    <3>2. Current(ArtifactOf(k))
      BY <3>1, <1>11 DEF LiveReviewsAreCurrent
    <3> QED
      BY <3>2, <2>3, <1>1, <1>6
  <2> QED
    BY <2>1, <2>2, <2>3
<1>12. \A k \in Keys : review'[k].status = "stale" => artifact'[ArtifactOf(k)].state = "old"
  <2> SUFFICES ASSUME NEW k \in Keys, review'[k].status = "stale"
               PROVE  artifact'[ArtifactOf(k)].state = "old"
    OBVIOUS
  <2>1. CASE ArtifactOf(k) = old
    BY <2>1, <1>3, <1>6
  <2>2. CASE ArtifactOf(k) # old
    <3>1. review'[k] = review[k] /\ artifact[ArtifactOf(k)].state = "old"
      BY <2>2, <1>7
    <3>2. ArtifactOf(k) # a
      BY <3>1, <1>1
    <3> QED
      BY <3>1, <3>2, <2>2, <1>3, <1>6
  <2> QED
    BY <2>1, <2>2
<1>13. LatestThere(review')
  <2> SUFFICES ASSUME NEW y \in Keys, review'[y].status = "submitted"
               PROVE  \E x \in Keys : /\ ArtifactOf(x) = ArtifactOf(y) /\ RoundOf(x) = RoundOf(y)
                                      /\ review'[x].status = "submitted" /\ review'[x].latest
    BY DEF LatestThere
  <2>1. ArtifactOf(y) # old /\ review'[y] = review[y]
    BY <1>7
  <2>2. Current(ArtifactOf(y))
    BY <2>1 DEF LiveReviewsAreCurrent
  <2> QED
    BY <2>1, <2>2, <1>1, <1>6
<1> QED
  BY <1>9, <1>10, <1>11, <1>12, <1>13 DEF LiveReviewsAreCurrent

(* review.submit: the rows after the report, and after the whole transaction. *)

LEMMA ReportedIs ==
    ASSUME ReviewTypeOK, NEW k \in Keys, NEW verdict \in {"pass", "needs_changes"}, NEW severe \in BOOLEAN
    PROVE  /\ Reported(k, verdict, severe) \in [Keys -> ReviewRow]
           /\ Reported(k, verdict, severe)[k] = WithReport(review[k], verdict, severe)
           /\ \A x \in Keys : x # k /\ ArtifactOf(x) = ArtifactOf(k) /\ RoundOf(x) = RoundOf(k)
                 => Reported(k, verdict, severe)[x] = NotLatest(review[x])
           /\ \A x \in Keys : x # k /\ ~(ArtifactOf(x) = ArtifactOf(k) /\ RoundOf(x) = RoundOf(k))
                 => Reported(k, verdict, severe)[x] = review[x]
<1> DEFINE g(x) == CASE x = k -> WithReport(review[x], verdict, severe)
                     [] x # k /\ ArtifactOf(x) = ArtifactOf(k) /\ RoundOf(x) = RoundOf(k) ->
                          NotLatest(review[x])
                     [] OTHER -> review[x]
<1>1. Reported(k, verdict, severe) = [x \in Keys |-> g(x)]
  BY Zenon DEF Reported, WithReport, NotLatest
<1>2. /\ g(k) = WithReport(review[k], verdict, severe)
      /\ \A x \in Keys : x # k /\ ArtifactOf(x) = ArtifactOf(k) /\ RoundOf(x) = RoundOf(k)
            => g(x) = NotLatest(review[x])
      /\ \A x \in Keys : x # k /\ ~(ArtifactOf(x) = ArtifactOf(k) /\ RoundOf(x) = RoundOf(k))
            => g(x) = review[x]
  OBVIOUS
<1> HIDE DEF g
<1>3. \A x \in Keys : review[x] \in ReviewRow
  BY DEF ReviewTypeOK
<1>4. \A x \in Keys : NotLatest(review[x]) \in ReviewRow
  BY <1>3, LatestFacts
<1>5. WithReport(review[k], verdict, severe) \in ReviewRow
  BY <1>3, ReportFacts
<1>6. \A x \in Keys : g(x) \in ReviewRow
  BY <1>2, <1>3, <1>4, <1>5
<1> QED
  BY <1>1, <1>2, <1>6

Agrees(p, q) ==
    /\ p.status = q.status /\ p.verdict = q.verdict /\ p.issue = q.issue
    /\ p.severe = q.severe /\ p.superseded = q.superseded /\ p.latest = q.latest

LEMMA SubmitIs ==
    ASSUME ReviewTypeOK, NEW k \in Keys, NEW verdict \in {"pass", "needs_changes"}, NEW severe \in BOOLEAN,
           SubmitReview(k, verdict, severe),
           NEW rows, rows = Reported(k, verdict, severe),
           NEW next, next = Aggregate(rows, ArtifactOf(k)).next
    PROVE  /\ review' \in [Keys -> ReviewRow]
           /\ \A x \in Keys \cap next : review'[x] = Assignment("assigned")
           /\ \A x \in Keys \ next : Agrees(review'[x], rows[x])
           /\ \A x \in next : rows[x].status = "none"
<1> DEFINE a == ArtifactOf(k)
           outcome == Aggregate(rows, a)
           final == outcome.decision \in {"pass", "exhausted"}
           g(x) == IF x \in next THEN Assignment("assigned")
                   ELSE (IF final THEN Credit(rows, a) ELSE rows)[x]
<1>1. review' = [x \in Keys |-> g(x)] /\ \A x \in next : rows[x].status = "none"
  BY Zenon DEF SubmitReview
<1>2. rows \in [Keys -> ReviewRow]
  BY ReportedIs
<1>3. \A x \in Keys : \E b \in BOOLEAN : Credit(rows, a)[x] = WithCredit(rows[x], b)
  <2> SUFFICES ASSUME NEW x \in Keys
               PROVE  \E b \in BOOLEAN : Credit(rows, a)[x] = WithCredit(rows[x], b)
    OBVIOUS
  <2>1. PICK b \in BOOLEAN : b <=> (rows[x].credited \/ (ArtifactOf(x) = a /\ rows[x].verdict # "none"))
    BY Zenon
  <2>2. b = (rows[x].credited \/ (ArtifactOf(x) = a /\ rows[x].verdict # "none"))
    BY <2>1, Zenon
  <2>3. Credit(rows, a)[x] =
          [rows[x] EXCEPT !.credited = rows[x].credited \/ (ArtifactOf(x) = a /\ rows[x].verdict # "none")]
    BY Zenon DEF Credit
  <2> QED
    BY <2>2, <2>3, Zenon DEF WithCredit
<1>4. \A x \in Keys : Credit(rows, a)[x] \in ReviewRow /\ Agrees(Credit(rows, a)[x], rows[x])
  BY <1>2, <1>3, CreditFacts DEF Agrees
<1>5. \A x \in Keys \ next : g(x) = Credit(rows, a)[x] \/ g(x) = rows[x]
  <2>1. CASE final
    BY <2>1
  <2>2. CASE ~final
    BY <2>2
  <2> QED
    BY <2>1, <2>2
<1>6. \A x \in Keys \cap next : g(x) = Assignment("assigned")
  OBVIOUS
<1> HIDE DEF g
<1>7. \A x \in Keys \ next : g(x) \in ReviewRow /\ Agrees(g(x), rows[x])
  BY <1>2, <1>4, <1>5 DEF Agrees
<1>8. \A x \in Keys : g(x) \in ReviewRow
  BY <1>6, <1>7, NewFacts
<1> QED
  BY <1>1, <1>6, <1>7, <1>8

\* The invariant holds of the rows after the report.
LEMMA ReportedKeeps ==
    ASSUME ReviewInv, NEW k \in Keys, NEW verdict \in {"pass", "needs_changes"}, NEW severe \in BOOLEAN,
           Reportable(k), NEW rows, rows = Reported(k, verdict, severe)
    PROVE  /\ \A x \in Keys : RowSound(rows[x])
           /\ \A x \in Keys : rows[x].status \in Live \cup {"submitted"} \/ OpenSevere(rows[x])
                 => Current(ArtifactOf(x))
           /\ \A x \in Keys : rows[x].status = "stale" => review[x].status = "stale"
           /\ LatestThere(rows) /\ rows[k].status = "submitted"
<1> USE DEF ReviewInv
<1>1. ReviewTypeOK /\ \A x \in Keys : review[x] \in ReviewRow
  BY DEF ReviewTypeOK
<1>2. /\ rows[k] \in ReviewRow /\ rows[k].status = "submitted" /\ rows[k].verdict = verdict
      /\ rows[k].latest /\ (verdict = "pass" => rows[k].issue = "none")
  <2>1. rows[k] = WithReport(review[k], verdict, severe)
    BY <1>1, ReportedIs
  <2> DEFINE row == WithReport(review[k], verdict, severe)
  <2>2. /\ row \in ReviewRow /\ row.status = "submitted" /\ row.verdict = verdict
        /\ row.latest /\ (verdict = "pass" => row.issue = "none")
    BY <1>1, ReportFacts
  <2> QED
    BY <2>1, <2>2
<1>3. \A x \in Keys : x # k =>
         /\ rows[x].status = review[x].status /\ rows[x].verdict = review[x].verdict
         /\ rows[x].issue = review[x].issue /\ rows[x].severe = review[x].severe
         /\ rows[x].superseded = review[x].superseded
         /\ ~(ArtifactOf(x) = ArtifactOf(k) /\ RoundOf(x) = RoundOf(k)) => rows[x] = review[x]
  <2> SUFFICES ASSUME NEW x \in Keys, x # k
               PROVE  /\ rows[x].status = review[x].status /\ rows[x].verdict = review[x].verdict
                      /\ rows[x].issue = review[x].issue /\ rows[x].severe = review[x].severe
                      /\ rows[x].superseded = review[x].superseded
                      /\ ~(ArtifactOf(x) = ArtifactOf(k) /\ RoundOf(x) = RoundOf(k)) => rows[x] = review[x]
    OBVIOUS
  <2>1. CASE ArtifactOf(x) = ArtifactOf(k) /\ RoundOf(x) = RoundOf(k)
    <3>1. rows[x] = NotLatest(review[x])
      BY <2>1, <1>1, ReportedIs
    <3> QED
      BY <3>1, <2>1, <1>1, LatestFacts
  <2>2. CASE ~(ArtifactOf(x) = ArtifactOf(k) /\ RoundOf(x) = RoundOf(k))
    BY <2>2, <1>1, ReportedIs
  <2> QED
    BY <2>1, <2>2
<1>4. \A x \in Keys : RowSound(rows[x])
  BY <1>2, <1>3 DEF RowSound
<1>5. Current(ArtifactOf(k))
  BY DEF Reportable
<1>6. \A x \in Keys : x # k => (OpenSevere(rows[x]) <=> OpenSevere(review[x]))
  BY <1>3 DEF OpenSevere
<1>7. \A x \in Keys : rows[x].status \in Live \cup {"submitted"} \/ OpenSevere(rows[x])
                => Current(ArtifactOf(x))
  BY <1>3, <1>5, <1>6 DEF LiveReviewsAreCurrent
<1>8. \A x \in Keys : rows[x].status = "stale" => review[x].status = "stale"
  BY <1>2, <1>3
<1>9. LatestThere(rows)
  <2> SUFFICES ASSUME NEW y \in Keys, rows[y].status = "submitted"
               PROVE  \E x \in Keys : /\ ArtifactOf(x) = ArtifactOf(y) /\ RoundOf(x) = RoundOf(y)
                                      /\ rows[x].status = "submitted" /\ rows[x].latest
    BY DEF LatestThere
  <2>1. CASE ArtifactOf(y) = ArtifactOf(k) /\ RoundOf(y) = RoundOf(k)
    <3>1. rows[k].latest
      BY <1>2
    <3> QED
      BY <3>1, <2>1, <1>2
  <2>2. CASE ~(ArtifactOf(y) = ArtifactOf(k) /\ RoundOf(y) = RoundOf(k))
    <3>1. y # k /\ review[y].status = "submitted"
      BY <2>2, <1>3
    <3>2. PICK x \in Keys : /\ ArtifactOf(x) = ArtifactOf(y) /\ RoundOf(x) = RoundOf(y)
                            /\ review[x].status = "submitted" /\ review[x].latest
      BY <3>1 DEF LatestThere
    <3>3. rows[x] = review[x]
      BY <3>2, <2>2, <1>3
    <3> QED
      BY <3>2, <3>3
  <2> QED
    BY <2>1, <2>2
<1> QED
  BY <1>2, <1>4, <1>7, <1>8, <1>9

LEMMA SubmitKeeps ==
    ASSUME ReviewInv, NEW k \in Keys, NEW verdict \in {"pass", "needs_changes"}, NEW severe \in BOOLEAN,
           SubmitReview(k, verdict, severe)
    PROVE  ReviewInv'
<1> USE DEF ReviewInv
<1> DEFINE rows == Reported(k, verdict, severe)
           next == Aggregate(rows, ArtifactOf(k)).next
<1>1. Reportable(k) /\ UNCHANGED artifact
      /\ fused' = [fused EXCEPT ![ArtifactOf(k)] = VerdictRow(Aggregate(rows, ArtifactOf(k)))]
  BY DEF SubmitReview
<1>2. \A x \in next : Eligible(x)
  BY DEF Aggregate
<1>3. /\ review' \in [Keys -> ReviewRow]
      /\ \A x \in Keys \cap next : review'[x] = Assignment("assigned")
      /\ \A x \in Keys \ next : Agrees(review'[x], rows[x])
      /\ \A x \in next : rows[x].status = "none"
  BY SubmitIs
<1>4. /\ \A x \in Keys : RowSound(rows[x])
      /\ \A x \in Keys : rows[x].status \in Live \cup {"submitted"} \/ OpenSevere(rows[x])
            => Current(ArtifactOf(x))
      /\ \A x \in Keys : rows[x].status = "stale" => review[x].status = "stale"
      /\ LatestThere(rows)
  BY <1>1, ReportedKeeps
<1>5. ReviewTypeOK'
  <2>1. DOMAIN fused' = Artifacts /\ fused' = [x \in Artifacts |-> fused'[x]]
    BY <1>1 DEF ReviewTypeOK
  <2> QED
    BY <2>1, <1>1, <1>3 DEF ReviewTypeOK
<1> HIDE DEF rows, next
<1>6. \A x \in Keys \cap next : /\ review'[x].status = "assigned" /\ review'[x].issue = "none"
                                 /\ Current(ArtifactOf(x))
  BY <1>2, <1>3, NewFacts DEF Eligible
<1>7. \A x \in Keys : RowSound(review'[x])
  BY <1>3, <1>4, <1>6 DEF RowSound, Agrees
<1>8. ASSUME NEW x \in Keys, review'[x].status \in Live \cup {"submitted"} \/ OpenSevere(review'[x])
      PROVE  Current(ArtifactOf(x))'
  <2>1. x \notin next => rows[x].status \in Live \cup {"submitted"} \/ OpenSevere(rows[x])
    BY <1>3, <1>8 DEF Agrees, OpenSevere
  <2>2. Current(ArtifactOf(x))
    BY <2>1, <1>4, <1>6
  <2> QED
    BY <2>2, <1>1 DEF Current
<1>9. \A x \in Keys : review'[x].status = "stale" => artifact'[ArtifactOf(x)].state = "old"
  BY <1>1, <1>3, <1>4, <1>6 DEF Agrees
<1>10. LatestThere(review')
  <2> SUFFICES ASSUME NEW y \in Keys, review'[y].status = "submitted"
               PROVE  \E x \in Keys : /\ ArtifactOf(x) = ArtifactOf(y) /\ RoundOf(x) = RoundOf(y)
                                      /\ review'[x].status = "submitted" /\ review'[x].latest
    BY DEF LatestThere
  <2>1. rows[y].status = "submitted"
    BY <1>3, <1>6 DEF Agrees
  <2>2. PICK x \in Keys : /\ ArtifactOf(x) = ArtifactOf(y) /\ RoundOf(x) = RoundOf(y)
                          /\ rows[x].status = "submitted" /\ rows[x].latest
    BY <2>1, <1>4 DEF LatestThere
  <2>3. x \notin next
    BY <2>2, <1>3
  <2>4. review'[x].status = "submitted" /\ review'[x].latest
    BY <2>2, <2>3, <1>3 DEF Agrees
  <2> QED
    BY <2>2, <2>4
<1> QED
  BY <1>5, <1>7, <1>8, <1>9, <1>10 DEF LiveReviewsAreCurrent

LEMMA ReviewStep ==
    ASSUME ReviewInv, [ReviewNext]_reviewVars
    PROVE  ReviewInv'
<1>1. CASE UNCHANGED reviewVars \/ \E r \in Reviewers : DeactivateEmployee(r)
  <2>1. UNCHANGED <<artifact, review, fused>>
    BY <1>1 DEF reviewVars, DeactivateEmployee
  <2> QED
    BY <2>1 DEF ReviewInv, ReviewTypeOK, LiveReviewsAreCurrent, Current
<1> QED
  BY <1>1, PublishKeeps, StartKeeps, RerunKeeps, AssignKeeps, SubmitKeeps, IssueKeeps DEF ReviewNext

LEMMA ReviewBegins == ReviewInit => ReviewInv
<1> SUFFICES ASSUME ReviewInit
             PROVE  ReviewInv
  OBVIOUS
<1>1. ReviewTypeOK
  BY NewFacts DEF ReviewInit, ReviewTypeOK, ArtifactRow
<1>2. \A k \in Keys : review[k].status = "none" /\ review[k].issue = "none"
  BY NewFacts DEF ReviewInit
<1> QED
  BY <1>1, <1>2 DEF ReviewInv, RowSound, LiveReviewsAreCurrent, OpenSevere, LatestThere, Live

(***************************************************************************)
(* What counts is about the current version, for any artifacts, reviewers  *)
(* and rounds: no sequence of publications, reports, reruns, reassignments *)
(* and issue commands lets a superseded version decide.                    *)
(***************************************************************************)
THEOREM ReviewsFollowTheArtifact == ReviewSpec => []LiveReviewsAreCurrent
<1>1. ReviewInv => LiveReviewsAreCurrent
  BY DEF ReviewInv
<1> QED
  BY <1>1, ReviewBegins, ReviewStep, PTL DEF ReviewSpec

-----------------------------------------------------------------------------
(* The gate of a deliverable. *)

Decided(a) == fused[a].decision \in {"pass", "exhausted"} \/ fused[a].exhausted

\* A review that is not finished keeps the gate shut.
LEMMA LiveBlocks ==
    ASSUME NEW k \in Keys, review'[k].status \in Live
    PROVE  ~GateReviewed(ArtifactOf(k))'
BY DEF GateReviewed, KeysOf, Live

\* The source of a rerun is a report of the highest round that has one.
LEMMA RerunSourceIs ==
    ASSUME NEW rows, LatestThere(rows), NEW k \in Keys, rows[k].status = "submitted",
           NEW a, a = ArtifactOf(k)
    PROVE  /\ RerunSource(rows, a) \in Submitted(rows, a)
           /\ \A y \in Submitted(rows, a) : RoundOf(y) <= RoundOf(RerunSource(rows, a))
<1> DEFINE S == Submitted(rows, a)
           T == {RoundOf(y) : y \in S}
<1>1. k \in S /\ \A y \in S : y \in Keys /\ rows[y].status = "submitted" /\ ArtifactOf(y) = a
  BY DEF Submitted, KeysOf
<1>2. \A y \in S : RoundOf(y) \in Nat /\ RoundOf(y) <= MaxRound
  BY <1>1, KeyFacts, ReviewAssumption
<1>3. T # {} /\ \A n \in T : n \in Nat /\ n <= MaxRound
  BY <1>1, <1>2
<1>4. PICK m \in T : \A n \in T : n <= m
  BY <1>3, GreatestNumber, ReviewAssumption
<1>5. PICK y \in S : RoundOf(y) = m
  BY <1>4
<1>6. PICK x \in Keys : /\ ArtifactOf(x) = ArtifactOf(y) /\ RoundOf(x) = RoundOf(y)
                        /\ rows[x].status = "submitted" /\ rows[x].latest
  BY <1>1, <1>5 DEF LatestThere
<1>7. x \in S
  BY <1>1, <1>5, <1>6 DEF Submitted, KeysOf
<1>8. \A z \in S : RoundOf(z) <= RoundOf(x)
  BY <1>4, <1>5, <1>6
<1>9. \E z \in S : rows[z].latest /\ \A other \in S : RoundOf(other) <= RoundOf(z)
  BY <1>6, <1>7, <1>8
<1> QED
  BY <1>9 DEF RerunSource

\* A rerun is possible in the table: its round is at most MaxRound.
LEMMA RerunFits ==
    ASSUME NEW rows, LatestThere(rows), NEW k \in Keys, rows[k].status = "submitted",
           NEW a, a = ArtifactOf(k), ~(CurrentRound(rows, a) >= SpecRounds)
    PROVE  /\ NextRound(RerunSource(rows, a)) \in Keys
           /\ ArtifactOf(NextRound(RerunSource(rows, a))) = a
<1> DEFINE x == RerunSource(rows, a)
           T == {RoundOf(y) : y \in {y \in KeysOf(a) : rows[y].status # "none"}}
<1>1. x \in Keys /\ ArtifactOf(x) = a /\ rows[x].status = "submitted"
  BY RerunSourceIs DEF Submitted, KeysOf
<1> HIDE DEF x
<1>2. RoundOf(x) \in T
  BY <1>1 DEF KeysOf
<1>3. \A n \in T : n \in Nat /\ n <= MaxRound
  BY KeyFacts, ReviewAssumption DEF KeysOf
<1>4. CurrentRound(rows, a) = Max(T)
  BY DEF CurrentRound
<1> HIDE DEF T
<1>5. Max(T) \in T /\ RoundOf(x) <= Max(T)
  BY <1>2, <1>3, MaxIs, ReviewAssumption
<1>6. RoundOf(x) \in Nat /\ Max(T) \in Nat /\ SpecRounds \in Nat /\ SpecRounds <= MaxRound
      /\ MaxRound \in Nat
  BY <1>2, <1>3, <1>5, ReviewAssumption
<1>7. RoundOf(x) + 1 \in 1..MaxRound
  BY <1>4, <1>5, <1>6
<1>8. ArtifactOf(x) \in Artifacts /\ ReviewerOf(x) \in Reviewers
  BY <1>1, KeyFacts
<1> QED
  BY <1>1, <1>7, <1>8, KeyFacts DEF NextRound, x

LEMMA SubmitDecides ==
    ASSUME ReviewInv, NEW k \in Keys, NEW verdict \in {"pass", "needs_changes"}, NEW severe \in BOOLEAN,
           SubmitReview(k, verdict, severe), GateReviewed(ArtifactOf(k))'
    PROVE  Decided(ArtifactOf(k))'
<1> DEFINE a == ArtifactOf(k)
           rows == Reported(k, verdict, severe)
           next == Aggregate(rows, a).next
           decision == RerunDecision(rows, a)
           nx == NextRound(RerunSource(rows, a))
<1>1. Reportable(k) /\ fused' = [fused EXCEPT ![a] = VerdictRow(Aggregate(rows, a))]
  BY DEF SubmitReview
<1>2. /\ \A x \in Keys \cap next : review'[x] = Assignment("assigned")
      /\ \A x \in Keys \ next : Agrees(review'[x], rows[x])
  BY SubmitIs DEF ReviewInv
<1>3. /\ \A x \in Keys : RowSound(rows[x])
      /\ LatestThere(rows) /\ rows[k].status = "submitted"
  BY <1>1, ReportedKeeps
<1>4. next = IF decision = "rerun" /\ Eligible(nx) THEN {nx} ELSE {}
  BY DEF Aggregate
<1>5. /\ VerdictRow(Aggregate(rows, a)).decision = decision
      /\ VerdictRow(Aggregate(rows, a)).exhausted <=>
            (decision = "exhausted" \/ (decision = "rerun" /\ ~Eligible(nx)))
  BY DEF Aggregate, VerdictRow
<1>6. fused'[a] = VerdictRow(Aggregate(rows, a))
  BY <1>1, KeyFacts DEF ReviewInv, ReviewTypeOK
<1>7. \A x \in KeysOf(a) : x \in Keys /\ x \notin next
  <2> SUFFICES ASSUME NEW x \in KeysOf(a)
               PROVE  x \in Keys /\ x \notin next
    OBVIOUS
  <2>1. x \in Keys /\ ArtifactOf(x) = a
    BY DEF KeysOf
  <2>2. CASE x \in next
    <3>1. review'[x].status \in Live
      BY <2>1, <2>2, <1>2, NewFacts DEF Live
    <3> QED
      BY <3>1, <2>1, LiveBlocks
  <2> QED
    BY <2>1, <2>2
<1> HIDE DEF rows, next, decision, nx
<1>8. \A x \in KeysOf(a) : rows[x].status \in {"none", "stale"}
         \/ (rows[x].status = "submitted" /\ rows[x].verdict = "pass" /\ ~OpenSevere(rows[x]))
  <2> SUFFICES ASSUME NEW x \in KeysOf(a), rows[x].status \notin {"none", "stale"}
               PROVE  rows[x].status = "submitted" /\ rows[x].verdict = "pass" /\ ~OpenSevere(rows[x])
    OBVIOUS
  <2>1. Agrees(review'[x], rows[x]) /\ RowSound(rows[x])
    BY <1>2, <1>3, <1>7
  <2>2. review'[x].status = "submitted" /\ review'[x].verdict = "pass"
    BY <2>1 DEF GateReviewed, Agrees, KeysOf
  <2> QED
    BY <2>1, <2>2 DEF Agrees, RowSound, OpenSevere
<1>9. ~HardVeto(rows, a)
  BY <1>8 DEF HardVeto, Opinions, Submitted
<1>10. Pending(rows, a) = {}
  BY <1>8 DEF Pending, Live
<1>11. decision \in {"pass", "exhausted"}
       \/ (decision = "rerun" /\ ~(CurrentRound(rows, a) >= SpecRounds))
  BY <1>9, <1>10 DEF RerunDecision, decision
<1>12. CASE decision = "rerun" /\ ~(CurrentRound(rows, a) >= SpecRounds)
  <2>1. nx \in KeysOf(a)
    BY <1>3, <1>12, RerunFits DEF KeysOf, nx
  <2>2. ~Eligible(nx)
    BY <2>1, <1>4, <1>7, <1>12
  <2> QED
    BY <2>2, <1>5, <1>6, <1>12 DEF Decided
<1> QED
  BY <1>5, <1>6, <1>11, <1>12 DEF Decided

\* The gate of an artifact that a step leaves alone.
LEMMA GateStays ==
    ASSUME GateMeansDecided, NEW a \in Artifacts, Current(a)' => Current(a), fused'[a] = fused[a],
           \A k \in KeysOf(a) : review'[k] = review[k],
           Current(a)', GateReviewed(a)', \E k \in KeysOf(a) : review'[k].status # "none"
    PROVE  Decided(a)'
<1>1. GateReviewed(a)
  BY DEF GateReviewed
<1>2. Decided(a)
  BY <1>1 DEF GateMeansDecided, Decided
<1> QED
  BY <1>2 DEF Decided

LEMMA GateStep ==
    ASSUME ReviewInv, GateMeansDecided, [ReviewNext]_reviewVars
    PROVE  GateMeansDecided'
<1> SUFFICES ASSUME NEW a \in Artifacts, Current(a)', GateReviewed(a)',
                    \E k \in KeysOf(a) : review'[k].status # "none"
             PROVE  Decided(a)'
  BY DEF GateMeansDecided, Decided, KeysOf, ArtifactOf, Keys
<1>0. review \in [Keys -> ReviewRow] /\ \A k \in KeysOf(a) : k \in Keys /\ ArtifactOf(k) = a
  BY DEF ReviewInv, ReviewTypeOK, KeysOf
<1>1. CASE UNCHANGED reviewVars \/ \E r \in Reviewers : DeactivateEmployee(r)
  <2>1. UNCHANGED <<artifact, review, fused>>
    BY <1>1 DEF reviewVars, DeactivateEmployee
  <2> QED
    BY <2>1, GateStays DEF Current
<1>2. ASSUME UNCHANGED <<artifact, fused>>, NEW x \in Keys, review'[x].status \in Live,
             \A k \in Keys : ArtifactOf(k) # ArtifactOf(x) => review'[k] = review[k]
      PROVE  Decided(a)'
  <2>1. ArtifactOf(x) # a
    BY <1>2, LiveBlocks
  <2>2. \A k \in KeysOf(a) : review'[k] = review[k]
    BY <2>1, <1>0, <1>2
  <2> QED
    BY <2>2, <1>2, GateStays DEF Current
<1>3. ASSUME NEW k \in Keys, StartReview(k)
      PROVE  Decided(a)'
  <2>1. review' = [review EXCEPT ![k] = InStatus(review[k], "in_review")] /\ UNCHANGED <<artifact, fused>>
    BY <1>3 DEF StartReview, InStatus
  <2>2. InStatus(review[k], "in_review").status = "in_review"
    BY <1>0, StatusFacts
  <2>3. review'[k].status \in Live /\ \A x \in Keys : x # k => review'[x] = review[x]
    BY <2>1, <2>2, <1>0 DEF Live
  <2> QED
    BY <2>1, <2>3, <1>2
<1>4. ASSUME NEW k \in Keys, RerunReview(k)
      PROVE  Decided(a)'
  <2>1. NextRound(k) \in Keys
    <3>1. ArtifactOf(k) \in Artifacts /\ ReviewerOf(k) \in Reviewers /\ RoundOf(k) \in 1..MaxRound
          /\ RoundOf(k) < MaxRound
      BY <1>4, KeyFacts DEF RerunReview
    <3>2. RoundOf(k) + 1 \in 1..MaxRound
      BY <3>1, ReviewAssumption
    <3> QED
      BY <3>1, <3>2, KeyFacts DEF NextRound
  <2>2. review' = [review EXCEPT ![NextRound(k)] = Assignment("assigned")] /\ UNCHANGED <<artifact, fused>>
    BY <1>4 DEF RerunReview
  <2>3. review'[NextRound(k)].status \in Live
        /\ \A x \in Keys : x # NextRound(k) => review'[x] = review[x]
    BY <2>1, <2>2, <1>0, NewFacts DEF Live
  <2> QED
    BY <2>1, <2>2, <2>3, <1>2
<1>5. ASSUME NEW k \in Keys, NEW r \in Reviewers, AssignExistingReviewer(k, r)
      PROVE  Decided(a)'
  <2> DEFINE new == <<ArtifactOf(k), r, RoundOf(k)>>
  <2>1. new \in Keys /\ ArtifactOf(new) = ArtifactOf(k)
    BY KeyFacts
  <2>2. /\ review[k].status \in Live /\ UNCHANGED <<artifact, fused>>
        /\ review' = [review EXCEPT ![k] = NoAssignment, ![new] = review[k]]
    BY <1>5 DEF AssignExistingReviewer
  <2> HIDE DEF new
  <2>3. review'[new] = review[k] /\ \A x \in Keys : ArtifactOf(x) # ArtifactOf(k) => review'[x] = review[x]
    BY <2>1, <2>2, <1>0
  <2> QED
    BY <2>1, <2>2, <2>3, <1>2
<1>6. ASSUME NEW k \in Keys, NEW target \in DOMAIN IssueTransitions, TransitionIssue(k, target)
      PROVE  Decided(a)'
  <2>1. review' = [review EXCEPT ![k] = WithIssue(review[k], target)] /\ UNCHANGED <<artifact, fused>>
    BY <1>6 DEF TransitionIssue, WithIssue
  <2>2. target \in {"open", "fixing", "resolved", "verified", "closed", "rejected"}
    BY DEF IssueTransitions
  <2>3. /\ WithIssue(review[k], target).status = review[k].status
        /\ WithIssue(review[k], target).verdict = review[k].verdict
    BY <2>2, <1>0, IssueFacts
  <2>4. \A x \in Keys : review'[x].status = review[x].status /\ review'[x].verdict = review[x].verdict
    BY <2>1, <2>3, <1>0
  <2>5. \A x \in KeysOf(a) : review[x].status \notin {"none", "stale"} =>
            review[x].status = "submitted" /\ review[x].verdict = "pass"
    BY <2>4, <1>0 DEF GateReviewed
  <2>6. \A x \in KeysOf(a) : RowSound(review[x])
    BY <1>0 DEF ReviewInv
  <2>7. GateReviewed(a)
    BY <2>5, <2>6 DEF GateReviewed, RowSound, OpenSevere
  <2>8. Current(a) /\ \E x \in KeysOf(a) : review[x].status # "none"
    BY <2>1, <2>4, <1>0 DEF Current
  <2>9. Decided(a)
    BY <2>7, <2>8 DEF GateMeansDecided, Decided
  <2> QED
    BY <2>1, <2>9 DEF Decided
<1>7. ASSUME NEW b \in Artifacts, NEW r \in Authors, NEW old \in Artifacts \cup {NoArtifact},
             Publish(b, r, old)
      PROVE  Decided(a)'
  <2> DEFINE new == NewReviews(b, r)
  <2>1. artifact[b].state = "none" /\ UNCHANGED fused
    BY <1>7 DEF Publish
  <2>2. old # b
    <3>1. {x \in Artifacts : Current(x)} = {old} \ {NoArtifact}
      BY <1>7 DEF Publish
    <3>2. ~Current(b) /\ b # NoArtifact
      BY <2>1, ReviewAssumption DEF Current
    <3> QED
      BY <3>1, <3>2, Zenon
  <2>3. a # old
    BY <1>7, <2>2 DEF Publish, Current, ReviewInv, ReviewTypeOK, ArtifactRow
  <2>4. \A k \in new : k \in Keys /\ ArtifactOf(k) = b
    BY KeyFacts, ReviewAssumption DEF NewReviews
  <2>5. review' = [k \in Keys |->
                     CASE k \in new -> Assignment("assigned")
                       [] ArtifactOf(k) = old /\ review[k].status # "none" -> Stale(review[k])
                       [] OTHER -> review[k]]
    BY <1>7, Zenon DEF Publish, Stale
  <2> HIDE DEF new
  <2>6. \A k \in KeysOf(a) : k \notin new => review'[k] = review[k]
    BY <2>3, <2>5, <1>0
  <2>7. CASE a = b
    <3>1. \A k \in KeysOf(a) : review[k].status = "none"
      BY <2>1, <2>7, <1>0 DEF ReviewInv, LiveReviewsAreCurrent, Current, Live, ReviewRow
    <3>2. PICK k \in KeysOf(a) : k \in new
      BY <3>1, <2>6
    <3>3. review'[k] = Assignment("assigned")
      BY <3>2, <2>2, <2>4, <2>5
    <3>4. review'[k].status \in Live
      BY <3>3, NewFacts DEF Live
    <3> QED
      BY <3>4, <1>0, LiveBlocks
  <2>8. CASE a # b
    <3>1. \A k \in KeysOf(a) : review'[k] = review[k]
      BY <2>4, <2>6, <2>8, <1>0
    <3>2. Current(a)' => Current(a)
      BY <1>7, <2>3, <2>8 DEF Publish, Current
    <3> QED
      BY <3>1, <3>2, <2>1, GateStays
  <2> QED
    BY <2>7, <2>8
<1>8. ASSUME NEW k \in Keys, NEW verdict \in {"pass", "needs_changes"}, NEW severe \in BOOLEAN,
             SubmitReview(k, verdict, severe)
      PROVE  Decided(a)'
  <2>1. CASE a = ArtifactOf(k)
    BY <1>8, <2>1, SubmitDecides
  <2>2. CASE a # ArtifactOf(k)
    <3> DEFINE rows == Reported(k, verdict, severe)
               next == Aggregate(rows, ArtifactOf(k)).next
    <3>1. UNCHANGED artifact
          /\ fused' = [fused EXCEPT ![ArtifactOf(k)] = VerdictRow(Aggregate(rows, ArtifactOf(k)))]
      BY <1>8 DEF SubmitReview
    <3>2. fused'[a] = fused[a]
      BY <3>1, <2>2 DEF ReviewInv, ReviewTypeOK
    <3>3. \A x \in KeysOf(a) : rows[x] = review[x]
      BY <2>2, <1>0, ReportedIs DEF ReviewInv
    <3>4. /\ \A x \in Keys \cap next : review'[x] = Assignment("assigned")
          /\ \A x \in Keys \ next : Agrees(review'[x], rows[x])
      BY <1>8, SubmitIs DEF ReviewInv
    <3> HIDE DEF rows, next
    <3>5. \A x \in KeysOf(a) : x \notin next
      <4> SUFFICES ASSUME NEW x \in KeysOf(a), x \in next
                   PROVE  FALSE
        OBVIOUS
      <4>1. review'[x].status \in Live
        BY <3>4, <1>0, NewFacts DEF Live
      <4> QED
        BY <4>1, <1>0, LiveBlocks
    <3>6. \A x \in KeysOf(a) : Agrees(review'[x], review[x])
      BY <3>3, <3>4, <3>5, <1>0
    <3>7. GateReviewed(a) /\ (\E x \in KeysOf(a) : review[x].status # "none") /\ Current(a)
      BY <3>1, <3>6, <1>0 DEF GateReviewed, Agrees, OpenSevere, Current
    <3>8. Decided(a)
      BY <3>7 DEF GateMeansDecided, Decided
    <3> QED
      BY <3>2, <3>8 DEF Decided
  <2> QED
    BY <2>1, <2>2
<1> QED
  BY <1>1, <1>3, <1>4, <1>5, <1>6, <1>7, <1>8 DEF ReviewNext

(***************************************************************************)
(* The gate opens only on a decided deliverable, for any artifacts,        *)
(* reviewers, rounds, weights and confidences.                             *)
(***************************************************************************)
THEOREM GatesOpenOnDecisions == ReviewSpec => []GateMeansDecided
<1>1. ReviewInit => GateMeansDecided
  <2>1. ReviewInit => \A k \in Keys : review[k].status = "none"
    BY NewFacts DEF ReviewInit
  <2> QED
    BY <2>1 DEF GateMeansDecided, KeysOf
<1> QED
  BY <1>1, ReviewBegins, ReviewStep, GateStep, PTL DEF ReviewSpec

-----------------------------------------------------------------------------
(* TaskLifecycle.  The transaction of the OutboxWorker, row by row. *)

TxStart ==
    [company |-> company, dept |-> dept, task |-> task, run |-> run,
     dispatched |-> dispatched, out |-> <<>>, failed |-> failed, poison |-> FALSE]

\* The recursion of Batch has a solution, so Batch is its last value.
LEMMA BatchUnfolds ==
    ASSUME NEW first, NEW lost, Len(outbox) \in Nat
    PROVE  \E after : /\ after[0] = TxStart
                      /\ \A n \in 1..Len(outbox) : after[n] = Dispatch(after[n - 1], outbox[n], first, lost)
                      /\ Batch(first, lost) = after[Len(outbox)]
<1> DEFINE N == Len(outbox)
           D(x, i) == Dispatch(x, outbox[i], first, lost)
           Body(f, n) == [i \in 0..n |-> IF i = 0 THEN TxStart ELSE D(f[i - 1], i)]
<1>1. Batch(first, lost) = (CHOOSE f : f = Body(f, N))[N]
  BY DEF Batch, TxStart
<1> HIDE DEF D
<1>2. \A n \in Nat : \E f : f = Body(f, n)
  <2> DEFINE T == {n \in Nat : ~ \E f : f = Body(f, n)}
  <2> SUFFICES ASSUME T # {} PROVE FALSE
    OBVIOUS
  <2>1. PICK m \in T : \A n \in T : m <= n
    BY LeastNumber
  <2>2. CASE m = 0
    <3> DEFINE f == [i \in 0..0 |-> TxStart]
    <3>1. f = Body(f, 0)
      OBVIOUS
    <3> QED
      BY <2>1, <2>2, <3>1
  <2>3. CASE m # 0
    <3>1. m \in Nat /\ m - 1 \in Nat /\ m - 1 \notin T
      <4>1. m \in Nat
        BY <2>1
      <4>2. m - 1 \in Nat /\ ~(m <= m - 1)
        BY <4>1, <2>3
      <4> HIDE DEF T
      <4> QED
        BY <2>1, <4>1, <4>2
    <3>2. PICK f : f = Body(f, m - 1)
      BY <3>1
    <3> DEFINE g == [i \in 0..m |-> IF i = m THEN D(f[m - 1], m) ELSE f[i]]
    <3>3. \A i \in 0..(m - 1) : f[i] = IF i = 0 THEN TxStart ELSE D(f[i - 1], i)
      BY <3>2
    <3>4. \A i \in 0..m : g[i] = IF i = 0 THEN TxStart ELSE D(g[i - 1], i)
      <4> SUFFICES ASSUME NEW i \in 0..m PROVE g[i] = IF i = 0 THEN TxStart ELSE D(g[i - 1], i)
        OBVIOUS
      <4>1. CASE i = m
        <5>1. g[i] = D(f[m - 1], m) /\ g[i - 1] = f[m - 1]
          BY <3>1, <4>1, <2>3
        <5> QED
          BY <5>1, <4>1, <2>3
      <4>2. CASE i # m
        <5>1. i \in 0..(m - 1) /\ g[i] = f[i] /\ (i # 0 => g[i - 1] = f[i - 1])
          BY <3>1, <4>2
        <5> QED
          BY <5>1, <3>3
      <4> QED
        BY <4>1, <4>2
    <3>5. g = [i \in 0..m |-> g[i]]
      OBVIOUS
    <3> HIDE DEF g
    <3>6. g = Body(g, m)
      BY <3>4, <3>5
    <3> QED
      BY <2>1, <3>6
  <2> QED
    BY <2>2, <2>3
<1>3. \E f : f = Body(f, N)
  BY <1>2
<1>4. PICK f : f = Body(f, N) /\ Batch(first, lost) = f[N]
  BY <1>1, <1>3
<1>5. /\ f[0] = TxStart
      /\ \A n \in 1..N : f[n] = D(f[n - 1], n)
  BY <1>4
<1> QED
  BY <1>4, <1>5 DEF D

-----------------------------------------------------------------------------
(* Rows. *)

IsRow(row) == row = [status |-> row.status, resume |-> row.resume]
IsTaskRow(row) == row = [dept |-> row.dept, status |-> row.status, resume |-> row.resume]
IsTx(s) ==
    s = [company |-> s.company, dept |-> s.dept, task |-> s.task, run |-> s.run,
         dispatched |-> s.dispatched, out |-> s.out, failed |-> s.failed, poison |-> s.poison]

OutboxIds == Tasks \cup Depts \cup {NoState, "company", "review"}
OutboxTopics ==
    {"run.completed", "review.submitted", "review.issue_changed", "employee_task.status_changed",
     "employee_task.graph_advance", "department_task.status_changed", "company_task.analysis.requested"}
OutboxStates == {"succeeded", "failed", "closed", "accepted", "completed", "none"}
OutboxRow ==
    {e \in [topic : OutboxTopics, id : OutboxIds, to : OutboxStates] :
        e.topic = "employee_task.status_changed" => e.id \in Tasks}

TableRows(co, dp, tk, rn, ds) ==
    /\ IsRow(co)
    /\ dp = [d \in Depts |-> dp[d]]
    /\ \A d \in Depts : IsRow(dp[d]) /\ dp[d].status \in {"none", "ready", "completed"}
    /\ tk = [t \in Tasks |-> tk[t]]
    /\ \A t \in Tasks : IsTaskRow(tk[t]) /\ tk[t].dept \in Depts \cup {NoState}
    /\ rn = [t \in Tasks |-> rn[t]] /\ ds = [t \in Tasks |-> ds[t]]

\* A task that waits returns to assigned, and a deferred one has had no run.
Waits(tk, ds) ==
    \A t \in Tasks : tk[t].status = "waiting_resource" =>
        tk[t].resume = "assigned" /\ (Deferred(t) => ds[t] = 0)

Untouched(dp, tk, ds) ==
    /\ \A d \in Depts : dp[d].status = "none"
    /\ \A t \in Tasks : tk[t].status = "none" /\ ds[t] = 0

Ripe(tk, t) ==
    /\ tk[t].status = "waiting_resource" /\ Deferred(t)
    /\ \A u \in Upstream(t) : tk[u].status = "accepted"
Advances(e, t) == e.topic = "employee_task.graph_advance" /\ e.id \in Upstream(t)

CompanyOk(co) ==
    /\ co.status \in {"analyzing", "awaiting_user_confirmation", "revision_requested", "rejected",
                      "executing", "reviewing", "fixing", "paused", "cancelling", "cancelled", "completed"}
    /\ co.status = "paused" => co.resume \in {"executing", "reviewing", "fixing"}

TaskInv ==
    /\ content \in Plans
    /\ TableRows(company, dept, task, run, dispatched) /\ outbox \in Seq(OutboxRow)
    /\ Waits(task, dispatched) /\ CompanyOk(company)
    /\ plan \in {"draft", "awaiting_user_confirmation", "approved", "superseded", "rejected"}
    /\ plan # "approved" => Untouched(dept, task, dispatched) /\ contributed = {} /\ evidence = {}
    /\ \A t \in Tasks : Ripe(task, t) => \E i \in 1..Len(outbox) : Advances(outbox[i], t)

LEMMA ForgottenInv == TaskInv => NoSegmentForgotten
<1> SUFFICES ASSUME TaskInv, NEW t \in Tasks, Ripe(task, t)
             PROVE  \E i \in DOMAIN outbox : /\ outbox[i].topic = "employee_task.graph_advance"
                                             /\ outbox[i].id \in Upstream(t)
  BY DEF NoSegmentForgotten, Ripe
<1>1. DOMAIN outbox = 1..Len(outbox)
  BY DEF TaskInv
<1> QED
  BY <1>1 DEF TaskInv, Advances

\* What the transaction has done so far.
TxDepts(s) ==
    \A d \in Depts : s.dept[d].status = "completed" /\ dept[d].status # "completed" =>
        \A t \in Tasks : s.task[t].dept = d =>
            /\ s.task[t].status \in {"accepted", "cancelled"}
            /\ s.run[t] \notin {"queued", "running"} /\ t \notin approvals
TxCompany(s) ==
    s.company.status = "completed" /\ company.status # "completed" =>
        \A d \in content.depts : s.dept[d].status = "completed"
TxSent(s) ==
    \A t \in Tasks : Deferred(t) /\ s.dispatched[t] # dispatched[t] =>
        s.dispatched[t] = 1 /\ \A u \in Upstream(t) : s.task[u].status = "accepted"
TxMoved(s) ==
    /\ s.company = company \/ s.company.status = "completed"
    /\ \A d \in Depts : s.dept[d] = dept[d] \/ s.dept[d].status = "completed"
    /\ \A t \in Tasks :
          \/ s.task[t] = task[t] \/ s.task[t].status = "accepted"
          \/ task[t].status = "running" /\ s.task[t].status = "submitted"
          \/ task[t].status = "waiting_resource" /\ s.task[t].status \in {"assigned", "failed"}

TxFits(s) ==
    /\ TableRows(s.company, s.dept, s.task, s.run, s.dispatched) /\ s.out \in Seq(OutboxRow)
    /\ Waits(s.task, s.dispatched)
    /\ plan # "approved" => Untouched(s.dept, s.task, s.dispatched)
    /\ TxDepts(s) /\ TxCompany(s) /\ TxSent(s) /\ TxMoved(s)

\* Every ripe segment is announced by a row that is still to come.
TxPending(s, n) ==
    \A t \in Tasks : Ripe(s.task, t) =>
        \/ \E i \in (n + 1)..Len(outbox) : Advances(outbox[i], t)
        \/ \E i \in 1..Len(s.out) : Advances(s.out[i], t)

TxInv(s, n) == IsTx(s) /\ s.poison \in BOOLEAN /\ (~s.poison => TxFits(s) /\ TxPending(s, n))

LEMMA PlanFacts ==
    ASSUME TaskInv
    PROVE  /\ content.tasks \subseteq Tasks /\ content.depts \subseteq Depts
           /\ \A t \in Tasks : Upstream(t) \subseteq content.tasks
           /\ \A t \in content.tasks : content.deptOf[t] \in content.depts
BY PlanAssumption DEF TaskInv, Upstream

\* A row that is written.
LEMMA Appended ==
    ASSUME NEW rows \in Seq(OutboxRow), NEW e \in OutboxRow, NEW new, new = Append(rows, e)
    PROVE  /\ new \in Seq(OutboxRow) /\ Len(new) = Len(rows) + 1 /\ new[Len(new)] = e
           /\ \A i \in 1..Len(rows) : new[i] = rows[i]
OBVIOUS

LEMMA EventRow ==
    ASSUME NEW topic \in OutboxTopics, NEW id \in OutboxIds, NEW to \in OutboxStates,
           topic = "employee_task.status_changed" => id \in Tasks
    PROVE  Event(topic, id, to) \in OutboxRow
BY DEF Event, OutboxRow

LEMMA EventFields ==
    ASSUME NEW topic, NEW id, NEW to
    PROVE  Event(topic, id, to).topic = topic /\ Event(topic, id, to).id = id /\ Event(topic, id, to).to = to
BY DEF Event

\* Which rows are kept.
LEMMA PostFields ==
    ASSUME NEW rows, NEW id
    PROVE  /\ Post(rows, Event("employee_task.status_changed", id, "accepted"))
                = Append(rows, Event("employee_task.status_changed", id, "accepted"))
           /\ Post(rows, Event("employee_task.graph_advance", id, "accepted"))
                = Append(rows, Event("employee_task.graph_advance", id, "accepted"))
           /\ Post(rows, Event("department_task.status_changed", id, "completed"))
                = Append(rows, Event("department_task.status_changed", id, "completed"))
           /\ Post(rows, Event("employee_task.status_changed", id, "submitted")) = rows
BY DEF Post, Kept, Event, ProjectionOnly, Triggers

RowIn(row, status) == [row EXCEPT !.status = status]
TxTask(s, tk, out) == [s EXCEPT !.task = tk, !.out = out]
TxDept(s, dp, out) == [s EXCEPT !.dept = dp, !.out = out]

LEMMA TaskRowIn ==
    ASSUME NEW row, IsTaskRow(row), NEW status, NEW n, n = RowIn(row, status)
    PROVE  IsTaskRow(n) /\ n.status = status /\ n.dept = row.dept /\ n.resume = row.resume
BY DEF IsTaskRow, RowIn

LEMMA DeptRowIn ==
    ASSUME NEW row, IsRow(row), NEW status, NEW n, n = RowIn(row, status)
    PROVE  IsRow(n) /\ n.status = status /\ n.resume = row.resume
BY DEF IsRow, RowIn

LEMMA TxTaskFields ==
    ASSUME NEW s, IsTx(s), NEW tk, NEW out, NEW n, n = TxTask(s, tk, out)
    PROVE  /\ IsTx(n) /\ n.task = tk /\ n.out = out /\ n.company = s.company /\ n.dept = s.dept
           /\ n.run = s.run /\ n.dispatched = s.dispatched /\ n.poison = s.poison
BY DEF IsTx, TxTask

LEMMA TxDeptFields ==
    ASSUME NEW s, IsTx(s), NEW dp, NEW out, NEW n, n = TxDept(s, dp, out)
    PROVE  /\ IsTx(n) /\ n.dept = dp /\ n.out = out /\ n.company = s.company /\ n.task = s.task
           /\ n.run = s.run /\ n.dispatched = s.dispatched /\ n.poison = s.poison
BY DEF IsTx, TxDept

LEMMA PoisonFields ==
    ASSUME NEW s, IsTx(s), NEW n, n = Poison(s)
    PROVE  IsTx(n) /\ n.poison = TRUE
BY DEF IsTx, Poison

LEMMA PoisonKeeps ==
    ASSUME NEW s, IsTx(s), NEW n, NEW x, x = Poison(s)
    PROVE  TxInv(x, n)
BY PoisonFields DEF TxInv

\* A row that is not an advance of the graph announces nothing.
LEMMA SameKeeps ==
    ASSUME NEW s, NEW n \in 1..Len(outbox), outbox \in Seq(OutboxRow), TxInv(s, n - 1),
           outbox[n].topic # "employee_task.graph_advance"
    PROVE  TxInv(s, n)
<1>1. ASSUME ~s.poison PROVE TxPending(s, n)
  <2> SUFFICES ASSUME NEW t \in Tasks, Ripe(s.task, t)
               PROVE  \/ \E i \in (n + 1)..Len(outbox) : Advances(outbox[i], t)
                      \/ \E i \in 1..Len(s.out) : Advances(s.out[i], t)
    BY DEF TxPending
  <2>1. \/ \E i \in ((n - 1) + 1)..Len(outbox) : Advances(outbox[i], t)
        \/ \E i \in 1..Len(s.out) : Advances(s.out[i], t)
    BY <1>1 DEF TxInv, TxPending
  <2>2. CASE \E i \in ((n - 1) + 1)..Len(outbox) : Advances(outbox[i], t)
    <3>1. PICK i \in ((n - 1) + 1)..Len(outbox) : Advances(outbox[i], t)
      BY <2>2
    <3>2. i # n
      BY <3>1 DEF Advances
    <3>3. i \in (n + 1)..Len(outbox)
      BY <3>2
    <3> QED
      BY <3>1, <3>3
  <2> QED
    BY <2>1, <2>2
<1> QED
  BY <1>1 DEF TxInv

LEMMA AcceptTx ==
    ASSUME TaskInv, NEW s, NEW n \in 1..Len(outbox), TxInv(s, n), ~s.poison, NEW t \in Tasks,
           contributed # {} => task[t].status # "none", NEW x, x = AcceptEmployeeTask(s, t)
    PROVE  TxInv(x, n)
<1> DEFINE e1 == Event("employee_task.status_changed", t, "accepted")
           e2 == Event("employee_task.graph_advance", t, "accepted")
           row == RowIn(s.task[t], "accepted")
           tk == [s.task EXCEPT ![t] = row]
           out == Append(Append(s.out, e1), e2)
<1>1. IsTx(s) /\ TxFits(s) /\ TxPending(s, n)
  BY DEF TxInv
<1>2. /\ TableRows(s.company, s.dept, s.task, s.run, s.dispatched) /\ s.out \in Seq(OutboxRow)
      /\ Waits(s.task, s.dispatched) /\ TxDepts(s) /\ TxCompany(s) /\ TxSent(s) /\ TxMoved(s)
  BY <1>1 DEF TxFits
<1>3. CASE ~EmployeeGate(s, t)
  BY <1>3 DEF AcceptEmployeeTask
<1>4. CASE EmployeeGate(s, t) /\ ~ResumeOk([s.task[t] EXCEPT !.status = "accepted"])
  <2>1. x = Poison(s)
    BY <1>4 DEF AcceptEmployeeTask
  <2> QED
    BY <1>1, <2>1, PoisonKeeps
<1>5. CASE EmployeeGate(s, t) /\ ResumeOk([s.task[t] EXCEPT !.status = "accepted"])
  <2>1. IsTaskRow(s.task[t]) /\ s.task = [u \in Tasks |-> s.task[u]]
    BY <1>2 DEF TableRows
  <2>2. x = [s EXCEPT !.task[t].status = "accepted", !.out = Post(Post(s.out, e1), e2)]
    BY <1>5, <1>1 DEF AcceptEmployeeTask, IsTx
  <2>3. Post(Post(s.out, e1), e2) = out
    BY PostFields
  <2> HIDE DEF e1, e2, out
  <2>4. x = TxTask(s, tk, out)
    BY <1>1, <2>1, <2>2, <2>3 DEF TxTask, RowIn, IsTx
  <2>5. IsTaskRow(row) /\ row.status = "accepted" /\ row.dept = s.task[t].dept
    BY <2>1, TaskRowIn
  <2> HIDE DEF row
  <2>6. tk = [u \in Tasks |-> tk[u]] /\ \A u \in Tasks : tk[u] = IF u = t THEN row ELSE s.task[u]
    BY <2>1
  <2> HIDE DEF tk
  <2>7. /\ IsTx(x) /\ x.task = tk /\ x.out = out /\ x.company = s.company /\ x.dept = s.dept
        /\ x.run = s.run /\ x.dispatched = s.dispatched /\ x.poison = s.poison
    BY <1>1, <2>4, TxTaskFields
  <2>8. e1 \in OutboxRow /\ e2 \in OutboxRow /\ e2.topic = "employee_task.graph_advance" /\ e2.id = t
    <3>1. {"employee_task.status_changed", "employee_task.graph_advance"} \subseteq OutboxTopics /\ "accepted" \in OutboxStates
      BY DEF OutboxTopics, OutboxStates
    <3>2. t \in OutboxIds
      BY DEF OutboxIds
    <3>3. e1 \in OutboxRow
      BY <3>1, <3>2, EventRow DEF e1
    <3>4. e2 \in OutboxRow
      BY <3>1, <3>2, EventRow DEF e2
    <3> QED
      BY <3>3, <3>4, EventFields DEF e2
  <2>9. /\ out \in Seq(OutboxRow) /\ Len(out) \in Nat /\ Len(out) \in 1..Len(out) /\ out[Len(out)] = e2
        /\ \A i \in 1..Len(s.out) : i \in 1..Len(out) /\ out[i] = s.out[i]
    BY <1>2, <2>8, Appended DEF out
  <2>10. TableRows(x.company, x.dept, x.task, x.run, x.dispatched)
    BY <1>2, <2>5, <2>6, <2>7 DEF TableRows
  <2>11. Waits(x.task, x.dispatched)
    BY <1>2, <2>5, <2>6, <2>7 DEF Waits
  <2>12. plan = "approved"
    BY <1>5, TaskInv DEF EmployeeGate, TaskInv
  <2>13. TxDepts(x)
    BY <1>2, <2>5, <2>6, <2>7 DEF TxDepts
  <2>14. TxCompany(x) /\ TxMoved(x)
    BY <1>2, <2>5, <2>6, <2>7 DEF TxCompany, TxMoved
  <2>15. TxSent(x)
    BY <1>2, <2>5, <2>6, <2>7, PlanFacts DEF TxSent
  <2>16. TxPending(x, n)
    <3> SUFFICES ASSUME NEW u \in Tasks, Ripe(x.task, u)
                 PROVE  \/ \E i \in (n + 1)..Len(outbox) : Advances(outbox[i], u)
                        \/ \E i \in 1..Len(x.out) : Advances(x.out[i], u)
      BY DEF TxPending
    <3>1. CASE t \in Upstream(u)
      BY <3>1, <2>7, <2>8, <2>9 DEF Advances
    <3>2. CASE t \notin Upstream(u)
      <4>1. Ripe(s.task, u)
        BY <3>2, <2>5, <2>6, <2>7, PlanFacts DEF Ripe
      <4>2. \/ \E i \in (n + 1)..Len(outbox) : Advances(outbox[i], u)
            \/ \E i \in 1..Len(s.out) : Advances(s.out[i], u)
        BY <1>1, <4>1 DEF TxPending
      <4> QED
        BY <4>2, <2>7, <2>9
    <3> QED
      BY <3>1, <3>2
  <2> QED
    BY <2>7, <2>9, <2>10, <2>11, <2>12, <2>13, <2>14, <2>15, <2>16 DEF TxInv, TxFits
<1> QED
  BY <1>3, <1>4, <1>5

LEMMA SubmitTx ==
    ASSUME TaskInv, NEW s, NEW n \in 1..Len(outbox), TxInv(s, n), ~s.poison, NEW t,
           NEW x, x = SubmitEmployeeTask(s, t)
    PROVE  TxInv(x, n)
<1> DEFINE row == RowIn(s.task[t], "submitted")
           tk == [s.task EXCEPT ![t] = row]
           e == Event("employee_task.status_changed", t, "submitted")
<1>1. IsTx(s) /\ TxFits(s) /\ TxPending(s, n)
  BY DEF TxInv
<1>2. /\ TableRows(s.company, s.dept, s.task, s.run, s.dispatched) /\ s.out \in Seq(OutboxRow)
      /\ Waits(s.task, s.dispatched) /\ TxDepts(s) /\ TxCompany(s) /\ TxSent(s) /\ TxMoved(s)
      /\ plan # "approved" => Untouched(s.dept, s.task, s.dispatched)
  BY <1>1 DEF TxFits
<1>3. CASE ~(s.run[t] = "succeeded" /\ s.task[t].status = "running")
  BY <1>3 DEF SubmitEmployeeTask
<1>4. CASE s.run[t] = "succeeded" /\ s.task[t].status = "running"
  <2>1. s.task = [u \in Tasks |-> s.task[u]]
    BY <1>2 DEF TableRows
  <2>2. x = [s EXCEPT !.task[t].status = "submitted", !.out = Post(s.out, e)]
    BY <1>4, <1>1 DEF SubmitEmployeeTask, IsTx
  <2>3. Post(s.out, e) = s.out
    BY PostFields
  <2> HIDE DEF e
  <2>4. x = TxTask(s, tk, s.out)
    BY <1>1, <2>1, <2>2, <2>3 DEF TxTask, RowIn, IsTx
  <2>5. t \in Tasks => IsTaskRow(row) /\ row.status = "submitted" /\ row.dept = s.task[t].dept
    <3>1. t \in Tasks => IsTaskRow(s.task[t])
      BY <1>2 DEF TableRows
    <3> QED
      BY <3>1, TaskRowIn
  <2> HIDE DEF row
  <2>6. tk = [u \in Tasks |-> tk[u]] /\ \A u \in Tasks : tk[u] = IF u = t THEN row ELSE s.task[u]
    BY <2>1
  <2> HIDE DEF tk
  <2>7. /\ IsTx(x) /\ x.task = tk /\ x.out = s.out /\ x.company = s.company /\ x.dept = s.dept
        /\ x.run = s.run /\ x.dispatched = s.dispatched /\ x.poison = s.poison
    BY <1>1, <2>4, TxTaskFields
  <2>8. TableRows(x.company, x.dept, x.task, x.run, x.dispatched)
    BY <1>2, <2>5, <2>6, <2>7 DEF TableRows
  <2>9. Waits(x.task, x.dispatched)
    BY <1>2, <2>5, <2>6, <2>7 DEF Waits
  <2>10. plan # "approved" => Untouched(x.dept, x.task, x.dispatched)
    BY <1>2, <1>4, <2>6, <2>7 DEF Untouched
  <2>11. TxDepts(x)
    BY <1>2, <1>4, <2>5, <2>6, <2>7 DEF TxDepts
  <2>12. TxCompany(x)
    BY <1>2, <2>7 DEF TxCompany
  <2>13. TxMoved(x)
    BY <1>2, <1>4, <2>5, <2>6, <2>7 DEF TxMoved
  <2>14. TxSent(x)
    BY <1>2, <1>4, <2>5, <2>6, <2>7, PlanFacts DEF TxSent
  <2>15. \A u \in Tasks : Ripe(x.task, u) => Ripe(s.task, u)
    BY <1>4, <2>5, <2>6, <2>7, PlanFacts DEF Ripe
  <2>16. TxPending(x, n)
    BY <1>1, <2>7, <2>15 DEF TxPending
  <2> QED
    BY <1>2, <2>7, <2>8, <2>9, <2>10, <2>11, <2>12, <2>13, <2>14, <2>16 DEF TxInv, TxFits
<1> QED
  BY <1>3, <1>4

LEMMA DepartmentTx ==
    ASSUME TaskInv, NEW s, NEW n \in 1..Len(outbox), TxInv(s, n), ~s.poison, NEW d \in Depts \cup {NoState},
           NEW x, x = CompleteDepartmentTask(s, d)
    PROVE  TxInv(x, n)
<1> DEFINE row == RowIn(s.dept[d], "completed")
           dp == [s.dept EXCEPT ![d] = row]
           e == Event("department_task.status_changed", d, "completed")
           out == Append(s.out, e)
<1>1. IsTx(s) /\ TxFits(s) /\ TxPending(s, n)
  BY DEF TxInv
<1>2. /\ TableRows(s.company, s.dept, s.task, s.run, s.dispatched) /\ s.out \in Seq(OutboxRow)
      /\ Waits(s.task, s.dispatched) /\ TxDepts(s) /\ TxCompany(s) /\ TxSent(s) /\ TxMoved(s)
  BY <1>1 DEF TxFits
<1>3. CASE ~DepartmentGate(s, d)
  BY <1>3 DEF CompleteDepartmentTask
<1>4. CASE DepartmentGate(s, d) /\ ~ResumeOk([s.dept[d] EXCEPT !.status = "completed"])
  <2>1. x = Poison(s)
    BY <1>4 DEF CompleteDepartmentTask
  <2> QED
    BY <1>1, <2>1, PoisonKeeps
<1>5. CASE DepartmentGate(s, d) /\ ResumeOk([s.dept[d] EXCEPT !.status = "completed"])
  <2>1. s.dept = [y \in Depts |-> s.dept[y]]
    BY <1>2 DEF TableRows
  <2>2. x = [s EXCEPT !.dept[d].status = "completed", !.out = Post(s.out, e)]
    BY <1>5, <1>1 DEF CompleteDepartmentTask, IsTx
  <2>3. Post(s.out, e) = out
    BY PostFields
  <2>4. e \in OutboxRow
    <3>1. "department_task.status_changed" \in OutboxTopics /\ "completed" \in OutboxStates /\ d \in OutboxIds
      BY DEF OutboxIds, OutboxTopics, OutboxStates
    <3> QED
      BY <3>1, EventRow
  <2> HIDE DEF e, out
  <2>5. x = TxDept(s, dp, out)
    BY <1>1, <2>1, <2>2, <2>3 DEF TxDept, RowIn, IsTx
  <2>6. d \in Depts => IsRow(row) /\ row.status = "completed"
    <3>1. d \in Depts => IsRow(s.dept[d])
      BY <1>2 DEF TableRows
    <3> QED
      BY <3>1, DeptRowIn
  <2> HIDE DEF row
  <2>7. dp = [y \in Depts |-> dp[y]] /\ \A y \in Depts : dp[y] = IF y = d THEN row ELSE s.dept[y]
    BY <2>1
  <2> HIDE DEF dp
  <2>8. /\ IsTx(x) /\ x.dept = dp /\ x.out = out /\ x.company = s.company /\ x.task = s.task
        /\ x.run = s.run /\ x.dispatched = s.dispatched /\ x.poison = s.poison
    BY <1>1, <2>5, TxDeptFields
  <2>9. /\ out \in Seq(OutboxRow) /\ \A i \in 1..Len(s.out) : i \in 1..Len(out) /\ out[i] = s.out[i]
    BY <1>2, <2>4, Appended DEF out
  <2>10. TableRows(x.company, x.dept, x.task, x.run, x.dispatched)
    BY <1>2, <2>6, <2>7, <2>8 DEF TableRows
  <2>11. Waits(x.task, x.dispatched)
    BY <1>2, <2>8 DEF Waits
  <2>12. plan = "approved"
    BY <1>5 DEF DepartmentGate, TaskInv
  <2>13. TxDepts(x)
    BY <1>2, <1>5, <2>6, <2>7, <2>8 DEF TxDepts, DepartmentGate, Active
  <2>14. TxCompany(x)
    BY <1>2, <2>6, <2>7, <2>8, PlanFacts DEF TxCompany
  <2>15. TxMoved(x)
    BY <1>2, <2>6, <2>7, <2>8 DEF TxMoved
  <2>16. TxSent(x)
    BY <1>2, <2>8 DEF TxSent
  <2>17. TxPending(x, n)
    BY <1>1, <2>8, <2>9 DEF TxPending
  <2> QED
    BY <2>8, <2>9, <2>10, <2>11, <2>12, <2>13, <2>14, <2>15, <2>16, <2>17 DEF TxInv, TxFits
<1> QED
  BY <1>3, <1>4, <1>5

TxOwn(s, co) == [s EXCEPT !.company = co]

LEMMA TxOwnFields ==
    ASSUME NEW s, IsTx(s), NEW co, NEW n, n = TxOwn(s, co)
    PROVE  /\ IsTx(n) /\ n.company = co /\ n.out = s.out /\ n.dept = s.dept /\ n.task = s.task
           /\ n.run = s.run /\ n.dispatched = s.dispatched /\ n.poison = s.poison
BY DEF IsTx, TxOwn

LEMMA CompanyTx ==
    ASSUME TaskInv, NEW s, NEW n \in 1..Len(outbox), TxInv(s, n), ~s.poison,
           NEW x, x = CompleteCompanyTask(s)
    PROVE  TxInv(x, n)
<1> DEFINE row == RowIn(s.company, "completed")
<1>1. IsTx(s) /\ TxFits(s) /\ TxPending(s, n)
  BY DEF TxInv
<1>2. /\ TableRows(s.company, s.dept, s.task, s.run, s.dispatched) /\ s.out \in Seq(OutboxRow)
      /\ Waits(s.task, s.dispatched) /\ TxDepts(s) /\ TxCompany(s) /\ TxSent(s) /\ TxMoved(s)
      /\ plan # "approved" => Untouched(s.dept, s.task, s.dispatched)
  BY <1>1 DEF TxFits
<1>3. CASE ~CompanyGate(s)
  BY <1>3 DEF CompleteCompanyTask
<1>4. CASE CompanyGate(s) /\ ~ResumeOk([s.company EXCEPT !.status = "completed"])
  <2>1. x = Poison(s)
    BY <1>4 DEF CompleteCompanyTask
  <2> QED
    BY <1>1, <2>1, PoisonKeeps
<1>5. CASE CompanyGate(s) /\ ResumeOk([s.company EXCEPT !.status = "completed"])
  <2>1. IsRow(s.company)
    BY <1>2 DEF TableRows
  <2>2. x = TxOwn(s, row)
    BY <1>5, <1>1, <2>1 DEF CompleteCompanyTask, TxOwn, RowIn, IsTx
  <2>3. IsRow(row) /\ row.status = "completed"
    BY <2>1, DeptRowIn
  <2> HIDE DEF row
  <2>4. /\ IsTx(x) /\ x.company = row /\ x.out = s.out /\ x.dept = s.dept /\ x.task = s.task
        /\ x.run = s.run /\ x.dispatched = s.dispatched /\ x.poison = s.poison
    BY <1>1, <2>2, TxOwnFields
  <2>5. TableRows(x.company, x.dept, x.task, x.run, x.dispatched)
    BY <1>2, <2>3, <2>4 DEF TableRows
  <2>6. Waits(x.task, x.dispatched) /\ TxDepts(x) /\ TxSent(x)
    BY <1>2, <2>4 DEF Waits, TxDepts, TxSent
  <2>7. TxMoved(x)
    BY <1>2, <2>3, <2>4 DEF TxMoved
  <2>8. TxCompany(x)
    BY <1>2, <1>5, <2>4, PlanFacts DEF TxCompany, CompanyGate, TableRows
  <2>9. TxPending(x, n) /\ (plan # "approved" => Untouched(x.dept, x.task, x.dispatched))
    BY <1>1, <1>2, <2>4 DEF TxPending
  <2> QED
    BY <1>2, <2>4, <2>5, <2>6, <2>7, <2>8, <2>9 DEF TxInv, TxFits
<1> QED
  BY <1>3, <1>4, <1>5

TxBuilt(s, tk, rn, ds) == [s EXCEPT !.task = tk, !.run = rn, !.dispatched = ds]

LEMMA TxBuiltFields ==
    ASSUME NEW s, IsTx(s), NEW tk, NEW rn, NEW ds, NEW n, n = TxBuilt(s, tk, rn, ds)
    PROVE  /\ IsTx(n) /\ n.task = tk /\ n.run = rn /\ n.dispatched = ds /\ n.company = s.company
           /\ n.dept = s.dept /\ n.out = s.out /\ n.poison = s.poison
BY DEF IsTx, TxBuilt

LEMMA AdvanceTx ==
    ASSUME TaskInv, NEW s, NEW n \in 1..Len(outbox), TxInv(s, n - 1), ~s.poison, NEW lost,
           NEW e, e = outbox[n], NEW t, t = e.id, NEW x, x = AdvanceEmployeeTaskGraph(s, t, lost)
    PROVE  TxInv(x, n)
<1> DEFINE ready == Dependents(s, t)
           sent == ready \ lost
           go(u) == TaskRow(s.task[u].dept, IF u \in lost THEN "failed" ELSE "assigned", NoState)
           tk == [u \in Tasks |-> IF u \notin ready THEN s.task[u] ELSE go(u)]
           rn == [u \in Tasks |-> IF u \in sent THEN "queued" ELSE s.run[u]]
           ds == [u \in Tasks |-> IF u \in sent THEN s.dispatched[u] + 1 ELSE s.dispatched[u]]
<1>1. IsTx(s) /\ TxFits(s) /\ TxPending(s, n - 1) /\ outbox \in Seq(OutboxRow)
  BY DEF TxInv, TaskInv
<1>2. /\ TableRows(s.company, s.dept, s.task, s.run, s.dispatched) /\ s.out \in Seq(OutboxRow)
      /\ Waits(s.task, s.dispatched) /\ TxDepts(s) /\ TxCompany(s) /\ TxSent(s) /\ TxMoved(s)
      /\ plan # "approved" => Untouched(s.dept, s.task, s.dispatched)
  BY <1>1 DEF TxFits
<1>3. x = TxBuilt(s, tk, rn, ds)
  BY <1>1 DEF AdvanceEmployeeTaskGraph, BuildRuns, Queued, TxBuilt, IsTx
<1>4. /\ IsTx(x) /\ x.task = tk /\ x.run = rn /\ x.dispatched = ds /\ x.company = s.company
      /\ x.dept = s.dept /\ x.out = s.out /\ x.poison = s.poison
  <2> HIDE DEF tk, rn, ds
  <2> QED
    BY <1>1, <1>3, TxBuiltFields
<1>5. \A u \in Tasks : /\ IsTaskRow(go(u)) /\ go(u).status = (IF u \in lost THEN "failed" ELSE "assigned")
                       /\ go(u).dept = s.task[u].dept
  BY DEF TaskRow, IsTaskRow
<1>6. \A u \in Tasks : u \in ready <=> /\ t \in Upstream(u) /\ s.task[u].status = "waiting_resource"
                                       /\ \A v \in Upstream(u) : s.task[v].status = "accepted"
  BY DEF Dependents
<1> HIDE DEF go, ready
<1>7. /\ tk = [u \in Tasks |-> tk[u]] /\ \A u \in Tasks : tk[u] = IF u \notin ready THEN s.task[u] ELSE go(u)
      /\ rn = [u \in Tasks |-> rn[u]] /\ \A u \in Tasks : rn[u] = IF u \in sent THEN "queued" ELSE s.run[u]
      /\ ds = [u \in Tasks |-> ds[u]]
      /\ \A u \in Tasks : ds[u] = IF u \in sent THEN s.dispatched[u] + 1 ELSE s.dispatched[u]
  OBVIOUS
<1> HIDE DEF tk, rn, ds
<1>8. \A u \in Tasks : sent \subseteq ready /\ (u \in ready => Deferred(u))
  BY <1>6 DEF Deferred
<1> HIDE DEF sent
<1>9. \A u \in Tasks : /\ tk[u].status = "accepted" <=> s.task[u].status = "accepted"
                       /\ tk[u].status = "waiting_resource" <=> s.task[u].status = "waiting_resource" /\ u \notin ready
                       /\ tk[u].dept = s.task[u].dept
  BY <1>5, <1>6, <1>7
<1>10. TableRows(x.company, x.dept, x.task, x.run, x.dispatched)
  BY <1>2, <1>4, <1>5, <1>7 DEF TableRows
<1>11. Waits(x.task, x.dispatched)
  BY <1>2, <1>4, <1>5, <1>7, <1>8, <1>9 DEF Waits
<1>12. plan # "approved" => Untouched(x.dept, x.task, x.dispatched)
  <2> SUFFICES ASSUME plan # "approved" PROVE Untouched(x.dept, x.task, x.dispatched)
    OBVIOUS
  <2>1. Untouched(s.dept, s.task, s.dispatched)
    BY <1>2
  <2>2. \A u \in Tasks : u \notin ready /\ u \notin sent
    BY <2>1, <1>6, <1>8 DEF Untouched
  <2> QED
    BY <2>1, <2>2, <1>4, <1>7 DEF Untouched
<1>13. TxDepts(x)
  <2> SUFFICES ASSUME NEW d \in Depts, s.dept[d].status = "completed", dept[d].status # "completed",
                      NEW u \in Tasks, tk[u].dept = d
               PROVE  /\ tk[u].status \in {"accepted", "cancelled"}
                      /\ rn[u] \notin {"queued", "running"} /\ u \notin approvals
    BY <1>4 DEF TxDepts
  <2>1. /\ s.task[u].status \in {"accepted", "cancelled"}
        /\ s.run[u] \notin {"queued", "running"} /\ u \notin approvals
    BY <1>2, <1>9 DEF TxDepts
  <2>2. u \notin ready /\ u \notin sent
    BY <2>1, <1>6, <1>8
  <2> QED
    BY <2>1, <2>2, <1>7
<1>14. TxCompany(x)
  BY <1>2, <1>4 DEF TxCompany
<1>15. TxMoved(x)
  BY <1>2, <1>4, <1>5, <1>6, <1>7 DEF TxMoved
<1>16. TxSent(x)
  <2> SUFFICES ASSUME NEW u \in Tasks, Deferred(u), ds[u] # dispatched[u]
               PROVE  ds[u] = 1 /\ \A v \in Upstream(u) : tk[v].status = "accepted"
    BY <1>4 DEF TxSent
  <2>1. CASE u \in sent
    <3>1. s.dispatched[u] = 0 /\ \A v \in Upstream(u) : s.task[v].status = "accepted"
      BY <2>1, <1>2, <1>6, <1>8 DEF Waits
    <3> QED
      BY <2>1, <3>1, <1>7, <1>9, PlanFacts
  <2>2. CASE u \notin sent
    <3>1. s.dispatched[u] = 1 /\ \A v \in Upstream(u) : s.task[v].status = "accepted"
      BY <2>2, <1>2, <1>7 DEF TxSent
    <3> QED
      BY <2>2, <3>1, <1>7, <1>9, PlanFacts
  <2> QED
    BY <2>1, <2>2
<1>17. TxPending(x, n)
  <2> SUFFICES ASSUME NEW u \in Tasks, Ripe(tk, u)
               PROVE  \/ \E i \in (n + 1)..Len(outbox) : Advances(outbox[i], u)
                      \/ \E i \in 1..Len(s.out) : Advances(s.out[i], u)
    BY <1>4 DEF TxPending
  <2>1. Ripe(s.task, u) /\ u \notin ready
    BY <1>9, PlanFacts DEF Ripe
  <2>2. t \notin Upstream(u)
    BY <2>1, <1>6 DEF Ripe
  <2>3. \/ \E i \in ((n - 1) + 1)..Len(outbox) : Advances(outbox[i], u)
        \/ \E i \in 1..Len(s.out) : Advances(s.out[i], u)
    BY <2>1, <1>1 DEF TxPending
  <2>4. CASE \E i \in ((n - 1) + 1)..Len(outbox) : Advances(outbox[i], u)
    <3>1. PICK i \in ((n - 1) + 1)..Len(outbox) : Advances(outbox[i], u)
      BY <2>4
    <3>2. i # n
      BY <3>1, <2>2 DEF Advances
    <3>3. i \in (n + 1)..Len(outbox)
      BY <3>2, <1>1
    <3> QED
      BY <3>1, <3>3
  <2> QED
    BY <2>3, <2>4
<1> QED
  BY <1>2, <1>4, <1>10, <1>11, <1>12, <1>13, <1>14, <1>15, <1>16, <1>17 DEF TxInv, TxFits

TxFailed(s, set) == [s EXCEPT !.failed = set]

LEMMA TxFailedFields ==
    ASSUME NEW s, IsTx(s), NEW set, NEW n, n = TxFailed(s, set)
    PROVE  /\ IsTx(n) /\ n.company = s.company /\ n.out = s.out /\ n.dept = s.dept /\ n.task = s.task
           /\ n.run = s.run /\ n.dispatched = s.dispatched /\ n.poison = s.poison
BY DEF IsTx, TxFailed

LEMMA FailedTx ==
    ASSUME NEW s, NEW n, TxInv(s, n), NEW set, NEW x, x = TxFailed(s, set)
    PROVE  TxInv(x, n)
<1>1. /\ IsTx(x) /\ x.company = s.company /\ x.out = s.out /\ x.dept = s.dept /\ x.task = s.task
      /\ x.run = s.run /\ x.dispatched = s.dispatched /\ x.poison = s.poison
  BY TxFailedFields DEF TxInv
<1> QED
  BY <1>1 DEF TxInv, TxFits, TxPending, TxDepts, TxCompany, TxSent, TxMoved

\* One row of the batch.
LEMMA DispatchTx ==
    ASSUME TaskInv, NEW first \in Tasks, contributed # {} => task[first].status # "none", NEW lost,
           NEW s, NEW n \in 1..Len(outbox), TxInv(s, n - 1), NEW x, x = Dispatch(s, outbox[n], first, lost)
    PROVE  TxInv(x, n)
<1> DEFINE e == outbox[n]
<1>1. outbox \in Seq(OutboxRow) /\ e \in OutboxRow
  BY DEF TaskInv
<1>2. e.topic \in OutboxTopics /\ (e.topic = "employee_task.status_changed" => e.id \in Tasks)
  BY <1>1 DEF OutboxRow
<1>3. DOMAIN CommandOf = {"run.completed", "review.submitted", "review.issue_changed",
                          "employee_task.status_changed", "employee_task.graph_advance",
                          "department_task.status_changed"}
  BY DEF CommandOf
<1>4. CASE s.poison
  BY <1>4 DEF Dispatch, TxInv
<1>5. CASE ~s.poison /\ e.topic = "employee_task.graph_advance"
  <2>1. x = AdvanceEmployeeTaskGraph(s, e.id, lost)
    BY <1>3, <1>5 DEF Dispatch
  <2>2. PICK t : t = e.id /\ x = AdvanceEmployeeTaskGraph(s, t, lost) /\ ~s.poison
    BY <1>5, <2>1
  <2>3. TxInv(s, n - 1) /\ TaskInv /\ e = outbox[n]
    OBVIOUS
  <2> HIDE DEF e
  <2> QED
    BY <2>2, <2>3, AdvanceTx
<1>6. CASE ~s.poison /\ e.topic # "employee_task.graph_advance"
  <2>0. TxInv(s, n)
    BY <1>1, <1>6, SameKeeps
  <2>1. CASE e.topic = "company_task.analysis.requested"
    <3>1. x = TxFailed(s, s.failed \cup {e.topic})
      BY <1>3, <1>6, <2>1, <2>0 DEF Dispatch, TxFailed, TxInv, IsTx
    <3> QED
      BY <2>0, <3>1, FailedTx
  <2>2. CASE e.topic = "run.completed"
    <3>1. x = SubmitEmployeeTask(s, e.id)
      BY <1>3, <1>6, <2>2 DEF Dispatch
    <3> QED
      BY <1>6, <2>0, <3>1, SubmitTx
  <2>3. CASE e.topic \in {"review.submitted", "review.issue_changed"}
    <3>1. x = AcceptEmployeeTask(s, first)
      BY <1>3, <1>6, <2>3 DEF Dispatch
    <3> QED
      BY <1>6, <2>0, <3>1, AcceptTx
  <2>4. CASE e.topic = "employee_task.status_changed"
    <3>1. x = CompleteDepartmentTask(s, s.task[e.id].dept)
      BY <1>3, <1>6, <2>4 DEF Dispatch
    <3>2. s.task[e.id].dept \in Depts \cup {NoState}
      BY <1>2, <1>6, <2>0, <2>4 DEF TxInv, TxFits, TableRows
    <3> QED
      BY <1>6, <2>0, <3>1, <3>2, DepartmentTx
  <2>5. CASE e.topic = "department_task.status_changed"
    <3>1. x = CompleteCompanyTask(s)
      BY <1>3, <1>6, <2>5 DEF Dispatch
    <3> QED
      BY <1>6, <2>0, <3>1, CompanyTx
  <2> QED
    BY <1>2, <1>6, <2>1, <2>2, <2>3, <2>4, <2>5 DEF OutboxTopics
<1> QED
  BY <1>4, <1>5, <1>6, <1>1 DEF TxInv

LEMMA StartTx == TaskInv => TxInv(TxStart, 0)
<1> SUFFICES ASSUME TaskInv PROVE TxInv(TxStart, 0)
  OBVIOUS
<1>1. PICK s : s = TxStart
  OBVIOUS
<1>2. /\ IsTx(s) /\ s.company = company /\ s.dept = dept /\ s.task = task /\ s.run = run
      /\ s.dispatched = dispatched /\ s.out = << >> /\ s.poison = FALSE
  BY <1>1 DEF TxStart, IsTx
<1>3. s.out \in Seq(OutboxRow)
  BY <1>2
<1>4. TxFits(s)
  BY <1>2, <1>3 DEF TaskInv, TxFits, TxDepts, TxCompany, TxSent, TxMoved
<1>5. TxPending(s, 0)
  BY <1>2 DEF TaskInv, TxPending
<1> QED
  BY <1>1, <1>2, <1>4, <1>5 DEF TxInv

\* The whole batch, by induction on its rows.
LEMMA BatchTx ==
    ASSUME TaskInv, NEW first \in Tasks, contributed # {} => task[first].status # "none", NEW lost
    PROVE  TxInv(Batch(first, lost), Len(outbox))
<1> DEFINE N == Len(outbox)
<1>1. N \in Nat
  BY DEF TaskInv
<1>2. PICK after : /\ after[0] = TxStart
                   /\ \A n \in 1..N : after[n] = Dispatch(after[n - 1], outbox[n], first, lost)
                   /\ Batch(first, lost) = after[N]
  BY <1>1, BatchUnfolds
<1> DEFINE T == {n \in 0..N : ~TxInv(after[n], n)}
<1>3. ASSUME T # {} PROVE FALSE
  <2>1. T \in SUBSET Nat
    BY <1>1
  <2>2. PICK m \in T : \A n \in T : m <= n
    BY <1>3, <2>1, LeastNumber
  <2>3. m # 0
    BY <1>2, <2>2, StartTx
  <2>4. m \in 1..N /\ m - 1 \in 0..N /\ m - 1 \notin T
    BY <1>1, <2>2, <2>3
  <2>5. TxInv(after[m - 1], m - 1)
    BY <2>4
  <2>6. PICK s, x : s = after[m - 1] /\ x = after[m]
    OBVIOUS
  <2>7. TxInv(s, m - 1) /\ x = Dispatch(s, outbox[m], first, lost)
    BY <1>2, <2>4, <2>5, <2>6
  <2>8. TxInv(x, m)
    BY <2>4, <2>7, DispatchTx
  <2> QED
    BY <2>2, <2>6, <2>8
<1>4. N \in 0..N /\ N \notin T
  BY <1>1, <1>3
<1> QED
  BY <1>2, <1>4

LEMMA DeliverTx ==
    ASSUME TaskInv, Deliver
    PROVE  \E s : /\ TxInv(s, Len(outbox)) /\ ~s.poison
                  /\ company' = s.company /\ dept' = s.dept /\ task' = s.task
                  /\ run' = s.run /\ dispatched' = s.dispatched /\ outbox' = s.out
                  /\ UNCHANGED <<content, plan, approvals, contributed, evidence, reviews>>
<1>1. PICK first \in Tasks, lost \in MayBeLost :
        /\ contributed # {} => Exists(first)
        /\ ~Batch(first, lost).poison
        /\ company' = Batch(first, lost).company /\ dept' = Batch(first, lost).dept
        /\ task' = Batch(first, lost).task /\ run' = Batch(first, lost).run
        /\ dispatched' = Batch(first, lost).dispatched /\ outbox' = Batch(first, lost).out
  BY DEF Deliver
<1>2. contributed # {} => task[first].status # "none"
  BY <1>1 DEF Exists
<1>3. TxInv(Batch(first, lost), Len(outbox))
  BY <1>2, BatchTx
<1>4. UNCHANGED <<content, plan, approvals, contributed, evidence, reviews>>
  BY DEF Deliver, proof
<1> QED
  BY <1>1, <1>3, <1>4

LEMMA UpstreamSame ==
    ASSUME UNCHANGED content
    PROVE  /\ \A t : Upstream(t)' = Upstream(t) /\ (Deferred(t)' <=> Deferred(t))
BY DEF Upstream, Deferred

LEMMA DeliverKeeps ==
    ASSUME TaskInv, Deliver
    PROVE  TaskInv'
<1>1. PICK s : /\ TxInv(s, Len(outbox)) /\ ~s.poison
               /\ company' = s.company /\ dept' = s.dept /\ task' = s.task
               /\ run' = s.run /\ dispatched' = s.dispatched /\ outbox' = s.out
               /\ UNCHANGED <<content, plan, approvals, contributed, evidence, reviews>>
  BY DeliverTx
<1>2. TxFits(s) /\ TxPending(s, Len(outbox)) /\ outbox \in Seq(OutboxRow)
  BY <1>1 DEF TxInv, TaskInv
<1>3. /\ TableRows(s.company, s.dept, s.task, s.run, s.dispatched) /\ s.out \in Seq(OutboxRow)
      /\ Waits(s.task, s.dispatched) /\ TxMoved(s)
      /\ plan # "approved" => Untouched(s.dept, s.task, s.dispatched)
  BY <1>2 DEF TxFits
<1>4. CompanyOk(s.company)
  BY <1>3 DEF TxMoved, TaskInv, CompanyOk
<1>5. \A t \in Tasks : Ripe(s.task, t) => \E i \in 1..Len(s.out) : Advances(s.out[i], t)
  <2>1. (Len(outbox) + 1)..Len(outbox) = {}
    BY <1>2
  <2> QED
    BY <1>2, <2>1 DEF TxPending
<1>6. TableRows(company, dept, task, run, dispatched)' /\ (outbox \in Seq(OutboxRow))' /\ CompanyOk(company)'
  BY <1>1, <1>3, <1>4 DEF TableRows, CompanyOk, OutboxRow
<1>7. Waits(task, dispatched)'
  BY <1>1, <1>3, UpstreamSame DEF Waits
<1>8. (\A t \in Tasks : Ripe(task, t) => \E i \in 1..Len(outbox) : Advances(outbox[i], t))'
  BY <1>1, <1>5, UpstreamSame DEF Ripe, Advances
<1>9. (plan # "approved" => Untouched(dept, task, dispatched) /\ contributed = {} /\ evidence = {})'
  BY <1>1, <1>3 DEF TaskInv, Untouched
<1>10. (content \in Plans)' /\ (plan \in {"draft", "awaiting_user_confirmation", "approved", "superseded", "rejected"})'
  BY <1>1 DEF TaskInv
<1> QED
  BY <1>6, <1>7, <1>8, <1>9, <1>10 DEF TaskInv

-----------------------------------------------------------------------------
(* What every step does, beside the invariant. *)

BottomUpStep ==
    /\ \A d \in Depts :
            dept'[d].status = "completed" /\ dept[d].status # "completed" =>
              \A t \in Tasks : task'[t].dept = d =>
                /\ task'[t].status \in {"accepted", "cancelled"}
                /\ run'[t] \notin {"queued", "running"} /\ t \notin approvals
    /\ company'.status = "completed" /\ company.status # "completed" =>
            \A d \in content.depts : dept'[d].status = "completed"
OnceStep ==
    \A t \in Tasks : Deferred(t) /\ dispatched'[t] # dispatched[t] =>
          /\ dispatched'[t] = 1
          /\ \A u \in Upstream(t) : task'[u].status = "accepted"
TablesStep ==
    /\ Follows(CompanyTaskTransitions, company, company')
    /\ Follows(CompanyPlanVersionTransitions, Row(plan), Row(plan'))
    /\ \A d \in Depts : Follows(DepartmentTaskTransitions, dept[d], dept'[d])
    /\ \A t \in Tasks : Follows(EmployeeTaskTransitions, task[t], task'[t])
GoodStep == BottomUpStep /\ OnceStep /\ TablesStep

LEMMA FollowsShort ==
    ASSUME NEW table, NEW row, NEW next,
           row.status = next.status \/ row.status = "none" \/ Shortcut(row.status, next.status)
    PROVE  Follows(table, row, next)
BY DEF Follows

LEMMA CompanyTable ==
    \A r : /\ \A s \in {"analyzing", "awaiting_user_confirmation", "revision_requested", "executing",
                        "reviewing", "fixing", "paused"} :
                CanTransition(CompanyTaskTransitions, s, "cancelling", r)
           /\ CanTransition(CompanyTaskTransitions, "analyzing", "awaiting_user_confirmation", r)
           /\ CanTransition(CompanyTaskTransitions, "awaiting_user_confirmation", "revision_requested", r)
           /\ CanTransition(CompanyTaskTransitions, "awaiting_user_confirmation", "rejected", r)
           /\ \A s \in {"executing", "reviewing", "fixing"} : CanTransition(CompanyTaskTransitions, s, "paused", r)
           /\ CanTransition(CompanyTaskTransitions, "paused", r, r)
BY DEF CanTransition, CompanyTaskTransitions, WaitingStatuses

LEMMA PlanTable ==
    \A r : /\ CanTransition(CompanyPlanVersionTransitions, "draft", "awaiting_user_confirmation", r)
           /\ \A s \in {"approved", "superseded", "rejected"} :
                CanTransition(CompanyPlanVersionTransitions, "awaiting_user_confirmation", s, r)
BY DEF CanTransition, CompanyPlanVersionTransitions

LEMMA TaskTable ==
    \A r : /\ CanTransition(EmployeeTaskTransitions, "running", "submitted", r)
           /\ CanTransition(EmployeeTaskTransitions, "ready", "running", r)
           /\ CanTransition(EmployeeTaskTransitions, "waiting_resource", "failed", r)
           /\ CanTransition(EmployeeTaskTransitions, "waiting_resource", "assigned", "assigned")
BY DEF CanTransition, EmployeeTaskTransitions, WaitingStatuses

LEMMA DeliverSteps ==
    ASSUME TaskInv, Deliver
    PROVE  GoodStep
<1>1. PICK s : /\ TxInv(s, Len(outbox)) /\ ~s.poison
               /\ company' = s.company /\ dept' = s.dept /\ task' = s.task
               /\ run' = s.run /\ dispatched' = s.dispatched /\ outbox' = s.out
               /\ UNCHANGED <<content, plan, approvals, contributed, evidence, reviews>>
  BY DeliverTx
<1>2. TxDepts(s) /\ TxCompany(s) /\ TxSent(s) /\ TxMoved(s)
  BY <1>1 DEF TxInv, TxFits
<1>3. BottomUpStep
  BY <1>1, <1>2 DEF BottomUpStep, TxDepts, TxCompany
<1>4. OnceStep
  BY <1>1, <1>2 DEF OnceStep, TxSent
<1>5. Follows(CompanyTaskTransitions, company, company')
  BY <1>1, <1>2, FollowsShort DEF TxMoved, Shortcut
<1>6. Follows(CompanyPlanVersionTransitions, Row(plan), Row(plan'))
  BY <1>1, FollowsShort
<1>7. \A d \in Depts : Follows(DepartmentTaskTransitions, dept[d], dept'[d])
  BY <1>1, <1>2, FollowsShort DEF TxMoved, Shortcut
<1>8. ASSUME NEW t \in Tasks PROVE Follows(EmployeeTaskTransitions, task[t], task'[t])
  <2>1. CASE task'[t] = task[t] \/ task'[t].status = "accepted"
    BY <2>1, FollowsShort DEF Shortcut
  <2>2. CASE task[t].status = "running" /\ task'[t].status = "submitted"
    BY <2>2, TaskTable DEF Follows
  <2>3. CASE task[t].status = "waiting_resource" /\ task'[t].status \in {"assigned", "failed"}
    <3>1. task[t].resume = "assigned"
      BY <2>3 DEF TaskInv, Waits
    <3> QED
      BY <2>3, <3>1, TaskTable DEF Follows
  <2> QED
    BY <1>1, <1>2, <2>1, <2>2, <2>3 DEF TxMoved
<1> QED
  BY <1>3, <1>4, <1>5, <1>6, <1>7, <1>8 DEF GoodStep, TablesStep

\* The task tables stay as they are.
LEMMA StayKeeps ==
    ASSUME TaskInv, UNCHANGED <<content, dept, task, dispatched>>,
           IsRow(company)', CompanyOk(company)', run' = [t \in Tasks |-> run'[t]],
           outbox' = outbox \/ \E e \in OutboxRow : outbox' = Append(outbox, e),
           plan' \in {"draft", "awaiting_user_confirmation", "approved", "superseded", "rejected"},
           plan' # "approved" => plan # "approved" /\ contributed' = {} /\ evidence' = {}
    PROVE  TaskInv'
<1>1. /\ outbox' \in Seq(OutboxRow) /\ Len(outbox) \in Nat /\ Len(outbox') \in Nat
      /\ \A i \in 1..Len(outbox) : i \in 1..Len(outbox') /\ outbox'[i] = outbox[i]
  BY Appended DEF TaskInv
<1>2. TableRows(company, dept, task, run, dispatched)' /\ (outbox \in Seq(OutboxRow))'
  BY <1>1 DEF TaskInv, TableRows, OutboxRow
<1>3. Waits(task, dispatched)'
  BY UpstreamSame DEF TaskInv, Waits
<1>4. (\A t \in Tasks : Ripe(task, t) => \E i \in 1..Len(outbox) : Advances(outbox[i], t))'
  BY <1>1, UpstreamSame DEF TaskInv, Ripe, Advances
<1>5. (plan # "approved" => Untouched(dept, task, dispatched) /\ contributed = {} /\ evidence = {})'
  BY DEF TaskInv, Untouched
<1> QED
  BY <1>2, <1>3, <1>4, <1>5 DEF TaskInv

LEMMA StaySteps ==
    ASSUME UNCHANGED <<content, dept, task, dispatched>>,
           company'.status = "completed" => company.status = "completed",
           Follows(CompanyTaskTransitions, company, company'),
           Follows(CompanyPlanVersionTransitions, Row(plan), Row(plan'))
    PROVE  GoodStep
BY FollowsShort DEF GoodStep, BottomUpStep, OnceStep, TablesStep

LEMMA PostRow ==
    ASSUME NEW rows, NEW e
    PROVE  Post(rows, e) = rows \/ Post(rows, e) = Append(rows, e)
BY DEF Post

\* Steps of the employees that change no task.
LEMMA WorkKeeps ==
    ASSUME TaskInv, NEW t,
           \/ t \in Tasks /\ (ClaimRun(t) \/ PublishArtifact(t) \/ RequestApproval(t) \/ ResolveApproval(t))
           \/ t \in Tasks /\ \E status \in {"succeeded", "failed"} : EndRun(t, status)
           \/ \E kind \in {"verified", "department", "company"} : ProvideEvidence(kind)
           \/ \E topic \in {"review.submitted", "review.issue_changed"} : ReviewEvent(topic)
    PROVE  TaskInv' /\ GoodStep
<1>1. /\ UNCHANGED work /\ UNCHANGED dispatched
      /\ UNCHANGED run \/ \E status : run' = [run EXCEPT ![t] = status]
  BY DEF ClaimRun, PublishArtifact, RequestApproval, ResolveApproval, EndRun, ProvideEvidence, ReviewEvent
<1>2. UNCHANGED <<company, content, plan, dept, task, dispatched>>
  BY <1>1 DEF work
<1>3. run' = [u \in Tasks |-> run'[u]]
  BY <1>1 DEF TaskInv, TableRows
<1>4. outbox' = outbox \/ \E e \in OutboxRow : outbox' = Append(outbox, e)
  <2>1. CASE UNCHANGED outbox
    BY <2>1
  <2>2. ASSUME NEW topic \in OutboxTopics, NEW id \in OutboxIds, NEW to \in OutboxStates,
               topic # "employee_task.status_changed", outbox' = Post(outbox, Event(topic, id, to))
        PROVE  outbox' = outbox \/ \E e \in OutboxRow : outbox' = Append(outbox, e)
    BY <2>2, EventRow, PostRow
  <2>3. ASSUME NEW status \in {"succeeded", "failed"}, t \in Tasks, EndRun(t, status)
        PROVE  outbox' = outbox \/ \E e \in OutboxRow : outbox' = Append(outbox, e)
    <3>1. /\ "run.completed" \in OutboxTopics /\ t \in OutboxIds /\ status \in OutboxStates
          /\ outbox' = Post(outbox, Event("run.completed", t, status))
      BY <2>3 DEF EndRun, OutboxTopics, OutboxIds, OutboxStates
    <3> QED
      BY <2>2, <3>1
  <2>4. ASSUME NEW topic \in {"review.submitted", "review.issue_changed"}, ReviewEvent(topic)
        PROVE  outbox' = outbox \/ \E e \in OutboxRow : outbox' = Append(outbox, e)
    <3>1. /\ topic \in OutboxTopics /\ "review" \in OutboxIds /\ "closed" \in OutboxStates
          /\ outbox' = Post(outbox, Event(topic, "review", "closed"))
          /\ topic # "employee_task.status_changed"
      BY <2>4 DEF ReviewEvent, OutboxTopics, OutboxIds, OutboxStates
    <3> QED
      BY <2>2, <3>1
  <2> QED
    BY <2>1, <2>3, <2>4 DEF ClaimRun, PublishArtifact, RequestApproval, ResolveApproval, ProvideEvidence
<1>5. plan' # "approved" => plan # "approved" /\ contributed' = {} /\ evidence' = {}
  BY <1>2 DEF TaskInv, Untouched, ClaimRun, PublishArtifact, RequestApproval, ResolveApproval, EndRun,
              ProvideEvidence, ReviewEvent, Exists, proof
<1>6. /\ IsRow(company)' /\ CompanyOk(company)'
      /\ plan' \in {"draft", "awaiting_user_confirmation", "approved", "superseded", "rejected"}
  BY <1>2 DEF TaskInv, TableRows, IsRow, CompanyOk
<1>7. /\ Follows(CompanyTaskTransitions, company, company')
      /\ Follows(CompanyPlanVersionTransitions, Row(plan), Row(plan'))
  BY <1>2, FollowsShort
<1> QED
  BY <1>2, <1>3, <1>4, <1>5, <1>6, <1>7, StayKeeps, StaySteps

\* Commands on the company task and its plan.
LEMMA CompanyKeeps ==
    ASSUME TaskInv, UNCHANGED <<content, dept, task, run, dispatched, contributed, evidence>>,
           NEW to, NEW resume, company' = [status |-> to, resume |-> resume],
           to \in {"awaiting_user_confirmation", "revision_requested", "rejected", "executing", "reviewing",
                   "fixing", "paused", "cancelling", "cancelled"},
           to = "paused" => resume \in {"executing", "reviewing", "fixing"},
           \/ CanTransition(CompanyTaskTransitions, company.status, to, company.resume)
           \/ company.status = to \/ Shortcut(company.status, to),
           outbox' = outbox \/ \E e \in OutboxRow : outbox' = Append(outbox, e),
           \/ UNCHANGED plan
           \/ plan = "draft" /\ plan' = "awaiting_user_confirmation"
           \/ plan = "awaiting_user_confirmation" /\ plan' \in {"superseded", "rejected"}
    PROVE  TaskInv' /\ GoodStep
<1>1. /\ IsRow(company)' /\ CompanyOk(company)' /\ company'.status = to
  BY DEF IsRow, CompanyOk
<1>2. /\ plan' \in {"draft", "awaiting_user_confirmation", "approved", "superseded", "rejected"}
      /\ plan' # "approved" => plan # "approved" /\ contributed' = {} /\ evidence' = {}
  BY DEF TaskInv
<1>3. run' = [t \in Tasks |-> run'[t]]
  BY DEF TaskInv, TableRows
<1>4. TaskInv'
  BY <1>1, <1>2, <1>3, StayKeeps
<1>5. Follows(CompanyTaskTransitions, company, company')
  BY <1>1 DEF Follows
<1>6. Follows(CompanyPlanVersionTransitions, Row(plan), Row(plan'))
  BY PlanTable DEF Follows, Row
<1> QED
  BY <1>1, <1>4, <1>5, <1>6, StaySteps

LEMMA CommandKeeps ==
    ASSUME TaskInv, SubmitUserMessage \/ SubmitPlan \/ RequestPlanRevision \/ RejectPlan
    PROVE  TaskInv' /\ GoodStep
<1>1. /\ UNCHANGED <<content, dept, task, run, dispatched, contributed, evidence>>
  BY DEF SubmitUserMessage, SubmitPlan, RequestPlanRevision, RejectPlan, AnswerPlan, CompanyOnly, proof
<1>2. IsRow(company)
  BY DEF TaskInv, TableRows
<1>3. CASE SubmitUserMessage
  <2>1. company' = [status |-> "revision_requested", resume |-> company.resume]
    BY <1>2, <1>3 DEF SubmitUserMessage, IsRow
  <2>2. outbox' = outbox \/ \E e \in OutboxRow : outbox' = Append(outbox, e)
    <3>1. /\ "company_task.analysis.requested" \in OutboxTopics /\ "company" \in OutboxIds /\ "none" \in OutboxStates
          /\ outbox' = Post(outbox, Event("company_task.analysis.requested", "company", "none"))
      BY <1>3 DEF SubmitUserMessage, OutboxTopics, OutboxIds, OutboxStates
    <3>2. Event("company_task.analysis.requested", "company", "none") \in OutboxRow
      BY <3>1, EventRow
    <3> QED
      BY <3>1, <3>2, PostRow
  <2>3. CanTransition(CompanyTaskTransitions, company.status, "revision_requested", company.resume)
        \/ company.status = "revision_requested"
    BY <1>3, CompanyTable DEF SubmitUserMessage
  <2>4. UNCHANGED plan
    BY <1>3 DEF SubmitUserMessage
  <2> QED
    BY <1>1, <2>1, <2>2, <2>3, <2>4, CompanyKeeps
<1>4. CASE SubmitPlan
  <2>1. /\ company' = [status |-> "awaiting_user_confirmation", resume |-> company.resume]
        /\ UNCHANGED outbox /\ plan = "draft" /\ plan' = "awaiting_user_confirmation"
    BY <1>2, <1>4 DEF SubmitPlan, IsRow
  <2>2. company.status = "analyzing"
    BY <1>4 DEF SubmitPlan, TaskInv, CompanyOk
  <2>3. CanTransition(CompanyTaskTransitions, company.status, "awaiting_user_confirmation", company.resume)
    BY <2>2, CompanyTable
  <2> QED
    BY <1>1, <2>1, <2>3, CompanyKeeps
<1>5. CASE RequestPlanRevision \/ RejectPlan
  <2>1. PICK to \in {"revision_requested", "rejected"} :
           /\ company' = [status |-> to, resume |-> company.resume] /\ UNCHANGED outbox
           /\ company.status = "awaiting_user_confirmation"
           /\ \/ UNCHANGED plan
              \/ plan = "awaiting_user_confirmation" /\ plan' \in {"superseded", "rejected"}
    BY <1>2, <1>5 DEF RequestPlanRevision, RejectPlan, AnswerPlan, IsRow
  <2>2. CanTransition(CompanyTaskTransitions, company.status, to, company.resume)
    BY <2>1, CompanyTable
  <2> QED
    BY <1>1, <2>1, <2>2, CompanyKeeps
<1> QED
  BY <1>3, <1>4, <1>5

LEMMA OwnerKeeps ==
    ASSUME TaskInv, PauseTask \/ ResumeTask \/ CancelTask \/ SupersedeTask
    PROVE  TaskInv' /\ GoodStep
<1>1. /\ UNCHANGED <<content, dept, task, run, dispatched, contributed, evidence, plan, outbox>>
  BY DEF PauseTask, ResumeTask, CancelTask, SupersedeTask, SetCompany, CompanyOnly, proof
<1>2. IsRow(company) /\ CompanyOk(company)
  BY DEF TaskInv, TableRows
<1>3. CASE PauseTask
  <2>1. company' = [status |-> "paused", resume |-> company.status] /\ company.status \in {"executing", "reviewing", "fixing"}
    BY <1>3 DEF PauseTask, SetCompany
  <2>2. CanTransition(CompanyTaskTransitions, company.status, "paused", company.resume)
    BY <2>1, CompanyTable
  <2> QED
    BY <1>1, <2>1, <2>2, CompanyKeeps
<1>4. CASE ResumeTask
  <2>1. /\ company' = [status |-> company.resume, resume |-> NoState] /\ company.status = "paused"
        /\ company.resume \in {"executing", "reviewing", "fixing"}
    BY <1>2, <1>4 DEF ResumeTask, SetCompany, Row, CompanyOk
  <2>2. CanTransition(CompanyTaskTransitions, company.status, company.resume, company.resume)
    BY <2>1, CompanyTable
  <2> QED
    BY <1>1, <2>1, <2>2, CompanyKeeps
<1>5. CASE CancelTask
  <2>1. /\ company' = [status |-> "cancelling", resume |-> company.resume]
        /\ company.status \notin {"completed", "cancelled", "failed"}
    BY <1>2, <1>5 DEF CancelTask, SetCompany, IsRow
  <2>2. \/ CanTransition(CompanyTaskTransitions, company.status, "cancelling", company.resume)
        \/ company.status = "cancelling" \/ Shortcut(company.status, "cancelling")
    BY <1>2, <2>1, CompanyTable DEF CompanyOk, Shortcut
  <2> QED
    BY <1>1, <2>1, <2>2, CompanyKeeps
<1>6. CASE SupersedeTask
  <2>1. company' = [status |-> "cancelled", resume |-> company.resume]
    BY <1>2, <1>6 DEF SupersedeTask, SetCompany, IsRow
  <2>2. Shortcut(company.status, "cancelled")
    BY DEF Shortcut
  <2> QED
    BY <1>1, <2>1, <2>2, CompanyKeeps
<1> QED
  BY <1>3, <1>4, <1>5, <1>6

LEMMA ConfirmKeeps ==
    ASSUME TaskInv, NEW found, ConfirmPlan(found)
    PROVE  TaskInv' /\ GoodStep
<1>1. /\ company.status = "awaiting_user_confirmation" /\ plan = "awaiting_user_confirmation" /\ plan' = "approved"
      /\ company' = Confirmed /\ UNCHANGED <<content, approvals, contributed, evidence, reviews, outbox>>
      /\ dept' = [d \in Depts |-> IF d \in content.depts THEN InitialDept(d) ELSE dept[d]]
      /\ task' = [t \in Tasks |-> IF t \in content.tasks THEN InitialTask(t) ELSE task[t]]
      /\ run' = Queued(run, DispatchedNow)
      /\ dispatched' = [t \in Tasks |-> IF t \in DispatchedNow THEN 1 ELSE 0]
      /\ \A d \in content.depts : ResumeOk(InitialDept(d))
  BY DEF ConfirmPlan, proof
<1>2. /\ TableRows(company, dept, task, run, dispatched) /\ Untouched(dept, task, dispatched) /\ contributed = {}
      /\ outbox \in Seq(OutboxRow)
  BY <1>1 DEF TaskInv
<1>3. IsRow(company') /\ company'.status = "executing"
  BY <1>1, <1>2 DEF TableRows, Confirmed, IsRow
<1>4. \A d \in content.depts : IsRow(InitialDept(d)) /\ InitialDept(d).status = "ready"
  <2> SUFFICES ASSUME NEW d \in content.depts PROVE IsRow(InitialDept(d)) /\ InitialDept(d).status = "ready"
    OBVIOUS
  <2>1. ResumeOk(InitialDept(d))
    BY <1>1
  <2> QED
    BY <2>1 DEF InitialDept, Row, IsRow, ResumeOk, Waiting
<1>5. \A t \in content.tasks :
        /\ IsTaskRow(InitialTask(t)) /\ InitialTask(t).dept \in Depts
        /\ InitialTask(t).status \in {"waiting_resource", "assigned"}
        /\ InitialTask(t).status = "waiting_resource" => InitialTask(t).resume = "assigned"
  <2> SUFFICES ASSUME NEW t \in content.tasks
               PROVE  /\ IsTaskRow(InitialTask(t)) /\ InitialTask(t).dept \in Depts
                      /\ InitialTask(t).status \in {"waiting_resource", "assigned"}
                      /\ InitialTask(t).status = "waiting_resource" => InitialTask(t).resume = "assigned"
    OBVIOUS
  <2>1. content.deptOf[t] \in Depts
    BY PlanFacts
  <2> QED
    BY <2>1 DEF InitialTask, TaskRow, IsTaskRow
<1>6. /\ \A d \in Depts : dept'[d] = IF d \in content.depts THEN InitialDept(d) ELSE dept[d]
      /\ \A t \in Tasks : task'[t] = IF t \in content.tasks THEN InitialTask(t) ELSE task[t]
      /\ \A t \in Tasks : dispatched'[t] = IF t \in DispatchedNow THEN 1 ELSE 0
  BY <1>1
<1>7. /\ dept' = [d \in Depts |-> dept'[d]] /\ task' = [t \in Tasks |-> task'[t]]
      /\ dispatched' = [t \in Tasks |-> dispatched'[t]] /\ run' = [t \in Tasks |-> run'[t]]
  BY <1>1 DEF Queued
<1>8. \A t \in Tasks : Deferred(t) => dispatched'[t] = 0
  BY <1>6 DEF DispatchedNow, Frozen
<1>9. TableRows(company, dept, task, run, dispatched)'
  BY <1>2, <1>3, <1>4, <1>5, <1>6, <1>7 DEF TableRows
<1>10. Waits(task, dispatched)'
  BY <1>1, <1>2, <1>5, <1>6, <1>8, UpstreamSame DEF Waits, Untouched
<1>11. \A t \in Tasks : task'[t].status # "accepted"
  BY <1>2, <1>5, <1>6 DEF Untouched
<1>12. \A t \in Tasks : ~Ripe(task, t)'
  BY <1>1, <1>11, UpstreamSame, PlanFacts DEF Ripe, Deferred
<1>13. TaskInv'
  BY <1>1, <1>2, <1>3, <1>9, <1>10, <1>12 DEF TaskInv, CompanyOk
<1>14. BottomUpStep
  BY <1>2, <1>3, <1>4, <1>6 DEF BottomUpStep, Untouched
<1>15. OnceStep
  BY <1>2, <1>8 DEF OnceStep, Untouched
<1>16. TablesStep
  <2>1. Follows(CompanyTaskTransitions, company, company')
    BY <1>1, <1>3, FollowsShort DEF Shortcut
  <2>2. Follows(CompanyPlanVersionTransitions, Row(plan), Row(plan'))
    BY <1>1, PlanTable DEF Follows, Row
  <2> QED
    BY <2>1, <2>2, <1>2, FollowsShort DEF TablesStep, Untouched
<1> QED
  BY <1>13, <1>14, <1>15, <1>16 DEF GoodStep

\* Steps that start, cancel or add a task: none is accepted and none waits.
LEMMA TaskMoveKeeps ==
    ASSUME TaskInv, UNCHANGED <<company, content, plan, dept, dispatched, contributed, evidence, outbox>>,
           plan = "approved", task' = [t \in Tasks |-> task'[t]], run' = [t \in Tasks |-> run'[t]],
           \A t \in Tasks : task'[t] = task[t] \/
               /\ IsTaskRow(task'[t]) /\ task'[t].dept \in Depts \cup {NoState}
               /\ task'[t].status \in {"running", "cancelled", "assigned"}
               /\ Follows(EmployeeTaskTransitions, task[t], task'[t])
    PROVE  TaskInv' /\ GoodStep
<1>1. TableRows(company, dept, task, run, dispatched)' /\ (outbox \in Seq(OutboxRow))'
  BY DEF TaskInv, TableRows, OutboxRow, IsRow, IsTaskRow
<1>2. Waits(task, dispatched)'
  BY UpstreamSame DEF TaskInv, Waits
<1>3. (\A t \in Tasks : Ripe(task, t) => \E i \in 1..Len(outbox) : Advances(outbox[i], t))'
  <2> SUFFICES ASSUME NEW t \in Tasks, Ripe(task, t)' PROVE \E i \in 1..Len(outbox) : Advances(outbox[i], t)
    BY UpstreamSame DEF Advances
  <2>1. task[t].status = "waiting_resource" /\ Deferred(t)
    BY UpstreamSame DEF Ripe
  <2>2. \A u \in Upstream(t) : u \in Tasks /\ task'[u].status = "accepted"
    BY UpstreamSame, PlanFacts DEF Ripe
  <2>3. \A u \in Upstream(t) : task[u].status = "accepted"
    BY <2>2
  <2> QED
    BY <2>1, <2>3 DEF TaskInv, Ripe
<1>4. TaskInv'
  BY <1>1, <1>2, <1>3 DEF TaskInv, CompanyOk
<1>5. BottomUpStep /\ OnceStep
  BY DEF BottomUpStep, OnceStep
<1>6. TablesStep
  BY FollowsShort DEF TablesStep
<1> QED
  BY <1>4, <1>5, <1>6 DEF GoodStep

LEMMA StartRunKeeps ==
    ASSUME TaskInv, NEW t \in Tasks, StartRun(t)
    PROVE  TaskInv' /\ GoodStep
<1>1. UNCHANGED <<company, content, plan, dept, dispatched, contributed, evidence, outbox>>
  BY DEF StartRun, proof
<1>2. /\ task = [u \in Tasks |-> task[u]] /\ run = [u \in Tasks |-> run[u]] /\ IsRow(company)
      /\ \A u \in Tasks : IsTaskRow(task[u]) /\ task[u].dept \in Depts \cup {NoState}
  BY DEF TaskInv, TableRows
<1>3. run' = [u \in Tasks |-> run'[u]]
  BY <1>2 DEF StartRun
<1>4. CASE task[t].status \in {"assigned", "ready", "running"}
  <2>1. task' = [task EXCEPT ![t] = RowIn(task[t], "running")]
    BY <1>2, <1>4 DEF StartRun, RowIn
  <2>2. task' = [u \in Tasks |-> task'[u]] /\ task'[t] = RowIn(task[t], "running")
        /\ \A u \in Tasks : u # t => task'[u] = task[u]
    BY <1>2, <2>1
  <2>3. IsTaskRow(task'[t]) /\ task'[t].status = "running" /\ task'[t].dept = task[t].dept
    BY <1>2, <2>2, TaskRowIn
  <2>4. Follows(EmployeeTaskTransitions, task[t], task'[t])
    BY <1>4, <2>3, TaskTable DEF Follows, Shortcut
  <2>5. plan = "approved"
    BY <1>4 DEF TaskInv, Untouched
  <2> QED
    BY <1>1, <1>2, <1>3, <2>2, <2>3, <2>4, <2>5, TaskMoveKeeps
<1>5. CASE task[t].status \notin {"assigned", "ready", "running"}
  <2>1. UNCHANGED task
    BY <1>5 DEF StartRun
  <2>2. /\ IsRow(company)' /\ CompanyOk(company)'
        /\ plan' \in {"draft", "awaiting_user_confirmation", "approved", "superseded", "rejected"}
        /\ plan' # "approved" => plan # "approved" /\ contributed' = {} /\ evidence' = {}
    BY <1>1, <1>2 DEF TaskInv, IsRow, CompanyOk
  <2>3. TaskInv'
    BY <1>1, <1>3, <2>1, <2>2, StayKeeps
  <2> QED
    BY <1>1, <2>1, <2>3, StaySteps, FollowsShort
<1> QED
  BY <1>4, <1>5

LEMMA ReplaceKeeps ==
    ASSUME TaskInv, NEW t \in Tasks, NEW new \in Tasks, ReplaceEmployee(t, new)
    PROVE  TaskInv' /\ GoodStep
<1>1. /\ UNCHANGED <<company, content, plan, dept, dispatched, contributed, evidence, outbox, run>>
      /\ task[t].status # "none" /\ task[new].status = "none"
      /\ task' = [task EXCEPT ![t].status = "cancelled", ![new] = TaskRow(task[t].dept, "assigned", NoState)]
  BY DEF ReplaceEmployee, proof, Exists
<1>2. /\ task = [u \in Tasks |-> task[u]] /\ run = [u \in Tasks |-> run[u]]
      /\ \A u \in Tasks : IsTaskRow(task[u]) /\ task[u].dept \in Depts \cup {NoState}
  BY DEF TaskInv, TableRows
<1>3. /\ task' = [u \in Tasks |-> task'[u]] /\ t # new
      /\ task'[t] = RowIn(task[t], "cancelled")
      /\ task'[new] = TaskRow(task[t].dept, "assigned", NoState)
      /\ \A u \in Tasks : u \notin {t, new} => task'[u] = task[u]
  BY <1>1, <1>2 DEF RowIn
<1>4. IsTaskRow(task'[t]) /\ task'[t].status = "cancelled" /\ task'[t].dept = task[t].dept
  BY <1>2, <1>3, TaskRowIn
<1>5. IsTaskRow(task'[new]) /\ task'[new].status = "assigned" /\ task'[new].dept = task[t].dept
  BY <1>3 DEF TaskRow, IsTaskRow
<1>6. /\ Follows(EmployeeTaskTransitions, task[t], task'[t])
      /\ Follows(EmployeeTaskTransitions, task[new], task'[new])
  BY <1>1, <1>4, <1>5, FollowsShort DEF Shortcut
<1>7. plan = "approved"
  BY <1>1 DEF TaskInv, Untouched
<1>8. run' = [u \in Tasks |-> run'[u]]
  BY <1>1, <1>2
<1> QED
  BY <1>1, <1>2, <1>3, <1>4, <1>5, <1>6, <1>7, <1>8, TaskMoveKeeps

LEMMA TaskStep ==
    ASSUME TaskInv, [TaskNext]_taskVars
    PROVE  TaskInv' /\ [GoodStep]_taskVars
<1>1. CASE Deliver
  BY <1>1, DeliverKeeps, DeliverSteps
<1>2. CASE UNCHANGED taskVars
  <2>1. UNCHANGED <<company, content, plan, dept, task, run, dispatched, contributed, evidence, outbox>>
    BY <1>2 DEF taskVars, work, proof
  <2>2. /\ IsRow(company)' /\ CompanyOk(company)' /\ run' = [t \in Tasks |-> run'[t]]
        /\ plan' \in {"draft", "awaiting_user_confirmation", "approved", "superseded", "rejected"}
        /\ plan' # "approved" => plan # "approved" /\ contributed' = {} /\ evidence' = {}
    BY <2>1 DEF TaskInv, TableRows, IsRow, CompanyOk
  <2> QED
    BY <1>2, <2>1, <2>2, StayKeeps
<1>3. CASE UserStep
  <2>1. CASE SubmitUserMessage \/ SubmitPlan \/ RequestPlanRevision \/ RejectPlan
    BY <2>1, CommandKeeps
  <2>2. CASE \E found \in SUBSET Resources : ConfirmPlan(found) \/ ConfirmWaits(found)
    BY <2>2, <1>2, ConfirmKeeps DEF ConfirmWaits
  <2>3. CASE PauseTask \/ ResumeTask \/ CancelTask \/ SupersedeTask
    BY <2>3, OwnerKeeps
  <2>4. CASE \E t, new \in Tasks : ReplaceEmployee(t, new)
    BY <2>4, ReplaceKeeps
  <2> QED
    BY <1>3, <2>1, <2>2, <2>3, <2>4 DEF UserStep
<1>4. CASE EmployeeStep
  <2>1. CASE \E t \in Tasks : StartRun(t)
    BY <2>1, StartRunKeeps
  <2>2. ASSUME NEW t,
               \/ t \in Tasks /\ (ClaimRun(t) \/ PublishArtifact(t) \/ RequestApproval(t) \/ ResolveApproval(t))
               \/ t \in Tasks /\ \E status \in {"succeeded", "failed"} : EndRun(t, status)
        PROVE  TaskInv' /\ [GoodStep]_taskVars
    BY <2>2, WorkKeeps
  <2>3. CASE \/ \E kind \in {"verified", "department", "company"} : ProvideEvidence(kind)
             \/ \E topic \in {"review.submitted", "review.issue_changed"} : ReviewEvent(topic)
    BY <2>3, WorkKeeps
  <2> QED
    BY <1>4, <2>1, <2>2, <2>3 DEF EmployeeStep
<1> QED
  BY <1>1, <1>2, <1>3, <1>4 DEF TaskNext

LEMMA TaskStarts == TaskInit => TaskInv
<1> SUFFICES ASSUME TaskInit PROVE TaskInv
  OBVIOUS
<1>1. TableRows(company, dept, task, run, dispatched)
  BY DEF TaskInit, TableRows, IsRow, IsTaskRow, Row, TaskRow
<1>2. Untouched(dept, task, dispatched)
  BY DEF TaskInit, Untouched, Row, TaskRow
<1>3. CompanyOk(company)
  BY DEF TaskInit, CompanyOk, Row
<1>4. Waits(task, dispatched) /\ \A t \in Tasks : ~Ripe(task, t)
  BY <1>2 DEF Waits, Ripe, Untouched
<1> QED
  BY <1>1, <1>2, <1>3, <1>4 DEF TaskInv, TaskInit

\* No segment is forgotten: a segment whose upstream tasks are all accepted is
\* announced by a graph_advance row until it is dispatched (_on_graph_advance).
THEOREM SegmentsAreRemembered == TaskSpec => []NoSegmentForgotten
<1>1. TaskInv /\ [TaskNext]_taskVars => TaskInv'
  BY TaskStep
<1> QED
  BY <1>1, TaskStarts, ForgottenInv, PTL DEF TaskSpec

\* Work is completed bottom up by the gates of the Outbox transaction.
THEOREM WorkCompletesBottomUp == TaskSpec => CompletesBottomUp
<1>1. TaskInv /\ [TaskNext]_taskVars => TaskInv' /\ [BottomUpStep]_taskVars
  BY TaskStep DEF GoodStep
<1>2. CompletesBottomUp <=> [][BottomUpStep]_taskVars
  BY DEF CompletesBottomUp, BottomUpStep
<1> QED
  BY <1>1, <1>2, TaskStarts, PTL DEF TaskSpec

\* A deferred segment is dispatched once, after its upstream tasks are accepted.
THEOREM SegmentsDispatchedOnce == TaskSpec => DispatchedOnceInOrder
<1>1. TaskInv /\ [TaskNext]_taskVars => TaskInv' /\ [OnceStep]_taskVars
  BY TaskStep DEF GoodStep
<1>2. DispatchedOnceInOrder <=> [][OnceStep]_taskVars
  BY DEF DispatchedOnceInOrder, OnceStep
<1> QED
  BY <1>1, <1>2, TaskStarts, PTL DEF TaskSpec

\* Plans and tasks move along the tables of state_machine.py, shortcuts apart.
THEOREM TasksFollowTheTables == TaskSpec => TasksFollowTables
<1>1. TaskInv /\ [TaskNext]_taskVars => TaskInv' /\ [TablesStep]_taskVars
  BY TaskStep DEF GoodStep
<1>2. TasksFollowTables <=> [][TablesStep]_taskVars
  BY DEF TasksFollowTables, TablesStep
<1> QED
  BY <1>1, <1>2, TaskStarts, PTL DEF TaskSpec
=============================================================================
