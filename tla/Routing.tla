------------------------------- MODULE Routing -------------------------------
(***************************************************************************)
(* A model turn of a run: RoutedModelTransport plans a decision, has the   *)
(* host authorise it, and calls one candidate with retries and fallbacks,  *)
(* or several proposers and an aggregator (runtime/transport.py, routing). *)
(*                                                                         *)
(* The score and the hard capability gates are abstracted: a turn picks an *)
(* order of the candidates and the set that passes the gates.  Time is     *)
(* abstracted: a deadline may pass at any step, and a bench may expire.    *)
(* Slot 0 is the request that complete() itself awaits; slots 1.. are the  *)
(* proposer tasks.  A request is under way while the Sidecar awaits it; of *)
(* what the host does with it, and whether a cancelled task tells the host *)
(* (it does not), see ModelBroker.                                         *)
(***************************************************************************)
EXTENDS Integers, FiniteSets, FiniteSetsExt, Sequences, SequencesExt

CONSTANTS
    Runs, Candidates,
    Roles, Account, Window,   \* eligible_roles, provider and credential, context_window
    Anchor, FallbackOrder, MaxProposers, MinSuccessful, ProposerRetries, \* the policy
    Orders, AbleSets,         \* rankings, and sets that pass the gates
    Kinds,                    \* the failure kinds explored
    MaxTurns,                 \* bound on the turns of a run
    NoCandidate               \* None

ASSUME RoutingAssumption ==
    /\ Roles \in [Candidates -> SUBSET {"single", "fallback", "proposer", "aggregator"}]
    /\ FallbackOrder \in Seq(Candidates) /\ Orders \subseteq Seq(Candidates)
    /\ \A able \in AbleSets : able \subseteq Candidates
    /\ MaxProposers \in 2..4 /\ ProposerRetries \in 0..2 /\ MaxTurns \in Nat

VARIABLES
    audited,   \* the transport was given a write queue
    ledger,    \* the rows of deployment_health, by candidate
    health,    \* self._health of each run
    turn,      \* the coroutine complete() of each run
    slot,      \* its requests
    attempts   \* route_attempts of its decision, by attempt_sequence

routingVars == <<audited, ledger, health, turn, slot, attempts>>

Slots == 0..MaxProposers
Fresh == [ready |-> TRUE, strikes |-> 0, bench |-> "none"]
IsEligible(state) == state.ready /\ state.bench # "active"

NoRequest ==
    [state |-> "idle", cand |-> NoCandidate, role |-> "none", seq |-> 0, try |-> 0,
     result |-> "none", kind |-> "none", dropped |-> FALSE]
Request(c, role, seq) == [NoRequest EXCEPT !.state = "to_send", !.cand = c, !.role = role, !.seq = seq]
NoTurn ==
    [pc |-> "idle", kind |-> "single", ranked |-> << >>, primary |-> NoCandidate,
     lineup |-> << >>, queue |-> << >>, next |-> 1, failed |-> {}, granted |-> {},
     decision |-> "none", outcome |-> "none", number |-> 0]

UnderWay == {"sent", "accepted", "streaming"}
Open == {"created", "accepted", "streaming"}
Unsafe == {"unsafe", "unrecorded"}    \* RouteExecutionSafetyError

----------------------------------------------------------------------------
(* Health and directives. *)

SameRetries(kind) ==
    CASE kind \in {"RATE_LIMITED", "PROVIDER_OVERLOADED", "TIMEOUT", "INVALID_RESPONSE"} -> 1
      [] kind = "TRANSPORT_TRANSIENT" -> 2
      [] OTHER -> 0

ApplyFailure(state, kind) ==
    LET strikes == Min({3, state.strikes + 1})   \* three or more are all the same
    IN  CASE kind = "AUTH_INVALID" -> [state EXCEPT !.ready = FALSE]
          [] kind \in {"CONTEXT_OVERFLOW", "BAD_REQUEST", "POLICY_REFUSAL"} -> state
          [] kind \in {"RATE_LIMITED", "MODEL_NOT_FOUND", "UNSUPPORTED_CAPABILITY", "INSUFFICIENT_CREDITS"} ->
               [state EXCEPT !.strikes = strikes, !.bench = "active"]
          [] OTHER -> [state EXCEPT !.strikes = strikes, !.bench = IF strikes = 3 THEN "active" ELSE @]

ApplySuccess(state) == Fresh

\* upsert_health overwrites the row, whoever wrote it.
UpsertHealth(c, state) ==
    ledger' = [x \in DOMAIN ledger \union {c} |-> IF x = c THEN state ELSE ledger[x]]

\* The copy in memory changes and, with a write queue, overwrites the row.
SetHealth(r, c, state) ==
    /\ health' = [health EXCEPT ![r][c] = state]
    /\ IF audited THEN UpsertHealth(c, state) ELSE UNCHANGED ledger

----------------------------------------------------------------------------
(* Candidates. *)

\* The elements of a list that are in a set, in their order (a comprehension).
Keep(seq, set) ==
    LET kept[n \in 0..Len(seq)] ==
          IF n = 0 THEN << >>
          ELSE IF seq[n] \in set THEN Append(kept[n - 1], seq[n]) ELSE kept[n - 1]
    IN  kept[Len(seq)]

WithRole(ranked, role) == Keep(ranked, {c \in Candidates : role \in Roles[c]})
FirstOf(seq) == IF seq = << >> THEN NoCandidate ELSE Head(seq)

FallbackCandidates(state, ranked, primary, kind, excluded) ==
    LET Allowed(c) ==
            /\ kind \notin {"BAD_REQUEST", "POLICY_REFUSAL"}
            /\ c # primary /\ c \notin excluded /\ IsEligible(state[c])
            /\ kind = "CONTEXT_OVERFLOW" => Window[c] > Window[primary]
            /\ kind \in {"AUTH_INVALID", "INSUFFICIENT_CREDITS"} => Account[c] # Account[primary]
        chain == Keep(WithRole(ranked, "fallback"), {c \in Candidates : Allowed(c)})
    IN  Keep(FallbackOrder, Range(chain)) \o Keep(chain, Candidates \ Range(FallbackOrder))

\* fixed: the anchor, else the first of fallback_order; other modes: the best.
Primary(mode, ranked) ==
    LET singles == WithRole(ranked, "single")
    IN  CASE mode # "fixed" -> FirstOf(singles)
          [] mode = "fixed" /\ Anchor \in Range(singles) -> Anchor
          [] OTHER -> FirstOf(Keep(FallbackOrder, Range(WithRole(ranked, "fallback"))))

\* select_proposer_candidates: the best one, then others for their diversity and
\* their quality; a fourth, for its latency, only in the highest tier.
Lineups(ranked) ==
    LET proposers == WithRole(ranked, "proposer")
        most == Min({MaxProposers, Len(proposers)})
    IN  {lineup \in UNION {[1..n -> Range(proposers)] : n \in {most, Min({3, most})}} :
            IsInjective(lineup) /\ (lineup # << >> => Head(lineup) = Head(proposers))}
Proposers(t) == Min({MaxProposers, Len(WithRole(t.ranked, "proposer"))})  \* max_proposers
Needed(t) ==
    Min({Max({MinSuccessful, IF Proposers(t) = 4 THEN 3 ELSE 2}), Len(t.lineup)})
MaxAttempts == ProposerRetries + 1

\* Deliberately wrong: only the first choice is registered.
PrimarySelection(state, ranked, primary) == {<<primary, "single">>}

SingleSelections(state, ranked, primary) ==
    {<<primary, "single">>} \union
    {<<c, "fallback">> : c \in Range(FallbackCandidates(state, ranked, primary, "none", {}))}

EnsembleSelections(ranked, lineup, aggregator) ==
    LET rest == {c \in Range(ranked) : c \notin Range(lineup) /\ c # aggregator}
        fallbacks == {<<c, "fallback">> : c \in {c \in rest : "fallback" \in Roles[c]}}
        spare == FirstOf(Keep(WithRole(ranked, "single"), rest))
    IN  {<<c, "proposer">> : c \in Range(lineup)} \union {<<aggregator, "aggregator">>} \union fallbacks
            \union (IF fallbacks = {} /\ spare # NoCandidate THEN {<<spare, "single">>} ELSE {})

----------------------------------------------------------------------------
(* Planning. *)

\* load_health_ledger: a turn works on a copy of the rows of deployment_health;
\* a candidate without a row keeps what is in memory.
LoadHealth(r) == [c \in Candidates |-> IF c \in DOMAIN ledger THEN ledger[c] ELSE health[r][c]]

\* should_ensemble, for a turn that asks for it: enough proposers and an aggregator.
ShouldEnsemble(mode, lineup, aggregator) ==
    mode = "selective_ensemble" /\ Len(lineup) >= 2 /\ aggregator # NoCandidate

\* create_decision: the row of a decision with what it has selected.
NewDecision(t, kind, selections) ==
    [t EXCEPT !.pc = "planned", !.kind = kind, !.decision = "planned", !.granted = selections]

\* _persist_decision of a single candidate and of an ensemble.
PersistSingle(t, state, primary) ==
    [NewDecision(t, "single", SingleSelections(state, t.ranked, primary)) EXCEPT !.primary = primary]
PersistEnsemble(t, lineup, aggregator) ==
    [NewDecision(t, "ensemble", EnsembleSelections(t.ranked, lineup, aggregator))
        EXCEPT !.primary = aggregator, !.lineup = lineup]

\* complete() up to the row of the decision; no candidate is an error.
PlanTurn(r, mode, order, able, ensemble) ==
    LET state  == LoadHealth(r)
        ranked == Keep(order, {c \in able : IsEligible(state[c])})
        aggregator == FirstOf(WithRole(ranked, "aggregator"))
        primary == Primary(mode, ranked)
        begun == [NoTurn EXCEPT !.number = turn[r].number + 1, !.ranked = ranked]
    IN  /\ turn[r].pc \in {"idle", "over"} /\ turn[r].number < MaxTurns
        /\ health' = [health EXCEPT ![r] = state]
        /\ \E lineup \in Lineups(ranked) :
             /\ ensemble => ShouldEnsemble(mode, lineup, aggregator)
             /\ turn' = [turn EXCEPT ![r] =
                          CASE primary = NoCandidate -> [begun EXCEPT !.pc = "over", !.outcome = "failed"]
                            [] ensemble /\ primary # NoCandidate -> PersistEnsemble(begun, lineup, aggregator)
                            [] OTHER -> PersistSingle(begun, state, primary)]
        /\ slot' = [slot EXCEPT ![r] = [s \in Slots |-> NoRequest]]
        /\ attempts' = [attempts EXCEPT ![r] = << >>]
        /\ UNCHANGED <<audited, ledger>>

\* register_decision of the host: every role must be one the candidate has.
\* A refusal, like a lost host or a row that cannot be written, leaves the
\* decision planned.
RegisterDecision(r, reached) ==
    LET t  == turn[r]
        ok == reached /\ \A pair \in t.granted : pair[2] \in Roles[pair[1]]
    IN  /\ t.pc = "planned"
        /\ turn' = [turn EXCEPT ![r] =
                      CASE ~ok -> [t EXCEPT !.pc = "over", !.outcome = "unsafe", !.granted = {}]
                        [] ok /\ t.kind = "single" -> [t EXCEPT !.pc = "single", !.decision = "executing"]
                        [] ok /\ t.kind = "ensemble" -> [t EXCEPT !.pc = "proposing", !.decision = "executing"]]
        /\ slot' = [slot EXCEPT ![r] = [s \in Slots |->
                      CASE ok /\ s = 0 /\ t.kind = "single" -> Request(t.primary, "single", 1)
                        [] ok /\ s \in 1..Len(t.lineup) -> Request(t.lineup[s], "proposer", s)
                        [] OTHER -> NoRequest]]
        /\ UNCHANGED <<audited, ledger, health, attempts>>

----------------------------------------------------------------------------
(* One request: _execute_candidate and ReverseRpcTransport.complete. *)

\* create_attempt: attempt_sequence is unique in a decision.
SequenceTaken(r, q) == audited /\ q.seq \in DOMAIN attempts[r]
Inserted(rows, q) ==
    [seq \in DOMAIN rows \union {q.seq} |->
        IF seq = q.seq THEN [cand |-> q.cand, role |-> q.role, status |-> "created"] ELSE rows[seq]]
CreateAttempt(r, q) ==
    attempts' = IF ~audited \/ SequenceTaken(r, q) THEN attempts
                ELSE [attempts EXCEPT ![r] = Inserted(@, q)]

\* The row of the attempt; a sequence that is taken is a safety error.
SendAttempt(r, s) ==
    LET q == slot[r][s]
    IN  /\ q.state = "to_send"
        /\ slot' = [slot EXCEPT ![r][s] =
                      IF SequenceTaken(r, q) THEN [q EXCEPT !.state = "done", !.result = "unsafe"]
                      ELSE [q EXCEPT !.state = "sent"]]
        /\ CreateAttempt(r, q)
        /\ UNCHANGED <<audited, ledger, health, turn>>

\* transition_attempt, which is a compare-and-set.
AttemptTo(r, s, expected, status) ==
    attempts' = IF audited /\ attempts[r][slot[r][s].seq].status \in expected
                THEN [attempts EXCEPT ![r][slot[r][s].seq].status = status] ELSE attempts

\* _transition_attempt_terminal: from whichever status is open.
CloseAttempt(r, s, status) == AttemptTo(r, s, Open, status)

\* credential.http.start: the host authorises the pair, the row is accepted.
Accepted(r, s) ==
    /\ slot[r][s].state = "sent"
    /\ <<slot[r][s].cand, slot[r][s].role>> \in turn[r].granted
    /\ slot' = [slot EXCEPT ![r][s].state = "accepted"]
    /\ AttemptTo(r, s, {"created"}, "accepted")
    /\ UNCHANGED <<audited, ledger, health, turn>>

\* The first event that is not terminal.
Streaming(r, s) ==
    /\ slot[r][s].state = "accepted"
    /\ slot' = [slot EXCEPT ![r][s].state = "streaming"]
    /\ AttemptTo(r, s, {"accepted"}, "streaming")
    /\ UNCHANGED <<audited, ledger, health, turn>>

\* The provider has answered.  The update of the row starts with the step from
\* created to succeeded, which transition_attempt refuses: a safety error.
Answered(r, s) ==
    LET q == slot[r][s]
    IN  /\ q.state \in {"accepted", "streaming"}
        /\ slot' = [slot EXCEPT ![r][s].state = "done", ![r][s].result = IF audited THEN "unrecorded" ELSE "answered"]
        /\ IF ~audited /\ s = 0 /\ turn[r].kind = "single"
           THEN SetHealth(r, q.cand, ApplySuccess(health[r][q.cand]))
           ELSE UNCHANGED <<health, ledger>>
        /\ UNCHANGED <<audited, turn, attempts>>

\* The same candidate once more.
Retry(q, t) ==
    [q EXCEPT !.state = "to_send", !.try = @ + 1,
              !.seq = IF q.role = "proposer" THEN @ + Proposers(t) ELSE @ + 1]

MayRetry(q, t, kind, visible, inTime) ==
    /\ ~visible /\ kind # "OTHER" /\ SameRetries(kind) > 0
    /\ CASE q.role = "single" -> t.pc = "single" /\ q.try < SameRetries(kind) /\ (kind = "RATE_LIMITED" => inTime)
         [] q.role = "proposer" -> q.try < ProposerRetries /\ inTime
         [] q.role = "aggregator" -> q.try = 0
         [] OTHER -> FALSE

\* How a failure is recorded in the health and in the row of the attempt.
RecordedKind(kind) == IF kind = "OTHER" THEN "INVALID_RESPONSE" ELSE kind
ClosedAs(kind) == IF kind = "TIMEOUT" THEN "timed_out" ELSE "failed"

\* The failures a request can meet: before it is accepted the provider says nothing.
Meets(q, kind) == q.state \in UnderWay /\ (q.state = "sent" => kind \in {"OTHER", "TIMEOUT"})

\* A structured provider failure, or (OTHER) any other exception.  In time: the
\* deadlines of the run and of the proposer allow the wait for a retry.
Failed(r, s, kind, visible, inTime) ==
    LET q == slot[r][s]
    IN  /\ Meets(q, kind)
        /\ visible => q.state = "streaming" /\ kind \notin {"OTHER", "TIMEOUT"}
        /\ CloseAttempt(r, s, ClosedAs(kind))
        /\ slot' = [slot EXCEPT ![r][s] =
                      IF MayRetry(q, turn[r], kind, visible, inTime) THEN Retry(q, turn[r])
                      ELSE [q EXCEPT !.state = "done", !.result = "failed", !.kind = RecordedKind(kind)]]
        /\ IF kind = "OTHER" /\ q.role = "proposer" THEN UNCHANGED <<health, ledger>>
           ELSE SetHealth(r, q.cand, ApplyFailure(health[r][q.cand], RecordedKind(kind)))
        /\ UNCHANGED <<audited, turn>>

\* The user cancels the run: ModelRunCancelledError.
Cancelled(r, s) ==
    /\ slot[r][s].state \in UnderWay
    /\ slot' = [slot EXCEPT ![r][s].state = "done", ![r][s].result = "cancelled"]
    /\ CloseAttempt(r, s, "cancelled")
    /\ UNCHANGED <<audited, ledger, health, turn>>

\* The write queue fails to write what happened to a request: a safety error.
\* The row is as it was, or was written and the caller not told, or is closed
\* by the handler of the error; after a failure of the provider the health in
\* memory may be ahead of its row.
AuditFails(r, s) ==
    LET q == slot[r][s]
    IN  /\ audited /\ q.state \in UnderWay \union {"to_send"}
        /\ slot' = [slot EXCEPT ![r][s].state = "done", ![r][s].result = "unsafe"]
        /\ \/ UNCHANGED <<attempts, health>>
           \/ q.state = "to_send" /\ CreateAttempt(r, q) /\ UNCHANGED health
           \/ /\ q.state \in UnderWay
              /\ \E status \in {"failed", "timed_out", "cancelled"} : CloseAttempt(r, s, status)
              /\ UNCHANGED health
           \/ \E kind \in Kinds :
                /\ Meets(q, kind) /\ (kind = "OTHER" => q.role # "proposer")
                /\ CloseAttempt(r, s, ClosedAs(kind))
                /\ health' = [health EXCEPT ![r][q.cand] = ApplyFailure(@, RecordedKind(kind))]
        /\ UNCHANGED <<audited, ledger, turn>>

----------------------------------------------------------------------------
(* The request that complete() awaits. *)

\* transition_decision from executing.
TransitionDecision(status, target) == IF status = "executing" THEN target ELSE status

\* complete() returns or raises, and the decision is closed, unless the error is
\* about safety: then it is not.  A row that cannot be written is such an error.
EndTurn(r, outcome) ==
    \E final \in {outcome} \union (IF audited THEN {"unsafe"} ELSE {}) :
        turn' = [turn EXCEPT ![r].pc = "over", ![r].outcome = final,
                   ![r].decision = IF final = "unsafe" THEN @ ELSE TransitionDecision(@, final)]

\* The next fallback of the queue, with the next sequence.
TryFallback(r, queue, next, t) ==
    IF queue = << >>
    THEN EndTurn(r, "failed") /\ UNCHANGED slot
    ELSE /\ turn' = [turn EXCEPT ![r] = [t EXCEPT !.pc = "fallback", !.queue = Tail(queue), !.next = next + 1]]
         /\ slot' = [slot EXCEPT ![r][0] = Request(Head(queue), "fallback", next)]

\* The fallbacks after the request that failed, from a sequence on.
StartFallbacks(r, next) ==
    LET t == turn[r]
        q == slot[r][0]
    IN  TryFallback(r, FallbackCandidates(health[r], t.ranked, q.cand, q.kind, t.failed), next, t)

\* The aggregator has failed; its sequences are behind those of all proposers.
AggregatorFallback(r) == StartFallbacks(r, 1 + Proposers(turn[r]) * MaxAttempts + 2)

Settle(r) ==
    LET t == turn[r]
        q == slot[r][0]
    IN  /\ q.state = "done"
        /\ t.pc \in {"single", "quorum", "aggregate", "fallback"}
        /\ CASE q.result = "answered"  -> EndTurn(r, "succeeded") /\ UNCHANGED slot
             [] q.result = "cancelled" -> EndTurn(r, "cancelled") /\ UNCHANGED slot
             [] q.result \in Unsafe   -> EndTurn(r, "unsafe") /\ UNCHANGED slot
             [] q.result = "failed" /\ t.pc = "fallback" -> TryFallback(r, t.queue, t.next, t)
             [] q.result = "failed" /\ t.pc = "aggregate" -> AggregatorFallback(r)
             [] q.result = "failed" /\ t.pc \in {"single", "quorum"} -> StartFallbacks(r, q.seq + 1)
        /\ UNCHANGED <<audited, ledger, health, attempts>>

----------------------------------------------------------------------------
(* The proposers. *)

Finished(r) == {s \in 1..Len(turn[r].lineup) : slot[r][s].state = "done"}
AnsweredBy(r) == {s \in Finished(r) : slot[r][s].result = "answered" /\ ~slot[r][s].dropped}

\* Deliberately wrong: nobody waits for the tasks that were cancelled.
NoGather(r) == TRUE

\* gather of the tasks that were cancelled.
AllEnded(r) == Finished(r) = 1..Len(turn[r].lineup)

\* All are done, enough have answered, or the deadline passed: the tasks that
\* are left are cancelled and what they return is not looked at.  Nor is the
\* host told of it: the Sidecar stops awaiting their requests.
StopWaiting(r) ==
    /\ turn[r].pc = "proposing"
    /\ turn' = [turn EXCEPT ![r].pc = "closing"]
    /\ slot' = [slot EXCEPT ![r] = [s \in Slots |->
                  IF s \in 1..Len(turn[r].lineup) \ Finished(r)
                  THEN [slot[r][s] EXCEPT !.dropped = TRUE] ELSE slot[r][s]]]
    /\ UNCHANGED <<audited, ledger, health, attempts>>

\* CancelledError in a task.  While it awaits the host it counts as a timeout,
\* which may be retried; while the row is being written the task ends, and the
\* row may exist.
TaskCancelled(r, s, written, inTime) ==
    LET q == slot[r][s]
    IN  /\ turn[r].pc = "closing" /\ q.dropped /\ q.result # "cancelling"
        /\ \/ /\ q.state = "to_send" /\ q.result = "none" /\ ~inTime
              /\ slot' = [slot EXCEPT ![r][s].state = "done", ![r][s].result = "failed"]
              /\ IF written THEN CreateAttempt(r, q) ELSE UNCHANGED attempts
              /\ UNCHANGED <<ledger, health>>
           \/ /\ q.state \in UnderWay /\ ~written
              /\ CloseAttempt(r, s, "timed_out")
              /\ slot' = [slot EXCEPT ![r][s] =
                            IF MayRetry(q, turn[r], "TIMEOUT", FALSE, inTime)
                            THEN [Retry(q, turn[r]) EXCEPT !.result = "cancelling"]
                            ELSE [q EXCEPT !.state = "done", !.result = "failed"]]
              /\ SetHealth(r, q.cand, ApplyFailure(health[r][q.cand], "TIMEOUT"))
        /\ UNCHANGED <<audited, turn>>

\* Who is asked when too few proposers have answered.
QuorumFallback(r, failed) ==
    LET t == turn[r]
        backup == FirstOf(Keep(WithRole(t.ranked, "fallback"),
                               {c \in Candidates \ failed : IsEligible(health[r][c])}))
        spare  == FirstOf(Keep(WithRole(t.ranked, "single"),
                               Candidates \ (Range(t.lineup) \union {t.primary})))
    IN  IF backup # NoCandidate THEN Request(backup, "fallback", Len(t.lineup) + 1)
        ELSE Request(spare, "single", Len(t.lineup) + 1)

\* The aggregator, with the proposals in its last message.
AggregatorRequest(t) == Request(t.primary, "aggregator", 1 + Proposers(t) * MaxAttempts)

\* Every task has ended.  A cancel or a safety error that was looked at ends
\* the turn; else the aggregator is asked, or a fallback for the quorum.
Conclude(r) ==
    LET t == turn[r]
        Has(results) == \E s \in Finished(r) : slot[r][s].result \in results /\ ~slot[r][s].dropped
        failed == {t.lineup[s] : s \in Finished(r) \ AnsweredBy(r)}
        asked  == QuorumFallback(r, failed)
    IN  /\ t.pc = "closing" /\ AllEnded(r)
        /\ CASE Has({"cancelled"}) -> EndTurn(r, "cancelled") /\ UNCHANGED slot
             [] ~Has({"cancelled"}) /\ Has(Unsafe) -> EndTurn(r, "unsafe") /\ UNCHANGED slot
             [] ~Has({"cancelled"}) /\ ~Has(Unsafe) ->
                  CASE Cardinality(AnsweredBy(r)) >= Needed(t) ->
                         /\ turn' = [turn EXCEPT ![r].pc = "aggregate", ![r].failed = failed \union {t.primary}]
                         /\ slot' = [slot EXCEPT ![r][0] = AggregatorRequest(t)]
                    [] Cardinality(AnsweredBy(r)) < Needed(t) /\ asked.cand = NoCandidate ->
                         EndTurn(r, "failed") /\ UNCHANGED slot
                    [] OTHER ->
                         /\ turn' = [turn EXCEPT ![r].pc = "quorum", ![r].failed = failed]
                         /\ slot' = [slot EXCEPT ![r][0] = asked]
        /\ UNCHANGED <<audited, ledger, health, attempts>>

----------------------------------------------------------------------------
\* benched_until has passed, for the row or for a copy in memory.
BenchExpires(c) ==
    /\ \/ /\ c \in DOMAIN ledger /\ ledger[c].bench = "active"
          /\ ledger' = [ledger EXCEPT ![c].bench = "past"] /\ UNCHANGED health
       \/ \E r \in Runs : /\ health[r][c].bench = "active"
                          /\ health' = [health EXCEPT ![r][c].bench = "past"] /\ UNCHANGED ledger
    /\ UNCHANGED <<audited, turn, slot, attempts>>

----------------------------------------------------------------------------
(* The Sidecar dies and starts again: reconcile_startup_state. *)

\* cleanup_expired_health deletes the ready rows whose bench has passed.
Expired(state) == state.ready /\ state.bench = "past"

\* reconcile_interrupted_routing: nothing is known to be active in the host, so
\* what is open fails and is never sent again.
Interrupted(status) == IF status \in Open \union {"planned", "executing"} THEN "failed" ELSE status

RestartSidecar ==
    /\ \E r \in Runs : turn[r].pc # "idle"
    /\ ledger' = [c \in {c \in DOMAIN ledger : ~Expired(ledger[c])} |-> ledger[c]]
    /\ health' = [r \in Runs |-> [c \in Candidates |-> Fresh]]
    /\ turn' = [r \in Runs |->
                  IF turn[r].pc = "idle" THEN turn[r]
                  ELSE [NoTurn EXCEPT !.pc = "over", !.outcome = "interrupted", !.number = turn[r].number,
                                      !.decision = Interrupted(turn[r].decision)]]
    /\ slot' = [r \in Runs |-> [s \in Slots |-> NoRequest]]
    /\ attempts' = [r \in Runs |-> [seq \in DOMAIN attempts[r] |->
                      [attempts[r][seq] EXCEPT !.status = Interrupted(@)]]]
    /\ UNCHANGED audited

RoutingInit ==
    /\ audited \in BOOLEAN
    /\ ledger = << >>
    /\ health = [r \in Runs |-> [c \in Candidates |-> Fresh]]
    /\ turn = [r \in Runs |-> NoTurn]
    /\ slot = [r \in Runs |-> [s \in Slots |-> NoRequest]]
    /\ attempts = [r \in Runs |-> << >>]

RoutingNext ==
    \/ \E r \in Runs, mode \in {"fixed", "smart_single", "selective_ensemble"}, order \in Orders, able \in AbleSets,
          ensemble \in BOOLEAN : PlanTurn(r, mode, order, able, ensemble)
    \/ \E r \in Runs, reached \in BOOLEAN : RegisterDecision(r, reached)
    \/ \E r \in Runs, s \in Slots :
          \/ SendAttempt(r, s) \/ Accepted(r, s) \/ Streaming(r, s) \/ Answered(r, s) \/ Cancelled(r, s)
          \/ AuditFails(r, s)
    \/ \E r \in Runs, s \in Slots, kind \in Kinds, visible, inTime \in BOOLEAN : Failed(r, s, kind, visible, inTime)
    \/ \E r \in Runs : Settle(r) \/ StopWaiting(r) \/ Conclude(r)
    \/ \E r \in Runs, s \in Slots \ {0}, written, inTime \in BOOLEAN : TaskCancelled(r, s, written, inTime)
    \/ \E c \in Candidates : BenchExpires(c)
    \/ RestartSidecar

RoutingSpec == RoutingInit /\ [][RoutingNext]_routingVars

----------------------------------------------------------------------------
(* Properties. *)

(***************************************************************************)
(* A single decision calls only what the host was told of it: whatever     *)
(* fails, and however the health of the candidates changes while it runs,  *)
(* the fallbacks it computes again are among the selections it registered. *)
(***************************************************************************)
SingleCallsAuthorised ==
    \A r \in Runs : turn[r].kind = "single" =>
        \A s \in Slots : slot[r][s].state # "idle" => <<slot[r][s].cand, slot[r][s].role>> \in turn[r].granted

(***************************************************************************)
(* When complete() returns, no task of the turn is left and no request of  *)
(* it is awaited, and the rows agree with what it returned: no attempt of  *)
(* a turn that failed or was cancelled is open, save one that was dropped  *)
(* while its row was being written and one whose task ended with a safety  *)
(* error that nobody looked at, because it was dropped or the user had     *)
(* cancelled the run; and the decision has that outcome.  After a restart  *)
(* nothing is left open at all.                                            *)
(***************************************************************************)
TurnClosed ==
    \A r \in Runs : turn[r].pc = "over" =>
        /\ \A s \in Slots : slot[r][s].state \in {"idle", "done"}
        /\ turn[r].outcome = "interrupted" =>
             /\ turn[r].decision \notin {"planned", "executing"}
             /\ \A seq \in DOMAIN attempts[r] : attempts[r][seq].status \notin Open
        /\ turn[r].outcome \in {"failed", "cancelled"} =>
             /\ turn[r].decision \in {"none", turn[r].outcome}
             /\ \A seq \in DOMAIN attempts[r] :
                  attempts[r][seq].status \in Open => \E s \in Slots :
                      /\ slot[r][s].seq = seq
                      /\ \/ slot[r][s].result \in Unsafe /\ (slot[r][s].dropped \/ turn[r].outcome = "cancelled")
                         \/ slot[r][s].dropped /\ attempts[r][seq].status = "created"

(***************************************************************************)
(* An answered request is recorded: once the model has answered, the       *)
(* attempt has succeeded ("created -> accepted -> streaming -> succeeded"  *)
(* in the state diagram of the routing design).                            *)
(***************************************************************************)
AnswerRecorded ==
    \A r \in Runs, s \in Slots :
        /\ slot[r][s].result \in {"answered", "unrecorded"}
        /\ slot[r][s].seq \in DOMAIN attempts[r]
        => attempts[r][slot[r][s].seq].status = "succeeded"
=============================================================================
