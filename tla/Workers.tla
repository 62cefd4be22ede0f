------------------------------ MODULE Workers ------------------------------
(***************************************************************************)
(* The worker supervisor of the Sidecar (workers/supervisor.py): the       *)
(* polling loop it wraps around every worker, and its restarts.            *)
(*                                                                         *)
(* A worker works, sleeps and works again.  When its work raises, the      *)
(* supervisor notes the time, forgets the failures older than the window,  *)
(* and either waits a back-off before it enters the loop again or, after   *)
(* too many failures, gives the worker up for good.  A sleep ends when it  *)
(* is due, so time does not pass a due sleeper; how long a work takes is   *)
(* not bounded.  The code has 300 s for the window, 5 restarts, back-offs  *)
(* of 1, 2, 4, 8 and 16 s and 1 s between two works.  The state, heartbeat *)
(* and error texts that health() reports steer nothing and are left out.   *)
(***************************************************************************)
EXTENDS Naturals, FiniteSets, Sequences

CONSTANTS Workers,        \* the workers the supervisor starts
          Backoff,        \* BACKOFF_SECONDS
          MaxRestarts,    \* MAX_RESTARTS_IN_5MIN
          RestartWindow,  \* the five minutes
          PollSleep,      \* sleep between two works
          MaxUptime       \* bound on the clock

ASSUME BackoffAssumption ==
    /\ Backoff \in Seq(Nat \ {0}) /\ Backoff # <<>>
    /\ \A i, j \in DOMAIN Backoff : i <= j => Backoff[i] <= Backoff[j]
ASSUME SupervisorAssumption ==
    /\ MaxRestarts \in Nat
    /\ {RestartWindow, PollSleep} \subseteq Nat \ {0}
    /\ MaxUptime \in Nat

VARIABLES
    uptime,     \* the clock of the event loop
    loop,       \* where the supervising task of each worker is
    failures,   \* restart_times of _run_worker: a back-off apart, so no time twice
    wake,       \* when the sleep of a sleeping worker is over
    restarts    \* the times at which a worker was restarted (history)

workerVars == <<uptime, loop, failures, wake, restarts>>

Sleeping == {"polling", "backoff"}

WorkersTypeOK ==
    /\ uptime \in Nat
    /\ loop \in [Workers -> {"none", "created", "entering", "working", "polling", "backoff",
                             "given_up", "ended"}]
    /\ failures \in [Workers -> SUBSET Nat]
    /\ wake \in [Workers -> Nat]
    /\ restarts \in [Workers -> SUBSET Nat]

WorkersInit ==
    /\ uptime = 0
    /\ loop = [w \in Workers |-> "none"]
    /\ failures = [w \in Workers |-> {}]
    /\ wake = [w \in Workers |-> 0]
    /\ restarts = [w \in Workers |-> {}]

-----------------------------------------------------------------------------
(* The failures that count: those after the cutoff, with the one of now. *)

Recent(times, now) == {t \in times \cup {now} : t + RestartWindow > now}

\* The failure of now does not count.
ExceededLate(times) == Cardinality(times) > MaxRestarts + 1

Exceeded(times) == Cardinality(times) > MaxRestarts

Delay(times) ==
    LET n == Cardinality(times) IN Backoff[IF n < Len(Backoff) THEN n ELSE Len(Backoff)]

-----------------------------------------------------------------------------

\* start: every worker gets its task; the task has not run yet.
StartWorkers ==
    /\ \A w \in Workers : loop[w] = "none"
    /\ loop' = [w \in Workers |-> "created"]
    /\ UNCHANGED <<uptime, failures, wake, restarts>>

\* A task begins its outer loop, which lets the event loop go round once.
EnterLoop(w) == loop' = [loop EXCEPT ![w] = "entering"]

FirstEntry(w) ==
    /\ loop[w] = "created"
    /\ EnterLoop(w)
    /\ UNCHANGED <<uptime, failures, wake, restarts>>

BeginWork(w) ==
    /\ \/ loop[w] = "entering"
       \/ loop[w] = "polling" /\ wake[w] <= uptime
    /\ loop' = [loop EXCEPT ![w] = "working"]
    /\ UNCHANGED <<uptime, failures, wake, restarts>>

WorkReturns(w) ==
    /\ loop[w] = "working"
    /\ loop' = [loop EXCEPT ![w] = "polling"]
    /\ wake' = [wake EXCEPT ![w] = uptime + PollSleep]
    /\ UNCHANGED <<uptime, failures, restarts>>

WorkRaises(w) ==
    LET times == Recent(failures[w], uptime)
    IN  /\ loop[w] = "working"
        /\ failures' = [failures EXCEPT ![w] = times]
        /\ \/ /\ Exceeded(times)
              /\ loop' = [loop EXCEPT ![w] = "given_up"]
              /\ UNCHANGED wake
           \/ /\ ~Exceeded(times)
              /\ loop' = [loop EXCEPT ![w] = "backoff"]
              /\ wake' = [wake EXCEPT ![w] = uptime + Delay(times)]
        /\ UNCHANGED <<uptime, restarts>>

RestartWorker(w) ==
    /\ loop[w] = "backoff" /\ wake[w] <= uptime
    /\ EnterLoop(w)
    /\ restarts' = [restarts EXCEPT ![w] = @ \cup {uptime}]
    /\ UNCHANGED <<uptime, failures, wake>>

\* stop cancels every task, wherever it awaits, and waits for them.
StopWorkers ==
    /\ \A w \in Workers : loop[w] \notin {"none", "ended"}
    /\ loop' = [w \in Workers |-> "ended"]
    /\ UNCHANGED <<uptime, failures, wake, restarts>>

PassTime ==
    /\ uptime < MaxUptime
    /\ \A w \in Workers : loop[w] \in Sleeping => wake[w] > uptime
    /\ \A w \in Workers : loop[w] \notin {"created", "entering"}
    /\ uptime' = uptime + 1
    /\ UNCHANGED <<loop, failures, wake, restarts>>

WorkersNext ==
    \/ StartWorkers
    \/ StopWorkers
    \/ PassTime
    \/ \E w \in Workers :
          \/ FirstEntry(w)
          \/ BeginWork(w)
          \/ WorkReturns(w)
          \/ WorkRaises(w)
          \/ RestartWorker(w)

WorkersSpec == WorkersInit /\ [][WorkersNext]_workerVars

-----------------------------------------------------------------------------
(***************************************************************************)
(* A worker is restarted at most MaxRestarts times in any window, wherever *)
(* the window begins.  _run_worker counts failures, and a restart follows  *)
(* its failure by a delay that differs from one failure to the next; the   *)
(* bound on restarts rests on the delays not decreasing with the number of *)
(* failures, and on a worker not failing while it waits.                   *)
(***************************************************************************)
RestartsBounded ==
    \A w \in Workers : \A t \in restarts[w] :
        Cardinality({u \in restarts[w] : u <= t /\ t < u + RestartWindow}) <= MaxRestarts
=============================================================================
