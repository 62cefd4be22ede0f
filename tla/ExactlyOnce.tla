---------------------------- MODULE ExactlyOnce ----------------------------
(***************************************************************************)
(* What the Sidecar's write path promises to its callers, without queue,   *)
(* worker, transaction or crash: a request takes effect at most once per   *)
(* idempotency key, whoever says "ok" has the effect of that key, and a    *)
(* request that was refused has no effect, then or later.                  *)
(***************************************************************************)
CONSTANTS
    Requests,  \* the submissions
    Keys,      \* idempotency keys
    KeyOf,     \* the key of a request, or NoKey
    NoKey      \* a write of a worker: no key

VARIABLES
    done,      \* the requests that have taken effect
    told       \* what the caller of a request knows

\* Requests that ask for the same effect: retries carry the key of the original.
SameKey(e, f) == e = f \/ (KeyOf[e] = KeyOf[f] /\ KeyOf[e] # NoKey)

Init ==
    /\ done = {}
    /\ told = [e \in Requests |-> "unknown"]

Tell(e, word) == told' = [told EXCEPT ![e] = word]

\* A request takes effect; its caller hears of it at once or may have gone.
Apply(e, heard) ==
    /\ told[e] = "unknown"
    /\ \A f \in done : ~SameKey(e, f)
    /\ done' = done \cup {e}
    /\ IF heard THEN Tell(e, "ok") ELSE UNCHANGED told

\* A retry is answered with the effect its key already has.
Replay(e) ==
    /\ told[e] = "unknown" /\ e \notin done
    /\ \E f \in done : SameKey(e, f)
    /\ Tell(e, "ok")
    /\ UNCHANGED done

Refuse(e) ==
    /\ told[e] = "unknown" /\ e \notin done
    /\ Tell(e, "refused")
    /\ UNCHANGED done

Next ==
    \E e \in Requests :
        \/ \E heard \in BOOLEAN : Apply(e, heard)
        \/ Replay(e)
        \/ Refuse(e)

Spec == Init /\ [][Next]_<<done, told>>
=============================================================================
