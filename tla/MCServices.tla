----------------------------- MODULE MCServices -----------------------------
(***************************************************************************)
(* Four services of the Sidecar in one run.  They share no variable: part  *)
(* says which one moves, and the others stay in their initial states, so   *)
(* the states are those of the four specifications, side by side.          *)
(*                                                                         *)
(* Review: two versions of a deliverable, two reviewers of whom one may be *)
(* the author, up to three rounds.  Routing: an anchor, a proposer that is *)
(* also the aggregator and a fallback; c1 and c2 use the same account.     *)
(* ModelBroker: two calls of a run and queues of one event.                *)
(* SidecarServer: two connections, two frames and two calls to the host    *)
(* with a table of one.                                                    *)
(***************************************************************************)
EXTENDS Review, Routing, ModelBroker, SidecarServer, TLC

CONSTANTS c1, c2, c3

VARIABLE part

MCRoles == (c1 :> {"single", "proposer", "fallback"})
           @@ (c2 :> {"proposer", "fallback", "aggregator"})
           @@ (c3 :> {"single", "fallback"})
MCAccount == (c1 :> 1) @@ (c2 :> 1) @@ (c3 :> 2)
MCWindow == (c1 :> 1) @@ (c2 :> 2) @@ (c3 :> 1)
MCOrders == {<<c1, c2, c3>>}
MCAbleSets == {{c1, c2, c3}, {c2}}
MCFallbackOrder == <<c3>>

\* The requests of ModelBroker are interchangeable, and so are the frames and the
\* calls to the host of SidecarServer: the same two values stand for all of them.
MCSymmetry == Permutations(Calls)

MCInit ==
    /\ part \in {"review", "routing", "broker", "server"}
    /\ ReviewInit /\ RoutingInit /\ BrokerInit /\ ServerInit
    /\ part # "routing" => audited

MCNext ==
    /\ UNCHANGED part
    /\ \/ part = "review" /\ ReviewNext /\ UNCHANGED <<routingVars, brokerVars, serverVars>>
       \/ part = "routing" /\ RoutingNext /\ UNCHANGED <<reviewVars, brokerVars, serverVars>>
       \/ part = "broker" /\ BrokerNext /\ UNCHANGED <<reviewVars, routingVars, serverVars>>
       \/ part = "server" /\ ServerNext /\ UNCHANGED <<reviewVars, routingVars, brokerVars>>

MCSpec == MCInit /\ [][MCNext]_<<part, reviewVars, routingVars, brokerVars, serverVars>>
=============================================================================
