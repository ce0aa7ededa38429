------------------------- MODULE MC_GatewayClient -------------------------
(* Instantiates GatewayClient for TLC: two dispatch names, two payloads    *)
(* (so a predicate can accept one, the other or both), HELLO intervals of  *)
(* 1 s and 2 s and a shortened default, and timeouts of a few poll rounds. *)
EXTENDS GatewayClient

MC_EventTypes == {"MESSAGE_CREATE"}
MC_HelloIntervalsMs == {1000}
MC_DefaultHeartbeatMs == 2000

\* Nothing in the client tells two payloads apart except the predicates,
\* which range over all subsets: payloads are interchangeable.
MC_Symmetry == Permutations(Payloads)
=============================================================================
