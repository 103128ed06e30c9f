--------------------------------- MODULE MCParts ---------------------------------
(***************************************************************************)
(* Small instances of the parts, whose initial states are chosen only for  *)
(* the part that takes steps.                                              *)
(*                                                                         *)
(* tracker   two goroutines delete the nodes n1 and n2 of two groups       *)
(* log       two goroutines, a store of two items that live for two ticks  *)
(* status    at most two nodes, three statuses                             *)
(* groups    one group of up to two nodes, two names                       *)
(* settings  two sites, at most two nodes, two changes between the reads   *)
(* eviction  a pod that stops at once and one with a long grace period     *)
(***************************************************************************)
EXTENDS Parts

CONSTANTS d1, d2, g1, g2, n1, n2, a, b

GraceOfPods == [p \in Pods |-> IF p = "quick" THEN 1 ELSE 3]

\* What a goroutine deletes is chosen when it starts to.
MCInit ==
    /\ PartsInit
    /\ \A d \in Deleters : group[d] = g1 /\ name[d] = n1
    /\ part # "settings" => secret = a /\ listed = 1 /\ limits.min = 1 /\ limits.max = 1
    /\ part # "eviction" => \A p \in Pods : pod[p] = "running"

MCSpec == MCInit /\ [][PartsNext]_allVars
=============================================================================
