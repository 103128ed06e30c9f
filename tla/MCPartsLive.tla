------------------------------- MODULE MCPartsLive -------------------------------
(* Two writers; one node; two pods of replica sets, one of a daemon set, one *)
(* of nobody.                                                                *)
EXTENDS LiveParts

KindOfPods ==
    [p \in Pods |-> CASE p = "daemon" -> "DaemonSet" [] p = "bare" -> "none"
                      [] OTHER -> "ReplicaSet"]

\* Where the pods start matters to the drain only.
MCInit == PartsInit /\ (part # "drain" => \A p \in Pods : pod[p] = "here")

MCSpec == MCInit /\ [][PartsNext]_allVars /\ PartsFairness
=============================================================================
