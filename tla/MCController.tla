----------------------------- MODULE MCController -----------------------------
(* The controller on two nodes, the model values n1 and n2. *)
EXTENDS Controller

CONSTANTS n1, n2

\* A bound for the liveness run: the last version of n1, which lets it fail, recover
\* and fail again, comes only where n2, which never comes back, was ready and left.
Alone == n2 \notin present /\ latest[n2].ready /\ aged[n2] = latest[n2].since

LastVersionIfAlone ==
    latest'[n1].rev = MaxRev /\ latest[n1].rev # MaxRev => Alone

LiveNext ==
    \/ HandlerStep \/ WorkerStep \/ MapRace \/ Killed
    \/ \E n \in Nodes :
          ClusterStep(n) /\ LastVersionIfAlone /\ UNCHANGED processVars

LiveSpec == Init /\ [][LiveNext]_vars /\ Fairness
=============================================================================
