-------------------------------- MODULE Deletions --------------------------------
(***************************************************************************)
(* What a tracker of node deletions promises: every operation happens at   *)
(* once, the deletions in progress are counted for each node group, and    *)
(* the results since the last call are handed out as they are, once.       *)
(***************************************************************************)
EXTENDS Integers, Functions

CONSTANTS Groups, Names, Results

VARIABLES
    inProgress,  \* deletions in progress of each node group
    results,     \* the result of each node deleted since the last call
    handed       \* the results that a call handed out so far, in sets

vars == <<inProgress, results, handed>>

NoResults == [n \in {} |-> 0]

Init ==
    /\ inProgress = [g \in Groups |-> 0]
    /\ results = NoResults
    /\ handed = {}

StartDeletion(g) ==
    /\ inProgress' = [inProgress EXCEPT ![g] = @ + 1]
    /\ UNCHANGED <<results, handed>>

EndDeletion(g) ==
    /\ inProgress[g] > 0
    /\ inProgress' = [inProgress EXCEPT ![g] = @ - 1]
    /\ UNCHANGED <<results, handed>>

\* A result that was not handed out yet gives way to the next one of its node.
AddNodeDeleteResult(n, r) ==
    /\ results' = [m \in DOMAIN results \union {n} |->
                      IF m = n THEN r ELSE results[m]]
    /\ UNCHANGED <<inProgress, handed>>

GetAndClearNodeDeleteResults ==
    /\ handed' = handed \union {<<n, results[n]>> : n \in DOMAIN results}
    /\ results' = NoResults
    /\ UNCHANGED inProgress

Next ==
    \/ \E g \in Groups : StartDeletion(g) \/ EndDeletion(g)
    \/ \E n \in Names, r \in Results : AddNodeDeleteResult(n, r)
    \/ GetAndClearNodeDeleteResults

Spec == Init /\ [][Next]_vars
=============================================================================
