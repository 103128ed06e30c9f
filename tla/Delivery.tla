-------------------------------- MODULE Delivery --------------------------------
(***************************************************************************)
(* What the handler and the worker of the controller promise a node.  Its  *)
(* versions are offered, unless the node is barred, and handed over in the *)
(* order of the offers, none of them twice in the life of a process.  A    *)
(* node is barred on account of an offer, and the bar is lifted only for a *)
(* reason: the worker has had the node, or all that waits of it is out of  *)
(* date because it recovered.                                              *)
(***************************************************************************)
EXTENDS Sequences, Functions

CONSTANT Version    \* versions, the field node of which is the node's name

VARIABLES
    waiting,    \* the versions offered and not handed over
    delivered,  \* the versions handed over
    barred,     \* the nodes of which no version may be offered
    recovered   \* the versions out of date: their node recovered since

vars == <<waiting, delivered, barred, recovered>>

Init ==
    /\ waiting = <<>> /\ delivered = {} /\ barred = {}
    /\ recovered \in SUBSET Version

Known == Range(waiting) \union delivered

HandOver ==
    /\ waiting # <<>>
    /\ waiting' = Tail(waiting)
    /\ delivered' = delivered \union {Head(waiting)}

Deliver == HandOver /\ UNCHANGED <<barred, recovered>>

Offer(v) ==
    /\ v.node \notin barred
    /\ v \notin Known
    /\ waiting' = Append(waiting, v)
    /\ UNCHANGED <<delivered, barred, recovered>>

Bar(v) ==
    /\ barred' = barred \union {v.node}
    /\ UNCHANGED <<waiting, delivered, recovered>>

HadOrOutdated(n) ==
    \/ \E v \in delivered : v.node = n
    \/ \A v \in Range(waiting) : v.node = n => v \in recovered

Release(n) ==
    /\ HadOrOutdated(n)
    /\ barred' = barred \ {n}
    /\ UNCHANGED <<waiting, delivered, recovered>>

\* The process ends, and the next one has forgotten everything.
Forget ==
    /\ waiting' = <<>> /\ delivered' = {} /\ barred' = {}
    /\ UNCHANGED recovered

\* Nodes recover, and fail again.
Recover ==
    /\ UNCHANGED <<waiting, delivered, barred>>
    /\ recovered' \in SUBSET Version

Next ==
    \/ Deliver
    \/ \E v \in Known : Bar(v)
    \/ \E n \in barred : Release(n)
    \/ Forget
    \/ Recover
    \/ \E v \in Version : Offer(v)

Spec == Init /\ [][Next]_vars

FairSpec == Spec /\ WF_<<waiting, delivered>>(HandOver)
=============================================================================
