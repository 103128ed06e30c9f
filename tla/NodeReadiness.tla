------------------------------ MODULE NodeReadiness ------------------------------
(***************************************************************************)
(* GetNodeReadiness and what rests on it (utils/kubernetes/ready.go): a    *)
(* node is [conditions, taints, unschedulable, created], a condition       *)
(* [type, status, since, reason] and a taint [key, added], in the order    *)
(* the API returns them.  Times are numbers, 0 is the zero time.           *)
(* TrueOnly is a mutant of NotReadyStatus and NotReadyUnlessCordoned of    *)
(* IsNotNodeReadyAndSchedulable.                                           *)
(***************************************************************************)
EXTENDS Integers, Sequences

NoTime == 0  \* also the TimeAdded of a taint that has none

\* What a condition of these types says against the node.
TrueOnly == {"False"}
NotReadyStatus == {"False", "Unknown"}
Pressures == {"DiskPressure", "NetworkUnavailable"}
notReadyTaints == {"not-ready", "disk-pressure", "network-unavailable"}

Later(t, u) == IF t < u THEN u ELSE t

Against(c) ==
    \/ c.type = "Ready" /\ c.status \in NotReadyStatus
    \/ c.type \in Pressures /\ c.status = "True"

SeeCondition(r, c) ==
    IF c.type \notin {"Ready"} \union Pressures
    THEN r
    ELSE [canBeReady |-> r.canBeReady /\ ~Against(c),
          found |-> r.found \/ c.type = "Ready",
          time |-> Later(r.time, c.since),
          reason |-> IF c.type = "Ready" /\ Against(c) THEN c.reason
                                                       ELSE r.reason]

SeeTaint(r, t) ==
    IF t.key \notin notReadyTaints
    THEN r
    ELSE [r EXCEPT !.canBeReady = FALSE, !.time = Later(@, t.added)]

\* A loop over a list: what the turns make of the value it starts with.
Loop(Turn(_, _), first, list) ==
    LET after[i \in 0 .. Len(list)] ==
            IF i = 0 THEN first ELSE Turn(after[i - 1], list[i])
    IN after[Len(list)]

\* Nothing is known about the node without a Ready condition: the caller gets
\* the zero value and an error.
Unknown == [ready |-> FALSE, time |-> NoTime, reason |-> ""]

NothingSeen == [canBeReady |-> TRUE, found |-> FALSE, time |-> NoTime, reason |-> ""]

GetNodeReadiness(node) ==
    LET seen == Loop(SeeTaint, Loop(SeeCondition, NothingSeen, node.conditions),
                     node.taints)
    IN IF seen.found
       THEN [ready |-> seen.canBeReady, time |-> seen.time, reason |-> seen.reason]
       ELSE Unknown

\* Both filters drop the error.
IsNodeReadyAndSchedulable(node) ==
    GetNodeReadiness(node).ready /\ ~node.unschedulable
NotReadyUnlessCordoned(node) ==
    ~GetNodeReadiness(node).ready /\ ~node.unschedulable
IsNotNodeReadyAndSchedulable(node) == ~GetNodeReadiness(node).ready

KeepOther(kept, c) == IF c.type # "Ready" THEN Append(kept, c) ELSE kept

GetUnreadyNodeCopy(node, reason) ==
    LET new == [type |-> "Ready", status |-> "False", since |-> node.created,
                reason |-> reason]
    IN [node EXCEPT !.conditions = Loop(KeepOther, <<new>>, node.conditions)]
=============================================================================
