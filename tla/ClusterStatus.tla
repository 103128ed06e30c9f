------------------------------ MODULE ClusterStatus ------------------------------
(***************************************************************************)
(* GetStatus of the ClusterStateRegistry (clusterstate/clusterstate.go):   *)
(* the conditions of the cluster from the readiness the registry holds,    *)
(* each with the time of its last transition, carried on from the status   *)
(* before.                                                                 *)
(*                                                                         *)
(* The loop that refills the readiness is not in the source (external): it *)
(* runs in the goroutine that asks for the status.  The messages of the    *)
(* conditions are left out.  SameTypeOnly is a mutant of SameStatus.       *)
(***************************************************************************)
EXTENDS Integers, Sequences, Functions

CONSTANTS
    OkTotalUnreadyCount,        \* config
    MaxTotalUnreadyPercentage,  \* config, in whole percents
    MaxNodes,                   \* bound: nodes of the cluster
    MaxTime,                    \* bound: time
    MaxStatuses                 \* bound: statuses asked for

StatusConstants ==
    /\ OkTotalUnreadyCount \in Nat /\ MaxTotalUnreadyPercentage \in Nat
    /\ MaxNodes \in Nat /\ MaxTime \in Nat /\ MaxStatuses \in Nat

VARIABLES
    clock,
    nodes,                    \* how many nodes there are
    totalReadiness,           \* [ready, unready, time]
    candidatesForScaleDown,   \* how many, of all node groups
    lastScaleDownUpdateTime,
    lastStatus,               \* the conditions of the last status
    published                 \* history: the conditions of all statuses

vars == <<clock, nodes, totalReadiness, candidatesForScaleDown,
          lastScaleDownUpdateTime, lastStatus, published>>

Time == 0 .. MaxTime
Readiness == [ready : 0 .. MaxNodes, unready : 0 .. MaxNodes, time : Time]
Condition ==
    [type : {"Health", "ScaleUp", "ScaleDown"},
     status : {"Healthy", "Unhealthy", "InProgress", "NoActivity",
               "CandidatesPresent", "NoCandidates"},
     probe : Time, transition : Time]

TypeOK ==
    /\ clock \in Time /\ nodes \in 0 .. MaxNodes
    /\ totalReadiness \in Readiness
    /\ totalReadiness.ready + totalReadiness.unready <= nodes
    /\ candidatesForScaleDown \in 0 .. 1 /\ lastScaleDownUpdateTime \in Time
    /\ lastStatus \in Seq(Condition) /\ Len(lastStatus) \in {0, 3}
    /\ Len(published) <= MaxStatuses

\* NewClusterStateRegistry.
Init ==
    /\ clock = 0 /\ nodes = 0
    /\ totalReadiness = [ready |-> 0, unready |-> 0, time |-> 0]
    /\ candidatesForScaleDown = 0 /\ lastScaleDownUpdateTime = 0
    /\ lastStatus = <<>> /\ published = <<>>

-----------------------------------------------------------------------------
TooManyUnready(unready, n) ==
    /\ unready > OkTotalUnreadyCount
    /\ 100 * unready > MaxTotalUnreadyPercentage * n

IsClusterHealthy == ~TooManyUnready(totalReadiness.unready, nodes)

Probe(type, status, time) ==
    [type |-> type, status |-> status, probe |-> time, transition |-> 0]

buildHealthStatusClusterwide(isReady, readiness) ==
    Probe("Health", IF isReady THEN "Healthy" ELSE "Unhealthy", readiness.time)

\* In progress when it is in the status of some node group.
buildScaleUpStatusClusterwide(nodeGroupStatuses, readiness) ==
    Probe("ScaleUp",
          IF \E s \in Range(nodeGroupStatuses) : \E c \in Range(s) :
                 c.type = "ScaleUp" /\ c.status = "InProgress"
          THEN "InProgress" ELSE "NoActivity",
          readiness.time)

buildScaleDownStatusClusterwide(candidates, lastProbed) ==
    Probe("ScaleDown", IF candidates > 0 THEN "CandidatesPresent"
                                         ELSE "NoCandidates", lastProbed)

\* Where the conditions of the type are; GetConditionByType takes the first.
OfType(type, conditions) == {i \in DOMAIN conditions : conditions[i].type = type}
GetConditionByType(type, conditions) ==
    LET same == OfType(type, conditions)
    IN conditions[CHOOSE i \in same : \A j \in same : i <= j]

SameTypeOnly(old, new) == TRUE
SameStatus(old, new) == old.status = new.status

updateLastTransitionSingleList(oldConds, newConds) ==
    [i \in DOMAIN newConds |->
        LET new == newConds[i]
            old == GetConditionByType(new.type, oldConds)
        IN [new EXCEPT !.transition =
               IF OfType(new.type, oldConds) # {} /\ SameStatus(old, new)
               THEN old.transition ELSE new.probe]]

\* The statuses of node groups are never filled in.
GetStatus ==
    LET nodeGroupStatuses == <<>>
        conditions ==
            <<buildHealthStatusClusterwide(IsClusterHealthy, totalReadiness),
              buildScaleUpStatusClusterwide(nodeGroupStatuses, totalReadiness),
              buildScaleDownStatusClusterwide(candidatesForScaleDown,
                                              lastScaleDownUpdateTime)>>
    IN /\ Len(published) < MaxStatuses
       /\ lastStatus' = updateLastTransitionSingleList(lastStatus, conditions)
       /\ published' = Append(published, lastStatus')
       /\ UNCHANGED <<clock, nodes, totalReadiness, candidatesForScaleDown,
                      lastScaleDownUpdateTime>>

\* The nodes are counted, and candidates looked for, at the present time.
CountNodes ==
    /\ nodes' \in 0 .. MaxNodes
    /\ \E unready \in 0 .. nodes' :
          totalReadiness' = [ready |-> nodes' - unready, unready |-> unready,
                             time |-> clock]
    /\ UNCHANGED <<clock, candidatesForScaleDown, lastScaleDownUpdateTime,
                   lastStatus, published>>

FindCandidates ==
    /\ candidatesForScaleDown' \in 0 .. 1
    /\ lastScaleDownUpdateTime' = clock
    /\ UNCHANGED <<clock, nodes, totalReadiness, lastStatus, published>>

Tick ==
    /\ clock < MaxTime
    /\ clock' = clock + 1
    /\ UNCHANGED <<nodes, totalReadiness, candidatesForScaleDown,
                   lastScaleDownUpdateTime, lastStatus, published>>

Next == GetStatus \/ CountNodes \/ FindCandidates \/ Tick

Spec == Init /\ [][Next]_vars

-----------------------------------------------------------------------------
(* Properties. *)

ConditionOf(i, type) == CHOOSE c \in Range(published[i]) : c.type = type

\* The time of the last transition of a condition is the probe time of the
\* first status of the latest run of statuses that agree on it: it does not
\* move while the status stays, and it does when the status changes and comes
\* back between two others.
TransitionStartsTheRun ==
    \A i \in DOMAIN published : \A c \in Range(published[i]) :
        \E j \in 1 .. i :
            /\ c.transition = ConditionOf(j, c.type).probe
            /\ \A k \in j .. i : ConditionOf(k, c.type).status = c.status
            /\ j > 1 => ConditionOf(j - 1, c.type).status # c.status
=============================================================================
