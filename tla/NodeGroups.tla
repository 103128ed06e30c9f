------------------------------- MODULE NodeGroups -------------------------------
(***************************************************************************)
(* What the ClusterStateRegistry answers about node groups and nodes that  *)
(* did not register (clusterstate/clusterstate.go).  What fills in the     *)
(* ranges, the readiness and the requests is not in the source:            *)
(* Recalculate and Request (external) put in any that can be.              *)
(*                                                                         *)
(* UnreadyShort and Renewed are mutants of the definitions after them.     *)
(***************************************************************************)
EXTENDS Integers, Sequences, FiniteSets

CONSTANTS
    Groups, Names,
    OkTotalUnreadyCount, MaxTotalUnreadyPercentage,  \* config
    MaxNodes,    \* bound: nodes of a group
    MaxUpdates   \* bound: updates of the unregistered nodes

GroupsConstants ==
    /\ IsFiniteSet(Groups) /\ IsFiniteSet(Names)
    /\ OkTotalUnreadyCount \in Nat /\ MaxTotalUnreadyPercentage \in Nat
    /\ MaxNodes \in Nat /\ MaxUpdates \in Nat

VARIABLES
    acceptableRanges,      \* [min, target] of the groups it knows
    perNodeGroupReadiness, \* [ready, unready, notStarted, registered]
    scaleUpRequests,       \* groups with a request
    unregisteredNodes,     \* since when each of them is known
    updates                \* history: the names of every update

vars == <<acceptableRanges, perNodeGroupReadiness, scaleUpRequests,
          unregisteredNodes, updates>>
groups == <<acceptableRanges, perNodeGroupReadiness, scaleUpRequests>>

Partial(S, T) == UNION {[D -> T] : D \in SUBSET S}
Count == 0 .. MaxNodes
Readiness ==
    {r \in [ready : Count, unready : Count, notStarted : Count, registered : Count] :
        r.ready + r.unready + r.notStarted <= r.registered}
Ranges == {r \in [min : Count, target : Count] : r.min <= r.target}

TypeOK ==
    /\ acceptableRanges \in Partial(Groups, Ranges)
    /\ perNodeGroupReadiness \in Partial(Groups, Readiness)
    /\ scaleUpRequests \subseteq Groups
    /\ unregisteredNodes \in Partial(Names, 1 .. MaxUpdates)

\* NewClusterStateRegistry.
Nothing == [x \in {} |-> 0]
Init ==
    /\ acceptableRanges = Nothing /\ perNodeGroupReadiness = Nothing
    /\ scaleUpRequests = {} /\ unregisteredNodes = Nothing
    /\ updates = <<>>

-----------------------------------------------------------------------------
(* Health and size of a group. *)

UnreadyShort(r, acceptable) ==
    IF r.unready < acceptable.min THEN acceptable.min - r.unready ELSE 0
unjustifiedUnready(r, acceptable) ==
    IF r.ready < acceptable.min THEN acceptable.min - r.ready ELSE 0

TooManyUnjustified(r, acceptable) ==
    LET n == unjustifiedUnready(r, acceptable)
    IN /\ n > OkTotalUnreadyCount
       /\ 100 * n >
              MaxTotalUnreadyPercentage * (r.ready + r.unready + r.notStarted)

IsNodeGroupHealthy(g) ==
    /\ g \in DOMAIN acceptableRanges
    /\ IF g \in DOMAIN perNodeGroupReadiness
       THEN ~TooManyUnjustified(perNodeGroupReadiness[g], acceptableRanges[g])
       ELSE acceptableRanges[g].target = 0 \/ acceptableRanges[g].min = 0

provisioned(g) ==
    IF g \in DOMAIN perNodeGroupReadiness
    THEN perNodeGroupReadiness[g].registered - perNodeGroupReadiness[g].notStarted
    ELSE 0

areThereUpcomingNodesInNodeGroup(g) ==
    g \in DOMAIN acceptableRanges /\ acceptableRanges[g].target > provisioned(g)
IsNodeGroupAtTargetSize(g) ==
    g \in DOMAIN acceptableRanges /\ acceptableRanges[g].target = provisioned(g)
IsNodeGroupScalingUp(g) ==
    areThereUpcomingNodesInNodeGroup(g) /\ g \in scaleUpRequests

Recalculate(g) ==
    /\ \/ \E r \in Ranges :
             acceptableRanges' = [h \in DOMAIN acceptableRanges \union {g} |->
                                     IF h = g THEN r ELSE acceptableRanges[h]]
          /\ UNCHANGED perNodeGroupReadiness
       \/ \E r \in Readiness :
             perNodeGroupReadiness' =
                 [h \in DOMAIN perNodeGroupReadiness \union {g} |->
                     IF h = g THEN r ELSE perNodeGroupReadiness[h]]
          /\ UNCHANGED acceptableRanges
    /\ UNCHANGED <<scaleUpRequests, unregisteredNodes, updates>>

Request(g) ==
    /\ scaleUpRequests' = (scaleUpRequests \ {g}) \union ({g} \ scaleUpRequests)
    /\ UNCHANGED <<acceptableRanges, perNodeGroupReadiness, unregisteredNodes,
                   updates>>

-----------------------------------------------------------------------------
(* Nodes that did not register. *)

Renewed(name) == Len(updates) + 1
Since(name) ==
    IF name \in DOMAIN unregisteredNodes THEN unregisteredNodes[name]
                                         ELSE Len(updates) + 1

\* The nodes come with the present time, the number of the update.
updateUnregisteredNodes(names) ==
    /\ Len(updates) < MaxUpdates
    /\ unregisteredNodes' = [n \in names |-> Since(n)]
    /\ updates' = Append(updates, names)
    /\ UNCHANGED groups

Next ==
    \/ \E g \in Groups : Recalculate(g) \/ Request(g)
    \/ \E names \in SUBSET Names : updateUnregisteredNodes(names)

Spec == Init /\ [][Next]_vars

-----------------------------------------------------------------------------
(* Properties. *)

\* The time of an unregistered node is that of the first of the unbroken run of
\* updates that name it, up to the last.
SinceIsFirstSeen ==
    updates # <<>> =>
        /\ DOMAIN unregisteredNodes = updates[Len(updates)]
        /\ \A n \in DOMAIN unregisteredNodes :
              LET first == unregisteredNodes[n]
              IN /\ \A i \in first .. Len(updates) : n \in updates[i]
                 /\ first > 1 => n \notin updates[first - 1]

\* A group at its target size is healthy when none of its provisioned nodes is
\* anything but ready, though two answers read different parts of the registry;
\* and a node that becomes ready never turns a healthy group unhealthy.
ReadyGroupsAreHealthy ==
    \A g \in DOMAIN acceptableRanges :
        /\ (/\ IsNodeGroupAtTargetSize(g)
            /\ g \in DOMAIN perNodeGroupReadiness =>
                   perNodeGroupReadiness[g].ready = provisioned(g))
           => IsNodeGroupHealthy(g) /\ ~IsNodeGroupScalingUp(g)
        /\ (/\ g \in DOMAIN perNodeGroupReadiness /\ IsNodeGroupHealthy(g)
            /\ perNodeGroupReadiness[g].unready > 0)
           => ~TooManyUnjustified(
                  [perNodeGroupReadiness[g] EXCEPT !.ready = @ + 1, !.unready = @ - 1],
                  acceptableRanges[g])
=============================================================================
