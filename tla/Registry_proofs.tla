----------------------------- MODULE Registry_proofs -----------------------------
(***************************************************************************)
(* The ClusterStateRegistry, for any number of nodes, groups, statuses and *)
(* updates: when a condition changed last (ClusterStatus), since when a    *)
(* node is known, and the health of a group (NodeGroups).                  *)
(***************************************************************************)
EXTENDS Parts, SequenceTheorems, TLAPS

-----------------------------------------------------------------------------
(* The conditions of the cluster. *)

\* A status has its three conditions in the order in which GetStatus builds them.
Statuses ==
    {s \in [1 .. 3 -> Status!Condition] :
        s[1].type = "Health" /\ s[2].type = "ScaleUp" /\ s[3].type = "ScaleDown"}

\* The last status is what the registry carries over to the next.
History ==
    /\ published \in Seq(Statuses)
    /\ lastStatus = IF published = <<>> THEN <<>> ELSE published[Len(published)]

\* TransitionStartsTheRun by the place of a condition instead of its type.
Runs ==
    \A i \in 1 .. Len(published), k \in 1 .. 3 : \E j \in 1 .. i :
        /\ published[i][k].transition = published[j][k].probe
        /\ \A m \in j .. i : published[m][k].status = published[i][k].status
        /\ j > 1 => published[j - 1][k].status # published[i][k].status

StatusInv == Status!TypeOK /\ History /\ Runs

\* What is found in a status by its type is the condition at its place.
LEMMA ByPlace ==
    ASSUME NEW s \in Statuses, NEW k \in 1 .. 3
    PROVE  /\ (CHOOSE c \in Status!Range(s) : c.type = s[k].type) = s[k]
           /\ Status!OfType(s[k].type, s) = {k}
           /\ Status!GetConditionByType(s[k].type, s) = s[k]
<1>1. DOMAIN s = 1 .. 3 /\ \A i, j \in 1 .. 3 : s[i].type = s[j].type => i = j
  BY DEF Statuses
<1>2. Status!Range(s) = {s[i] : i \in 1 .. 3}
  BY <1>1 DEF Status!Range
<1>3. \A c \in Status!Range(s) : c.type = s[k].type <=> c = s[k]
  BY <1>1, <1>2
<1>4. s[k] \in Status!Range(s)
  BY <1>2
<1>5. (CHOOSE c \in Status!Range(s) : c.type = s[k].type) = s[k]
  BY <1>3, <1>4
<1>6. Status!OfType(s[k].type, s) = {k}
  BY <1>1 DEF Status!OfType
<1>7. (CHOOSE i \in {k} : \A j \in {k} : i <= j) = k
  OBVIOUS
<1> QED
  BY <1>5, <1>6, <1>7 DEF Status!GetConditionByType

\* By the place or by the type, the property is the same.
LEMMA RunsByType ==
    ASSUME History, Runs PROVE TransitionStartsTheRun
<1> SUFFICES ASSUME NEW i \in DOMAIN published, NEW c \in Status!Range(published[i])
             PROVE  \E j \in 1 .. i :
                      /\ c.transition = Status!ConditionOf(j, c.type).probe
                      /\ \A m \in j .. i : Status!ConditionOf(m, c.type).status = c.status
                      /\ j > 1 => Status!ConditionOf(j - 1, c.type).status # c.status
  BY DEF TransitionStartsTheRun, Status!TransitionStartsTheRun
<1>1. DOMAIN published = 1 .. Len(published) /\ Len(published) \in Nat
  BY DEF History
<1>2. \A m \in 1 .. Len(published) : published[m] \in Statuses
  BY DEF History
<1>3. PICK k \in 1 .. 3 : c = published[i][k]
  BY <1>1, <1>2 DEF Statuses, Status!Range
<1>4. \A m \in 1 .. Len(published) : Status!ConditionOf(m, c.type) = published[m][k]
  <2> SUFFICES ASSUME NEW m \in 1 .. Len(published)
               PROVE  Status!ConditionOf(m, c.type) = published[m][k]
    OBVIOUS
  <2>1. published[m][k].type = c.type
    BY <1>1, <1>2, <1>3 DEF Statuses
  <2> QED
    BY <1>2, <2>1, ByPlace DEF Status!ConditionOf
<1>5. PICK j \in 1 .. i :
        /\ published[i][k].transition = published[j][k].probe
        /\ \A m \in j .. i : published[m][k].status = published[i][k].status
        /\ j > 1 => published[j - 1][k].status # published[i][k].status
  BY <1>1 DEF Runs
<1>6. \A m \in j .. i : m \in 1 .. Len(published)
  BY <1>1
<1>7. j \in 1 .. Len(published) /\ (j > 1 => j - 1 \in 1 .. Len(published))
  BY <1>1
<1> QED
  BY <1>3, <1>4, <1>5, <1>6, <1>7

\* What GetStatus compares with the last status.
Probed ==
    <<Status!buildHealthStatusClusterwide(Status!IsClusterHealthy, totalReadiness),
      Status!buildScaleUpStatusClusterwide(<<>>, totalReadiness),
      Status!buildScaleDownStatusClusterwide(candidatesForScaleDown,
                                             lastScaleDownUpdateTime)>>

\* Every condition is a new probe, with the transition time of the run it is in.
LEMMA NextStatus ==
    ASSUME Status!StatusConstants, StatusInv, Status!GetStatus
    PROVE  /\ lastStatus' \in Statuses
           /\ published' = Append(published, lastStatus')
           /\ \A k \in 1 .. 3 :
                IF published # <<>> /\ lastStatus[k].status = lastStatus'[k].status
                THEN lastStatus'[k].transition = lastStatus[k].transition
                ELSE lastStatus'[k].transition = lastStatus'[k].probe
<1>1. /\ totalReadiness.time \in Status!Time /\ lastScaleDownUpdateTime \in Status!Time
      /\ 0 \in Status!Time
  BY DEF StatusInv, Status!TypeOK, Status!Readiness, Status!StatusConstants, Status!Time
<1>2. Probed \in Statuses
  <2>1. Probed[1] \in Status!Condition /\ Probed[1].type = "Health"
    BY <1>1 DEF Probed, Status!Condition, Status!Probe, Status!buildHealthStatusClusterwide
  <2>2. Probed[2] \in Status!Condition /\ Probed[2].type = "ScaleUp"
    BY <1>1 DEF Probed, Status!Condition, Status!Probe, Status!buildScaleUpStatusClusterwide
  <2>3. Probed[3] \in Status!Condition /\ Probed[3].type = "ScaleDown"
    BY <1>1 DEF Probed, Status!Condition, Status!Probe, Status!buildScaleDownStatusClusterwide
  <2>4. Probed \in [1 .. 3 -> Status!Condition]
    <3>1. DOMAIN Probed = 1 .. 3 /\ Probed = [i \in 1 .. 3 |-> Probed[i]]
      BY DEF Probed
    <3> QED
      BY <2>1, <2>2, <2>3, <3>1
  <2> QED
    BY <2>1, <2>2, <2>3, <2>4 DEF Statuses
<1>3. /\ lastStatus' = Status!updateLastTransitionSingleList(lastStatus, Probed)
      /\ published' = Append(published, lastStatus')
  BY DEF Status!GetStatus, Probed
<1>4. lastStatus' = [k \in 1 .. 3 |->
          [Probed[k] EXCEPT !.transition =
              IF /\ Status!OfType(Probed[k].type, lastStatus) # {}
                 /\ Status!SameStatus(
                        Status!GetConditionByType(Probed[k].type, lastStatus), Probed[k])
              THEN Status!GetConditionByType(Probed[k].type, lastStatus).transition
              ELSE Probed[k].probe]]
  BY <1>2, <1>3 DEF Status!updateLastTransitionSingleList, Statuses
<1>5. ASSUME NEW k \in 1 .. 3
      PROVE  /\ lastStatus'[k] \in Status!Condition
             /\ lastStatus'[k].type = Probed[k].type
             /\ IF published # <<>> /\ lastStatus[k].status = lastStatus'[k].status
                THEN lastStatus'[k].transition = lastStatus[k].transition
                ELSE lastStatus'[k].transition = lastStatus'[k].probe
  <2>1. Probed[k] \in Status!Condition /\ Probed[k].probe \in Status!Time
    BY <1>2 DEF Statuses, Status!Condition
  <2>2. CASE published = <<>>
    <3>1. Status!OfType(Probed[k].type, lastStatus) = {}
      BY <2>2 DEF StatusInv, History, Status!OfType
    <3>2. lastStatus'[k] = [Probed[k] EXCEPT !.transition = Probed[k].probe]
      BY <1>4, <3>1
    <3> QED
      BY <2>1, <2>2, <3>2 DEF Status!Condition
  <2>3. CASE published # <<>>
    <3>1. lastStatus \in Statuses
      BY <2>3 DEF StatusInv, History
    <3>2. lastStatus[k] \in Status!Condition /\ lastStatus[k].type = Probed[k].type
      BY <1>2, <3>1 DEF Statuses
    <3>3. /\ Status!OfType(Probed[k].type, lastStatus) # {}
          /\ Status!GetConditionByType(Probed[k].type, lastStatus) = lastStatus[k]
      BY <3>1, <3>2, ByPlace
    <3>4. lastStatus'[k] = [Probed[k] EXCEPT !.transition =
              IF lastStatus[k].status = Probed[k].status
              THEN lastStatus[k].transition ELSE Probed[k].probe]
      BY <1>4, <3>3 DEF Status!SameStatus
    <3> QED
      BY <2>1, <2>3, <3>2, <3>4 DEF Status!Condition
  <2> QED
    BY <2>2, <2>3
<1>6. lastStatus' \in [1 .. 3 -> Status!Condition]
  <2>1. lastStatus' = [k \in 1 .. 3 |-> lastStatus'[k]]
    BY <1>4
  <2> QED
    BY <1>5, <2>1
<1>7. lastStatus' \in Statuses
  BY <1>2, <1>5, <1>6 DEF Statuses
<1> QED
  BY <1>3, <1>5, <1>7

\* The new status continues the runs of the last one, or starts its own.
LEMMA GetStatusInv ==
    ASSUME Status!StatusConstants, StatusInv, Status!GetStatus PROVE StatusInv'
<1> DEFINE n == Len(published)
<1>1. n \in Nat /\ \A i \in 1 .. n : published[i] \in Statuses
  BY DEF StatusInv, History
<1>2. /\ published' \in Seq(Statuses) /\ Len(published') = n + 1
      /\ \A i \in 1 .. n : published'[i] = published[i]
      /\ published'[n + 1] = lastStatus'
  BY <1>1, NextStatus DEF StatusInv, History
<1>3. History'
  BY <1>1, <1>2 DEF History
<1>4. n > 0 => published # <<>> /\ lastStatus = published[n]
  BY <1>1 DEF StatusInv, History
<1> HIDE DEF n
<1>5. Runs'
  <2> SUFFICES ASSUME NEW i \in 1 .. n + 1, NEW k \in 1 .. 3
               PROVE  \E j \in 1 .. i :
                        /\ published'[i][k].transition = published'[j][k].probe
                        /\ \A m \in j .. i :
                               published'[m][k].status = published'[i][k].status
                        /\ j > 1 => published'[j - 1][k].status # published'[i][k].status
    BY <1>2 DEF Runs
  <2> DEFINE Run(i1, j) ==
                /\ published[i1][k].transition = published[j][k].probe
                /\ \A m \in j .. i1 : published[m][k].status = published[i1][k].status
                /\ j > 1 => published[j - 1][k].status # published[i1][k].status
  <2>1. \A i1 \in 1 .. n : \E j \in 1 .. i1 : Run(i1, j)
    BY DEF StatusInv, Runs, n
  <2>2. CASE i \in 1 .. n
    <3>1. PICK j \in 1 .. i : Run(i, j)
      BY <2>1, <2>2
    <3>2. /\ \A m \in j .. i : m \in 1 .. n
          /\ j \in 1 .. n /\ (j > 1 => j - 1 \in 1 .. n)
      BY <1>1, <2>2
    <3> QED
      BY <1>2, <2>2, <3>1, <3>2
  <2>3. CASE /\ i = n + 1 /\ n > 0
             /\ lastStatus[k].status = lastStatus'[k].status
    <3>1. PICK j \in 1 .. n : Run(n, j)
      BY <1>1, <2>1, <2>3
    <3>2. lastStatus'[k].transition = lastStatus[k].transition
      BY <1>4, <2>3, NextStatus
    <3>3. /\ \A m \in j .. n + 1 : m \in j .. n \/ m = n + 1
          /\ \A m \in j .. n : m \in 1 .. n
          /\ j \in 1 .. i /\ (j > 1 => j - 1 \in 1 .. n)
      BY <1>1, <2>3
    <3>4. published'[i][k].transition = published'[j][k].probe
      BY <1>2, <1>4, <2>3, <3>1, <3>2
    <3>5. \A m \in j .. i : published'[m][k].status = published'[i][k].status
      BY <1>2, <1>4, <2>3, <3>1, <3>3
    <3>6. j > 1 => published'[j - 1][k].status # published'[i][k].status
      BY <1>2, <1>4, <2>3, <3>1, <3>3
    <3> QED
      BY <3>3, <3>4, <3>5, <3>6
  <2>4. CASE /\ i = n + 1
             /\ ~(n > 0 /\ lastStatus[k].status = lastStatus'[k].status)
    <3>1. lastStatus'[k].transition = lastStatus'[k].probe
      <4>1. CASE n > 0
        BY <1>4, <2>4, <4>1, NextStatus
      <4>2. CASE published = <<>>
        BY <4>2, NextStatus
      <4> QED
        BY <1>1, <4>1, <4>2 DEF n, StatusInv, History
    <3>2. n > 0 => published'[n][k].status # published'[n + 1][k].status
      BY <1>1, <1>2, <1>4, <2>4
    <3>3. i \in 1 .. i /\ \A m \in i .. i : m = i
      BY <1>1, <2>4
    <3>4. i > 1 => published'[i - 1][k].status # published'[i][k].status
      BY <1>1, <2>4, <3>2
    <3> QED
      BY <1>2, <2>4, <3>1, <3>3, <3>4
  <2> QED
    BY <1>1, <2>2, <2>3, <2>4
<1>6. Status!TypeOK'
  <2>1. lastStatus' \in Seq(Status!Condition) /\ Len(lastStatus') = 3
    <3>1. lastStatus' \in [1 .. 3 -> Status!Condition]
      BY NextStatus DEF Statuses
    <3>2. lastStatus' \in Seq(Status!Condition)
      BY <3>1, SeqDef
    <3>3. 1 .. 3 = 1 .. Len(lastStatus') /\ Len(lastStatus') \in Nat
      BY <3>1, <3>2, LenProperties
    <3>4. \A len \in Nat : 1 .. 3 = 1 .. len => len = 3
      <4>1. ASSUME NEW len \in Nat, 1 .. 3 = 1 .. len PROVE len = 3
        <5>1. 3 \in 1 .. len /\ ~(4 \in 1 .. len)
          BY <4>1
        <5> QED
          BY <5>1
      <4> QED
        BY <4>1
    <3>5. Len(lastStatus') = 3
      BY <3>3, <3>4
    <3> QED
      BY <3>2, <3>5
  <2>2. Len(published') <= MaxStatuses
    BY <1>2 DEF n, Status!GetStatus, StatusInv, Status!TypeOK, Status!StatusConstants
  <2>3. UNCHANGED <<statusClock, nodes, totalReadiness, candidatesForScaleDown,
                    lastScaleDownUpdateTime>>
    BY DEF Status!GetStatus
  <2> QED
    BY <2>1, <2>2, <2>3 DEF StatusInv, Status!TypeOK
<1> QED
  BY <1>3, <1>5, <1>6 DEF StatusInv

\* Nothing but GetStatus makes a status; the others keep the types.
LEMMA StatusStep ==
    ASSUME Status!StatusConstants, StatusInv, [Status!Next]_statusVars
    PROVE  StatusInv'
<1>1. CASE Status!GetStatus
  BY <1>1, GetStatusInv
<1>2. CASE Status!CountNodes \/ Status!FindCandidates \/ Status!Tick
  <2>1. UNCHANGED <<lastStatus, published>>
    BY <1>2 DEF Status!CountNodes, Status!FindCandidates, Status!Tick
  <2>2. History' /\ Runs'
    BY <2>1 DEF StatusInv, History, Runs
  <2>3. Status!TypeOK'
    <3>1. Status!TypeOK /\ MaxStatusTime \in Nat /\ MaxNodes \in Nat
      BY DEF StatusInv, Status!StatusConstants
    <3>2. CASE Status!CountNodes
      <4>1. PICK unready \in 0 .. nodes' :
                totalReadiness' = [ready |-> nodes' - unready, unready |-> unready,
                                   time |-> statusClock]
        BY <3>2 DEF Status!CountNodes
      <4>2. /\ nodes' \in 0 .. MaxNodes
            /\ UNCHANGED <<statusClock, candidatesForScaleDown,
                           lastScaleDownUpdateTime, lastStatus, published>>
        BY <3>2 DEF Status!CountNodes
      <4>3. /\ nodes' - unready \in 0 .. MaxNodes /\ unready \in 0 .. MaxNodes
            /\ nodes' - unready + unready <= nodes'
        <5>1. \A all \in 0 .. MaxNodes, u \in Nat :
                  u <= all => /\ all - u \in 0 .. MaxNodes /\ u \in 0 .. MaxNodes
                              /\ all - u + u <= all
          BY <3>1
        <5>2. unready \in Nat /\ unready <= nodes'
          BY <3>1, <4>1, <4>2
        <5> QED
          BY <4>2, <5>1, <5>2
      <4>4. totalReadiness' \in Status!Readiness
        BY <3>1, <4>1, <4>3 DEF Status!TypeOK, Status!Readiness
      <4>5. totalReadiness'.ready + totalReadiness'.unready <= nodes'
        BY <4>1, <4>3
      <4> QED
        BY <3>1, <4>2, <4>4, <4>5 DEF Status!TypeOK
    <3>3. CASE Status!FindCandidates
      BY <3>1, <3>3 DEF Status!FindCandidates, Status!TypeOK
    <3>4. CASE Status!Tick
      <4>1. statusClock' \in Status!Time
        BY <3>1, <3>4 DEF Status!Tick, Status!TypeOK, Status!Time
      <4> QED
        BY <3>1, <3>4, <4>1 DEF Status!Tick, Status!TypeOK
    <3> QED
      BY <1>2, <3>2, <3>3, <3>4
  <2> QED
    BY <2>2, <2>3 DEF StatusInv
<1>3. CASE UNCHANGED statusVars
  <2>1. Status!TypeOK'
    BY <1>3 DEF statusVars, StatusInv, Status!TypeOK
  <2>2. History' /\ Runs'
    BY <1>3 DEF statusVars, StatusInv, History, Runs
  <2> QED
    BY <2>1, <2>2 DEF StatusInv
<1> QED
  BY <1>1, <1>2, <1>3 DEF Status!Next

\* The registry makes statuses as its module says, or nothing.
LEMMA StatusInvariance == PartsSpec => []StatusInv
<1>1. PartsInit => StatusInv
  BY PartsAssumption DEF PartsInit, Status!Init, StatusInv, Status!TypeOK,
     Status!StatusConstants, Status!Time, Status!Readiness, History, Runs
<1>2. ASSUME StatusInv, [PartsNext]_allVars PROVE StatusInv'
  BY <1>2, StatusStep, PartsAssumption DEF PartsNext, allVars
<1> QED
  BY <1>1, <1>2, PTL DEF PartsSpec

\* The time of a condition's last transition is that of the first status of the
\* latest run of statuses that agree on it.
THEOREM TransitionCorrect == PartsSpec => []TransitionStartsTheRun
<1>1. StatusInv => TransitionStartsTheRun
  BY RunsByType DEF StatusInv
<1> QED
  BY <1>1, StatusInvariance, PTL

-----------------------------------------------------------------------------
(* Node groups, and nodes that did not register. *)

\* Every update is a set of names, and a node is known since one of them.
Updates ==
    /\ updates \in Seq(SUBSET Names) /\ Len(updates) <= MaxUpdates
    /\ \A n \in DOMAIN unregisteredNodes : unregisteredNodes[n] \in 1 .. Len(updates)

GroupsInv == NodeGroup!TypeOK /\ Updates /\ SinceIsFirstSeen

\* A partial function maps some of its set.
LEMMA PartialDef ==
    ASSUME NEW S, NEW T, NEW f
    PROVE  f \in NodeGroup!Partial(S, T) <=>
               DOMAIN f \subseteq S /\ f \in [DOMAIN f -> T]
  BY DEF NodeGroup!Partial

\* A partial function keeps its type when one value is put in.
LEMMA PutIn ==
    ASSUME NEW S, NEW T, NEW f \in NodeGroup!Partial(S, T), NEW x \in S, NEW v \in T
    PROVE  [y \in DOMAIN f \union {x} |-> IF y = x THEN v ELSE f[y]]
               \in NodeGroup!Partial(S, T)
<1>1. DOMAIN f \subseteq S /\ f \in [DOMAIN f -> T]
  BY PartialDef
<1>2. DOMAIN f \union {x} \in SUBSET S
  BY <1>1
<1>3. [y \in DOMAIN f \union {x} |-> IF y = x THEN v ELSE f[y]]
          \in [DOMAIN f \union {x} -> T]
  BY <1>1
<1> QED
  BY <1>2, <1>3 DEF NodeGroup!Partial

\* What the registry puts in can be.
LEMMA RecalculateInv ==
    ASSUME GroupsInv, NEW g \in KnownGroups, NodeGroup!Recalculate(g) PROVE GroupsInv'
<1>1. UNCHANGED <<scaleUpRequests, unregisteredNodes, updates>>
  BY DEF NodeGroup!Recalculate
<1>2. Updates' /\ SinceIsFirstSeen'
  BY <1>1 DEF GroupsInv, Updates, SinceIsFirstSeen, NodeGroup!SinceIsFirstSeen
<1>3. acceptableRanges' \in NodeGroup!Partial(KnownGroups, NodeGroup!Ranges)
  BY PutIn DEF NodeGroup!Recalculate, GroupsInv, NodeGroup!TypeOK
<1>4. perNodeGroupReadiness' \in NodeGroup!Partial(KnownGroups, NodeGroup!Readiness)
  BY PutIn DEF NodeGroup!Recalculate, GroupsInv, NodeGroup!TypeOK
<1> QED
  BY <1>1, <1>2, <1>3, <1>4 DEF GroupsInv, NodeGroup!TypeOK

\* A name that goes on being named keeps its time; a new one starts its run.
LEMMA UpdateInv ==
    ASSUME NodeGroup!GroupsConstants, GroupsInv, NEW names \in SUBSET Names,
           NodeGroup!updateUnregisteredNodes(names)
    PROVE  GroupsInv'
<1> DEFINE last == Len(updates)
<1>1. /\ last \in Nat /\ last < MaxUpdates /\ MaxUpdates \in Nat
      /\ updates' = Append(updates, names)
      /\ unregisteredNodes' = [n \in names |-> NodeGroup!Since(n)]
      /\ UNCHANGED <<acceptableRanges, perNodeGroupReadiness, scaleUpRequests>>
  BY DEF NodeGroup!updateUnregisteredNodes, NodeGroup!groups, NodeGroup!GroupsConstants,
         GroupsInv, Updates
<1>2. /\ updates' \in Seq(SUBSET Names) /\ Len(updates') = last + 1
      /\ \A i \in 1 .. last : updates'[i] = updates[i]
      /\ updates'[last + 1] = names
  BY <1>1 DEF GroupsInv, Updates
<1>3. ASSUME NEW n \in DOMAIN unregisteredNodes
      PROVE  /\ unregisteredNodes[n] \in 1 .. last
             /\ \A i \in unregisteredNodes[n] .. last : n \in updates[i]
             /\ unregisteredNodes[n] > 1 => n \notin updates[unregisteredNodes[n] - 1]
  <2>1. unregisteredNodes[n] \in 1 .. last /\ updates # <<>>
    BY <1>1 DEF GroupsInv, Updates
  <2> QED
    BY <2>1 DEF GroupsInv, SinceIsFirstSeen, NodeGroup!SinceIsFirstSeen
<1>4. ASSUME NEW n \in names, n \notin DOMAIN unregisteredNodes, last > 0
      PROVE  n \notin updates[last]
  BY <1>1, <1>4 DEF GroupsInv, SinceIsFirstSeen, NodeGroup!SinceIsFirstSeen
<1> HIDE DEF last
<1>5. ASSUME NEW n \in names
      PROVE  LET first == unregisteredNodes'[n]
             IN /\ first \in 1 .. last + 1
                /\ \A i \in first .. last + 1 : n \in updates'[i]
                /\ first > 1 => n \notin updates'[first - 1]
  <2>1. CASE n \in DOMAIN unregisteredNodes
    <3>1. unregisteredNodes'[n] = unregisteredNodes[n]
      BY <1>1, <2>1 DEF NodeGroup!Since
    <3>2. PICK first \in 1 .. last : first = unregisteredNodes[n]
      BY <1>3, <2>1
    <3>3. \A i \in first .. last + 1 : i \in first .. last \/ i = last + 1
      BY <1>1
    <3>4. \A i \in first .. last : i \in 1 .. last /\ n \in updates[i]
      BY <1>1, <1>3, <2>1, <3>2
    <3>5. first > 1 => first - 1 \in 1 .. last /\ n \notin updates[first - 1]
      BY <1>1, <1>3, <2>1, <3>2
    <3>6. \A i \in first .. last + 1 : n \in updates'[i]
      BY <1>2, <3>3, <3>4
    <3>7. first > 1 => n \notin updates'[first - 1]
      BY <1>2, <3>5
    <3>8. first \in 1 .. last + 1
      BY <1>1
    <3> QED
      BY <3>1, <3>2, <3>6, <3>7, <3>8
  <2>2. CASE n \notin DOMAIN unregisteredNodes
    <3>1. unregisteredNodes'[n] = last + 1
      BY <1>1, <2>2 DEF NodeGroup!Since, last
    <3>2. last > 0 => n \notin updates[last]
      BY <1>4, <2>2
    <3> QED
      BY <1>1, <1>2, <3>1, <3>2
  <2> QED
    BY <2>1, <2>2
<1>6. DOMAIN unregisteredNodes' = names
  BY <1>1
<1>7. Updates'
  BY <1>1, <1>2, <1>5, <1>6 DEF Updates
<1>8. SinceIsFirstSeen'
  BY <1>1, <1>2, <1>5, <1>6 DEF SinceIsFirstSeen, NodeGroup!SinceIsFirstSeen
<1>9. unregisteredNodes' \in NodeGroup!Partial(Names, 1 .. MaxUpdates)
  <2>1. \A n \in names : unregisteredNodes'[n] \in 1 .. MaxUpdates
    BY <1>1, <1>5
  <2>2. unregisteredNodes' \in [names -> 1 .. MaxUpdates]
    BY <1>1, <2>1
  <2> QED
    BY <1>6, <2>2, PartialDef
<1> QED
  BY <1>1, <1>7, <1>8, <1>9 DEF GroupsInv, NodeGroup!TypeOK

\* Updates come from the registry's goroutine alone, and nothing else changes
\* what it knows of nodes.
LEMMA GroupsStep ==
    ASSUME NodeGroup!GroupsConstants, GroupsInv, [NodeGroup!Next]_groupVars
    PROVE  GroupsInv'
<1>1. ASSUME NEW g \in KnownGroups, NodeGroup!Request(g) PROVE GroupsInv'
  <2>1. UNCHANGED <<acceptableRanges, perNodeGroupReadiness, unregisteredNodes,
                    updates>>
    BY <1>1 DEF NodeGroup!Request
  <2>2. scaleUpRequests' \subseteq KnownGroups
    BY <1>1 DEF NodeGroup!Request, GroupsInv, NodeGroup!TypeOK
  <2> QED
    BY <2>1, <2>2 DEF GroupsInv, NodeGroup!TypeOK, Updates, SinceIsFirstSeen,
                      NodeGroup!SinceIsFirstSeen
<1>2. CASE UNCHANGED groupVars
  BY <1>2 DEF groupVars, GroupsInv, NodeGroup!TypeOK, Updates, SinceIsFirstSeen,
              NodeGroup!SinceIsFirstSeen
<1> QED
  BY <1>1, <1>2, RecalculateInv, UpdateInv DEF NodeGroup!Next

\* The registry keeps groups and nodes as its module says, or does nothing.
LEMMA GroupsInvariance == PartsSpec => []GroupsInv
<1>1. PartsInit => GroupsInv
  <2> SUFFICES ASSUME PartsInit PROVE GroupsInv
    OBVIOUS
  <2>1. /\ acceptableRanges = NodeGroup!Nothing /\ unregisteredNodes = NodeGroup!Nothing
        /\ perNodeGroupReadiness = NodeGroup!Nothing
        /\ scaleUpRequests = {} /\ updates = <<>>
    BY DEF PartsInit, NodeGroup!Init
  <2>2. \A S, T : NodeGroup!Nothing \in NodeGroup!Partial(S, T)
    BY PartialDef DEF NodeGroup!Nothing
  <2>3. DOMAIN NodeGroup!Nothing = {}
    BY DEF NodeGroup!Nothing
  <2>4. MaxUpdates \in Nat
    BY PartsAssumption DEF NodeGroup!GroupsConstants
  <2> QED
    BY <2>1, <2>2, <2>3, <2>4 DEF GroupsInv, NodeGroup!TypeOK, Updates,
       SinceIsFirstSeen, NodeGroup!SinceIsFirstSeen
<1>2. ASSUME GroupsInv, [PartsNext]_allVars PROVE GroupsInv'
  BY <1>2, GroupsStep, PartsAssumption DEF PartsNext, allVars
<1> QED
  BY <1>1, <1>2, PTL DEF PartsSpec

\* The time of an unregistered node is that of the first of the unbroken run of
\* updates that name it, however the nodes come and go.
THEOREM SinceCorrect == PartsSpec => []SinceIsFirstSeen
<1>1. GroupsInv => SinceIsFirstSeen
  BY DEF GroupsInv
<1> QED
  BY <1>1, GroupsInvariance, PTL

\* More ready nodes leave no more of them missing.
LEMMA FewerUnjustified ==
    ASSUME NodeGroup!GroupsConstants,
           NEW r \in NodeGroup!Readiness, NEW acceptable \in NodeGroup!Ranges,
           r.unready > 0, ~NodeGroup!TooManyUnjustified(r, acceptable)
    PROVE  ~NodeGroup!TooManyUnjustified(
               [r EXCEPT !.ready = @ + 1, !.unready = @ - 1], acceptable)
<1> DEFINE better == [r EXCEPT !.ready = @ + 1, !.unready = @ - 1]
           missing == NodeGroup!unjustifiedUnready(r, acceptable)
           fewer == NodeGroup!unjustifiedUnready(better, acceptable)
<1>1. /\ r.ready \in Nat /\ r.unready \in Nat /\ r.notStarted \in Nat
      /\ acceptable.min \in Nat /\ OkTotalUnreadyCount \in Nat
  BY DEF NodeGroup!Readiness, NodeGroup!Ranges, NodeGroup!Count, NodeGroup!GroupsConstants
<1>2. /\ better.ready = r.ready + 1 /\ better.unready = r.unready - 1
      /\ better.notStarted = r.notStarted
  BY DEF NodeGroup!Readiness
<1>3. better.ready + better.unready + better.notStarted = r.ready + r.unready + r.notStarted
  BY <1>1, <1>2
<1>4. missing \in Nat /\ fewer \in Nat /\ fewer <= missing
  BY <1>1, <1>2 DEF NodeGroup!unjustifiedUnready
<1> HIDE DEF better, missing, fewer
<1> DEFINE allowed == MaxTotalUnreadyPercentage * (r.ready + r.unready + r.notStarted)
<1>5. allowed \in Nat
  BY <1>1 DEF NodeGroup!GroupsConstants
<1>6. ~(missing > OkTotalUnreadyCount /\ 100 * missing > allowed)
  BY DEF NodeGroup!TooManyUnjustified, missing
<1>7. NodeGroup!TooManyUnjustified(better, acceptable) <=>
          fewer > OkTotalUnreadyCount /\ 100 * fewer > allowed
  BY <1>3 DEF NodeGroup!TooManyUnjustified, fewer
<1> HIDE DEF allowed
<1>8. ~(fewer > OkTotalUnreadyCount /\ 100 * fewer > allowed)
  BY <1>1, <1>4, <1>5, <1>6
<1> QED
  BY <1>7, <1>8 DEF better

\* What the registry answers about a group fits together whatever it holds.
LEMMA ReadyIsHealthy ==
    ASSUME NodeGroup!GroupsConstants, NodeGroup!TypeOK PROVE ReadyGroupsAreHealthy
<1> SUFFICES ASSUME NEW g \in DOMAIN acceptableRanges
             PROVE
        /\ (/\ NodeGroup!IsNodeGroupAtTargetSize(g)
            /\ g \in DOMAIN perNodeGroupReadiness =>
                   perNodeGroupReadiness[g].ready = NodeGroup!provisioned(g))
           => NodeGroup!IsNodeGroupHealthy(g) /\ ~NodeGroup!IsNodeGroupScalingUp(g)
        /\ (/\ g \in DOMAIN perNodeGroupReadiness /\ NodeGroup!IsNodeGroupHealthy(g)
            /\ perNodeGroupReadiness[g].unready > 0)
           => ~NodeGroup!TooManyUnjustified(
                  [perNodeGroupReadiness[g] EXCEPT !.ready = @ + 1, !.unready = @ - 1],
                  acceptableRanges[g])
  BY DEF ReadyGroupsAreHealthy, NodeGroup!ReadyGroupsAreHealthy
<1> DEFINE acceptable == acceptableRanges[g]
           r == perNodeGroupReadiness[g]
<1>1. acceptable \in NodeGroup!Ranges
  BY PartialDef DEF NodeGroup!TypeOK
<1>2. g \in DOMAIN perNodeGroupReadiness => r \in NodeGroup!Readiness
  BY PartialDef DEF NodeGroup!TypeOK
<1>3. ASSUME NodeGroup!IsNodeGroupAtTargetSize(g),
             g \in DOMAIN perNodeGroupReadiness => r.ready = NodeGroup!provisioned(g)
      PROVE  NodeGroup!IsNodeGroupHealthy(g) /\ ~NodeGroup!IsNodeGroupScalingUp(g)
  <2>1. /\ acceptable.target = NodeGroup!provisioned(g)
        /\ acceptable.target \in Nat /\ acceptable.min \in Nat
        /\ acceptable.min <= acceptable.target
    BY <1>1, <1>3 DEF NodeGroup!IsNodeGroupAtTargetSize, NodeGroup!Ranges, NodeGroup!Count
  <2>2. ~NodeGroup!IsNodeGroupScalingUp(g)
    BY <2>1 DEF NodeGroup!IsNodeGroupScalingUp, NodeGroup!areThereUpcomingNodesInNodeGroup
  <2>3. CASE g \in DOMAIN perNodeGroupReadiness
    <3>1. r.ready = acceptable.target /\ OkTotalUnreadyCount \in Nat
      BY <1>3, <2>1, <2>3 DEF NodeGroup!GroupsConstants
    <3>2. NodeGroup!unjustifiedUnready(r, acceptable) = 0
      BY <2>1, <3>1 DEF NodeGroup!unjustifiedUnready
    <3>3. ~NodeGroup!TooManyUnjustified(r, acceptable)
      BY <3>1, <3>2 DEF NodeGroup!TooManyUnjustified
    <3> QED
      BY <2>2, <2>3, <3>3 DEF NodeGroup!IsNodeGroupHealthy
  <2>4. CASE g \notin DOMAIN perNodeGroupReadiness
    BY <2>1, <2>2, <2>4 DEF NodeGroup!IsNodeGroupHealthy, NodeGroup!provisioned
  <2> QED
    BY <2>3, <2>4
<1>4. ASSUME g \in DOMAIN perNodeGroupReadiness, NodeGroup!IsNodeGroupHealthy(g),
             r.unready > 0
      PROVE  ~NodeGroup!TooManyUnjustified(
                 [r EXCEPT !.ready = @ + 1, !.unready = @ - 1], acceptable)
  <2>1. r \in NodeGroup!Readiness /\ ~NodeGroup!TooManyUnjustified(r, acceptable)
    BY <1>2, <1>4 DEF NodeGroup!IsNodeGroupHealthy
  <2> QED
    BY <1>1, <1>4, <2>1, FewerUnjustified
<1> QED
  BY <1>3, <1>4

\* A group at its target with all nodes ready is healthy and not scaling up, and
\* a node that becomes ready leaves a healthy group healthy, for any config.
THEOREM ReadyGroupsCorrect == PartsSpec => []ReadyGroupsAreHealthy
<1>1. GroupsInv => ReadyGroupsAreHealthy
  BY PartsAssumption, ReadyIsHealthy DEF GroupsInv
<1> QED
  BY <1>1, GroupsInvariance, PTL
=============================================================================
