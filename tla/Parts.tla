---------------------------------- MODULE Parts ----------------------------------
(***************************************************************************)
(* Parts of the program that share no state and call nothing of each       *)
(* other, side by side: the initial state says which of them takes steps,  *)
(* the others stay as they are.  So each of them behaves as its own module *)
(* says, and one specification has the properties of all.                  *)
(***************************************************************************)
EXTENDS DeletionTracker

CONSTANTS
    \* LogCollector
    Threads, maxItems, itemLifetime, MaxLogs, MaxTime,
    \* ClusterStatus and NodeGroups, with the configuration they share
    OkTotalUnreadyCount, MaxTotalUnreadyPercentage, MaxNodes,
    MaxStatusTime, MaxStatuses, KnownGroups, MaxUpdates,
    \* Settings
    Sites, Sizes, MaxEdits, Gone, Empty,
    \* Eviction
    Pods, Grace, MaxGracefulTermination, EvictionTime, WaitBetweenRetries

VARIABLES
    part,
    \* LogCollector
    clock, logLock, store, now, doing, got, everything,
    \* ClusterStatus
    statusClock, nodes, totalReadiness, candidatesForScaleDown,
    lastScaleDownUpdateTime, lastStatus, published,
    \* NodeGroups
    acceptableRanges, perNodeGroupReadiness, scaleUpRequests, unregisteredNodes,
    updates,
    \* Settings
    secret, csi, limits, listed, call, values, outcome, edits,
    \* Eviction
    pod, grace, evictPC, nap, result, left, patience, lost, hit

Log == INSTANCE LogCollector WITH lock <- logLock
Status == INSTANCE ClusterStatus WITH
              clock <- statusClock, MaxTime <- MaxStatusTime
NodeGroup == INSTANCE NodeGroups WITH Groups <- KnownGroups
Setting == INSTANCE Settings WITH nodes <- listed
Evict == INSTANCE Eviction WITH pc <- evictPC

ASSUME PartsAssumption ==
    /\ Log!CollectorConstants /\ Status!StatusConstants
    /\ NodeGroup!GroupsConstants /\ Setting!SettingsConstants
    /\ Evict!EvictionConstants

logVars == <<clock, logLock, store, now, doing, got, everything>>
statusVars ==
    <<statusClock, nodes, totalReadiness, candidatesForScaleDown,
      lastScaleDownUpdateTime, lastStatus, published>>
groupVars ==
    <<acceptableRanges, perNodeGroupReadiness, scaleUpRequests,
      unregisteredNodes, updates>>
settingVars ==
    <<secret, csi, limits, listed, call, values, outcome, edits>>
evictVars == <<pod, grace, evictPC, nap, result, left, patience, lost, hit>>
allVars ==
    <<part, vars, logVars, statusVars, groupVars, settingVars, evictVars>>

PartNames == {"tracker", "log", "status", "groups", "settings", "eviction"}

PartsInit ==
    /\ part \in PartNames
    /\ Init /\ Log!Init /\ Status!Init /\ NodeGroup!Init /\ Setting!Init
    /\ Evict!Init

PartsNext ==
    /\ IF part = "tracker" THEN Next ELSE UNCHANGED vars
    /\ IF part = "log" THEN Log!Next ELSE UNCHANGED logVars
    /\ IF part = "status" THEN Status!Next ELSE UNCHANGED statusVars
    /\ IF part = "groups" THEN NodeGroup!Next ELSE UNCHANGED groupVars
    /\ IF part = "settings" THEN Setting!Next ELSE UNCHANGED settingVars
    /\ IF part = "eviction" THEN Evict!Next ELSE UNCHANGED evictVars
    /\ UNCHANGED part

PartsSpec == PartsInit /\ [][PartsNext]_allVars

-----------------------------------------------------------------------------
(* The properties of the parts; their modules say what they mean.          *)

\* The variables of every part keep their types.
TypesOK ==
    /\ TypeOK /\ Log!TypeOK /\ Status!TypeOK /\ NodeGroup!TypeOK
    /\ Setting!TypeOK /\ Evict!TypeOK

\* GetLogs returns what is recent, though truncation stops at the first live item.
GetsTheRecent == Log!GetsTheRecent

\* The time of a condition's last transition is that of the run of its status.
TransitionStartsTheRun == Status!TransitionStartsTheRun

\* A node that did not register is known since the run of updates that name it.
SinceIsFirstSeen == NodeGroup!SinceIsFirstSeen

\* A group at its target with all nodes ready is healthy, and stays so when
\* another becomes ready.
ReadyGroupsAreHealthy == NodeGroup!ReadyGroupsAreHealthy

\* A request goes out with settings that belong together.
RequestNamesOneSite == Setting!RequestNamesOneSite

\* An evicted pod leaves in time, and one given up on was not evicted.
ResultIsTrue == Evict!ResultIsTrue
=============================================================================
