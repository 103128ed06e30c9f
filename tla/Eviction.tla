--------------------------------- MODULE Eviction ---------------------------------
(***************************************************************************)
(* evictPod (scaler/ScaleDown.go): one goroutine for each pod of a node,   *)
(* as in the drainNode of core/delete_nodes.go (commented out), all with   *)
(* the same retryUntil.  Requests are refused for a disruption budget,     *)
(* fail, or take effect while their answer is lost; users delete pods; a   *)
(* stateful set puts a new pod in the place of one that is gone.           *)
(*                                                                         *)
(* Times count down: left to retryUntil, nap of a sleeping goroutine,      *)
(* grace of a leaving pod.  Every pod has a grace period: the API server   *)
(* fills it in.  OwnGrace is a mutant of maxTermination.                   *)
(***************************************************************************)
EXTENDS Integers

CONSTANTS
    Pods,                     \* names of the pods to evict
    Grace,                    \* terminationGracePeriodSeconds of each
    MaxGracefulTermination,   \* maxGracefulTerminationSec
    EvictionTime,             \* until retryUntil
    WaitBetweenRetries        \* waitBetweenRetries

EvictionConstants ==
    /\ Grace \in [Pods -> Nat]
    /\ MaxGracefulTermination \in Nat
    /\ EvictionTime \in Nat /\ WaitBetweenRetries \in Nat

VARIABLES
    pod,      \* "running", "leaving" or "gone"; "new": another one of the name
    grace,    \* what is left of a leaving pod's grace period
    pc,       \* of each goroutine
    nap,      \* what is left of its sleep
    result,   \* of its call
    left,     \* what is left until retryUntil
    patience, \* history: what is left of the longest grace period after a result
    lost,     \* history: an answer of the goroutine was lost
    hit       \* history: an eviction of the goroutine took effect on its pod

vars == <<pod, grace, pc, nap, result, left, patience, lost, hit>>

Results == {"none", "evicted", "timed out"}

TypeOK ==
    /\ pod \in [Pods -> {"running", "leaving", "gone", "new"}]
    /\ \A p \in Pods : grace[p] \in 0 .. Grace[p]
    /\ pc \in [Pods -> {"attempt", "sleep", "returned"}]
    /\ nap \in [Pods -> 0 .. WaitBetweenRetries]
    /\ result \in [Pods -> Results]
    /\ left \in 0 .. EvictionTime
    /\ patience \in [Pods -> 0 .. MaxGracefulTermination]
    /\ lost \in [Pods -> BOOLEAN] /\ hit \in [Pods -> BOOLEAN]
    /\ \A p \in Pods : result[p] # "none" <=> pc[p] = "returned"

\* A pod of the list may have left since it was listed.
Init ==
    /\ pod \in [Pods -> {"running", "gone"}]
    /\ grace = [p \in Pods |-> 0]
    /\ pc = [p \in Pods |-> "attempt"]
    /\ nap = [p \in Pods |-> 0]
    /\ result = [p \in Pods |-> "none"]
    /\ left = EvictionTime
    /\ patience = [p \in Pods |-> 0]
    /\ lost = [p \in Pods |-> FALSE] /\ hit = [p \in Pods |-> FALSE]

-----------------------------------------------------------------------------
(* evictPod *)

Lesser(a, b) == IF a < b THEN a ELSE b

OwnGrace(p) == Grace[p]
\* GracePeriodSeconds of the eviction.
maxTermination(p) == Lesser(Grace[p], MaxGracefulTermination)

Return(p, r) ==
    /\ pc' = [pc EXCEPT ![p] = "returned"]
    /\ result' = [result EXCEPT ![p] = r]
    /\ patience' = [patience EXCEPT ![p] = MaxGracefulTermination]
    /\ UNCHANGED nap

SleepOn(p) ==
    /\ pc' = [pc EXCEPT ![p] = "sleep"]
    /\ nap' = [nap EXCEPT ![p] = WaitBetweenRetries]
    /\ UNCHANGED <<result, patience>>

\* The API server deletes what has the name: a leaving pod stays on its way,
\* or leaves sooner.
Delete(p) ==
    /\ pod[p] # "gone"
    /\ IF pod[p] = "new" THEN UNCHANGED <<pod, grace, hit>>
       ELSE /\ grace' = [grace EXCEPT ![p] =
                            IF pod[p] = "leaving" THEN Lesser(@, maxTermination(p))
                                                  ELSE maxTermination(p)]
            /\ pod' = [pod EXCEPT ![p] = "leaving"]
            /\ hit' = [hit EXCEPT ![p] = TRUE]

Evict(p) ==
    /\ pc[p] = "attempt"
    /\ Delete(p) /\ Return(p, "evicted")
    /\ UNCHANGED <<left, lost>>

AnswerLost(p) ==
    /\ pc[p] = "attempt"
    /\ Delete(p) /\ SleepOn(p)
    /\ lost' = [lost EXCEPT ![p] = TRUE]
    /\ UNCHANGED left

NotFound(p) ==
    /\ pc[p] = "attempt" /\ pod[p] = "gone"
    /\ Return(p, "evicted")
    /\ UNCHANGED <<pod, grace, left, lost, hit>>

\* Too many requests, for a disruption budget, or any other error.
Refused(p) ==
    /\ pc[p] = "attempt"
    /\ SleepOn(p)
    /\ UNCHANGED <<pod, grace, left, lost, hit>>

NextAttempt(p) ==
    IF left > 0
    THEN pc' = [pc EXCEPT ![p] = "attempt"] /\ UNCHANGED <<nap, result, patience>>
    ELSE Return(p, "timed out")

\* The post statement of the loop, then its condition.
Wake(p) ==
    /\ pc[p] = "sleep" /\ nap[p] = 0
    /\ NextAttempt(p)
    /\ UNCHANGED <<pod, grace, left, lost, hit>>

-----------------------------------------------------------------------------
(* Everyone else. *)

UserDeletes(p) ==
    /\ pod[p] = "running"
    /\ pod' = [pod EXCEPT ![p] = "leaving"]
    /\ grace' = [grace EXCEPT ![p] = Grace[p]]
    /\ UNCHANGED <<pc, nap, result, left, patience, lost, hit>>

\* The pod stops, or the kubelet kills it at the end of its grace period.
Stop(p) ==
    /\ pod[p] = "leaving"
    /\ pod' = [pod EXCEPT ![p] = "gone"]
    /\ grace' = [grace EXCEPT ![p] = 0]
    /\ UNCHANGED <<pc, nap, result, left, patience, lost, hit>>

Recreate(p) ==
    /\ pod[p] = "gone"
    /\ pod' = [pod EXCEPT ![p] = "new"]
    /\ UNCHANGED <<grace, pc, nap, result, left, patience, lost, hit>>

Down(n) == IF n > 0 THEN n - 1 ELSE 0

\* The kubelet kills in time.
Tick ==
    /\ \A p \in Pods : pod[p] = "leaving" => grace[p] > 0
    /\ grace' = [p \in Pods |-> Down(grace[p])]
    /\ nap' = [p \in Pods |-> Down(nap[p])]
    /\ patience' = [p \in Pods |-> Down(patience[p])]
    /\ left' = Down(left)
    /\ UNCHANGED <<pod, pc, result, lost, hit>>

CallStep(p) ==
    Evict(p) \/ AnswerLost(p) \/ NotFound(p) \/ Refused(p) \/ Wake(p)
Others(p) == UserDeletes(p) \/ Stop(p) \/ Recreate(p)

Next == (\E p \in Pods : CallStep(p) \/ Others(p)) \/ Tick

Spec == Init /\ [][Next]_vars

-----------------------------------------------------------------------------
(* Properties. *)

\* A pod whose eviction was successful (WasEvictionSuccessful) is gone when the
\* longest grace period after the result is over, whoever deleted it first and
\* however long a period of its own it has.
EvictedLeavesInTime ==
    \A p \in Pods : result[p] = "evicted" =>
        /\ pod[p] # "running"
        /\ pod[p] = "leaving" => grace[p] <= patience[p]

\* A goroutine that gives up has not evicted its pod, unless an answer got lost.
GivesUpOnlyOnFailure ==
    \A p \in Pods : result[p] = "timed out" => (hit[p] => lost[p])

\* So what the callers make of a result is true.
ResultIsTrue == EvictedLeavesInTime /\ GivesUpOnlyOnFailure
=============================================================================
