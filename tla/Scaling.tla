--------------------------------- MODULE Scaling ---------------------------------
(***************************************************************************)
(* replaceNode (Controller.go:168-229) with ScaleUp and ScaleDown (scaler) *)
(* against the portal.  One worker goroutine calls it, so one call runs at *)
(* a time; pc is where that goroutine is.  The two waits sleep 30 seconds  *)
(* between two looks at the status, and everyone else acts in between.     *)
(*                                                                         *)
(* An unreachable portal makes CheckStatusCluster and PerformScaleDown     *)
(* dereference a nil response: the process ends, wherever it is, as it     *)
(* does when the pod is killed.  Both are Crash.                           *)
(*                                                                         *)
(* EnoughOrFull, UpDoneUnseen, UpRetryUnawaited and DownContinues are      *)
(* mutants of the definitions that follow them.                            *)
(***************************************************************************)
EXTENDS Portal

CONSTANTS
    Masters,     \* number of master nodes, which the node lister lists too
    CountLimit,  \* the count at which the wait of ScaleDown gives up, 100
    MaxCalls     \* bound: calls of replaceNode

ASSUME ScalingAssumption ==
    /\ Masters \in Nat /\ CountLimit \in Nat \ {0} /\ MaxCalls \in Nat

VARIABLES
    pinned,   \* workers with a pod that ScaleDown must not remove
    pc,       \* where replaceNode is
    target,   \* toBeRepairedNode
    size,     \* currentSize
    mode,     \* the branch that was taken
    count,    \* count in the wait of ScaleDown
    calls,    \* calls so far
    created,  \* history: nodes that jobs of this call created
    removed,  \* history: a job of this call removed target
    quiet     \* history: nothing came in the way of this call so far

callVars == <<pc, target, size, mode, count, calls>>
historyVars == <<created, removed, quiet>>
vars == <<portalVars, pinned, callVars, historyVars>>

UpPCs == {"upCheck", "upPost", "upWait", "upError", "upRetry"}
DownPCs ==
    {"downPods", "downCheck", "downPost", "downWait", "downError", "downRetry"}

TypeOK ==
    /\ PortalTypeOK
    /\ pinned \subseteq Workers
    /\ pc \in {"idle", "size", "decide"} \union UpPCs \union DownPCs
    /\ target \in Workers
    /\ size \in Nat
    /\ mode \in {"none", "createFirst", "removeFirst"}
    /\ count \in 0 .. CountLimit
    /\ calls \in 0 .. MaxCalls
    /\ created \in 0 .. 2 /\ removed \in BOOLEAN /\ quiet \in BOOLEAN

Init ==
    /\ PortalInit
    /\ pinned \in SUBSET Workers
    /\ pc = "idle" /\ target \in Workers
    /\ size = 0 /\ mode = "none" /\ count = 0 /\ calls = 0
    /\ created = 0 /\ removed = FALSE /\ quiet = FALSE

\* nodeLister.List(labels.Everything())
NodeCount == Masters + Cardinality(workers)

\* CheckWorkerNodeCanBeScaleDown: a pod of a ReplicaSet with one replica, or
\* one with an emptyDir, keeps the worker.
CanBeScaleDown(w) == w \notin pinned

-----------------------------------------------------------------------------
(* replaceNode *)

Call(w) ==
    /\ pc = "idle" /\ calls < MaxCalls /\ w \in workers
    /\ pc' = "size" /\ target' = w /\ calls' = calls + 1
    /\ quiet' = Succeeded
    /\ UNCHANGED <<portalVars, pinned, size, mode, count, created, removed>>

ReadSize ==
    /\ pc = "size"
    /\ size' = NodeCount
    /\ pc' = "decide"
    /\ UNCHANGED <<portalVars, pinned, target, mode, count, calls, historyVars>>

\* The call is over: the locals die, and the history of the call with them.
Return ==
    /\ pc' = "idle" /\ mode' = "none" /\ size' = 0 /\ count' = 0
    /\ created' = 0 /\ removed' = FALSE /\ quiet' = FALSE
    /\ UNCHANGED <<target, calls>>

EnoughOrFull == size >= MinSize /\ size <= MaxSize
Enough == size >= MinSize /\ size < MaxSize
Full == size >= MaxSize

\* The nodes cannot be listed, the worker must stay, or there are too few.
DoNothing ==
    /\ \/ pc = "size"
       \/ pc = "decide" /\ (~CanBeScaleDown(target) \/ ~(Enough \/ Full))
    /\ Return
    /\ UNCHANGED <<portalVars, pinned>>

ChooseOrder ==
    /\ pc = "decide" /\ CanBeScaleDown(target)
    /\ \/ Enough /\ mode' = "createFirst" /\ pc' = "upCheck"
       \/ Full /\ mode' = "removeFirst" /\ pc' = "downPods"
    /\ UNCHANGED <<portalVars, pinned, target, size, count, calls, historyVars>>

-----------------------------------------------------------------------------
(* ScaleUp: nothing to return but nil, whether it did anything or not. *)

inCall == UNCHANGED <<pinned, target, size, mode, calls, created, removed>>

UpReturns ==
    IF mode = "createFirst"
    THEN pc' = "downPods" /\ UNCHANGED <<size, mode, count, historyVars>>
    ELSE Return

UpCheck ==
    /\ pc = "upCheck" /\ Succeeded
    /\ pc' = "upPost"
    /\ UNCHANGED <<portalVars, count, quiet>> /\ inCall

UpBusy ==
    /\ pc = "upCheck" /\ ~Succeeded
    /\ UpReturns
    /\ UNCHANGED <<portalVars, pinned, target, calls>>

UpPost ==
    /\ pc = "upPost"
    /\ PerformScaleUp
    /\ pc' = "upWait"
    /\ quiet' = (quiet /\ job' # job)
    /\ UNCHANGED count /\ inCall

UpDoneUnseen ==
    /\ pc \in {"upWait", "upRetry"}
    /\ UpReturns
    /\ UNCHANGED <<portalVars, pinned, target, calls>>

UpDone ==
    /\ pc \in {"upWait", "upRetry"} /\ Succeeded
    /\ UpReturns
    /\ UNCHANGED <<portalVars, pinned, target, calls>>

UpNotYet ==
    /\ pc = "upWait" /\ ~Succeeded
    /\ pc' = "upError"
    /\ UNCHANGED <<portalVars, count, quiet>> /\ inCall

UpStillScaling ==
    /\ pc = "upError" /\ ~InError
    /\ pc' = "upWait"
    /\ UNCHANGED <<portalVars, count, quiet>> /\ inCall

\* One more request after an ERROR; the wait for it looks for SUCCEEDED only.
UpRetryUnawaited ==
    /\ pc = "upError" /\ InError
    /\ PerformScaleUp
    /\ UpReturns
    /\ UNCHANGED <<pinned, target, calls>>

UpRetry ==
    /\ pc = "upError" /\ InError
    /\ PerformScaleUp
    /\ pc' = "upRetry"
    /\ UNCHANGED <<count, quiet>> /\ inCall

-----------------------------------------------------------------------------
(* ScaleDown *)

DownContinues ==
    pc' = "upCheck" /\ count' = 0 /\ UNCHANGED <<size, mode, historyVars>>

DownReturns ==
    IF mode = "removeFirst"
    THEN pc' = "upCheck" /\ count' = 0 /\ UNCHANGED <<size, mode, historyVars>>
    ELSE Return

DownRefused ==
    /\ \/ pc = "downPods" /\ ~CanBeScaleDown(target)
       \/ pc = "downCheck" /\ ~Succeeded
    /\ DownReturns
    /\ UNCHANGED <<portalVars, pinned, target, calls>>

DownPods ==
    /\ pc = "downPods" /\ CanBeScaleDown(target)
    /\ pc' = "downCheck"
    /\ UNCHANGED <<portalVars, count, quiet>> /\ inCall

DownCheck ==
    /\ pc = "downCheck" /\ Succeeded
    /\ pc' = "downPost"
    /\ UNCHANGED <<portalVars, count, quiet>> /\ inCall

DownPost ==
    /\ pc = "downPost"
    /\ PerformScaleDown(target)
    /\ pc' = "downWait"
    /\ quiet' = (quiet /\ job' # job)
    /\ UNCHANGED count /\ inCall

\* count is declared inside the loop, so that every turn counts from zero.
NextCount == 0 + 1

DownDone ==
    /\ \/ pc = "downWait" /\ (Succeeded \/ NextCount > CountLimit)
       \/ pc = "downRetry" /\ Succeeded
    /\ DownReturns
    /\ UNCHANGED <<portalVars, pinned, target, calls>>

DownNotYet ==
    /\ pc = "downWait" /\ ~Succeeded /\ NextCount <= CountLimit
    /\ count' = NextCount
    /\ pc' = "downError"
    /\ UNCHANGED <<portalVars, quiet>> /\ inCall

DownStillScaling ==
    /\ pc = "downError" /\ ~InError
    /\ pc' = "downWait"
    /\ UNCHANGED <<portalVars, count, quiet>> /\ inCall

DownRetry ==
    /\ pc = "downError" /\ InError
    /\ PerformScaleDown(target)
    /\ pc' = "downRetry"
    /\ UNCHANGED <<count, quiet>> /\ inCall

-----------------------------------------------------------------------------
(* The end of the process, and everyone else. *)

Crash ==
    /\ pc # "idle"
    /\ Return
    /\ Disown /\ UNCHANGED pinned

\* Jobs of this call that end well, or badly, add to its history.
JobEnds ==
    /\ \/ JobSucceeds /\ UNCHANGED quiet
       \/ JobFails /\ quiet' = FALSE
    /\ created' = IF job.own /\ job.kind = "up" /\ job.worker \in workers'
                  THEN created + 1 ELSE created
    /\ removed' = \/ removed
                  \/ job.own /\ job.kind = "down" /\ job.worker \notin workers'
    /\ UNCHANGED <<pinned, callVars>>

Interfere ==
    /\ AutoScale
    /\ quiet' = FALSE
    /\ UNCHANGED <<pinned, callVars, created, removed>>

\* The token expires, or the portal answers with something else for a while.
AnswersLapse ==
    /\ Lapse
    /\ quiet' = FALSE
    /\ UNCHANGED <<pinned, callVars, created, removed>>

\* Pods come and go.
PodsMove(w) ==
    /\ pinned' = IF w \in pinned THEN pinned \ {w} ELSE pinned \union {w}
    /\ quiet' = FALSE
    /\ UNCHANGED <<portalVars, callVars, created, removed>>

-----------------------------------------------------------------------------
UpStep ==
    \/ UpCheck \/ UpBusy \/ UpPost \/ UpDone \/ UpNotYet \/ UpStillScaling
    \/ UpRetry

DownStep ==
    \/ DownRefused \/ DownPods \/ DownCheck \/ DownPost \/ DownDone
    \/ DownNotYet \/ DownStillScaling \/ DownRetry

CallStep == ReadSize \/ DoNothing \/ ChooseOrder \/ UpStep \/ DownStep

Next ==
    \/ \E w \in Workers : Call(w) \/ PodsMove(w)
    \/ CallStep \/ Crash
    \/ JobEnds \/ Interfere \/ AnswersLapse

Spec == Init /\ [][Next]_vars

\* The goroutine runs, whatever the portal does.
CallerFairSpec == Spec /\ WF_vars(CallStep)

\* Besides, every job ends some time, well or badly.
FairSpec == CallerFairSpec /\ WF_vars(JobEnds)

-----------------------------------------------------------------------------
(* Properties. *)

OwnJobRuns == job # NoJob /\ job.own

\* A call does to the cluster what module Replacement allows.
R == INSTANCE Replacement WITH running <- OwnJobRuns
ReplacementSpec == R!Spec

\* No creation outlives the ScaleUp that asked for it, unless the process ends:
\* ScaleUp comes back only when the portal has finished, after a failure and
\* the second request too.
JobsAwaited ==
    OwnJobRuns /\ job.kind = "up" => pc \in {"upWait", "upError", "upRetry"}

\* What the choice of the order is for: as long as nothing gets in the way, a
\* call that starts with the workers within the limits of the auto scaler, and
\* the limits apart, keeps them within at every moment; but where masters are
\* counted as well, as replaceNode does, it may go below by one.
WithinLimits ==
    quiet /\ mode # "none" /\ MinSize < MaxSize
        /\ size - Masters \in MinSize .. MaxSize
    => /\ Cardinality(workers) <= MaxSize
       /\ Cardinality(workers) >= MinSize - (IF Masters = 0 THEN 0 ELSE 1)

\* A call that nothing got in the way of has replaced its target by one node,
\* or has left the cluster alone.
QuietCallReplaces ==
    [][quiet /\ Return /\ (UpStep \/ DownStep) => created = 1 /\ removed]_vars

\* Once the answers show the status for good, a call returns, or it is one that
\* waits for SUCCEEDED after its retry while the cluster stays in ERROR: the
\* outer waits end, however often the portal refuses, once jobs end and the
\* auto scaler does not post for ever.  While the answers do not show it, as
\* with a token that has expired, no wait ends (CheckStatusCluster and
\* CheckErrorStatusCluster, core/utils/utils.go:399-483).
OnlyErrorBlocks ==
    <>[]readable =>
        (pc # "idle" ~> \/ pc = "idle"
                        \/ pc \in {"upRetry", "downRetry"} /\ status = "ERROR")

\* What ScaleDown.go:232 says: the wait breaks after a timeout of 50 minutes.
WaitTimesOut == pc = "downWait" ~> pc \notin {"downWait", "downError"}

\* What README.md:19 says: create, then remove the node.
RemoveAfterCreate ==
    [][DownPost /\ mode = "createFirst" => created > 0]_vars

=============================================================================
