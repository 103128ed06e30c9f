----------------------------- MODULE Scaling_proofs -----------------------------
(***************************************************************************)
(* That a replacement awaits its jobs and does to the cluster only what    *)
(* module Replacement allows, for any number of workers, calls, failures   *)
(* and jobs of the auto scaler.                                            *)
(***************************************************************************)
EXTENDS Scaling, FiniteSetTheorems, TLAPS

\* A job runs exactly as long as the status says so.
JobInv == (job # NoJob) <=> (status = "SCALING")

\* The order is chosen from the branch of replaceNode until the call returns.
ModeInv == (mode = "none") <=> (pc \in {"idle", "size", "decide"})

\* No job of a call outlives the call.  That this holds of removals too is owed
\* to the wait of ScaleDown, which does not time out (NextCount).
Awaited ==
    OwnJobRuns =>
        pc \in {"upWait", "upError", "upRetry", "downWait", "downError",
                "downRetry"}

\* The job of a call is the one that its place waits for.
KindInv ==
    OwnJobRuns =>
        \/ pc \in UpPCs /\ job.kind = "up"
        \/ pc \in DownPCs /\ job.kind = "down" /\ job.worker = target

\* What the history of a call can be at each place: nothing before the order
\* is chosen, nothing of the second half during the first, and one node less
\* than the two at most as long as the retry, or a job, is still to come.
HistoryInv ==
    /\ mode = "none" => created = 0 /\ removed = FALSE
    /\ mode = "createFirst" /\ pc \in UpPCs => removed = FALSE
    /\ mode = "removeFirst" /\ pc \in DownPCs => created = 0
    /\ pc \in {"upCheck", "upPost"} => created = 0
    /\ pc \in {"upWait", "upError"} => created <= 1
    /\ pc \in {"upWait", "upError"} /\ OwnJobRuns => created = 0
    /\ pc = "upRetry" /\ OwnJobRuns => created <= 1

IInv == TypeOK /\ JobInv /\ ModeInv /\ Awaited /\ KindInv /\ HistoryInv

-----------------------------------------------------------------------------
\* The number of nodes is a natural number (replaceNode, Controller.go:191).
LEMMA NodeCountType == ASSUME TypeOK PROVE NodeCount \in Nat
<1>1. IsFiniteSet(workers)
  BY PortalAssumption, FS_Subset DEF TypeOK, PortalTypeOK
<1>2. Cardinality(workers) \in Nat
  BY <1>1, FS_CardinalityType
<1> QED
  BY <1>2, ScalingAssumption DEF NodeCount

\* An accepted request starts the job that was asked for (PerformScaleUp and
\* PerformScaleDown, core/utils/utils.go).
LEMMA AcceptStarts ==
    ASSUME NEW k \in {"up", "down"}, NEW w \in Workers, NEW b \in BOOLEAN,
           Accept(k, w, b)
    PROVE  /\ job' \in Job /\ job' # NoJob
           /\ job'.kind = k /\ job'.worker = w /\ job'.own = b
           /\ status' = "SCALING" /\ workers' = workers
<1>1. job' = [kind |-> k, worker |-> w, own |-> b]
  BY DEF Accept
<1>2. job' \in Job
  BY <1>1 DEF Job
<1> QED
  BY <1>1, <1>2, NoJobAssumption DEF Accept

\* The initial states satisfy the invariant.
LEMMA InitInv == ASSUME Init PROVE IInv
<1> USE DEF Init, PortalInit
<1>1. PortalTypeOK /\ pinned \subseteq Workers /\ target \in Workers
  BY PortalAssumption DEF PortalTypeOK, Statuses
<1>2. /\ pc \in {"idle", "size", "decide"} \union UpPCs \union DownPCs
      /\ mode \in {"none", "createFirst", "removeFirst"}
  OBVIOUS
<1>3. size \in Nat /\ count \in 0 .. CountLimit /\ calls \in 0 .. MaxCalls
  BY ScalingAssumption
<1>4. removed \in BOOLEAN /\ quiet \in BOOLEAN
  OBVIOUS
<1>5. created \in 0 .. 2
  OBVIOUS
<1>6. JobInv /\ ModeInv /\ Awaited /\ KindInv
  BY DEF JobInv, ModeInv, Awaited, KindInv, OwnJobRuns
<1>7. HistoryInv
  BY DEF HistoryInv, UpPCs, DownPCs
<1> QED
  BY <1>1, <1>2, <1>3, <1>4, <1>5, <1>6, <1>7 DEF IInv, TypeOK

-----------------------------------------------------------------------------
(* The steps, one lemma for each kind, with one step for each part.        *)

\* The first steps of replaceNode, the pods, and the answers of the portal.
LEMMA StartSteps ==
    ASSUME IInv, NEW w \in Workers, Call(w) \/ ReadSize \/ DoNothing \/
           ChooseOrder \/ PodsMove(w) \/ AnswersLapse
    PROVE  IInv'
<1> USE DEF IInv, TypeOK, Call, ReadSize, DoNothing, ChooseOrder, PodsMove,
        AnswersLapse, Lapse, Return, portalVars, callVars, historyVars
<1>1. PortalTypeOK' /\ pinned' \subseteq Workers /\ target' \in Workers
  BY DEF PortalTypeOK
<1>2. /\ pc' \in {"idle", "size", "decide"} \union UpPCs \union DownPCs
      /\ mode' \in {"none", "createFirst", "removeFirst"}
  BY DEF UpPCs, DownPCs
<1>3. size' \in Nat /\ count' \in 0 .. CountLimit /\ calls' \in 0 .. MaxCalls
  BY NodeCountType, ScalingAssumption
<1>4. removed' \in BOOLEAN /\ quiet' \in BOOLEAN
  BY DEF Succeeded
<1>5. JobInv' /\ ModeInv'
  BY DEF JobInv, ModeInv, Succeeded
<1>6. Awaited' /\ KindInv'
  BY ScalingAssumption DEF Awaited, KindInv, OwnJobRuns, JobInv, UpPCs,
       DownPCs, Succeeded
<1>7. HistoryInv' /\ created' \in 0 .. 2
  BY ScalingAssumption DEF HistoryInv, OwnJobRuns, JobInv, Awaited,
       KindInv, ModeInv, UpPCs, DownPCs, Succeeded
<1> QED
  BY <1>1, <1>2, <1>3, <1>4, <1>5, <1>6, <1>7

\* ScaleUp, but for its requests.
LEMMA UpSteps ==
    ASSUME IInv, UpCheck \/ UpBusy \/ UpDone \/ UpNotYet \/ UpStillScaling
    PROVE  IInv'
<1> USE DEF IInv, TypeOK, UpCheck, UpBusy, UpDone, UpNotYet, UpStillScaling,
        UpReturns, Return, inCall, portalVars, callVars, historyVars
<1>1. PortalTypeOK' /\ pinned' \subseteq Workers /\ target' \in Workers
  BY DEF PortalTypeOK
<1>2. /\ pc' \in {"idle", "size", "decide"} \union UpPCs \union DownPCs
      /\ mode' \in {"none", "createFirst", "removeFirst"}
  BY DEF UpPCs, DownPCs
<1>3. size' \in Nat /\ count' \in 0 .. CountLimit /\ calls' \in 0 .. MaxCalls
  BY NodeCountType, ScalingAssumption
<1>4. removed' \in BOOLEAN /\ quiet' \in BOOLEAN
  OBVIOUS
<1>5. JobInv' /\ ModeInv'
  BY DEF JobInv, ModeInv, Succeeded
<1>6. Awaited' /\ KindInv'
  BY ScalingAssumption DEF Awaited, KindInv, OwnJobRuns, JobInv, UpPCs,
       DownPCs, Succeeded
<1>7. HistoryInv' /\ created' \in 0 .. 2
  BY ScalingAssumption DEF HistoryInv, OwnJobRuns, JobInv, Awaited,
       KindInv, ModeInv, UpPCs, DownPCs, Succeeded
<1> QED
  BY <1>1, <1>2, <1>3, <1>4, <1>5, <1>6, <1>7

\* ScaleDown, but for its requests.
LEMMA DownSteps ==
    ASSUME IInv, DownRefused \/ DownPods \/ DownCheck \/ DownDone \/
           DownNotYet \/ DownStillScaling
    PROVE  IInv'
<1> USE DEF IInv, TypeOK, DownRefused, DownPods, DownCheck, DownDone,
        DownNotYet, DownStillScaling, DownReturns, NextCount, Return,
        inCall, portalVars, callVars, historyVars
<1>1. PortalTypeOK' /\ pinned' \subseteq Workers /\ target' \in Workers
  BY DEF PortalTypeOK
<1>2. /\ pc' \in {"idle", "size", "decide"} \union UpPCs \union DownPCs
      /\ mode' \in {"none", "createFirst", "removeFirst"}
  BY DEF UpPCs, DownPCs
<1>3. size' \in Nat /\ count' \in 0 .. CountLimit /\ calls' \in 0 .. MaxCalls
  BY NodeCountType, ScalingAssumption
<1>4. removed' \in BOOLEAN /\ quiet' \in BOOLEAN
  OBVIOUS
<1>5. JobInv' /\ ModeInv'
  BY DEF JobInv, ModeInv, Succeeded
<1>6. Awaited' /\ KindInv'
  BY ScalingAssumption DEF Awaited, KindInv, OwnJobRuns, JobInv, UpPCs,
       DownPCs, Succeeded
<1>7. HistoryInv' /\ created' \in 0 .. 2
  BY ScalingAssumption DEF HistoryInv, OwnJobRuns, JobInv, Awaited,
       KindInv, ModeInv, UpPCs, DownPCs, Succeeded
<1> QED
  BY <1>1, <1>2, <1>3, <1>4, <1>5, <1>6, <1>7

\* The requests: a job is started, or the request refused.
LEMMA RequestSteps ==
    ASSUME IInv, UpPost \/ UpRetry \/ DownPost \/ DownRetry
    PROVE  IInv'
<1> USE DEF IInv, TypeOK, UpPost, UpRetry, DownPost, DownRetry,
        PerformScaleUp, PerformScaleDown, InError, inCall, portalVars,
        callVars, historyVars
<1>1. PortalTypeOK' /\ pinned' \subseteq Workers /\ target' \in Workers
  BY AcceptStarts DEF PortalTypeOK, Statuses
<1>2. /\ pc' \in {"idle", "size", "decide"} \union UpPCs \union DownPCs
      /\ mode' \in {"none", "createFirst", "removeFirst"}
  BY DEF UpPCs, DownPCs
<1>3. size' \in Nat /\ count' \in 0 .. CountLimit /\ calls' \in 0 .. MaxCalls
  BY NodeCountType, ScalingAssumption
<1>4. removed' \in BOOLEAN /\ quiet' \in BOOLEAN
  OBVIOUS
<1>5. JobInv' /\ ModeInv'
  BY AcceptStarts DEF JobInv, ModeInv, Succeeded
<1>6. Awaited' /\ KindInv'
  BY AcceptStarts, ScalingAssumption DEF Awaited, KindInv, OwnJobRuns,
       JobInv, UpPCs, DownPCs, Succeeded
<1>7. HistoryInv' /\ created' \in 0 .. 2
  <2> USE DEF HistoryInv, ModeInv, UpPCs, DownPCs
  <2>1. CASE UpPost
    BY <2>1
  <2>2. CASE UpRetry
    BY <2>2 DEF JobInv, OwnJobRuns
  <2>3. CASE DownPost
    BY <2>3
  <2>4. CASE DownRetry
    BY <2>4
  <2> QED
    BY <2>1, <2>2, <2>3, <2>4
<1> QED
  BY <1>1, <1>2, <1>3, <1>4, <1>5, <1>6, <1>7

\* The auto scaler.
LEMMA AutoScalerSteps ==
    ASSUME IInv, Interfere
    PROVE  IInv'
<1>1. PICK k \in {"up", "down"}, w \in Workers : Accept(k, w, FALSE)
  BY DEF Interfere, AutoScale, IInv, TypeOK, PortalTypeOK
<1>2. /\ job = NoJob /\ status = "SUCCEEDED"
      /\ job' \in Job /\ job' # NoJob /\ job'.own = FALSE
      /\ status' = "SCALING" /\ workers' = workers
  BY <1>1, AcceptStarts DEF IInv, JobInv, Interfere, AutoScale, Succeeded
<1> USE DEF IInv, TypeOK, Interfere, AutoScale, portalVars, callVars,
        historyVars
<1>3. autoJobs' \in 0 .. MaxAutoJobs
  BY PortalAssumption DEF PortalTypeOK
<1>4. PortalTypeOK' /\ pinned' \subseteq Workers /\ target' \in Workers
  BY <1>2, <1>3 DEF PortalTypeOK, Statuses
<1>5. /\ pc' \in {"idle", "size", "decide"} \union UpPCs \union DownPCs
      /\ mode' \in {"none", "createFirst", "removeFirst"}
  BY DEF UpPCs, DownPCs
<1>6. size' \in Nat /\ count' \in 0 .. CountLimit /\ calls' \in 0 .. MaxCalls
  BY NodeCountType, ScalingAssumption
<1>7. removed' \in BOOLEAN /\ quiet' \in BOOLEAN
  OBVIOUS
<1>8. JobInv' /\ ModeInv'
  BY <1>2 DEF JobInv, ModeInv, Succeeded
<1>9. Awaited' /\ KindInv'
  BY <1>2 DEF Awaited, KindInv, OwnJobRuns, JobInv, UpPCs,
       DownPCs, Succeeded
<1>10. HistoryInv' /\ created' \in 0 .. 2
  BY <1>2 DEF HistoryInv, OwnJobRuns, JobInv, Awaited,
       KindInv, ModeInv, UpPCs, DownPCs, Succeeded
<1> QED
  BY <1>4, <1>5, <1>6, <1>7, <1>8, <1>9, <1>10

\* The end of a job.
LEMMA JobSteps ==
    ASSUME IInv, JobEnds
    PROVE  IInv'
<1> USE DEF IInv, TypeOK, JobEnds, JobSucceeds, JobFails, Applied, portalVars,
        callVars, historyVars
<1>1. PortalTypeOK' /\ pinned' \subseteq Workers /\ target' \in Workers
  BY PortalAssumption DEF PortalTypeOK, Statuses, Job
<1>2. /\ pc' \in {"idle", "size", "decide"} \union UpPCs \union DownPCs
      /\ mode' \in {"none", "createFirst", "removeFirst"}
  BY DEF UpPCs, DownPCs
<1>3. size' \in Nat /\ count' \in 0 .. CountLimit /\ calls' \in 0 .. MaxCalls
  BY NodeCountType, ScalingAssumption
<1>4. removed' \in BOOLEAN /\ quiet' \in BOOLEAN
  OBVIOUS
<1>5. JobInv' /\ ModeInv'
  BY DEF JobInv, ModeInv, Succeeded, PortalTypeOK, Job
<1>6. Awaited' /\ KindInv'
  BY NoJobAssumption DEF Awaited, KindInv, OwnJobRuns, JobInv, UpPCs,
       DownPCs, Succeeded, PortalTypeOK, Job
<1>7. HistoryInv' /\ created' \in 0 .. 2
  BY NoJobAssumption DEF HistoryInv, OwnJobRuns, JobInv, Awaited,
       KindInv, ModeInv, UpPCs, DownPCs, Succeeded, PortalTypeOK, Job
<1> QED
  BY <1>1, <1>2, <1>3, <1>4, <1>5, <1>6, <1>7

\* The end of the process.
LEMMA CrashSteps ==
    ASSUME IInv, Crash
    PROVE  IInv'
<1> USE DEF IInv, TypeOK, Crash, Return, Disown, portalVars, callVars,
        historyVars
<1>1. PortalTypeOK' /\ pinned' \subseteq Workers /\ target' \in Workers
  BY NoJobAssumption DEF PortalTypeOK, Job
<1>2. /\ pc' \in {"idle", "size", "decide"} \union UpPCs \union DownPCs
      /\ mode' \in {"none", "createFirst", "removeFirst"}
  BY DEF UpPCs, DownPCs
<1>3. size' \in Nat /\ count' \in 0 .. CountLimit /\ calls' \in 0 .. MaxCalls
  BY NodeCountType, ScalingAssumption
<1>4. removed' \in BOOLEAN /\ quiet' \in BOOLEAN
  OBVIOUS
<1>5. JobInv' /\ ModeInv'
  BY NoJobAssumption DEF JobInv, ModeInv, Succeeded, PortalTypeOK, Job
<1>6. Awaited' /\ KindInv'
  BY NoJobAssumption DEF Awaited, KindInv, OwnJobRuns, JobInv, UpPCs,
       DownPCs, Succeeded, PortalTypeOK, Job
<1>7. HistoryInv' /\ created' \in 0 .. 2
  BY NoJobAssumption DEF HistoryInv, OwnJobRuns, JobInv, Awaited,
       KindInv, ModeInv, UpPCs, DownPCs, Succeeded, PortalTypeOK, Job
<1> QED
  BY <1>1, <1>2, <1>3, <1>4, <1>5, <1>6, <1>7

-----------------------------------------------------------------------------
\* Every step keeps the invariant.
LEMMA Steps == ASSUME IInv, [Next]_vars PROVE IInv'
<1>1. ASSUME NEW w \in Workers, Call(w) \/ PodsMove(w) PROVE IInv'
  BY <1>1, StartSteps
<1>2. CASE CallStep
  <2>1. CASE ReadSize \/ DoNothing \/ ChooseOrder
    <3>1. target \in Workers
      BY DEF IInv, TypeOK
    <3> QED
      BY <2>1, <3>1, StartSteps
  <2>2. CASE UpStep
    BY <2>2, UpSteps, RequestSteps DEF UpStep
  <2>3. CASE DownStep
    BY <2>3, DownSteps, RequestSteps DEF DownStep
  <2> QED
    BY <1>2, <2>1, <2>2, <2>3 DEF CallStep
<1>3. CASE Crash
  BY <1>3, CrashSteps
<1>4. CASE JobEnds
  BY <1>4, JobSteps
<1>5. CASE Interfere
  BY <1>5, AutoScalerSteps
<1>6. CASE AnswersLapse
  <2>1. target \in Workers
    BY DEF IInv, TypeOK
  <2> QED
    BY <1>6, <2>1, StartSteps
<1>7. CASE UNCHANGED vars
  <2> USE <1>7 DEF vars, portalVars, callVars, historyVars
  <2>1. TypeOK'
    BY DEF IInv, TypeOK, PortalTypeOK
  <2>2. JobInv' /\ ModeInv' /\ Awaited' /\ KindInv'
    BY DEF IInv, JobInv, ModeInv, Awaited, KindInv, OwnJobRuns
  <2>3. HistoryInv'
    BY DEF IInv, HistoryInv, OwnJobRuns
  <2> QED
    BY <2>1, <2>2, <2>3 DEF IInv
<1> QED
  BY <1>1, <1>2, <1>3, <1>4, <1>5, <1>6, <1>7 DEF Next

\* The invariant of replaceNode, ScaleUp and ScaleDown with the portal.
THEOREM Inductive == Spec => []IInv
<1>1. Init => IInv
  BY InitInv
<1>2. IInv /\ [Next]_vars => IInv'
  BY Steps
<1> QED
  BY <1>1, <1>2, PTL DEF Spec

\* Every variable has its type; in particular a call creates two nodes at most.
THEOREM TypeCorrect == Spec => []TypeOK
<1>1. IInv => TypeOK
  BY DEF IInv
<1> QED
  BY <1>1, Inductive, PTL

\* No creation outlives the ScaleUp that asked for it, unless the process ends:
\* ScaleUp comes back only when the portal has finished what it asked for.
THEOREM JobsAwaitedCorrect == Spec => []JobsAwaited
<1>1. IInv => JobsAwaited
  BY DEF IInv, Awaited, KindInv, JobsAwaited, UpPCs, DownPCs
<1> QED
  BY <1>1, Inductive, PTL

\* While the status is SUCCEEDED, or the call is at a place where it does
\* not wait, no job of the call runs.
LEMMA NoOwnJob ==
    ASSUME IInv,
           \/ status = "SUCCEEDED"
           \/ pc \in {"idle", "size", "decide", "upCheck", "upPost",
                     "downPods", "downCheck", "downPost"}
    PROVE  OwnJobRuns = FALSE
  BY DEF IInv, JobInv, Awaited, OwnJobRuns

-----------------------------------------------------------------------------
(* A call that nothing gets in the way of.                                 *)

\* The job of a wait has come and gone.
Over == pc \in {"upWait", "upError", "downWait", "downError"} /\ ~OwnJobRuns

\* The branch of replaceNode that was taken is the one for the size it read.
OrderInv ==
    /\ mode = "createFirst" => Enough
    /\ mode = "removeFirst" => Full

\* Nothing stands in the way of the call: no job but its own runs or has
\* failed, its target may go, and it waits for no retry.
NothingInTheWay ==
    /\ pc \notin {"idle", "upRetry", "downRetry"}
    /\ readable /\ status # "ERROR" /\ (job # NoJob => job.own)
    /\ mode # "none" => CanBeScaleDown(target)

\* Each half of the order is done exactly when its wait is over.
HalfByHalf ==
    /\ pc \in UpPCs => created = IF Over THEN 1 ELSE 0
    /\ pc \in DownPCs => removed = Over
    /\ mode = "createFirst" /\ pc \in DownPCs => created = 1
    /\ mode = "removeFirst" /\ pc \in UpPCs => removed

\* The nodes are those that were counted, and what the call did since.
Counted ==
    /\ ~removed => target \in workers
    /\ OwnJobRuns /\ job.kind = "up" => job.worker \notin workers
    /\ pc # "size" => NodeCount = size + created - (IF removed THEN 1 ELSE 0)

QuietInv == OrderInv /\ (quiet => NothingInTheWay /\ HalfByHalf /\ Counted)

\* The initial states satisfy it: no call, so no quiet one.
LEMMA QuietInit == ASSUME Init PROVE QuietInv
  BY DEF Init, QuietInv, OrderInv

\* Steps that leave the portal alone do not change the number of nodes.
LEMMA SameNodes == ASSUME UNCHANGED workers PROVE NodeCount' = NodeCount
  BY DEF NodeCount

\* A node created is one more, a worker removed is one less.
LEMMA OneNode ==
    ASSUME TypeOK, NEW w
    PROVE  /\ w \notin workers /\ workers' = workers \union {w}
                => NodeCount' = NodeCount + 1
           /\ w \in workers /\ workers' = workers \ {w}
                => NodeCount' = NodeCount - 1
<1>1. IsFiniteSet(workers)
  BY PortalAssumption, FS_Subset DEF TypeOK, PortalTypeOK
<1>2. Cardinality(workers) \in Nat
  BY <1>1, FS_CardinalityType
<1>3. w \notin workers =>
        Cardinality(workers \union {w}) = Cardinality(workers) + 1
  BY <1>1, FS_AddElement
<1>4. w \in workers => Cardinality(workers \ {w}) = Cardinality(workers) - 1
  BY <1>1, FS_RemoveElement
<1>5. ASSUME w \notin workers, workers' = workers \union {w}
      PROVE  NodeCount' = NodeCount + 1
  <2>1. Cardinality(workers') = Cardinality(workers) + 1
    BY <1>3, <1>5
  <2> QED
    BY <1>2, <2>1, ScalingAssumption DEF NodeCount
<1>6. ASSUME w \in workers, workers' = workers \ {w}
      PROVE  NodeCount' = NodeCount - 1
  <2>1. Cardinality(workers') = Cardinality(workers) - 1
    BY <1>4, <1>6
  <2> QED
    BY <1>2, <2>1, ScalingAssumption DEF NodeCount
<1> QED
  BY <1>5, <1>6

\* The first steps of replaceNode, and the pods.
LEMMA QuietStart ==
    ASSUME IInv, QuietInv, NEW w \in Workers,
           Call(w) \/ ReadSize \/ DoNothing \/ ChooseOrder \/ PodsMove(w)
    PROVE  QuietInv'
<1> USE DEF QuietInv, IInv, TypeOK
<1>1. CASE Call(w)
  <2> USE <1>1 DEF Call, portalVars
  <2>1. mode = "none" /\ created = 0 /\ removed = FALSE
    BY DEF ModeInv, HistoryInv
  <2>2. OrderInv'
    BY <2>1 DEF OrderInv
  <2>3. ASSUME quiet' PROVE NothingInTheWay' /\ HalfByHalf' /\ Counted'
    <3>1. readable /\ status = "SUCCEEDED" /\ job = NoJob
      BY <2>3 DEF Succeeded, JobInv
    <3>2. NothingInTheWay'
      BY <3>1, <2>1 DEF NothingInTheWay
    <3>3. HalfByHalf'
      BY DEF HalfByHalf, UpPCs, DownPCs
    <3>4. Counted'
      BY <3>1, <2>1 DEF Counted, OwnJobRuns
    <3> QED
      BY <3>2, <3>3, <3>4
  <2> QED
    BY <2>2, <2>3
<1>2. CASE ReadSize
  <2> USE <1>2 DEF ReadSize, portalVars, historyVars
  <2>1. mode = "none" /\ created = 0 /\ removed = FALSE
    BY DEF ModeInv, HistoryInv
  <2>2. OrderInv'
    BY <2>1 DEF OrderInv
  <2>3. ASSUME quiet PROVE NothingInTheWay' /\ HalfByHalf' /\ Counted'
    <3>1. NothingInTheWay'
      BY <2>3, <2>1 DEF NothingInTheWay
    <3>2. HalfByHalf'
      BY DEF HalfByHalf, UpPCs, DownPCs
    <3>3. NodeCount' = NodeCount /\ NodeCount \in Nat
      BY SameNodes, NodeCountType
    <3>4. Counted'
      BY <2>3, <2>1, <3>3 DEF Counted, OwnJobRuns
    <3> QED
      BY <3>1, <3>2, <3>4
  <2> QED
    BY <2>2, <2>3
<1>3. CASE DoNothing
  BY <1>3 DEF DoNothing, Return, OrderInv
<1>4. CASE ChooseOrder
  <2> USE <1>4 DEF ChooseOrder, portalVars, historyVars
  <2>1. mode = "none" /\ created = 0 /\ removed = FALSE
    BY DEF ModeInv, HistoryInv
  <2>2. OrderInv'
    BY DEF OrderInv, Enough, Full
  <2>3. ASSUME quiet PROVE NothingInTheWay' /\ HalfByHalf' /\ Counted'
    <3>1. NothingInTheWay'
      BY <2>3, <2>1 DEF NothingInTheWay, CanBeScaleDown
    <3>2. HalfByHalf'
      BY <2>1 DEF HalfByHalf, Over, UpPCs, DownPCs
    <3>3. Counted'
      BY <2>3, <2>1, SameNodes DEF Counted, OwnJobRuns
    <3> QED
      BY <3>1, <3>2, <3>3
  <2> QED
    BY <2>2, <2>3
<1>5. CASE PodsMove(w)
  BY <1>5 DEF PodsMove, callVars, OrderInv, Enough, Full
<1> QED
  BY <1>1, <1>2, <1>3, <1>4, <1>5

\* While a call is quiet and does not wait for a job, the status is SUCCEEDED.
LEMMA QuietSucceeds ==
    ASSUME IInv, QuietInv, quiet, ~OwnJobRuns
    PROVE  Succeeded
<1>1. job = NoJob
  BY DEF QuietInv, NothingInTheWay, OwnJobRuns
<1> QED
  BY <1>1 DEF QuietInv, NothingInTheWay, Succeeded, IInv, TypeOK,
     PortalTypeOK, Statuses, JobInv

\* A quiet call is never refused, and never finds an error.
LEMMA QuietRefusesNothing ==
    ASSUME IInv, QuietInv, quiet
    PROVE  ~UpBusy /\ ~DownRefused /\ ~UpRetry /\ ~DownRetry
<1>1. pc \in {"upCheck", "downCheck"} => Succeeded
  BY QuietSucceeds, NoOwnJob
<1>2. pc = "downPods" => CanBeScaleDown(target)
  BY DEF QuietInv, NothingInTheWay, IInv, ModeInv
<1>3. ~InError
  BY DEF QuietInv, NothingInTheWay, InError
<1> QED
  BY <1>1, <1>2, <1>3 DEF UpBusy, DownRefused, UpRetry, DownRetry

\* A wait of a quiet call is over, with its job, when it comes back.
LEMMA QuietDone ==
    ASSUME IInv, QuietInv, quiet, UpDone \/ DownDone
    PROVE  /\ Over /\ ~OwnJobRuns
           /\ UpDone => created = 1 /\ pc \in UpPCs
           /\ DownDone => removed /\ pc \in DownPCs
<1>1. ~(NextCount > CountLimit)
  BY ScalingAssumption DEF NextCount
<1>2. Succeeded /\ pc \in {"upWait", "downWait"}
  BY <1>1 DEF UpDone, DownDone, QuietInv, NothingInTheWay
<1>3. Over /\ ~OwnJobRuns
  BY <1>2, NoOwnJob DEF Over, Succeeded
<1>4. UpDone => pc \in UpPCs
  BY DEF UpDone, UpPCs
<1>5. DownDone => pc \in DownPCs
  BY DEF DownDone, DownPCs
<1> QED
  BY <1>3, <1>4, <1>5 DEF QuietInv, HalfByHalf

\* Steps within a half, which move pc only.
LEMMA QuietMoves ==
    ASSUME IInv, QuietInv,
           UpCheck \/ UpNotYet \/ UpStillScaling \/ DownPods \/ DownCheck
               \/ DownNotYet \/ DownStillScaling
    PROVE  QuietInv'
<1> USE DEF QuietInv, UpCheck, UpNotYet, UpStillScaling, DownPods, DownCheck,
        DownNotYet, DownStillScaling, inCall, portalVars, UpPCs, DownPCs
<1>1. OrderInv'
  BY DEF OrderInv, Enough, Full
<1>2. ASSUME quiet PROVE NothingInTheWay' /\ HalfByHalf' /\ Counted'
  <2>1. OwnJobRuns' = OwnJobRuns /\ Over' = Over /\ NodeCount' = NodeCount
    BY SameNodes DEF OwnJobRuns, Over, IInv, Awaited
  <2>2. NothingInTheWay'
    BY <1>2 DEF NothingInTheWay, CanBeScaleDown
  <2>3. HalfByHalf'
    BY <1>2, <2>1 DEF HalfByHalf
  <2>4. Counted'
    <3>1. /\ UNCHANGED <<workers, job, target, size, created, removed>>
          /\ pc # "size"
      OBVIOUS
    <3> HIDE DEF UpCheck, UpNotYet, UpStillScaling, DownPods, DownCheck,
                 DownNotYet, DownStillScaling
    <3> QED
      BY <1>2, <2>1, <3>1 DEF Counted
  <2> QED
    BY <2>2, <2>3, <2>4
<1>3. quiet' = quiet
  OBVIOUS
<1> QED
  BY <1>1, <1>2, <1>3

\* The end of a half.
LEMMA QuietReturns ==
    ASSUME IInv, QuietInv, UpBusy \/ UpDone \/ DownRefused \/ DownDone
    PROVE  QuietInv'
<1> USE DEF QuietInv
<1>1. CASE Return
  BY <1>1 DEF Return, OrderInv
<1>2. CASE ~Return
  <2>1. /\ UNCHANGED <<portalVars, pinned, target, size, mode, historyVars>>
        /\ \/ pc' = "downPods" /\ mode = "createFirst" /\ (UpBusy \/ UpDone)
           \/ /\ pc' = "upCheck" /\ mode = "removeFirst"
              /\ DownRefused \/ DownDone
    BY <1>2 DEF UpBusy, UpDone, DownRefused, DownDone, UpReturns, DownReturns
  <2>2. OrderInv'
    BY <2>1 DEF OrderInv, Enough, Full
  <2>3. ASSUME quiet PROVE NothingInTheWay' /\ HalfByHalf' /\ Counted'
    <3>1. UpDone \/ DownDone
      BY <2>3, QuietRefusesNothing
    <3>2. /\ ~OwnJobRuns /\ Over
          /\ pc' = "downPods" => created = 1 /\ pc \in UpPCs
          /\ pc' = "upCheck" => removed /\ pc \in DownPCs
      BY <2>1, <2>3, <3>1, QuietDone DEF UpDone, DownDone, UpBusy, DownRefused,
         UpPCs, DownPCs
    <3>3. ~OwnJobRuns' /\ NodeCount' = NodeCount
      BY <2>1, <3>2, SameNodes DEF OwnJobRuns, portalVars
    <3>4. NothingInTheWay'
      BY <2>1, <2>3 DEF NothingInTheWay, CanBeScaleDown, portalVars
    <3>5. Over' = FALSE
      BY <2>1 DEF Over
    <3>6. HalfByHalf'
      <4>1. CASE pc' = "downPods"
        <5>1. removed = FALSE /\ created = 1
          BY <2>1, <3>2, <4>1 DEF IInv, HistoryInv
        <5> QED
          BY <2>1, <3>5, <4>1, <5>1 DEF HalfByHalf, historyVars, UpPCs, DownPCs
      <4>2. CASE pc' = "upCheck"
        <5>1. removed /\ created = 0
          BY <2>1, <3>2, <4>2 DEF IInv, HistoryInv
        <5> QED
          BY <2>1, <3>5, <4>2, <5>1 DEF HalfByHalf, historyVars, UpPCs, DownPCs
      <4> QED
        BY <2>1, <4>1, <4>2
    <3>7. Counted'
      BY <2>1, <2>3, <3>2, <3>3 DEF Counted, portalVars, historyVars, UpPCs,
         DownPCs
    <3> QED
      BY <3>4, <3>6, <3>7
  <2>4. quiet' = quiet
    BY <2>1 DEF historyVars
  <2> QED
    BY <2>2, <2>3, <2>4
<1> QED
  BY <1>1, <1>2

\* The requests: a refused one, and a retry, ends the quiet.
LEMMA QuietRequests ==
    ASSUME IInv, QuietInv, UpPost \/ UpRetry \/ DownPost \/ DownRetry
    PROVE  QuietInv'
<1> USE DEF QuietInv
<1>1. OrderInv'
  BY DEF OrderInv, Enough, Full, UpPost, UpRetry, DownPost, DownRetry, inCall
<1>2. ASSUME quiet' PROVE NothingInTheWay' /\ HalfByHalf' /\ Counted'
  <2>1. quiet
    BY <1>2 DEF UpPost, UpRetry, DownPost, DownRetry
  <2>2. UpPost \/ DownPost
    BY <2>1, QuietRefusesNothing
  <2>3. ~OwnJobRuns
    BY <2>2, NoOwnJob DEF UpPost, DownPost
  <2>4. /\ UNCHANGED <<pinned, target, size, mode, created, removed, readable>>
        /\ job' # job
    BY <1>2, <2>2 DEF UpPost, DownPost, PerformScaleUp, PerformScaleDown, inCall
  <2>5. CASE UpPost
    <3> USE <2>5 DEF UpPost
    <3>1. PICK w \in Workers \ workers : Accept("up", w, TRUE)
      BY <2>4 DEF PerformScaleUp
    <3>2. /\ job' # NoJob /\ job'.kind = "up" /\ job'.worker = w /\ job'.own
          /\ status' = "SCALING" /\ workers' = workers
      BY <3>1, AcceptStarts
    <3>3. OwnJobRuns' /\ ~Over' /\ NodeCount' = NodeCount
      BY <3>2, SameNodes DEF OwnJobRuns, Over
    <3>4. NothingInTheWay'
      BY <2>1, <2>4, <3>2 DEF NothingInTheWay, CanBeScaleDown
    <3>5. HalfByHalf'
      BY <2>1, <2>4, <3>3 DEF HalfByHalf, Over, UpPCs, DownPCs
    <3>6. Counted'
      BY <2>1, <2>4, <3>1, <3>2, <3>3 DEF Counted
    <3> QED
      BY <3>4, <3>5, <3>6
  <2>6. CASE DownPost
    <3> USE <2>6 DEF DownPost
    <3>1. Accept("down", target, TRUE) /\ target \in Workers
      BY <2>4 DEF PerformScaleDown, IInv, TypeOK
    <3>2. /\ job' # NoJob /\ job'.kind = "down" /\ job'.own
          /\ status' = "SCALING" /\ workers' = workers
      BY <3>1, AcceptStarts
    <3>3. OwnJobRuns' /\ ~Over' /\ NodeCount' = NodeCount
      BY <3>2, SameNodes DEF OwnJobRuns, Over
    <3>4. NothingInTheWay'
      BY <2>1, <2>4, <3>2 DEF NothingInTheWay, CanBeScaleDown
    <3>5. HalfByHalf'
      BY <2>1, <2>4, <3>3 DEF HalfByHalf, Over, UpPCs, DownPCs
    <3>6. Counted'
      BY <2>1, <2>4, <3>2, <3>3 DEF Counted
    <3> QED
      BY <3>4, <3>5, <3>6
  <2> QED
    BY <2>2, <2>5, <2>6
<1> QED
  BY <1>1, <1>2

\* The end of a job that the call waits for is the end of its half.
LEMMA QuietJob == ASSUME IInv, QuietInv, JobEnds PROVE QuietInv'
<1> USE DEF QuietInv, JobEnds, callVars
<1>1. OrderInv'
  BY DEF OrderInv, Enough, Full
<1>2. ASSUME quiet' PROVE NothingInTheWay' /\ HalfByHalf' /\ Counted'
  <2>1. /\ quiet /\ job \in Job /\ job # NoJob /\ job.own /\ OwnJobRuns
        /\ workers' = Applied(job) /\ status' = "SUCCEEDED" /\ job' = NoJob
        /\ readable' = readable
    BY <1>2 DEF JobSucceeds, NothingInTheWay, OwnJobRuns, IInv, TypeOK,
       PortalTypeOK
  <2>2. ~OwnJobRuns'
    BY <2>1 DEF OwnJobRuns
  <2>3. NothingInTheWay'
    BY <2>1 DEF NothingInTheWay, CanBeScaleDown
  <2>4. pc \in {"upWait", "upError", "downWait", "downError"}
    BY <2>1 DEF IInv, Awaited, NothingInTheWay
  <2>5. Over' = TRUE /\ Over = FALSE
    BY <2>1, <2>2, <2>4 DEF Over
  <2>6. CASE pc \in UpPCs
    <3>1. job.kind = "up" /\ created = 0 /\ job.worker \notin workers
      BY <2>1, <2>5, <2>6 DEF IInv, KindInv, UpPCs, DownPCs, HalfByHalf,
         Counted
    <3>2. workers' = workers \union {job.worker}
      BY <2>1, <3>1 DEF Applied
    <3>3. created' = 1 /\ removed' = removed
      <4>1. created' = 1
        BY <2>1, <3>1, <3>2
      <4>2. removed' = removed
        BY <3>1, Zenon DEF IInv, TypeOK
      <4> QED
        BY <4>1, <4>2
    <3>4. NodeCount' = NodeCount + 1
      BY <3>1, <3>2, OneNode DEF IInv
    <3>5. HalfByHalf'
      BY <2>1, <2>5, <2>6, <3>3 DEF HalfByHalf, UpPCs, DownPCs
    <3>6. Counted'
      <4>1. /\ NodeCount = size + created - (IF removed THEN 1 ELSE 0)
            /\ NodeCount \in Nat /\ size \in Nat /\ removed \in BOOLEAN
        BY <2>1, <2>6, NodeCountType DEF Counted, UpPCs, IInv, TypeOK
      <4>2. (~removed => target \in workers)'
        BY <2>1, <3>2, <3>3 DEF Counted
      <4>3. NodeCount' = size' + created' - (IF removed' THEN 1 ELSE 0)
        BY <3>1, <3>3, <3>4, <4>1
      <4> QED
        BY <2>2, <4>2, <4>3 DEF Counted
    <3> QED
      BY <2>3, <3>5, <3>6
  <2>7. CASE pc \in DownPCs
    <3>1. job.kind = "down" /\ job.worker = target /\ ~removed
      BY <2>1, <2>5, <2>7 DEF IInv, KindInv, UpPCs, DownPCs, HalfByHalf
    <3>2. workers' = workers \ {target} /\ target \in workers
      BY <2>1, <3>1 DEF Applied, Counted
    <3>3. created' = created /\ removed' = TRUE
      BY <2>1, <3>1, <3>2
    <3>4. NodeCount' = NodeCount - 1
      BY <3>2, OneNode DEF IInv
    <3>5. HalfByHalf'
      BY <2>1, <2>5, <2>7, <3>3 DEF HalfByHalf, UpPCs, DownPCs
    <3>6. Counted'
      <4>1. /\ NodeCount = size + created - (IF removed THEN 1 ELSE 0)
            /\ NodeCount \in Nat /\ size \in Nat /\ created \in 0 .. 2
        BY <2>1, <2>7, NodeCountType DEF Counted, DownPCs, IInv, TypeOK
      <4> QED
        BY <2>1, <2>2, <3>1, <3>3, <3>4, <4>1 DEF Counted
    <3> QED
      BY <2>3, <3>5, <3>6
  <2> QED
    BY <2>4, <2>6, <2>7 DEF UpPCs, DownPCs
<1> QED
  BY <1>1, <1>2

\* Every step keeps the invariant of quiet calls.
LEMMA QuietSteps == ASSUME IInv, QuietInv, [Next]_vars PROVE QuietInv'
<1>1. ASSUME NEW w \in Workers, Call(w) \/ PodsMove(w) PROVE QuietInv'
  BY <1>1, QuietStart
<1>2. CASE CallStep
  <2>1. target \in Workers
    BY DEF IInv, TypeOK
  <2>2. CASE ReadSize \/ DoNothing \/ ChooseOrder
    BY <2>1, <2>2, QuietStart
  <2>3. CASE UpStep
    BY <2>3, QuietMoves, QuietReturns, QuietRequests DEF UpStep
  <2>4. CASE DownStep
    BY <2>4, QuietMoves, QuietReturns, QuietRequests DEF DownStep
  <2> QED
    BY <1>2, <2>2, <2>3, <2>4 DEF CallStep
<1>3. CASE Crash
  BY <1>3 DEF Crash, Return, QuietInv, OrderInv
<1>4. CASE JobEnds
  BY <1>4, QuietJob
<1>5. CASE Interfere
  BY <1>5 DEF Interfere, callVars, QuietInv, OrderInv, Enough, Full
<1>6. CASE AnswersLapse
  BY <1>6 DEF AnswersLapse, callVars, QuietInv, OrderInv, Enough, Full
<1>7. CASE UNCHANGED vars
  <2> USE <1>7 DEF vars, portalVars, callVars, historyVars
  <2>1. /\ OrderInv' = OrderInv /\ NothingInTheWay' = NothingInTheWay
        /\ quiet' = quiet
    BY DEF OrderInv, Enough, Full, NothingInTheWay, CanBeScaleDown
  <2>2. OwnJobRuns' = OwnJobRuns /\ NodeCount' = NodeCount
    BY SameNodes DEF OwnJobRuns
  <2>3. HalfByHalf' = HalfByHalf /\ Counted' = Counted
    BY <2>2 DEF HalfByHalf, Counted, Over
  <2> QED
    BY <2>1, <2>3 DEF QuietInv
<1> QED
  BY <1>1, <1>2, <1>3, <1>4, <1>5, <1>6, <1>7 DEF Next

\* What a call does while nothing gets in its way.
THEOREM QuietInductive == Spec => [](IInv /\ QuietInv)
<1>1. Init => IInv /\ QuietInv
  BY InitInv, QuietInit
<1>2. (IInv /\ QuietInv) /\ [Next]_vars => (IInv /\ QuietInv)'
  BY Steps, QuietSteps
<1> QED
  BY <1>1, <1>2, PTL DEF Spec

\* What the choice of the order is for (replaceNode, Controller.go:191-224): a
\* call that starts with the workers within the limits of the auto scaler, and
\* that nothing gets in the way of, keeps them within at every moment, or goes
\* one below the minimum where there are masters, for any workers and limits.
THEOREM WithinLimitsCorrect == Spec => []WithinLimits
<1>1. ASSUME IInv, QuietInv PROVE WithinLimits
  <2> DEFINE W == Cardinality(workers)
  <2> SUFFICES ASSUME quiet, mode # "none", MinSize < MaxSize,
                      size - Masters \in MinSize .. MaxSize
               PROVE  /\ W <= MaxSize
                      /\ W >= MinSize - (IF Masters = 0 THEN 0 ELSE 1)
    BY DEF WithinLimits
  <2> USE <1>1 DEF IInv, TypeOK, QuietInv
  <2>1. /\ pc \in UpPCs \union DownPCs /\ pc # "size"
        /\ removed \in BOOLEAN /\ size \in Nat
    BY DEF ModeInv, NothingInTheWay, UpPCs, DownPCs
  <2>2. NodeCount = size + created - (IF removed THEN 1 ELSE 0)
    BY <2>1 DEF Counted
  <2>3. W \in Nat
    <3>1. IsFiniteSet(workers)
      BY PortalAssumption, FS_Subset DEF PortalTypeOK
    <3> QED
      BY <3>1, FS_CardinalityType
  <2>4. W = size - Masters + created - (IF removed THEN 1 ELSE 0)
    BY <2>1, <2>2, <2>3, ScalingAssumption DEF NodeCount
  <2> HIDE DEF W
  <2>5. CASE mode = "createFirst"
    <3>1. /\ size < MaxSize
          /\ \/ created \in 0 .. 1 /\ removed = FALSE
             \/ created = 1
      BY <2>1, <2>5 DEF OrderInv, Enough, HalfByHalf, HistoryInv
    <3> QED
      BY <2>1, <2>3, <2>4, <3>1, PortalAssumption, ScalingAssumption
  <2>6. CASE mode = "removeFirst"
    <3>1. /\ size >= MaxSize
          /\ \/ created = 0
             \/ created \in 0 .. 1 /\ removed
      BY <2>1, <2>6 DEF OrderInv, Full, HalfByHalf, HistoryInv
    <3> QED
      BY <2>1, <2>3, <2>4, <3>1, PortalAssumption, ScalingAssumption
  <2> QED
    BY <2>5, <2>6
<1> QED
  BY <1>1, QuietInductive, PTL

\* A call that nothing got in the way of comes back from ScaleUp or ScaleDown
\* with its target replaced by one node, if it did anything.
THEOREM QuietCallReplacesCorrect == Spec => QuietCallReplaces
<1>1. ASSUME IInv, QuietInv, quiet, Return, UpStep \/ DownStep
      PROVE  created = 1 /\ removed
  <2>1. UpDone \/ DownDone
    <3>1. pc' = "idle"
      BY <1>1 DEF Return
    <3>2. ~UpBusy /\ ~UpRetry /\ ~DownRefused /\ ~DownRetry
      BY <1>1, QuietRefusesNothing
    <3> QED
      BY <1>1, <3>1, <3>2 DEF UpStep, DownStep, UpCheck, UpPost, UpNotYet,
         UpStillScaling, DownPods, DownCheck, DownPost, DownNotYet,
         DownStillScaling
  <2>2. mode \in {"createFirst", "removeFirst"}
    BY <1>1, <2>1 DEF UpDone, DownDone, IInv, TypeOK, ModeInv
  <2>3. CASE UpDone
    <3>1. created = 1 /\ pc \in UpPCs
      BY <1>1, <2>3, QuietDone
    <3>2. mode = "removeFirst"
      BY <1>1, <2>2, <2>3 DEF UpDone, UpReturns, Return
    <3> QED
      BY <1>1, <3>1, <3>2 DEF QuietInv, HalfByHalf
  <2>4. CASE DownDone
    <3>1. removed /\ pc \in DownPCs
      BY <1>1, <2>4, QuietDone
    <3>2. mode = "createFirst"
      BY <1>1, <2>2, <2>4 DEF DownDone, DownReturns, Return
    <3> QED
      BY <1>1, <3>1, <3>2 DEF QuietInv, HalfByHalf
  <2> QED
    BY <2>1, <2>3, <2>4
<1>2. IInv /\ QuietInv /\ [Next]_vars =>
        [quiet /\ Return /\ (UpStep \/ DownStep) => created = 1 /\ removed]_vars
  BY <1>1
<1> QED
  BY <1>2, QuietInductive, PTL DEF Spec, QuietCallReplaces

-----------------------------------------------------------------------------
(* The refinement. *)

\* The end of a job is a node created, a worker removed or nothing at all for
\* the call that asked for it, and a change by others for any other call.
LEMMA JobEndsRefines == ASSUME IInv, JobEnds PROVE [R!Next]_R!vars
<1> USE DEF IInv, JobEnds, callVars
<1>1. /\ job \in Job /\ job # NoJob
      /\ workers' = workers \/ workers' = Applied(job)
      /\ job' = NoJob
      /\ UNCHANGED <<mode, target>>
  BY DEF JobSucceeds, JobFails, TypeOK, PortalTypeOK
<1>2. OwnJobRuns' = FALSE
  BY <1>1 DEF OwnJobRuns
<1>3. ASSUME job.own, job.kind = "up" PROVE R!Create \/ R!Fail
  <2>1. OwnJobRuns /\ pc \in UpPCs /\ removed' = removed
    BY <1>1, <1>3 DEF OwnJobRuns, KindInv, TypeOK
  <2>2. /\ created < 2
        /\ mode = "createFirst" => ~removed
    BY <2>1 DEF Awaited, HistoryInv, UpPCs, DownPCs, TypeOK
  <2>3. CASE job.worker \in workers'
    <3>1. workers' = workers \union {job.worker} /\ job.worker \in Workers
      BY <1>1, <1>3, <2>3 DEF Applied, Job
    <3>2. created' = created + 1
      BY <1>3, <2>3
    <3> QED
      BY <1>1, <1>2, <2>1, <2>2, <3>1, <3>2 DEF R!Create
  <2>4. CASE job.worker \notin workers'
    <3>1. workers' = workers /\ created' = created
      BY <1>1, <1>3, <2>4 DEF Applied
    <3> QED
      BY <1>1, <1>2, <2>1, <3>1 DEF R!Fail
  <2> QED
    BY <2>3, <2>4
<1>4. ASSUME job.own, job.kind # "up" PROVE R!Remove \/ R!Fail
  <2>1. OwnJobRuns /\ pc \in DownPCs /\ created' = created
    BY <1>1, <1>4 DEF OwnJobRuns, KindInv
  <2>2. job.worker = target /\ job.kind = "down"
    BY <1>4, <2>1 DEF KindInv
  <2>3. mode = "removeFirst" => created = 0
    BY <2>1 DEF HistoryInv
  <2>4. CASE target \notin workers'
    <3>1. workers' = workers \ {target}
      BY <1>1, <2>2, <2>4 DEF Applied
    <3>2. removed' = TRUE
      BY <1>4, <2>2, <2>4
    <3> QED
      BY <1>1, <1>2, <2>1, <2>3, <3>1, <3>2 DEF R!Remove
  <2>5. CASE target \in workers'
    <3>1. workers' = workers
      BY <1>1, <2>2, <2>5 DEF Applied
    <3>2. removed' = removed
      BY <2>2, <2>5 DEF TypeOK
    <3> QED
      BY <1>1, <1>2, <2>1, <3>1, <3>2 DEF R!Fail
  <2> QED
    BY <2>4, <2>5
<1>5. ASSUME ~job.own PROVE R!Others
  <2>1. OwnJobRuns = FALSE
    BY <1>5 DEF OwnJobRuns
  <2>2. created' = created /\ removed' = removed
    BY <1>5 DEF TypeOK
  <2>3. workers' \in SUBSET Workers
    BY <1>1 DEF Applied, TypeOK, PortalTypeOK, Job
  <2>4. target' \in Workers
    BY <1>1 DEF TypeOK
  <2> QED
    BY <1>1, <1>2, <2>1, <2>2, <2>3, <2>4 DEF R!Others
<1> QED
  BY <1>3, <1>4, <1>5 DEF R!Next

\* The end of a call ends the replacement, if it had begun.
LEMMA ReturnRefines ==
    ASSUME IInv, Return, UNCHANGED <<workers, target>>, OwnJobRuns' = FALSE,
           mode = "none" => ~OwnJobRuns
    PROVE  R!End \/ UNCHANGED R!vars
<1>1. CASE mode = "none"
  <2>1. created' = created /\ removed' = removed /\ mode' = mode
    BY <1>1 DEF Return, IInv, HistoryInv
  <2>2. OwnJobRuns' = OwnJobRuns
    BY <1>1 DEF OwnJobRuns, IInv, TypeOK, PortalTypeOK, Job
  <2> QED
    BY <2>1, <2>2 DEF R!vars
<1>2. CASE mode # "none"
  BY <1>2 DEF Return, R!End
<1> QED
  BY <1>1, <1>2

\* What leaves the portal, the order, the target and the history alone is not
\* seen in the abstract specification.
LEMMA Unseen ==
    ASSUME UNCHANGED <<workers, job, mode, target, created, removed>>
    PROVE  UNCHANGED R!vars
<1>1. OwnJobRuns' = OwnJobRuns
  BY DEF OwnJobRuns
<1> QED
  BY <1>1 DEF R!vars

\* The requests ask for a job, or are refused.
LEMMA RequestRefines ==
    ASSUME IInv, UpPost \/ UpRetry \/ DownPost \/ DownRetry
    PROVE  [R!Next]_R!vars
<1> USE DEF UpPost, UpRetry, DownPost, DownRetry, PerformScaleUp,
        PerformScaleDown, inCall
<1>1. UNCHANGED <<mode, target, created, removed>>
  OBVIOUS
<1>2. CASE UNCHANGED <<workers, status, job>>
  BY <1>1, <1>2, Unseen
<1>3. ASSUME NEW k \in {"up", "down"}, NEW w \in Workers, Accept(k, w, TRUE)
      PROVE  R!Request
  <2>1. OwnJobRuns' = TRUE /\ workers' = workers
    BY <1>3, AcceptStarts DEF OwnJobRuns
  <2>2. mode # "none"
    BY DEF IInv, ModeInv
  <2> QED
    BY <1>1, <2>1, <2>2 DEF R!Request
<1>4. target \in Workers
  BY DEF IInv, TypeOK
<1> QED
  BY <1>2, <1>3, <1>4 DEF R!Next

\* Every other step of replaceNode, ScaleUp and ScaleDown is the beginning or
\* the end of the replacement, or is not seen.
LEMMA CallStepRefines == ASSUME IInv, CallStep PROVE [R!Next]_R!vars
<1> USE DEF portalVars, callVars, historyVars
<1>1. CASE ReadSize
  BY <1>1, Unseen DEF ReadSize
<1>2. CASE DoNothing
  <2>1. OwnJobRuns = FALSE
    BY <1>2, NoOwnJob DEF DoNothing
  <2>2. OwnJobRuns' = FALSE
    BY <1>2, <2>1 DEF DoNothing, OwnJobRuns
  <2> QED
    BY <1>2, <2>1, <2>2, ReturnRefines DEF DoNothing, Return, R!Next
<1>3. CASE ChooseOrder
  <2>1. mode = "none" /\ mode' \in R!Modes
    BY <1>3 DEF ChooseOrder, IInv, ModeInv, R!Modes
  <2>2. UNCHANGED <<workers, job, target, created, removed>>
    BY <1>3 DEF ChooseOrder
  <2>3. OwnJobRuns' = OwnJobRuns
    BY <2>2 DEF OwnJobRuns
  <2> QED
    BY <2>1, <2>2, <2>3 DEF R!Begin, R!Next
<1>4. CASE UpPost \/ UpRetry \/ DownPost \/ DownRetry
  BY <1>4, RequestRefines
<1>5. CASE UpCheck \/ UpNotYet \/ UpStillScaling \/ DownPods \/ DownCheck
           \/ DownNotYet \/ DownStillScaling
  BY <1>5, Unseen DEF UpCheck, UpNotYet, UpStillScaling, DownPods, DownCheck,
       DownNotYet, DownStillScaling, inCall
<1>6. CASE UpBusy \/ UpDone \/ DownRefused \/ DownDone
  <2>1. OwnJobRuns = FALSE
    <3>1. ~(NextCount > CountLimit)
      BY ScalingAssumption DEF NextCount
    <3> QED
      BY <1>6, <3>1, NoOwnJob DEF UpBusy, UpDone, DownRefused, DownDone,
         Succeeded
  <2>2. UNCHANGED <<workers, job, target>>
    BY <1>6 DEF UpBusy, UpDone, DownRefused, DownDone
  <2>3. OwnJobRuns' = FALSE
    BY <2>1, <2>2 DEF OwnJobRuns
  <2>4. CASE Return
    BY <2>1, <2>2, <2>3, <2>4, ReturnRefines DEF R!Next
  <2>5. CASE ~Return
    <3>1. UNCHANGED <<mode, created, removed>>
      BY <1>6, <2>5 DEF UpBusy, UpDone, DownRefused, DownDone, UpReturns,
           DownReturns
    <3> QED
      BY <2>2, <3>1, Unseen
  <2> QED
    BY <2>4, <2>5
<1> QED
  BY <1>1, <1>2, <1>3, <1>4, <1>5, <1>6 DEF CallStep, UpStep, DownStep

\* Every step is one that the abstract specification allows, or not seen there.
LEMMA StepRefines == ASSUME IInv, [Next]_vars PROVE [R!Next]_R!vars
<1> USE DEF portalVars, callVars, historyVars
<1>1. ASSUME NEW w \in Workers, Call(w) PROVE [R!Next]_R!vars
  <2>1. /\ mode = "none" /\ target' \in Workers
        /\ UNCHANGED <<workers, job, mode, created, removed>>
    BY <1>1 DEF Call, IInv, ModeInv
  <2>2. OwnJobRuns = FALSE
    BY <1>1, NoOwnJob DEF Call
  <2>3. OwnJobRuns' = OwnJobRuns
    BY <2>1 DEF OwnJobRuns
  <2>4. workers' \in SUBSET Workers
    BY <2>1 DEF IInv, TypeOK, PortalTypeOK
  <2> QED
    BY <2>1, <2>2, <2>3, <2>4 DEF R!Others, R!Next
<1>2. ASSUME NEW w \in Workers, PodsMove(w) PROVE [R!Next]_R!vars
  BY <1>2, Unseen DEF PodsMove
<1>3. CASE CallStep
  BY <1>3, CallStepRefines
<1>4. CASE Crash
  <2>1. UNCHANGED <<workers, target>>
    BY <1>4 DEF Crash, Return, Disown
  <2>2. OwnJobRuns' = FALSE
    BY <1>4 DEF Crash, Disown, OwnJobRuns, IInv, TypeOK, PortalTypeOK, Job
  <2>3. mode = "none" => ~OwnJobRuns
    BY NoOwnJob DEF IInv, ModeInv
  <2> QED
    BY <1>4, <2>1, <2>2, <2>3, ReturnRefines DEF Crash, R!Next
<1>5. CASE JobEnds
  BY <1>5, JobEndsRefines
<1>6. CASE Interfere
  <2>1. PICK k \in {"up", "down"}, w \in Workers : Accept(k, w, FALSE)
    BY <1>6 DEF Interfere, AutoScale, IInv, TypeOK, PortalTypeOK
  <2>2. OwnJobRuns = FALSE
    BY <1>6, NoOwnJob DEF Interfere, AutoScale
  <2>3. OwnJobRuns' = FALSE /\ workers' = workers
    BY <2>1, AcceptStarts DEF OwnJobRuns
  <2>4. UNCHANGED <<mode, target, created, removed>>
    BY <1>6 DEF Interfere
  <2> QED
    BY <2>2, <2>3, <2>4 DEF R!vars
<1>7. CASE AnswersLapse
  BY <1>7, Unseen DEF AnswersLapse, Lapse
<1>8. CASE UNCHANGED vars
  BY <1>8, Unseen DEF vars
<1> QED
  BY <1>1, <1>2, <1>3, <1>4, <1>5, <1>6, <1>7, <1>8 DEF Next

\* replaceNode with ScaleUp, ScaleDown and the portal does to the cluster what
\* module Replacement allows: whatever fails, crashes or interferes, a call
\* creates two nodes at most, removes no worker but its target, and does not
\* go back to the first half of the order it chose.
THEOREM ImplementsReplacement == Spec => ReplacementSpec
<1>1. Init => R!Init
  BY DEF Init, PortalInit, R!Init, OwnJobRuns
<1>2. IInv /\ [Next]_vars => [R!Next]_R!vars
  BY StepRefines
<1> QED
  BY <1>1, <1>2, Inductive, PTL DEF Spec, R!Spec, ReplacementSpec
=============================================================================
