---------------------------- MODULE AsgRepair_proofs ----------------------------
(***************************************************************************)
(* Of the previous design of the repair, for any number of nodes, turns,   *)
(* jobs and calls: the variables keep their types, which says that all     *)
(* slices and waits keep their bounds; no job of a call drops a node that  *)
(* one of the two looks of the call saw ready; a call that nothing gets in *)
(* the way of replaces exactly what it was called for, within the maximum; *)
(* and every call is a BatchRepair.                                        *)
(***************************************************************************)
EXTENDS AsgRepair, FiniteSetTheorems, FunctionTheorems, TLAPS

\* TypeOK in three parts, by whose variables they are.
ClusterOK ==
    /\ nodes \subseteq Nodes
    /\ status \in {"SUCCEEDED", "SCALING", "ERROR"}
    /\ job \in Job \union {NoJob}
    /\ autoJobs \in 0 .. MaxAutoJobs /\ failures \in 0 .. MaxFailures

LocalOK ==
    /\ pc \in {"idle", "sleep", "asg", "calc"} \union UpPCs \union DownPCs
    /\ seen \subseteq Nodes /\ todo \in Seq(Nodes)
    /\ inc \in 0 .. Len(todo)
    /\ mode \in {"none", "createFirst", "removeFirst"}
    /\ prev \in Nat /\ curr \in Nat
    /\ iter \in Nat /\ (iter <= UpTurns \/ iter <= DownTurns)
    /\ runs \in 0 .. MaxRuns

HistoryOK ==
    /\ baseline \in Nat /\ spared \subseteq Nodes /\ done \subseteq Workers
    /\ quiet \in BOOLEAN

\* A turn of the wait in IncreaseSize began before the turns were used up.
TurnBegan == pc \in {"upError", "upRead"} => iter < UpTurns

\* Nothing is left over of a call that ended, nor asked for before the looks.
NothingYet ==
    pc \in {"idle", "sleep"} => todo = <<>> /\ inc = 0 /\ ~OwnJobRuns

\* The nodes to repair are among those that both looks saw not ready.
TodoIsSeen == Elements(todo) \subseteq seen
SeenNotSpared == seen \intersect spared = {}

CallInv == TurnBegan /\ NothingYet /\ TodoIsSeen /\ SeenNotSpared

IInv == ClusterOK /\ LocalOK /\ HistoryOK /\ CallInv /\ ReadyAtALookIsSpared

-----------------------------------------------------------------------------
(* Counting nodes. *)

\* Workers are counted by a number, and all nodes are finitely many.
LEMMA CountIsNat == \A S : WorkerCount(S) \in Nat
<1> SUFFICES ASSUME NEW S PROVE WorkerCount(S) \in Nat
  OBVIOUS
<1>1. S \intersect Workers \in SUBSET Workers /\ IsFiniteSet(Workers)
  BY AsgAssumption
<1> QED
  BY <1>1, FS_Subset, FS_CardinalityType DEF WorkerCount

\* No list has more workers than elements.
LEMMA CountOfList ==
    ASSUME NEW s \in Seq(Nodes)
    PROVE  WorkerCount(Elements(s)) <= Len(s)
<1>1. s \in Surjection(1 .. Len(s), Elements(s))
  BY DEF Surjection, Elements
<1>2. IsFiniteSet(1 .. Len(s)) /\ Cardinality(1 .. Len(s)) = Len(s)
  <2>1. Len(s) \in Nat
    OBVIOUS
  <2>2. IsFiniteSet(1 .. Len(s)) /\ Cardinality(1 .. Len(s)) =
            IF 1 > Len(s) THEN 0 ELSE Len(s) - 1 + 1
    BY <2>1, FS_Interval
  <2> QED
    BY <2>1, <2>2
<1>3. IsFiniteSet(Elements(s)) /\ Cardinality(Elements(s)) <= Len(s)
  BY <1>1, <1>2, FS_Surjection
<1>4. Elements(s) \intersect Workers \in SUBSET Elements(s)
  OBVIOUS
<1>5. /\ Cardinality(Elements(s) \intersect Workers) <= Cardinality(Elements(s))
      /\ Cardinality(Elements(s)) \in Nat
  BY <1>3, <1>4, FS_Subset, FS_CardinalityType
<1>6. WorkerCount(Elements(s)) = Cardinality(Elements(s) \intersect Workers)
  BY DEF WorkerCount
<1>7. WorkerCount(Elements(s)) \in Nat /\ Len(s) \in Nat
  BY CountIsNat
<1> QED
  BY <1>3, <1>5, <1>6, <1>7

\* A slice of a list is a list of some of its elements.
LEMMA SliceOfList ==
    ASSUME NEW s \in Seq(Nodes), NEW a \in 1 .. Len(s) + 1, NEW b \in 0 .. Len(s)
    PROVE  SubSeq(s, a, b) \in Seq(Nodes) /\ Elements(SubSeq(s, a, b)) \subseteq Elements(s)
<1>1. SubSeq(s, a, b) \in Seq(Nodes)
  OBVIOUS
<1>2. \A i \in DOMAIN SubSeq(s, a, b) :
          SubSeq(s, a, b)[i] = s[a + i - 1] /\ a + i - 1 \in DOMAIN s
  OBVIOUS
<1> QED
  BY <1>1, <1>2 DEF Elements

-----------------------------------------------------------------------------
(* The portal and everyone else. *)

\* What the call asks for is no more than to add nodes, or to drop workers of
\* its batch, which were not spared.
LEMMA PostKeeps ==
    ASSUME IInv, PostUp \/ PerformScaleDown
    PROVE  ClusterOK' /\ (UNCHANGED spared => ReadyAtALookIsSpared')
<1>1. CASE UNCHANGED clusterVars
  BY <1>1 DEF clusterVars, IInv, ClusterOK, ReadyAtALookIsSpared, OwnJobRuns
<1>2. ASSUME NEW n \in 1 .. inc, Accept([add |-> n, drop |-> {}, own |-> TRUE])
      PROVE  ClusterOK' /\ (UNCHANGED spared => ReadyAtALookIsSpared')
  <2>1. n \in Nat
    BY <1>2 DEF IInv, LocalOK
  <2>2. [add |-> n, drop |-> {}, own |-> TRUE] \in Job
    BY <2>1 DEF Job
  <2>3. ClusterOK'
    BY <1>2, <2>2 DEF Accept, IInv, ClusterOK
  <2> QED
    BY <1>2, <2>3 DEF Accept, ReadyAtALookIsSpared
<1>3. ASSUME Accept([add |-> 0, drop |-> WorkerNames(Batch), own |-> TRUE])
      PROVE  ClusterOK' /\ (UNCHANGED spared => ReadyAtALookIsSpared')
  <2>1. WorkerNames(Batch) \subseteq Workers
    BY DEF WorkerNames
  <2>2. [add |-> 0, drop |-> WorkerNames(Batch), own |-> TRUE] \in Job
    BY <2>1 DEF Job
  <2>3. ClusterOK'
    BY <1>3, <2>2 DEF Accept, IInv, ClusterOK
  <2>4. Elements(Batch) \subseteq Elements(todo)
    BY SliceOfList DEF Batch, IInv, LocalOK
  <2>5. WorkerNames(Batch) \intersect spared = {}
    BY <2>4 DEF WorkerNames, IInv, CallInv, TodoIsSeen, SeenNotSpared
  <2> QED
    BY <1>3, <2>3, <2>5 DEF Accept, ReadyAtALookIsSpared
<1> QED
  BY <1>1, <1>2, <1>3 DEF PostUp, PerformScaleDown

\* Jobs and the auto scaler leave the variables of the call alone, and jobs of
\* the call drop no other nodes than they were asked to.
LEMMA OthersInv == ASSUME IInv, JobStep \/ AutoScale PROVE IInv'
<1>1. UNCHANGED <<pc, localVars, baseline, spared>>
  BY DEF JobStep, JobWorks, JobSucceeds, JobFails, AutoScale, callUnchanged
<1>2. LocalOK'
  BY <1>1 DEF IInv, LocalOK, localVars
<1>3. ASSUME OwnJobRuns' PROVE OwnJobRuns /\ job'.drop \subseteq job.drop
  BY <1>3 DEF JobStep, JobWorks, JobSucceeds, JobFails, AutoScale, OwnJobRuns,
              IInv, ClusterOK, Job
<1>4. CallInv'
  BY <1>1, <1>3 DEF IInv, CallInv, TurnBegan, NothingYet, TodoIsSeen,
                    SeenNotSpared, localVars
<1>5. ReadyAtALookIsSpared'
  BY <1>1, <1>3 DEF IInv, ReadyAtALookIsSpared
<1>6. quiet' \in BOOLEAN
  BY DEF JobStep, JobWorks, JobSucceeds, JobFails, AutoScale, IInv, HistoryOK
<1>7. done' \subseteq Workers
  BY DEF JobStep, JobWorks, JobSucceeds, JobFails, AutoScale, IInv, HistoryOK,
         ClusterOK, Job
<1>8. ClusterOK'
  <2>1. CASE JobWorks
    <3>1. /\ job \in Job /\ job # NoJob
          /\ UNCHANGED <<status, autoJobs, failures>>
      BY <2>1 DEF JobWorks, IInv, ClusterOK
    <3>2. ASSUME job.add > 0, job' = [job EXCEPT !.add = @ - 1]
          PROVE  job' \in Job
      <4>1. job.add - 1 \in Nat
        BY <3>1, <3>2 DEF Job
      <4> QED
        BY <3>1, <3>2, <4>1 DEF Job
    <3>3. ASSUME NEW w \in job.drop, job' = [job EXCEPT !.drop = @ \ {w}]
          PROVE  job' \in Job
      BY <3>1, <3>3 DEF Job
    <3>4. job' \in Job
      BY <2>1, <3>2, <3>3 DEF JobWorks
    <3>5. nodes' \subseteq Nodes
      BY <2>1 DEF JobWorks, IInv, ClusterOK, Nodes
    <3> QED
      BY <3>1, <3>4, <3>5 DEF IInv, ClusterOK
  <2>2. CASE JobSucceeds
    BY <2>2 DEF JobSucceeds, IInv, ClusterOK
  <2>3. CASE JobFails
    BY <2>3, AsgAssumption DEF JobFails, IInv, ClusterOK
  <2>4. CASE AutoScale
    <3>1. /\ autoJobs' = autoJobs + 1 /\ autoJobs < MaxAutoJobs
          /\ status' = "SCALING" /\ UNCHANGED <<nodes, failures>>
      BY <2>4 DEF AutoScale
    <3>2. ASSUME NEW n \in 1 .. MaxSize - Size
          PROVE  [add |-> n, drop |-> {}, own |-> FALSE] \in Job
      <4>1. n \in Nat
        BY <3>2
      <4> QED
        BY <4>1 DEF Job
    <3>3. ASSUME NEW W \in SUBSET (nodes \intersect Workers)
          PROVE  [add |-> 0, drop |-> W, own |-> FALSE] \in Job
      BY <3>3 DEF Job
    <3>4. job' \in Job
      BY <2>4, <3>2, <3>3 DEF AutoScale
    <3> QED
      BY <3>1, <3>4, AsgAssumption DEF IInv, ClusterOK
  <2> QED
    BY <2>1, <2>2, <2>3, <2>4 DEF JobStep
<1> QED
  BY <1>1, <1>2, <1>4, <1>5, <1>6, <1>7, <1>8 DEF IInv, HistoryOK

-----------------------------------------------------------------------------
(* The call. *)

\* The end of a call leaves nothing over.
LEMMA EndInv == ASSUME IInv, EndOfCall PROVE IInv'
<1>1. ClusterOK' /\ ~OwnJobRuns'
  <2>1. job' \in Job \union {NoJob} /\ (job' # NoJob => job'.own = FALSE)
    BY DEF EndOfCall, IInv, ClusterOK, Job
  <2> QED
    BY <2>1 DEF EndOfCall, IInv, ClusterOK, OwnJobRuns
<1>2. /\ pc' = "idle" /\ seen' = {} /\ todo' = <<>> /\ inc' = 0
      /\ mode' = "none" /\ prev' = 0 /\ curr' = 0 /\ iter' = 0
      /\ runs' = runs
  BY DEF EndOfCall
<1>3. LocalOK'
  BY <1>2, AsgAssumption DEF IInv, LocalOK
<1>4. HistoryOK'
  BY DEF EndOfCall, HistoryOK
<1>5. CallInv' /\ ReadyAtALookIsSpared'
  BY <1>1, <1>2 DEF CallInv, TurnBegan, NothingYet, TodoIsSeen, SeenNotSpared,
                    Elements, ReadyAtALookIsSpared
<1> QED
  BY <1>1, <1>3, <1>4, <1>5 DEF IInv

\* The nodes that are not ready are none of those that are.
LEMMA FirstLookInv == ASSUME IInv, FirstLook PROVE IInv'
<1>1. /\ pc = "idle" /\ runs < MaxRuns /\ seen' \subseteq nodes
      /\ pc' = "sleep" /\ runs' = runs + 1 /\ spared' = nodes \ seen'
      /\ UNCHANGED <<clusterVars, todo, inc, mode, prev, curr, iter, baseline,
                     done, quiet>>
  BY DEF FirstLook
<1>2. ClusterOK'
  BY <1>1 DEF IInv, ClusterOK, clusterVars
<1>3. LocalOK'
  BY <1>1, AsgAssumption DEF IInv, LocalOK, ClusterOK
<1>4. HistoryOK'
  BY <1>1 DEF IInv, HistoryOK, ClusterOK
<1>5. todo = <<>> /\ inc = 0 /\ ~OwnJobRuns /\ ~OwnJobRuns'
  BY <1>1 DEF IInv, CallInv, NothingYet, OwnJobRuns, clusterVars
<1>6. CallInv' /\ ReadyAtALookIsSpared'
  BY <1>1, <1>5 DEF CallInv, TurnBegan, NothingYet, TodoIsSeen, SeenNotSpared,
                    Elements, ReadyAtALookIsSpared
<1> QED
  BY <1>2, <1>3, <1>4, <1>6 DEF IInv

\* The second look takes from the first, and adds to the spared, the same nodes.
LEMMA SecondLookInv == ASSUME IInv, SecondLook PROVE IInv'
<1>1. PICK notReady \in SUBSET nodes :
          /\ seen' = seen \intersect notReady
          /\ todo' \in {s \in [1 .. Cardinality(seen') -> seen'] : Elements(s) = seen'}
          /\ spared' = spared \union (nodes \ notReady)
          /\ quiet' = (Succeeded /\ seen' \subseteq Workers)
  BY DEF SecondLook, CommonNodes
<1>2. /\ pc = "sleep" /\ pc' = "asg" /\ baseline' = Size
      /\ UNCHANGED <<clusterVars, inc, mode, prev, curr, iter, runs, done>>
  BY DEF SecondLook
<1>3. ClusterOK'
  BY <1>2 DEF IInv, ClusterOK, clusterVars
<1>4. todo' \in Seq(Nodes) /\ Elements(todo') = seen' /\ seen' \subseteq Nodes
  <2>1. seen' \in SUBSET Nodes /\ IsFiniteSet(Nodes)
    BY <1>1, AsgAssumption, FS_Union DEF IInv, ClusterOK, Nodes
  <2>2. Cardinality(seen') \in Nat
    BY <2>1, FS_Subset, FS_CardinalityType
  <2>3. PICK t \in [1 .. Cardinality(seen') -> seen'] :
            todo' = t /\ Elements(t) = seen'
    BY <1>1
  <2>4. t \in Seq(Nodes)
    BY <2>1, <2>2, <2>3
  <2> QED
    BY <2>1, <2>3, <2>4 DEF Elements
<1>5. inc = 0 /\ ~OwnJobRuns
  BY <1>2 DEF IInv, CallInv, NothingYet
<1>6. LocalOK'
  <2>1. inc' \in 0 .. Len(todo')
    BY <1>2, <1>4, <1>5
  <2> QED
    BY <1>2, <1>4, <2>1 DEF IInv, LocalOK
<1>7. HistoryOK'
  <2>1. quiet' \in BOOLEAN
    BY <1>1
  <2>2. spared' \subseteq Nodes /\ baseline' \in Nat
    BY <1>1, <1>2, CountIsNat DEF IInv, HistoryOK, ClusterOK, Size
  <2> QED
    BY <1>2, <2>1, <2>2 DEF IInv, HistoryOK
<1>8. CallInv' /\ ReadyAtALookIsSpared'
  <2>1. ~OwnJobRuns'
    BY <1>2, <1>5 DEF OwnJobRuns, clusterVars
  <2>2. seen' \intersect spared' = {}
    BY <1>1 DEF IInv, CallInv, SeenNotSpared
  <2>3. TodoIsSeen'
    BY <1>4 DEF TodoIsSeen, Elements
  <2> QED
    BY <1>2, <2>1, <2>2, <2>3 DEF CallInv, TurnBegan, NothingYet, SeenNotSpared,
                                  ReadyAtALookIsSpared
<1> QED
  BY <1>3, <1>6, <1>7, <1>8 DEF IInv

\* The choice of the order, and of the size of the batch.
LEMMA BatchInv == ASSUME IInv, RemoveFirst \/ CreateFirst \/ Expand PROVE IInv'
<1>1. /\ pc \in {"asg", "calc"} /\ pc' \in {"downCount", "calc", "upCount"}
      /\ mode' \in {"none", "createFirst", "removeFirst"}
      /\ UNCHANGED <<clusterVars, seen, todo, prev, curr, iter, runs, historyVars>>
  BY DEF RemoveFirst, CreateFirst, Expand, IInv, LocalOK
<1>2. inc' \in 0 .. Len(todo)
  <2>1. Len(todo) \in Nat
    BY DEF IInv, LocalOK
  <2>2. CASE RemoveFirst
    <3>1. WorkerNames(todo) # {} /\ inc' = 1
      BY <2>2 DEF RemoveFirst
    <3>2. DOMAIN todo # {}
      BY <3>1 DEF WorkerNames, Elements
    <3> QED
      BY <2>1, <3>1, <3>2 DEF IInv, LocalOK
  <2>3. CASE CreateFirst
    BY <2>3 DEF CreateFirst, IInv, LocalOK
  <2>4. CASE Expand
    <3>1. inc' = CalcExpandSize /\ CalcExpandSize >= 0
      BY <2>4 DEF Expand
    <3>2. /\ WorkerCount(Elements(todo)) <= Len(todo)
          /\ WorkerCount(Elements(todo)) \in Nat /\ Size \in Nat /\ MaxSize \in Nat
      BY CountOfList, CountIsNat, AsgAssumption DEF IInv, LocalOK, Size
    <3>3. CalcExpandSize \in Int /\ CalcExpandSize <= WorkerCount(Elements(todo))
      BY <3>2 DEF CalcExpandSize
    <3> QED
      BY <2>1, <3>1, <3>2, <3>3
  <2> QED
    BY <2>2, <2>3, <2>4
<1>3. ClusterOK'
  BY <1>1 DEF IInv, ClusterOK, clusterVars
<1>4. LocalOK'
  BY <1>1, <1>2 DEF IInv, LocalOK, UpPCs, DownPCs
<1>5. HistoryOK'
  BY <1>1 DEF IInv, HistoryOK, historyVars
<1>6. CallInv' /\ ReadyAtALookIsSpared'
  BY <1>1 DEF IInv, CallInv, TurnBegan, NothingYet, TodoIsSeen, SeenNotSpared,
              ReadyAtALookIsSpared, OwnJobRuns, clusterVars, historyVars
<1> QED
  BY <1>3, <1>4, <1>5, <1>6 DEF IInv

\* A step inside IncreaseSize or DeleteNodes changes where the goroutine is,
\* what it counts, and the cluster as the caller of this lemma has shown.
LEMMA InnerInv ==
    ASSUME IInv, pc \in UpPCs \union DownPCs, pc' \in UpPCs \union DownPCs,
           inFunction, ClusterOK', ReadyAtALookIsSpared',
           prev' \in Nat, curr' \in Nat, iter' \in Nat,
           iter' <= UpTurns \/ iter' <= DownTurns, TurnBegan',
           quiet' \in BOOLEAN
    PROVE  IInv'
<1>1. UNCHANGED <<seen, todo, inc, mode, runs, baseline, spared, done>>
  BY DEF inFunction
<1>2. LocalOK'
  BY <1>1 DEF IInv, LocalOK
<1>3. HistoryOK'
  BY <1>1 DEF IInv, HistoryOK
<1>4. CallInv'
  BY <1>1 DEF IInv, CallInv, NothingYet, TodoIsSeen, SeenNotSpared, UpPCs, DownPCs
<1> QED
  BY <1>2, <1>3, <1>4 DEF IInv

\* The return from a function, to the other function or to AsgRepairNodes with
\* the rest of the list.
LEMMA LeaveInv ==
    ASSUME IInv, NEW next \in {"asg", "upCount", "downCount"}, Leave(next),
           pc \in UpPCs \union DownPCs, UNCHANGED clusterVars, quiet' \in BOOLEAN
    PROVE  IInv'
<1>1. /\ iter' = 0 /\ prev' = 0 /\ curr' = 0
      /\ UNCHANGED <<seen, runs, baseline, spared, done>>
      /\ pc' \in {"asg", "upCount", "downCount"}
  BY DEF Leave, Recurse
<1>2. ClusterOK'
  BY DEF clusterVars, IInv, ClusterOK
<1>3. /\ todo' \in Seq(Nodes) /\ inc' \in 0 .. Len(todo')
      /\ Elements(todo') \subseteq Elements(todo)
      /\ mode' \in {"none", "createFirst", "removeFirst"}
  <2>1. CASE next = "asg"
    <3>1. todo' = SubSeq(todo, inc + 1, Len(todo)) /\ inc' = 0 /\ mode' = "none"
      BY <2>1 DEF Leave, Recurse
    <3>2. /\ inc + 1 \in 1 .. Len(todo) + 1 /\ Len(todo) \in 0 .. Len(todo)
          /\ todo \in Seq(Nodes)
      BY DEF IInv, LocalOK
    <3>3. todo' \in Seq(Nodes) /\ Elements(SubSeq(todo, inc + 1, Len(todo))) \subseteq Elements(todo)
      BY <3>1, <3>2, SliceOfList
    <3>4. Elements(todo') \subseteq Elements(todo)
      BY <3>1, <3>3 DEF Elements
    <3>5. 0 \in 0 .. Len(todo')
      BY <3>3
    <3> QED
      BY <3>1, <3>3, <3>4, <3>5
  <2>2. CASE next # "asg"
    BY <2>2 DEF Leave, IInv, LocalOK, Elements
  <2> QED
    BY <2>1, <2>2
<1>4. LocalOK'
  BY <1>1, <1>3, AsgAssumption DEF IInv, LocalOK, UpPCs, DownPCs
<1>5. HistoryOK'
  BY <1>1 DEF IInv, HistoryOK
<1>6. TodoIsSeen'
  BY <1>1, <1>3 DEF IInv, CallInv, TodoIsSeen, Elements
<1>7. CallInv' /\ ReadyAtALookIsSpared'
  BY <1>1, <1>6 DEF IInv, CallInv, TurnBegan, NothingYet, SeenNotSpared,
                    ReadyAtALookIsSpared, OwnJobRuns, clusterVars
<1> QED
  BY <1>2, <1>4, <1>5, <1>7 DEF IInv

\* Steps that leave the cluster alone do so with all that is said of it.
LEMMA ClusterKept ==
    ASSUME IInv, UNCHANGED clusterVars, UNCHANGED spared
    PROVE  ClusterOK' /\ ReadyAtALookIsSpared'
  BY DEF IInv, ClusterOK, ReadyAtALookIsSpared, OwnJobRuns, clusterVars

\* The steps of IncreaseSize.
LEMMA UpInv == ASSUME IInv, UpStep PROVE IInv'
<1>1. ASSUME UpBusy \/ UpReturn PROVE IInv'
  <2>1. /\ \E next \in {"asg", "upCount", "downCount"} : Leave(next)
        /\ pc \in UpPCs \union DownPCs /\ UNCHANGED clusterVars
    BY <1>1 DEF UpBusy, UpReturn, UpLeaves, UpPCs
  <2>2. quiet' \in BOOLEAN
    BY <1>1 DEF UpBusy, UpReturn, IInv, HistoryOK
  <2> QED
    BY <2>1, <2>2, LeaveInv
<1>2. ASSUME UpPost \/ UpError PROVE IInv'
  <2>1. /\ pc \in UpPCs /\ pc' \in UpPCs /\ inFunction
        /\ UNCHANGED <<prev, curr, iter>>
    BY <1>2 DEF UpPost, UpError, UpPCs
  <2>2. UNCHANGED spared
    BY <2>1 DEF inFunction
  <2>3. ClusterOK' /\ ReadyAtALookIsSpared'
    BY <1>2, <2>2, PostKeeps, ClusterKept DEF UpPost, UpError
  <2>4. TurnBegan'
    BY <1>2 DEF UpPost, UpError, IInv, CallInv, TurnBegan
  <2>5. quiet' \in BOOLEAN
    BY <1>2 DEF UpPost, UpError, IInv, HistoryOK
  <2> QED
    BY <2>1, <2>3, <2>4, <2>5, InnerInv DEF IInv, LocalOK
<1>3. ASSUME UpCount \/ UpCheck \/ UpDone \/ UpNotYet \/ UpRead PROVE IInv'
  <2>1. /\ pc \in UpPCs /\ pc' \in UpPCs /\ inFunction
        /\ UNCHANGED <<clusterVars, quiet, spared>>
    BY <1>3 DEF UpCount, UpCheck, UpDone, UpNotYet, UpRead, UpPCs, inFunction
  <2>2. ClusterOK' /\ ReadyAtALookIsSpared'
    BY <2>1, ClusterKept
  <2>3. Size \in Nat /\ 0 <= UpTurns
    BY CountIsNat, AsgAssumption DEF Size
  <2>4. prev' \in Nat /\ curr' \in Nat /\ iter' \in Nat
    BY <1>3, <2>3 DEF UpCount, UpCheck, UpDone, UpNotYet, UpRead, NextTurn, IInv, LocalOK
  <2>5. iter' <= UpTurns \/ iter' <= DownTurns
    BY <1>3, <2>3, AsgAssumption
    DEF UpCount, UpCheck, UpDone, UpNotYet, UpRead, NextTurn, IInv, LocalOK,
        CallInv, TurnBegan
  <2>6. TurnBegan'
    BY <1>3 DEF UpCount, UpCheck, UpDone, UpNotYet, UpRead, Waiting, TurnBegan
  <2>7. quiet' \in BOOLEAN
    BY <2>1 DEF IInv, HistoryOK
  <2> QED
    BY <2>1, <2>2, <2>4, <2>5, <2>6, <2>7, InnerInv
<1> QED
  BY <1>1, <1>2, <1>3 DEF UpStep

\* The steps of DeleteNodes.
LEMMA DownInv == ASSUME IInv, DownStep PROVE IInv'
<1>1. ASSUME DownBusy \/ DownReturn PROVE IInv'
  <2>1. /\ \E next \in {"asg", "upCount", "downCount"} : Leave(next)
        /\ pc \in UpPCs \union DownPCs /\ UNCHANGED clusterVars
    BY <1>1 DEF DownBusy, DownReturn, DownLeaves, DownPCs
  <2>2. quiet' \in BOOLEAN
    BY <1>1 DEF DownBusy, DownReturn, IInv, HistoryOK
  <2> QED
    BY <2>1, <2>2, LeaveInv
<1>2. ASSUME DownPost \/ DownRepost PROVE IInv'
  <2>1. /\ pc \in DownPCs /\ pc' \in DownPCs /\ inFunction
        /\ UNCHANGED <<prev, curr>> /\ iter' \in {iter, 0}
    BY <1>2 DEF DownPost, DownRepost, DownPCs
  <2>2. UNCHANGED spared
    BY <2>1 DEF inFunction
  <2>3. ClusterOK' /\ ReadyAtALookIsSpared'
    BY <1>2, <2>2, PostKeeps DEF DownPost, DownRepost
  <2>4. TurnBegan'
    BY <1>2 DEF DownPost, DownRepost, TurnBegan
  <2>5. quiet' \in BOOLEAN
    BY <1>2 DEF DownPost, DownRepost, IInv, HistoryOK
  <2>6. iter' \in Nat /\ (iter' <= UpTurns \/ iter' <= DownTurns)
    BY <2>1, AsgAssumption DEF IInv, LocalOK
  <2> QED
    BY <2>1, <2>3, <2>4, <2>5, <2>6, InnerInv DEF IInv, LocalOK
<1>3. ASSUME DownCount \/ DownCheck \/ DownRead \/ DownWaited \/ DownNoError PROVE IInv'
  <2>1. /\ pc \in DownPCs /\ pc' \in DownPCs /\ inFunction
        /\ UNCHANGED <<clusterVars, quiet, spared>>
    BY <1>3 DEF DownCount, DownCheck, DownRead, DownWaited, DownNoError, DownPCs,
                inFunction
  <2>2. ClusterOK' /\ ReadyAtALookIsSpared'
    BY <2>1, ClusterKept
  <2>3. Size \in Nat
    BY CountIsNat DEF Size
  <2>4. prev' \in Nat /\ curr' \in Nat /\ iter' \in Nat
    BY <1>3, <2>3
    DEF DownCount, DownCheck, DownRead, DownWaited, DownNoError, NextTurn, IInv, LocalOK
  <2>5. iter' <= UpTurns \/ iter' <= DownTurns
    BY <1>3, AsgAssumption
    DEF DownCount, DownCheck, DownRead, DownWaited, DownNoError, NextTurn, Waiting,
        IInv, LocalOK
  <2>6. TurnBegan'
    BY <2>1 DEF TurnBegan, DownPCs
  <2>7. quiet' \in BOOLEAN
    BY <2>1 DEF IInv, HistoryOK
  <2> QED
    BY <2>1, <2>2, <2>4, <2>5, <2>6, <2>7, InnerInv
<1> QED
  BY <1>1, <1>2, <1>3 DEF DownStep

-----------------------------------------------------------------------------
(* The theorems. *)

\* Nothing has happened yet.
LEMMA InitInv == Init => IInv
<1> SUFFICES ASSUME Init PROVE IInv
  OBVIOUS
<1>1. ClusterOK
  BY AsgAssumption DEF Init, ClusterOK
<1>2. LocalOK
  BY AsgAssumption DEF Init, LocalOK
<1>3. HistoryOK
  BY DEF Init, HistoryOK
<1>4. CallInv /\ ReadyAtALookIsSpared
  BY DEF Init, CallInv, TurnBegan, NothingYet, TodoIsSeen, SeenNotSpared, Elements,
         ReadyAtALookIsSpared, OwnJobRuns
<1> QED
  BY <1>1, <1>2, <1>3, <1>4 DEF IInv

\* Every step keeps the invariant.
LEMMA StepInv == IInv /\ [Next]_vars => IInv'
<1> SUFFICES ASSUME IInv, [Next]_vars PROVE IInv'
  OBVIOUS
<1>1. ASSUME CallStep PROVE IInv'
  BY <1>1, SecondLookInv, EndInv, BatchInv, UpInv, DownInv
  DEF CallStep, NothingToRepair, SlicePanics
<1>2. ASSUME UNCHANGED vars PROVE IInv'
  <2>1. UNCHANGED clusterVars /\ UNCHANGED localVars /\ UNCHANGED historyVars
        /\ UNCHANGED pc
    BY <1>2 DEF vars
  <2>2. ClusterOK' /\ LocalOK' /\ HistoryOK'
    BY <2>1 DEF clusterVars, localVars, historyVars, IInv, ClusterOK, LocalOK, HistoryOK
  <2>3. CallInv' /\ ReadyAtALookIsSpared'
    BY <2>1 DEF clusterVars, localVars, historyVars, IInv, CallInv, TurnBegan,
                NothingYet, TodoIsSeen, SeenNotSpared, Elements,
                ReadyAtALookIsSpared, OwnJobRuns
  <2> QED
    BY <2>2, <2>3 DEF IInv
<1> QED
  BY <1>1, <1>2, FirstLookInv, EndInv, OthersInv DEF Next, Crash

\* The invariant holds throughout.
THEOREM Invariance == Spec => []IInv
  BY InitInv, StepInv, PTL DEF Spec

\* The variables keep their types: no slice goes past its list, except for the
\* one that panics, and no wait takes a turn more than it has.
THEOREM TypeCorrect == Spec => []TypeOK
<1>1. IInv => TypeOK
  BY DEF IInv, TypeOK, ClusterOK, LocalOK, HistoryOK
<1> QED
  BY <1>1, Invariance, PTL

\* No job of a call of RunOnce drops a node that one of the two looks of that
\* call saw ready, however many batches, retries and crashes later.
THEOREM SparedCorrect == Spec => []ReadyAtALookIsSpared
<1>1. IInv => ReadyAtALookIsSpared
  BY DEF IInv
<1> QED
  BY <1>1, Invariance, PTL
-----------------------------------------------------------------------------
(* A call that nothing gets in the way of.                                 *)

\* No node is in the list twice.
NoRepeats(s) == \A i, j \in DOMAIN s : s[i] = s[j] => i = j

\* The call has asked for the nodes of its batch and is not back.
PostedUp == pc \in {"upWait", "upError", "upRead", "upSettle"}
PostedDown == pc \in {"downWait", "downError", "downRewait", "downSettle"}

\* It has asked for them, and may be back.
AskedUp == PostedUp \/ (mode = "createFirst" /\ pc \in DownPCs)
AskedDown == PostedDown \/ (mode = "removeFirst" /\ pc \in UpPCs)

\* A job runs exactly as long as the status says so.
JobStatus == (job # NoJob) <=> (status = "SCALING")

\* Nothing is left over of a call that ended, nor known before the looks.
Fresh == pc \in {"idle", "sleep"} => done = {} /\ mode = "none" /\ ~quiet

\* No job but its own runs, or has failed, and it has only workers to repair.
NothingInTheWay ==
    /\ status # "ERROR" /\ (job # NoJob => job.own)
    /\ seen \subseteq Workers /\ NoRepeats(todo)

\* The job of a call is the one that its place waits for.
JobOfPlace ==
    OwnJobRuns => \/ PostedUp /\ job.drop = {}
                  \/ /\ PostedDown /\ job.add = 0
                     /\ job.drop \subseteq Elements(Batch)

\* A batch is created first only as far as the maximum allows.
BatchFits ==
    /\ pc = "asg" => mode = "none" /\ inc = 0
    /\ pc # "asg" => mode # "none"
    /\ pc = "calc" => /\ mode = "createFirst" /\ inc = 0
                      /\ baseline < MaxSize /\ WorkerNames(todo) # {}
    /\ pc \in UpPCs \union DownPCs => inc >= 1
    /\ mode = "createFirst" => baseline + inc <= MaxSize
    /\ mode = "removeFirst" => baseline >= MaxSize

\* The workers are those that were counted, and what was asked for since.
SizeAccounted ==
    Size + ToAdd = baseline + (IF AskedUp THEN inc ELSE 0)
                            - (IF AskedDown THEN inc ELSE 0)
                            + Cardinality(ToDrop)

\* What was dropped: the batches before, and what is no longer to be dropped.
DoneAccounted ==
    done = (seen \ Elements(todo))
               \union (IF AskedDown THEN Elements(Batch) \ ToDrop ELSE {})

StillThere == seen \ done \subseteq nodes

QuietOK ==
    /\ pc \notin {"idle", "sleep"}
    /\ NothingInTheWay /\ JobOfPlace /\ BatchFits
    /\ SizeAccounted /\ DoneAccounted /\ StillThere

QuietInv == Fresh /\ (quiet => QuietOK)

-----------------------------------------------------------------------------
(* Lists without repetitions. *)

\* Such a list has as many elements as its length says.
LEMMA CountNoRepeats ==
    ASSUME NEW s \in Seq(Nodes), NoRepeats(s)
    PROVE  IsFiniteSet(Elements(s)) /\ Cardinality(Elements(s)) = Len(s)
<1>1. s \in Surjection(1 .. Len(s), Elements(s))
  BY DEF Surjection, Elements
<1>2. s \in [1 .. Len(s) -> Elements(s)] /\ DOMAIN s = 1 .. Len(s)
  BY DEF Elements
<1>3. s \in Injection(1 .. Len(s), Elements(s))
  BY <1>2, Fun_IsInj DEF NoRepeats
<1>4. IsFiniteSet(1 .. Len(s)) /\ Cardinality(1 .. Len(s)) = Len(s)
  <2>1. Len(s) \in Nat
    OBVIOUS
  <2>2. IsFiniteSet(1 .. Len(s)) /\ Cardinality(1 .. Len(s)) =
            IF 1 > Len(s) THEN 0 ELSE Len(s) - 1 + 1
    BY <2>1, FS_Interval
  <2> QED
    BY <2>1, <2>2
<1> QED
  BY <1>1, <1>3, <1>4, FS_Surjection

\* The batch and the rest of the list are apart, and are the list.
LEMMA SplitList ==
    ASSUME NEW s \in Seq(Nodes), NoRepeats(s), NEW k \in 0 .. Len(s)
    PROVE  LET b == SubSeq(s, 1, k)
               r == SubSeq(s, k + 1, Len(s))
           IN  /\ b \in Seq(Nodes) /\ Len(b) = k /\ NoRepeats(b)
               /\ r \in Seq(Nodes) /\ NoRepeats(r)
               /\ Elements(s) = Elements(b) \union Elements(r)
               /\ Elements(b) \intersect Elements(r) = {}
<1> DEFINE b == SubSeq(s, 1, k)
           r == SubSeq(s, k + 1, Len(s))
<1>1. /\ b \in Seq(Nodes) /\ Len(b) = k /\ DOMAIN b = 1 .. k
      /\ \A i \in 1 .. k : b[i] = s[i]
  OBVIOUS
<1>2. /\ r \in Seq(Nodes) /\ DOMAIN r = 1 .. Len(s) - k
      /\ \A i \in 1 .. Len(s) - k : r[i] = s[k + i]
  OBVIOUS
<1>3. DOMAIN s = 1 .. Len(s) /\ Len(s) \in Nat
  OBVIOUS
<1> HIDE DEF b, r
<1>4. NoRepeats(b) /\ NoRepeats(r)
  <2>1. NoRepeats(b)
    BY <1>1, <1>3 DEF NoRepeats
  <2>2. ASSUME NEW i \in DOMAIN r, NEW j \in DOMAIN r, r[i] = r[j] PROVE i = j
    <3>1. s[k + i] = s[k + j] /\ k + i \in DOMAIN s /\ k + j \in DOMAIN s
      BY <1>2, <1>3, <2>2
    <3>2. k + i = k + j
      BY <3>1 DEF NoRepeats
    <3> QED
      BY <1>2, <3>2
  <2> QED
    BY <2>1, <2>2 DEF NoRepeats
<1>5. Elements(b) = {s[i] : i \in 1 .. k}
  BY <1>1 DEF Elements
<1>6. Elements(r) = {s[i] : i \in k + 1 .. Len(s)}
  <2>1. \A i \in k + 1 .. Len(s) : i - k \in 1 .. Len(s) - k /\ s[i] = r[i - k]
    BY <1>2, <1>3
  <2>2. \A i \in 1 .. Len(s) - k : k + i \in k + 1 .. Len(s) /\ r[i] = s[k + i]
    BY <1>2, <1>3
  <2>3. ASSUME NEW x \in Elements(r) PROVE x \in {s[i] : i \in k + 1 .. Len(s)}
    <3>1. PICK i \in 1 .. Len(s) - k : x = r[i]
      BY <1>2 DEF Elements
    <3> QED
      BY <2>2, <3>1
  <2>4. ASSUME NEW i \in k + 1 .. Len(s) PROVE s[i] \in Elements(r)
    <3>1. i - k \in DOMAIN r /\ s[i] = r[i - k]
      BY <1>2, <2>1
    <3> QED
      BY <3>1 DEF Elements
  <2> QED
    BY <2>3, <2>4
<1>7. Elements(s) = {s[i] : i \in 1 .. Len(s)}
  BY <1>3 DEF Elements
<1>8. 1 .. Len(s) = (1 .. k) \union (k + 1 .. Len(s))
  BY <1>3
<1>9. Elements(s) = Elements(b) \union Elements(r)
  BY <1>5, <1>6, <1>7, <1>8
<1>10. Elements(b) \intersect Elements(r) = {}
  BY <1>3, <1>5, <1>6 DEF NoRepeats
<1> QED
  BY <1>1, <1>2, <1>4, <1>9, <1>10 DEF b, r

\* A list that names each of finitely many nodes, and has their number of
\* places, names none twice.
LEMMA ListOfSet ==
    ASSUME NEW S \in SUBSET Nodes,
           NEW s \in [1 .. Cardinality(S) -> S], Elements(s) = S
    PROVE  NoRepeats(s)
<1>1. IsFiniteSet(S) /\ Cardinality(S) \in Nat
  BY AsgAssumption, FS_Union, FS_Subset, FS_CardinalityType DEF Nodes
<1>2. s \in Surjection(1 .. Cardinality(S), S)
  BY Fun_IsSurj DEF Elements
<1>3. /\ IsFiniteSet(1 .. Cardinality(S))
      /\ Cardinality(1 .. Cardinality(S)) = Cardinality(S)
  <2>1. /\ IsFiniteSet(1 .. Cardinality(S))
        /\ Cardinality(1 .. Cardinality(S)) =
              IF 1 > Cardinality(S) THEN 0 ELSE Cardinality(S) - 1 + 1
    BY <1>1, FS_Interval
  <2> QED
    BY <1>1, <2>1
<1>4. s \in Injection(1 .. Cardinality(S), S)
  BY <1>2, <1>3, FS_SurjSameCardinalityImpliesInj
<1> QED
  BY <1>4 DEF Injection, IsInjective, NoRepeats

\* A worker more or less in the list is one more or less in the count.
LEMMA OneWorker ==
    ASSUME NEW w \in Workers
    PROVE  /\ w \notin nodes /\ nodes' = nodes \union {w} => Size' = Size + 1
           /\ w \in nodes /\ nodes' = nodes \ {w} => Size' = Size - 1
<1> DEFINE W == nodes \intersect Workers
<1>1. IsFiniteSet(W)
  BY AsgAssumption, FS_Subset
<1>2. ASSUME w \notin nodes, nodes' = nodes \union {w} PROVE Size' = Size + 1
  <2>1. nodes' \intersect Workers = W \union {w} /\ w \notin W
    BY <1>2
  <2>2. Cardinality(W \union {w}) = Cardinality(W) + 1
    BY <1>1, <2>1, FS_AddElement
  <2> QED
    BY <2>1, <2>2 DEF Size, WorkerCount
<1>3. ASSUME w \in nodes, nodes' = nodes \ {w} PROVE Size' = Size - 1
  <2>1. nodes' \intersect Workers = W \ {w} /\ w \in W
    BY <1>3
  <2>2. Cardinality(W \ {w}) = Cardinality(W) - 1
    BY <1>1, <2>1, FS_RemoveElement
  <2> QED
    BY <2>1, <2>2 DEF Size, WorkerCount
<1> QED
  BY <1>2, <1>3

\* All that is counted are numbers.
LEMMA AccountTypes ==
    ASSUME IInv
    PROVE  /\ Size \in Nat /\ baseline \in Nat /\ inc \in Nat /\ ToAdd \in Nat
           /\ IsFiniteSet(ToDrop) /\ Cardinality(ToDrop) \in Nat
           /\ ~OwnJobRuns => ToAdd = 0 /\ ToDrop = {} /\ Cardinality(ToDrop) = 0
<1>1. Size \in Nat
  BY CountIsNat DEF Size
<1>2. baseline \in Nat /\ inc \in Nat
  BY DEF IInv, LocalOK, HistoryOK
<1>3. ToAdd \in Nat /\ ToDrop \subseteq Workers
  BY DEF ToAdd, ToDrop, OwnJobRuns, IInv, ClusterOK, Job
<1>4. IsFiniteSet(ToDrop) /\ Cardinality(ToDrop) \in Nat
  BY <1>3, AsgAssumption, FS_Subset, FS_CardinalityType
<1>5. ~OwnJobRuns => ToAdd = 0 /\ ToDrop = {} /\ Cardinality(ToDrop) = 0
  BY FS_EmptySet DEF ToAdd, ToDrop
<1> QED
  BY <1>1, <1>2, <1>3, <1>4, <1>5

-----------------------------------------------------------------------------
(* The steps of a call that nothing gets in the way of. *)

\* The second look begins the account: nothing is dropped, and all that is to
\* be repaired is there.
LEMMA QuietLook == ASSUME IInv, JobStatus, QuietInv, SecondLook PROVE QuietInv'
<1>1. PICK notReady \in SUBSET nodes :
          /\ seen' = seen \intersect notReady
          /\ todo' \in {s \in [1 .. Cardinality(seen') -> seen'] : Elements(s) = seen'}
          /\ quiet' = (Succeeded /\ seen' \subseteq Workers)
  BY DEF SecondLook, CommonNodes
<1>2. /\ pc = "sleep" /\ pc' = "asg" /\ baseline' = Size
      /\ UNCHANGED <<clusterVars, inc, mode, prev, curr, iter, runs, done>>
  BY DEF SecondLook
<1>3. done = {} /\ mode = "none" /\ inc = 0 /\ ~OwnJobRuns
  BY <1>2 DEF QuietInv, Fresh, IInv, CallInv, NothingYet
<1>4. Fresh'
  BY <1>2 DEF Fresh
<1>5. ASSUME quiet' PROVE QuietOK'
  <2>1. Succeeded /\ seen' \subseteq Workers
    BY <1>1, <1>5
  <2>2. seen' \in SUBSET Nodes
    BY <1>1 DEF IInv, LocalOK
  <2>3. NoRepeats(todo') /\ Elements(todo') = seen'
    BY <1>1, <2>2, ListOfSet
  <2>4. NothingInTheWay'
    <3>1. NoRepeats(todo)'
      BY <2>3 DEF NoRepeats
    <3>2. status' # "ERROR" /\ (job' # NoJob => job'.own)
      BY <1>2, <2>1 DEF Succeeded, clusterVars, JobStatus
    <3> QED
      BY <2>1, <3>1, <3>2 DEF NothingInTheWay
  <2>5. ~OwnJobRuns' /\ JobOfPlace'
    BY <1>2, <1>3 DEF JobOfPlace, OwnJobRuns, clusterVars
  <2>6. BatchFits'
    BY <1>2, <1>3 DEF BatchFits, UpPCs, DownPCs
  <2>7. AskedUp' = FALSE /\ AskedDown' = FALSE
    BY <1>2, <1>3 DEF AskedUp, AskedDown, PostedUp, PostedDown, UpPCs, DownPCs
  <2>8. SizeAccounted'
    <3>1. ToAdd' = 0 /\ ToDrop' = {} /\ Cardinality(ToDrop') = 0
      BY <2>5, FS_EmptySet DEF ToAdd, ToDrop
    <3>2. Size' = Size /\ Size \in Nat /\ inc' = 0
      BY <1>2, <1>3, AccountTypes DEF clusterVars, Size
    <3> QED
      BY <1>2, <2>7, <3>1, <3>2 DEF SizeAccounted
  <2>9. DoneAccounted'
    BY <1>2, <1>3, <2>3, <2>7 DEF DoneAccounted, Elements
  <2>10. StillThere'
    BY <1>1, <1>2 DEF StillThere, clusterVars
  <2> QED
    BY <1>2, <2>4, <2>5, <2>6, <2>8, <2>9, <2>10 DEF QuietOK
<1> QED
  BY <1>4, <1>5 DEF QuietInv

\* The choice of the order and of the batch is made by the size at the look.
LEMMA QuietBatch ==
    ASSUME IInv, QuietInv, RemoveFirst \/ CreateFirst \/ Expand
    PROVE  QuietInv'
<1>1. /\ UNCHANGED <<clusterVars, seen, todo, prev, curr, iter, runs, historyVars>>
      /\ pc \in {"asg", "calc"} /\ pc' \in {"downCount", "calc", "upCount"}
  BY DEF RemoveFirst, CreateFirst, Expand
<1>2. Fresh'
  BY <1>1 DEF Fresh
<1>3. ASSUME quiet PROVE QuietOK'
  <2> USE <1>3 DEF QuietInv, QuietOK
  <2>1. NothingInTheWay'
    BY <1>1 DEF NothingInTheWay, NoRepeats, clusterVars
  <2>2. ~OwnJobRuns /\ ~OwnJobRuns'
    <3>1. ~PostedUp /\ ~PostedDown
      BY <1>1 DEF PostedUp, PostedDown
    <3> QED
      BY <1>1, <3>1 DEF JobOfPlace, OwnJobRuns, clusterVars
  <2>3. JobOfPlace'
    BY <2>2 DEF JobOfPlace
  <2>4. AskedUp = FALSE /\ AskedDown = FALSE
    BY <1>1 DEF AskedUp, AskedDown, PostedUp, PostedDown, UpPCs, DownPCs
  <2>5. Size = baseline
    BY <2>2, <2>4, AccountTypes DEF SizeAccounted
  <2>6. BatchFits'
    <3>1. CASE RemoveFirst
      BY <1>1, <2>5, <3>1 DEF RemoveFirst, BatchFits, UpPCs, DownPCs, historyVars
    <3>2. CASE CreateFirst
      <4>1. inc = 0 /\ baseline < MaxSize /\ WorkerNames(todo) # {}
        BY <2>5, <3>2 DEF CreateFirst, BatchFits
      <4> QED
        BY <1>1, <3>2, <4>1, AccountTypes, AsgAssumption
        DEF CreateFirst, BatchFits, WorkerNames, Elements, UpPCs, DownPCs, historyVars
    <3>3. CASE Expand
      <4>1. /\ baseline < MaxSize /\ WorkerNames(todo) # {}
            /\ mode = "createFirst"
        BY <3>3 DEF Expand, BatchFits
      <4>2. WorkerCount(Elements(todo)) \in Nat \ {0}
        <5>1. IsFiniteSet(Elements(todo) \intersect Workers)
          BY AsgAssumption, FS_Subset
        <5>2. Cardinality(Elements(todo) \intersect Workers) # 0
          BY <4>1, <5>1, FS_EmptySet DEF WorkerNames
        <5> QED
          BY <5>2, CountIsNat DEF WorkerCount
      <4>3. CalcExpandSize >= 1 /\ baseline + CalcExpandSize <= MaxSize
        BY <2>5, <4>1, <4>2, AccountTypes, AsgAssumption DEF CalcExpandSize
      <4> QED
        BY <1>1, <3>3, <4>1, <4>3
        DEF Expand, BatchFits, UpPCs, DownPCs, historyVars
    <3> QED
      BY <3>1, <3>2, <3>3
  <2>7. AskedUp' = FALSE /\ AskedDown' = FALSE
    BY DEF RemoveFirst, CreateFirst, Expand, AskedUp, AskedDown, PostedUp,
           PostedDown, UpPCs, DownPCs, BatchFits
  <2>8. SizeAccounted'
    <3>1. ToAdd' = 0 /\ ToDrop' = {} /\ Cardinality(ToDrop') = 0
      BY <2>2, FS_EmptySet DEF ToAdd, ToDrop
    <3>2. Size' = Size /\ Size \in Nat /\ baseline' = baseline
      BY <1>1, AccountTypes DEF clusterVars, historyVars, Size
    <3> QED
      BY <2>5, <2>7, <3>1, <3>2 DEF SizeAccounted
  <2>9. DoneAccounted'
    BY <1>1, <2>4, <2>7 DEF DoneAccounted, Elements, historyVars
  <2>10. StillThere'
    BY <1>1 DEF StillThere, clusterVars, historyVars
  <2> QED
    BY <1>1, <2>1, <2>3, <2>6, <2>8, <2>9, <2>10
<1>4. quiet' = quiet
  BY <1>1 DEF historyVars
<1> QED
  BY <1>2, <1>3, <1>4 DEF QuietInv

\* A step within a function that leaves the cluster, the list and the order
\* alone, and asks for nothing.
LEMMA QuietKept ==
    ASSUME IInv, QuietOK, UNCHANGED clusterVars, inFunction,
           pc \in UpPCs \union DownPCs, pc' \in UpPCs \union DownPCs,
           pc' \in UpPCs <=> pc \in UpPCs, pc' \in DownPCs <=> pc \in DownPCs,
           PostedUp' = PostedUp, PostedDown' = PostedDown
    PROVE  QuietOK'
<1>1. /\ UNCHANGED <<nodes, status, job, seen, todo, inc, mode, baseline, done>>
      /\ pc' \notin {"idle", "sleep", "asg", "calc"}
      /\ pc \notin {"idle", "sleep", "asg", "calc"}
  BY DEF clusterVars, inFunction, UpPCs, DownPCs
<1>2. /\ OwnJobRuns' = OwnJobRuns /\ ToAdd' = ToAdd /\ ToDrop' = ToDrop
      /\ AskedUp' = AskedUp /\ AskedDown' = AskedDown /\ Size' = Size
      /\ Batch' = Batch
  BY <1>1 DEF OwnJobRuns, ToAdd, ToDrop, AskedUp, AskedDown, Size, Batch
<1>3. NothingInTheWay' /\ JobOfPlace' /\ BatchFits'
  BY <1>1, <1>2
  DEF QuietOK, NothingInTheWay, NoRepeats, JobOfPlace, Elements, BatchFits
<1>4. SizeAccounted' /\ DoneAccounted' /\ StillThere'
  BY <1>1, <1>2 DEF QuietOK, SizeAccounted, DoneAccounted, Elements, StillThere
<1> QED
  BY <1>1, <1>3, <1>4 DEF QuietOK

\* The steps of the two functions between their requests.
LEMMA QuietMoves ==
    ASSUME IInv, QuietInv,
           UpCount \/ UpCheck \/ UpDone \/ UpNotYet \/ UpError \/ UpRead \/
           DownCount \/ DownCheck \/ DownRead \/ DownWaited \/ DownNoError
    PROVE  QuietInv'
<1>1. /\ pc \in UpPCs \union DownPCs /\ pc' \in UpPCs \union DownPCs
      /\ pc' \in UpPCs <=> pc \in UpPCs
      /\ pc' \in DownPCs <=> pc \in DownPCs
      /\ PostedUp' = PostedUp /\ PostedDown' = PostedDown
      /\ inFunction /\ quiet' = quiet
  BY DEF UpCount, UpCheck, UpDone, UpNotYet, UpError, UpRead, DownCount,
         DownCheck, DownRead, DownWaited, DownNoError, UpPCs, DownPCs,
         PostedUp, PostedDown
<1>2. Fresh'
  BY <1>1 DEF Fresh, UpPCs, DownPCs
<1>3. ASSUME quiet PROVE QuietOK'
  <2>1. ~InError
    BY <1>3 DEF QuietInv, QuietOK, NothingInTheWay, InError
  <2>2. UNCHANGED clusterVars
    BY <2>1 DEF UpCount, UpCheck, UpDone, UpNotYet, UpError, UpRead, DownCount,
                DownCheck, DownRead, DownWaited, DownNoError
  <2> QED
    BY <1>1, <1>3, <2>2, QuietKept DEF QuietInv
<1> QED
  BY <1>1, <1>2, <1>3 DEF QuietInv

\* The request of IncreaseSize: a refused one, or a smaller one, ends the quiet.
LEMMA QuietUpPost == ASSUME IInv, QuietInv, UpPost PROVE QuietInv'
<1>1. /\ pc = "upPost" /\ pc' = "upWait" /\ inFunction
      /\ quiet' = (quiet /\ (inc > 0 => job' # job /\ job'.add = inc))
  BY DEF UpPost
<1>2. Fresh'
  BY <1>1 DEF Fresh
<1>3. ASSUME quiet' PROVE QuietOK'
  <2>1. QuietOK /\ inc >= 1 /\ job' # job /\ job'.add = inc
    <3>1. quiet /\ (inc > 0 => job' # job /\ job'.add = inc)
      BY <1>1, <1>3, Zenon
    <3>2. inc >= 1 /\ inc \in Nat
      BY <1>1, <3>1, AccountTypes DEF QuietInv, QuietOK, BatchFits, UpPCs
    <3> QED
      BY <3>1, <3>2 DEF QuietInv
  <2> USE <2>1 DEF QuietOK
  <2>2. PICK n \in 1 .. inc : Accept([add |-> n, drop |-> {}, own |-> TRUE])
    BY DEF UpPost, PostUp, clusterVars
  <2>3. job' = [add |-> inc, drop |-> {}, own |-> TRUE]
    BY <2>2 DEF Accept
  <2>4. /\ status' = "SCALING" /\ job' # NoJob
        /\ UNCHANGED <<nodes, seen, todo, inc, mode, baseline, done>>
    <3>1. job' \in Job
      BY <2>3, AccountTypes DEF Job
    <3> QED
      BY <1>1, <2>2, <3>1, AsgAssumption DEF Accept, inFunction
  <2>5. ~OwnJobRuns /\ OwnJobRuns'
    <3>1. OwnJobRuns'
      BY <2>3, <2>4 DEF OwnJobRuns
    <3>2. ~OwnJobRuns
      BY <1>1 DEF JobOfPlace, PostedUp, PostedDown
    <3> QED
      BY <3>1, <3>2
  <2>6. NothingInTheWay'
    BY <2>3, <2>4 DEF NothingInTheWay, NoRepeats
  <2>7. JobOfPlace'
    BY <1>1, <2>3 DEF JobOfPlace, PostedUp
  <2>8. BatchFits'
    BY <1>1, <2>4 DEF BatchFits, UpPCs, DownPCs
  <2>9. /\ AskedUp = FALSE /\ AskedUp' = TRUE /\ AskedDown' = AskedDown
    BY <1>1, <2>4
    DEF AskedUp, AskedDown, PostedUp, PostedDown, UpPCs, DownPCs
  <2>10. SizeAccounted'
    <3>1. ToAdd' = inc /\ ToDrop' = {} /\ Cardinality(ToDrop') = 0
      BY <2>3, <2>5, FS_EmptySet DEF ToAdd, ToDrop
    <3>2. Size' = Size
      BY <2>4 DEF Size
    <3> QED
      BY <2>4, <2>5, <2>9, <3>1, <3>2, AccountTypes DEF SizeAccounted
  <2>11. DoneAccounted'
    <3>1. ToDrop' = {} /\ ToDrop = {} /\ Elements(Batch') = Elements(Batch)
      BY <2>3, <2>4, <2>5 DEF ToDrop, Batch
    <3>2. Elements(todo') = Elements(todo)
      BY <2>4
    <3> QED
      BY <2>4, <2>9, <3>1, <3>2 DEF DoneAccounted
  <2>12. StillThere'
    BY <2>4 DEF StillThere
  <2> QED
    BY <1>1, <2>6, <2>7, <2>8, <2>10, <2>11, <2>12
<1> QED
  BY <1>2, <1>3 DEF QuietInv

\* The batch of a quiet call is as many workers, all among those to repair.
LEMMA QuietBatchCount ==
    ASSUME IInv, QuietOK
    PROVE  /\ WorkerNames(Batch) = Elements(Batch)
           /\ Elements(Batch) \subseteq Elements(todo)
           /\ IsFiniteSet(Elements(Batch)) /\ Cardinality(Elements(Batch)) = inc
<1>1. todo \in Seq(Nodes) /\ inc \in 0 .. Len(todo) /\ NoRepeats(todo)
  BY DEF IInv, LocalOK, QuietOK, NothingInTheWay
<1>2. /\ Batch \in Seq(Nodes) /\ Len(Batch) = inc /\ NoRepeats(Batch)
      /\ Elements(Batch) \subseteq Elements(todo)
  BY <1>1, SplitList DEF Batch
<1>3. Elements(todo) \subseteq Workers
  BY DEF QuietOK, NothingInTheWay, IInv, CallInv, TodoIsSeen
<1> QED
  BY <1>2, <1>3, CountNoRepeats DEF WorkerNames

\* The request of DeleteNodes: a refused one ends the quiet.
LEMMA QuietDownPost ==
    ASSUME IInv, QuietInv, DownPost \/ DownRepost PROVE QuietInv'
<1>1. /\ pc \in {"downPost", "downError"} /\ pc' \in {"downWait", "downRewait"}
      /\ inFunction
  BY DEF DownPost, DownRepost
<1>2. Fresh'
  BY <1>1 DEF Fresh
<1>3. ASSUME quiet' PROVE QuietOK'
  <2>1. QuietOK
    <3>1. CASE DownPost
      BY <1>3, <3>1, Zenon DEF DownPost, QuietInv
    <3>2. CASE DownRepost
      BY <1>3, <3>2 DEF DownRepost, QuietInv
    <3> QED
      BY <3>1, <3>2
  <2> USE <2>1 DEF QuietOK
  <2>2. DownPost /\ job' # job /\ pc = "downPost"
    BY <1>3 DEF DownPost, DownRepost, InError, NothingInTheWay
  <2>3. /\ Accept([add |-> 0, drop |-> WorkerNames(Batch), own |-> TRUE])
        /\ job' = [add |-> 0, drop |-> Elements(Batch), own |-> TRUE]
    BY <2>2, QuietBatchCount DEF DownPost, PerformScaleDown, Accept, clusterVars
  <2>4. /\ status' = "SCALING" /\ job' # NoJob
        /\ UNCHANGED <<nodes, seen, todo, inc, mode, baseline, done>>
    <3>1. job' \in Job
      BY <2>3, QuietBatchCount DEF Job, WorkerNames
    <3> QED
      BY <1>1, <2>3, <3>1, AsgAssumption DEF Accept, inFunction
  <2>5. Batch' = Batch /\ Elements(Batch') = Elements(Batch)
    BY <2>4 DEF Batch
  <2>6. ~OwnJobRuns /\ OwnJobRuns'
    <3>1. OwnJobRuns'
      BY <2>3, <2>4 DEF OwnJobRuns
    <3>2. ~OwnJobRuns
      BY <2>2 DEF JobOfPlace, PostedUp, PostedDown
    <3> QED
      BY <3>1, <3>2
  <2>7. NothingInTheWay'
    BY <2>3, <2>4 DEF NothingInTheWay, NoRepeats
  <2>8. JobOfPlace'
    BY <1>1, <2>3, <2>5 DEF JobOfPlace, PostedDown
  <2>9. BatchFits'
    BY <1>1, <2>4 DEF BatchFits, UpPCs, DownPCs
  <2>10. AskedDown = FALSE /\ AskedDown' = TRUE /\ AskedUp' = AskedUp
    BY <1>1, <2>2, <2>4
    DEF AskedUp, AskedDown, PostedUp, PostedDown, UpPCs, DownPCs
  <2>11. ToAdd' = 0 /\ ToDrop' = Elements(Batch)
    BY <2>3, <2>6 DEF ToAdd, ToDrop
  <2>12. SizeAccounted'
    <3>1. Cardinality(ToDrop') = inc
      BY <2>11, QuietBatchCount
    <3>2. Size' = Size
      BY <2>4 DEF Size
    <3> QED
      BY <2>4, <2>6, <2>10, <2>11, <3>1, <3>2, AccountTypes DEF SizeAccounted
  <2>13. DoneAccounted'
    <3>1. Elements(todo') = Elements(todo)
      BY <2>4
    <3> QED
      BY <2>4, <2>5, <2>10, <2>11, <3>1 DEF DoneAccounted
  <2>14. StillThere'
    BY <2>4 DEF StillThere
  <2> QED
    BY <1>1, <2>7, <2>8, <2>9, <2>12, <2>13, <2>14
<1> QED
  BY <1>2, <1>3 DEF QuietInv

\* The batch comes off the list when both of its halves are done.
LEMMA QuietRecurse ==
    ASSUME IInv, QuietOK, ~OwnJobRuns, AskedUp, AskedDown, Recurse,
           UNCHANGED <<clusterVars, seen, baseline, done>>
    PROVE  QuietOK'
<1> USE DEF QuietOK
<1>1. /\ UNCHANGED <<nodes, status, job, seen, baseline, done>>
      /\ pc' = "asg" /\ mode' = "none" /\ inc' = 0
      /\ todo' = SubSeq(todo, inc + 1, Len(todo))
  BY DEF clusterVars, Recurse
<1>2. todo \in Seq(Nodes) /\ inc \in 0 .. Len(todo) /\ NoRepeats(todo)
  BY DEF IInv, LocalOK, NothingInTheWay
<1>3. /\ NoRepeats(todo')
      /\ Elements(todo) = Elements(Batch) \union Elements(todo')
      /\ Elements(Batch) \intersect Elements(todo') = {}
  BY <1>1, <1>2, SplitList DEF Batch
<1>4. ~OwnJobRuns'
  BY <1>1 DEF OwnJobRuns
<1>5. NothingInTheWay'
  <2>1. NoRepeats(todo)'
    BY <1>3 DEF NoRepeats
  <2> QED
    BY <1>1, <2>1 DEF NothingInTheWay
<1>6. JobOfPlace' /\ BatchFits'
  BY <1>1, <1>4 DEF JobOfPlace, BatchFits, UpPCs, DownPCs
<1>7. AskedUp' = FALSE /\ AskedDown' = FALSE
  BY <1>1 DEF AskedUp, AskedDown, PostedUp, PostedDown
<1>8. SizeAccounted'
  <2>1. Size = baseline
    BY AccountTypes DEF SizeAccounted
  <2>2. ToAdd' = 0 /\ ToDrop' = {} /\ Cardinality(ToDrop') = 0
    BY <1>4, FS_EmptySet DEF ToAdd, ToDrop
  <2>3. Size' = Size
    BY <1>1 DEF Size
  <2> QED
    BY <1>1, <1>7, <2>1, <2>2, <2>3, AccountTypes DEF SizeAccounted
<1>9. DoneAccounted'
  <2>1. done = (seen \ Elements(todo)) \union Elements(Batch)
    BY AccountTypes DEF DoneAccounted
  <2>2. Elements(Batch) \subseteq seen
    BY <1>3 DEF IInv, CallInv, TodoIsSeen
  <2>3. done = seen \ Elements(todo')
    BY <1>3, <2>1, <2>2
  <2> QED
    BY <1>1, <1>7, <2>3 DEF DoneAccounted, Elements
<1>10. StillThere'
  BY <1>1 DEF StillThere
<1> QED
  BY <1>1, <1>5, <1>6, <1>8, <1>9, <1>10

\* The first half of the order is done when its job is.
LEMMA QuietHalf ==
    ASSUME IInv, QuietOK, ~OwnJobRuns,
           \/ pc = "upSettle" /\ mode = "createFirst" /\ pc' = "downCount"
           \/ pc = "downSettle" /\ mode = "removeFirst" /\ pc' = "upCount",
           UNCHANGED <<clusterVars, seen, todo, inc, mode, baseline, done>>
    PROVE  QuietOK'
<1> USE DEF QuietOK
<1>1. UNCHANGED <<nodes, status, job, seen, todo, inc, mode, baseline, done>>
  BY DEF clusterVars
<1>2. /\ OwnJobRuns' = OwnJobRuns /\ ToAdd' = ToAdd /\ ToDrop' = ToDrop
      /\ Size' = Size /\ Batch' = Batch
  BY <1>1 DEF OwnJobRuns, ToAdd, ToDrop, Size, Batch
<1>3. AskedUp' = AskedUp /\ AskedDown' = AskedDown
  BY <1>1 DEF AskedUp, AskedDown, PostedUp, PostedDown, UpPCs, DownPCs
<1>4. NothingInTheWay' /\ JobOfPlace' /\ BatchFits'
  BY <1>1, <1>2 DEF NothingInTheWay, NoRepeats, JobOfPlace, BatchFits, UpPCs, DownPCs
<1>5. SizeAccounted' /\ DoneAccounted' /\ StillThere'
  BY <1>1, <1>2, <1>3 DEF SizeAccounted, DoneAccounted, Elements, StillThere
<1> QED
  BY <1>4, <1>5

\* The return from the two functions; a busy cluster ends the quiet.
LEMMA QuietReturns ==
    ASSUME IInv, QuietInv, UpBusy \/ UpReturn \/ DownBusy \/ DownReturn
    PROVE  QuietInv'
<1>1. Fresh'
  BY DEF UpBusy, UpReturn, DownBusy, DownReturn, UpLeaves, DownLeaves, Leave,
         Recurse, Fresh
<1>2. ASSUME quiet' PROVE QuietOK'
  <2>1. UpReturn \/ DownReturn
    BY <1>2 DEF UpBusy, DownBusy
  <2>2. quiet' = (quiet /\ ~OwnJobRuns)
    BY <2>1 DEF UpReturn, DownReturn
  <2>3. quiet /\ ~OwnJobRuns
    BY <1>2, <2>2, Zenon
  <2>4. QuietOK /\ mode \in {"createFirst", "removeFirst"}
    <3>1. QuietOK
      BY <2>3 DEF QuietInv
    <3>2. mode # "none"
      BY <2>1, <3>1 DEF QuietOK, BatchFits, UpReturn, DownReturn
    <3> QED
      BY <3>1, <3>2 DEF IInv, LocalOK
  <2>5. UNCHANGED <<clusterVars, seen, baseline, done>>
    BY <2>1 DEF UpReturn, DownReturn, UpLeaves, DownLeaves, Leave
  <2>6. CASE UpReturn /\ mode = "createFirst"
    <3>1. /\ pc = "upSettle" /\ pc' = "downCount"
          /\ UNCHANGED <<clusterVars, seen, todo, inc, mode, baseline, done>>
      BY <2>6 DEF UpReturn, UpLeaves, Leave
    <3> QED
      BY <2>3, <2>4, <2>6, <3>1, QuietHalf
  <2>7. CASE DownReturn /\ mode = "removeFirst"
    <3>1. /\ pc = "downSettle" /\ pc' = "upCount"
          /\ UNCHANGED <<clusterVars, seen, todo, inc, mode, baseline, done>>
      BY <2>7 DEF DownReturn, DownLeaves, Leave
    <3> QED
      BY <2>3, <2>4, <2>7, <3>1, QuietHalf
  <2>8. CASE \/ UpReturn /\ mode = "removeFirst"
             \/ DownReturn /\ mode = "createFirst"
    <3>1. Recurse
      BY <2>8 DEF UpReturn, DownReturn, UpLeaves, DownLeaves, Leave
    <3>2. AskedUp /\ AskedDown
      BY <2>8 DEF UpReturn, DownReturn, AskedUp, AskedDown, PostedUp, PostedDown,
                  UpPCs, DownPCs
    <3> QED
      BY <2>3, <2>4, <2>5, <3>1, <3>2, QuietRecurse
  <2> QED
    BY <2>1, <2>4, <2>6, <2>7, <2>8
<1> QED
  BY <1>1, <1>2 DEF QuietInv

-----------------------------------------------------------------------------
(* The portal, while nothing gets in the way. *)

\* The job of the call adds or drops a node: so many more or fewer are left.
LEMMA QuietWork == ASSUME IInv, QuietInv, JobWorks PROVE QuietInv'
<1>1. /\ job \in Job /\ job # NoJob
      /\ UNCHANGED <<status, autoJobs, failures, quiet, pc, seen, todo, inc, mode,
                     baseline, spared>>
  BY DEF JobWorks, callUnchanged, localVars, IInv, ClusterOK
<1>2. \/ \E w \in Workers \ nodes :
            /\ job.add > 0 /\ nodes' = nodes \union {w}
            /\ job' = [job EXCEPT !.add = @ - 1] /\ done' = done
      \/ \E w \in job.drop :
            /\ nodes' = nodes \ {w} /\ job' = [job EXCEPT !.drop = @ \ {w}]
            /\ done' = IF job.own THEN done \union {w} ELSE done
  BY DEF JobWorks
<1>3. job' \in Job /\ job' # NoJob /\ job'.own = job.own /\ OwnJobRuns' = OwnJobRuns
  <2>1. \/ /\ job.add - 1 \in Nat /\ job' = [job EXCEPT !.add = @ - 1]
        \/ \E w : job' = [job EXCEPT !.drop = @ \ {w}]
    BY <1>1, <1>2 DEF Job
  <2>2. job' \in Job /\ job'.own = job.own
    BY <1>1, <2>1 DEF Job
  <2> QED
    BY <1>1, <2>2, AsgAssumption DEF OwnJobRuns
<1>4. Fresh'
  <2>1. pc \in {"idle", "sleep"} => ~job.own
    BY <1>1 DEF IInv, CallInv, NothingYet, OwnJobRuns
  <2> QED
    BY <1>1, <1>2, <2>1 DEF QuietInv, Fresh
<1>5. ASSUME quiet PROVE QuietOK'
  <2>1. QuietOK /\ job.own /\ OwnJobRuns /\ OwnJobRuns'
    BY <1>1, <1>3, <1>5 DEF QuietInv, QuietOK, NothingInTheWay, OwnJobRuns
  <2> USE <2>1 DEF QuietOK
  <2>2. NothingInTheWay' /\ BatchFits'
    BY <1>1, <1>3 DEF NothingInTheWay, NoRepeats, BatchFits, WorkerNames, Elements
  <2>3. /\ AskedUp' = AskedUp /\ AskedDown' = AskedDown /\ Batch' = Batch
        /\ PostedUp' = PostedUp /\ PostedDown' = PostedDown
        /\ Elements(todo') = Elements(todo) /\ Elements(Batch') = Elements(Batch)
    BY <1>1 DEF AskedUp, AskedDown, PostedUp, PostedDown, Batch
  <2>4. ToAdd = job.add /\ ToDrop = job.drop /\ ToAdd' = job'.add /\ ToDrop' = job'.drop
    BY DEF ToAdd, ToDrop
  <2>5. ASSUME NEW w \in Workers \ nodes, job.add > 0, nodes' = nodes \union {w},
               job' = [job EXCEPT !.add = @ - 1], done' = done
        PROVE  JobOfPlace' /\ SizeAccounted' /\ DoneAccounted' /\ StillThere'
    <3>1. job'.add = job.add - 1 /\ job'.drop = job.drop /\ job.add \in Nat
      BY <1>1, <2>5 DEF Job
    <3>2. PostedUp /\ job.drop = {}
      BY <2>5 DEF JobOfPlace
    <3>3. JobOfPlace'
      BY <2>3, <3>1, <3>2 DEF JobOfPlace
    <3>4. Size' = Size + 1
      BY <2>5, OneWorker
    <3>5. SizeAccounted'
      BY <1>1, <2>3, <2>4, <3>1, <3>4, AccountTypes DEF SizeAccounted
    <3>6. DoneAccounted' /\ StillThere'
      BY <1>1, <2>3, <2>4, <2>5, <3>1 DEF DoneAccounted, StillThere
    <3> QED
      BY <3>3, <3>5, <3>6
  <2>6. ASSUME NEW w \in job.drop, nodes' = nodes \ {w},
               job' = [job EXCEPT !.drop = @ \ {w}], done' = done \union {w}
        PROVE  JobOfPlace' /\ SizeAccounted' /\ DoneAccounted' /\ StillThere'
    <3>1. /\ job'.add = job.add /\ job'.drop = job.drop \ {w} /\ w \in Workers
          /\ job.add \in Nat
      BY <1>1, <2>6 DEF Job
    <3>2. PostedDown /\ job.add = 0 /\ job.drop \subseteq Elements(Batch)
      BY <2>6 DEF JobOfPlace
    <3>3. JobOfPlace'
      BY <2>3, <3>1, <3>2 DEF JobOfPlace
    <3>4. /\ w \in Elements(todo) /\ w \in seen /\ w \notin done
          /\ done = (seen \ Elements(todo)) \union (Elements(Batch) \ job.drop)
      <4>1. w \in Elements(todo) /\ w \in seen
        BY <2>6, <3>2, QuietBatchCount DEF IInv, CallInv, TodoIsSeen
      <4>2. done = (seen \ Elements(todo)) \union (Elements(Batch) \ job.drop)
        BY <2>4, <3>2 DEF DoneAccounted, AskedDown
      <4> QED
        BY <2>6, <4>1, <4>2
    <3>5. w \in nodes /\ Size' = Size - 1
      BY <2>6, <3>1, <3>4, OneWorker DEF StillThere
    <3>6. SizeAccounted'
      <4>1. Cardinality(job.drop \ {w}) = Cardinality(job.drop) - 1
        BY <2>4, <2>6, FS_RemoveElement, AccountTypes
      <4> QED
        BY <1>1, <2>3, <2>4, <3>1, <3>5, <4>1, AccountTypes DEF SizeAccounted
    <3>7. DoneAccounted'
      <4>1. done' = (seen \ Elements(todo)) \union (Elements(Batch) \ (job.drop \ {w}))
        BY <2>6, <3>2, <3>4
      <4> QED
        BY <1>1, <2>3, <2>4, <3>1, <3>2, <4>1 DEF DoneAccounted, AskedDown
    <3>8. StillThere'
      BY <1>1, <2>6 DEF StillThere
    <3> QED
      BY <3>3, <3>6, <3>7, <3>8
  <2>7. JobOfPlace' /\ SizeAccounted' /\ DoneAccounted' /\ StillThere'
    BY <1>2, <2>5, <2>6
  <2> QED
    BY <1>1, <2>2, <2>7
<1> QED
  BY <1>1, <1>4, <1>5 DEF QuietInv

\* The job ends when nothing is left of it.
LEMMA QuietJobEnds == ASSUME IInv, QuietInv, JobSucceeds PROVE QuietInv'
<1>1. /\ job # NoJob /\ job.add = 0 /\ job.drop = {}
      /\ status' = "SUCCEEDED" /\ job' = NoJob
      /\ UNCHANGED <<nodes, done, quiet, pc, seen, todo, inc, mode, baseline>>
  BY DEF JobSucceeds, callUnchanged, localVars
<1>2. Fresh'
  BY <1>1 DEF QuietInv, Fresh
<1>3. ASSUME quiet PROVE QuietOK'
  <2> USE DEF QuietOK
  <2>1. QuietOK
    BY <1>3 DEF QuietInv
  <2>2. /\ ToAdd = 0 /\ ToDrop = {} /\ ToAdd' = 0 /\ ToDrop' = {} /\ ~OwnJobRuns'
    BY <1>1 DEF ToAdd, ToDrop, OwnJobRuns
  <2>3. NothingInTheWay' /\ BatchFits' /\ JobOfPlace'
    BY <1>1, <2>1, <2>2
    DEF NothingInTheWay, NoRepeats, BatchFits, JobOfPlace, WorkerNames, Elements
  <2>4. /\ AskedUp' = AskedUp /\ AskedDown' = AskedDown /\ Size' = Size
        /\ Elements(todo') = Elements(todo) /\ Elements(Batch') = Elements(Batch)
    BY <1>1 DEF AskedUp, AskedDown, PostedUp, PostedDown, Size, Batch
  <2>5. SizeAccounted' /\ DoneAccounted' /\ StillThere'
    BY <1>1, <2>1, <2>2, <2>4 DEF SizeAccounted, DoneAccounted, StillThere
  <2> QED
    BY <1>1, <2>1, <2>3, <2>5
<1> QED
  BY <1>1, <1>2, <1>3 DEF QuietInv

\* Failures, and the jobs of others, end the quiet.
LEMMA QuietOthers == ASSUME IInv, QuietInv, JobFails \/ AutoScale PROVE QuietInv'
  BY DEF JobFails, AutoScale, callUnchanged, localVars, QuietInv, Fresh

\* Jobs begin and end with the status.
LEMMA JobStatusKept == ASSUME IInv, JobStatus, [Next]_vars PROVE JobStatus'
<1>1. ASSUME NEW j \in Job, Accept(j) PROVE JobStatus'
  BY <1>1, AsgAssumption DEF Accept, JobStatus
<1>2. ASSUME UNCHANGED clusterVars PROVE JobStatus'
  BY <1>2 DEF clusterVars, JobStatus
<1>3. ASSUME EndOfCall PROVE JobStatus'
  <2>1. (job' = NoJob) <=> (job = NoJob)
    BY <1>3, AsgAssumption DEF EndOfCall, IInv, ClusterOK, Job
  <2> QED
    BY <1>3, <2>1 DEF EndOfCall, JobStatus
<1>4. ASSUME PostUp \/ PerformScaleDown PROVE JobStatus'
  <2>1. ASSUME NEW n \in 1 .. inc PROVE [add |-> n, drop |-> {}, own |-> TRUE] \in Job
    BY AccountTypes DEF Job
  <2>2. [add |-> 0, drop |-> WorkerNames(Batch), own |-> TRUE] \in Job
    BY DEF Job, WorkerNames
  <2> QED
    BY <1>1, <1>2, <1>4, <2>1, <2>2 DEF PostUp, PerformScaleDown
<1>5. ASSUME UpStep \/ DownStep PROVE JobStatus'
  BY <1>2, <1>4, <1>5
  DEF UpStep, UpCount, UpCheck, UpBusy, UpPost, UpDone, UpNotYet, UpError, UpRead,
      UpReturn, DownStep, DownCount, DownCheck, DownBusy, DownPost, DownRead,
      DownWaited, DownNoError, DownRepost, DownReturn
<1>6. ASSUME FirstLook \/ CallStep \/ Crash PROVE JobStatus'
  BY <1>2, <1>3, <1>5, <1>6
  DEF FirstLook, CallStep, Crash, SecondLook, NothingToRepair, RemoveFirst,
      CreateFirst, Expand, SlicePanics
<1>7. ASSUME JobWorks PROVE JobStatus'
  <2>1. job' \in Job /\ job # NoJob /\ status' = status
    BY <1>7, OthersInv DEF JobStep, JobWorks, IInv, ClusterOK, Job
  <2> QED
    BY <2>1, AsgAssumption DEF JobStatus
<1>8. ASSUME JobSucceeds \/ JobFails PROVE JobStatus'
  BY <1>8 DEF JobSucceeds, JobFails, JobStatus
<1>9. ASSUME AutoScale PROVE JobStatus'
  <2>1. job' \in Job
    <3>1. Size \in Nat /\ MaxSize \in Nat
      BY AccountTypes, AsgAssumption
    <3>2. ASSUME NEW n \in 1 .. MaxSize - Size
          PROVE  [add |-> n, drop |-> {}, own |-> FALSE] \in Job
      BY <3>1 DEF Job
    <3>3. ASSUME NEW W \in SUBSET (nodes \intersect Workers)
          PROVE  [add |-> 0, drop |-> W, own |-> FALSE] \in Job
      BY DEF Job
    <3> QED
      BY <1>9, <3>2, <3>3 DEF AutoScale
  <2> QED
    BY <1>9, <2>1, AsgAssumption DEF AutoScale, JobStatus
<1> QED
  BY <1>2, <1>6, <1>7, <1>8, <1>9 DEF Next, JobStep, vars

\* Every step keeps the account of a call that nothing gets in the way of.
LEMMA QuietStep == ASSUME IInv, JobStatus, QuietInv, [Next]_vars PROVE QuietInv'
<1>1. CASE FirstLook
  BY <1>1 DEF FirstLook, QuietInv, Fresh
<1>2. ASSUME EndOfCall PROVE QuietInv'
  BY <1>2 DEF EndOfCall, QuietInv, Fresh
<1>3. CASE CallStep
  BY <1>2, <1>3, QuietLook, QuietBatch, QuietMoves, QuietUpPost, QuietDownPost,
     QuietReturns
  DEF CallStep, NothingToRepair, SlicePanics, UpStep, DownStep
<1>4. CASE JobStep \/ AutoScale
  BY <1>4, QuietWork, QuietJobEnds, QuietOthers DEF JobStep
<1>5. CASE UNCHANGED vars
  <2>1. UNCHANGED clusterVars /\ UNCHANGED <<pc, localVars, historyVars>>
    BY <1>5 DEF vars
  <2> USE <2>1 DEF clusterVars, localVars, historyVars
  <2>2. /\ OwnJobRuns' = OwnJobRuns /\ ToAdd' = ToAdd /\ ToDrop' = ToDrop
        /\ AskedUp' = AskedUp /\ AskedDown' = AskedDown /\ Size' = Size
        /\ PostedUp' = PostedUp /\ PostedDown' = PostedDown /\ Batch' = Batch
    BY DEF OwnJobRuns, ToAdd, ToDrop, AskedUp, AskedDown, PostedUp, PostedDown,
           Size, Batch
  <2>3. Fresh' = Fresh
    BY DEF Fresh
  <2>4. QuietOK => NothingInTheWay' /\ JobOfPlace' /\ BatchFits'
    BY <2>2 DEF QuietOK, NothingInTheWay, NoRepeats, JobOfPlace, BatchFits,
                WorkerNames, Elements
  <2>5. QuietOK => SizeAccounted' /\ DoneAccounted' /\ StillThere'
    BY <2>2 DEF QuietOK, SizeAccounted, DoneAccounted, StillThere, Elements
  <2> QED
    BY <2>3, <2>4, <2>5 DEF QuietInv, QuietOK
<1> QED
  BY <1>1, <1>2, <1>3, <1>4, <1>5 DEF Next, Crash

\* What a call that nothing gets in the way of does, throughout.
THEOREM QuietInductive == Spec => [](IInv /\ JobStatus /\ QuietInv)
<1>1. Init => IInv /\ JobStatus /\ QuietInv
  BY InitInv DEF Init, JobStatus, QuietInv, Fresh
<1>2. (IInv /\ JobStatus /\ QuietInv) /\ [Next]_vars
        => (IInv /\ JobStatus /\ QuietInv)'
  BY StepInv, JobStatusKept, QuietStep
<1> QED
  BY <1>1, <1>2, PTL DEF Spec

\* What CalcExpandSize and the order of AsgRepairNodes are for (core/util.go):
\* as long as nothing gets in the way and every job ends within the wait for
\* it, the workers never get more than the maximum and what there was, however
\* many there are to repair, in however many batches.
THEOREM WithinMaxCorrect == Spec => []WithinMax
<1>1. ASSUME IInv, QuietInv PROVE WithinMax
  <2> SUFFICES ASSUME quiet
               PROVE  Size <= IF baseline >= MaxSize THEN baseline ELSE MaxSize
    BY DEF WithinMax
  <2> USE <1>1 DEF QuietInv, QuietOK
  <2>1. Cardinality(ToDrop) <= inc /\ (ToDrop # {} => PostedDown)
    <3>1. CASE OwnJobRuns /\ PostedDown
      <4>1. ToDrop \in SUBSET Elements(Batch)
        BY <3>1 DEF ToDrop, JobOfPlace, PostedUp, PostedDown
      <4> QED
        BY <3>1, <4>1, QuietBatchCount, FS_Subset
    <3>2. CASE ~(OwnJobRuns /\ PostedDown)
      <4>1. ToDrop = {}
        BY <3>2 DEF ToDrop, JobOfPlace
      <4> QED
        BY <4>1, FS_EmptySet, AccountTypes
    <3> QED
      BY <3>1, <3>2
  <2>2. ToDrop = {} => Cardinality(ToDrop) = 0
    BY FS_EmptySet
  <2>3. CASE mode = "none"
    <3>1. AskedUp = FALSE /\ AskedDown = FALSE /\ ~PostedDown
      BY <2>3 DEF BatchFits, AskedUp, AskedDown, PostedUp, PostedDown
    <3>2. Size <= baseline
      BY <2>1, <2>2, <3>1, AccountTypes DEF SizeAccounted
    <3> QED
      BY <3>2, AccountTypes, AsgAssumption
  <2>4. CASE mode = "createFirst"
    <3>1. baseline + inc <= MaxSize /\ (PostedDown => AskedDown)
      BY <2>4 DEF BatchFits, AskedDown
    <3>2. Size <= baseline + inc
      BY <2>1, <2>2, <3>1, AccountTypes DEF SizeAccounted
    <3> QED
      BY <3>1, <3>2, AccountTypes, AsgAssumption
  <2>5. CASE mode = "removeFirst"
    <3>1. /\ baseline >= MaxSize /\ (PostedDown => AskedDown)
          /\ AskedUp => AskedDown /\ ~PostedDown
      BY <2>5 DEF BatchFits, AskedDown, AskedUp, PostedUp, PostedDown, UpPCs,
                  DownPCs
    <3>2. Size <= baseline
      BY <2>1, <2>2, <3>1, AccountTypes DEF SizeAccounted
    <3> QED
      BY <3>1, <3>2, AccountTypes, AsgAssumption
  <2> QED
    BY <2>3, <2>4, <2>5 DEF IInv, LocalOK
<1> QED
  BY <1>1, QuietInductive, PTL

\* A call that nothing got in the way of ends with as many workers as there
\* were, and without any of those that it was called for: the recursion of
\* AsgRepairNodes leaves none out and repairs none twice.
THEOREM QuietRepairReplacesCorrect == Spec => QuietRepairReplaces
<1>1. ASSUME IInv, QuietInv, quiet, NothingToRepair, pc = "asg"
      PROVE  Size = baseline /\ done = seen
  <2>1. QuietOK /\ WorkerNames(todo) = {}
    BY <1>1 DEF QuietInv, NothingToRepair
  <2>2. ~OwnJobRuns /\ AskedUp = FALSE /\ AskedDown = FALSE
    BY <1>1, <2>1 DEF QuietOK, JobOfPlace, BatchFits, AskedUp, AskedDown, PostedUp,
                      PostedDown
  <2>3. Size = baseline
    BY <1>1, <2>1, <2>2, AccountTypes DEF QuietOK, SizeAccounted
  <2>4. Elements(todo) = {}
    BY <1>1, <2>1 DEF WorkerNames, QuietOK, NothingInTheWay, IInv, CallInv, TodoIsSeen
  <2> QED
    BY <2>1, <2>2, <2>3, <2>4 DEF QuietOK, DoneAccounted
<1>2. IInv /\ QuietInv /\ [Next]_vars =>
        [quiet /\ NothingToRepair /\ pc = "asg" => Size = baseline /\ done = seen]_vars
  BY <1>1
<1> QED
  BY <1>2, QuietInductive, PTL DEF Spec, QuietRepairReplaces

-----------------------------------------------------------------------------
(* A call is a BatchRepair, whatever the portal answers. *)

\* Between two batches there is none, and no wait has more turns than it may.
InTurn ==
    /\ pc \in {"asg", "calc"} => inc = 0
    /\ pc = "calc" => mode = "createFirst" /\ todo # <<>>
    /\ pc \in {"upCheck", "upPost", "upWait", "upError", "upRead"} => iter <= UpTurns

\* What is left of the requests of a batch, place by place.
LeftIs ==
    /\ pc \in {"idle", "sleep", "asg", "calc"} => UpsLeft = 0 /\ DownsLeft = 0
    /\ pc \in {"upCount", "upCheck", "upPost"} => UpsLeft = UpTurns + 1
    /\ pc \in {"upWait", "upError"} => UpsLeft = UpTurns - iter
    /\ pc = "upRead" => UpsLeft = UpTurns - iter - 1
    /\ pc = "upSettle" => UpsLeft = 0
    /\ pc \in DownPCs => UpsLeft = IF mode = "removeFirst" THEN UpTurns + 1 ELSE 0
    /\ pc \in UpPCs => DownsLeft = IF mode = "createFirst" THEN 2 ELSE 0
    /\ pc \in {"downCount", "downCheck", "downPost"} => DownsLeft = 2
    /\ pc \in {"downWait", "downError"} => DownsLeft = 1
    /\ pc \in {"downRewait", "downSettle"} => DownsLeft = 0

\* That holds in every state, and so after a step.
LEMMA Left == LeftIs /\ LeftIs'
  BY DEF LeftIs, UpsLeft, DownsLeft, UpPCs, DownPCs

\* The requests left are numbers, and so is what the job has yet to do.
LEMMA LeftTypes ==
    ASSUME IInv, InTurn
    PROVE  UpsLeft \in Nat /\ DownsLeft \in Nat
  BY Left, AsgAssumption DEF LeftIs, InTurn, IInv, LocalOK, CallInv, TurnBegan, UpPCs, DownPCs

\* A list with a worker has a first member.
LEMMA NoWorkerInNone == WorkerNames(todo) # {} => todo # <<>>
  BY DEF WorkerNames, Elements

\* A wait ends with its turns.
LEMMA InTurnStep == ASSUME IInv, InTurn, [Next]_vars PROVE InTurn'
<1>1. ASSUME EndOfCall PROVE InTurn'
  BY <1>1 DEF EndOfCall, InTurn
<1>2. CASE FirstLook
  BY <1>2 DEF FirstLook, InTurn
<1>3. CASE SecondLook
  BY <1>3 DEF SecondLook, InTurn, IInv, CallInv, NothingYet
<1>4. CASE RemoveFirst \/ CreateFirst \/ Expand
  BY <1>4, NoWorkerInNone DEF RemoveFirst, CreateFirst, Expand, InTurn
<1>5. ASSUME NEW next \in {"downCount", "upCount", "asg"}, Leave(next) PROVE InTurn'
  BY <1>5 DEF Leave, Recurse, InTurn
<1>6. CASE UpStep
  <2>1. CASE UpCount \/ UpCheck \/ UpPost \/ UpDone \/ UpNotYet \/ UpError
    BY <2>1, AsgAssumption
    DEF UpCount, UpCheck, UpPost, UpDone, UpNotYet, UpError, inFunction, InTurn
  <2>2. CASE UpRead
    BY <2>2, AsgAssumption
    DEF UpRead, NextTurn, inFunction, InTurn, IInv, LocalOK, CallInv, TurnBegan
  <2>3. CASE UpBusy \/ UpReturn
    BY <1>5, <2>3 DEF UpBusy, UpReturn, UpLeaves
  <2> QED
    BY <1>6, <2>1, <2>2, <2>3 DEF UpStep
<1>7. CASE DownStep
  <2>1. CASE DownBusy \/ DownReturn
    BY <1>5, <2>1 DEF DownBusy, DownReturn, DownLeaves
  <2>2. CASE \/ DownCount \/ DownCheck \/ DownPost \/ DownRead \/ DownWaited
             \/ DownNoError \/ DownRepost
    BY <2>2 DEF DownCount, DownCheck, DownPost, DownRead, DownWaited, DownNoError,
                DownRepost, inFunction, InTurn
  <2> QED
    BY <1>7, <2>1, <2>2 DEF DownStep
<1>8. CASE JobStep \/ AutoScale \/ UNCHANGED vars
  BY <1>8 DEF JobStep, JobWorks, JobSucceeds, JobFails, AutoScale, callUnchanged,
              localVars, vars, InTurn
<1> QED
  BY <1>1, <1>2, <1>3, <1>4, <1>6, <1>7, <1>8 DEF Next, CallStep, NothingToRepair,
     SlicePanics, Crash

\* A step that moves on in a batch without a request skips what it might ask for.
LEMMA MovesOn ==
    ASSUME UNCHANGED <<nodes, todo, inc, job>>,
           UpsLeft' \in 0 .. UpsLeft, DownsLeft' \in 0 .. DownsLeft
    PROVE  Batches!Next
  BY DEF Batches!Next, Batches!Skip, ToAdd, ToDrop, OwnJobRuns

\* A function of the call that returns goes on to the other half of the batch,
\* or leaves it.
LEMMA Leaves ==
    ASSUME IInv, InTurn, UNCHANGED clusterVars,
           \/ pc \in {"upCheck", "upSettle"} /\ UpLeaves
           \/ pc \in {"downCheck", "downSettle"} /\ DownLeaves
    PROVE  Batches!Next
<1>1. UNCHANGED <<nodes, job>> /\ ToAdd' = ToAdd /\ ToDrop' = ToDrop
  BY DEF clusterVars, ToAdd, ToDrop, OwnJobRuns
<1>2. UpsLeft \in Nat /\ DownsLeft \in Nat
  BY LeftTypes
<1>3. CASE Leave("asg")
  <2>1. /\ todo' = SubSeq(todo, inc + 1, Len(todo)) /\ inc' = 0
        /\ UpsLeft' = 0 /\ DownsLeft' = 0
    BY <1>3, Left DEF Leave, Recurse, LeftIs
  <2> QED
    BY <1>1, <2>1 DEF Batches!Next, Batches!NextBatch
<1>4. CASE pc \in {"upCheck", "upSettle"} /\ mode = "createFirst" /\ Leave("downCount")
  <2>1. pc' = "downCount" /\ mode' = mode /\ UNCHANGED <<todo, inc>>
    BY <1>4 DEF Leave
  <2>2. UpsLeft' = 0 /\ DownsLeft' = 2 /\ DownsLeft = 2
    BY <1>4, <2>1, Left DEF LeftIs, UpPCs, DownPCs
  <2> QED
    BY <1>1, <1>2, <2>1, <2>2, MovesOn
<1>5. CASE pc \in {"downCheck", "downSettle"} /\ mode = "removeFirst" /\ Leave("upCount")
  <2>1. pc' = "upCount" /\ mode' = mode /\ UNCHANGED <<todo, inc>>
    BY <1>5 DEF Leave
  <2>2. UpsLeft' = UpTurns + 1 /\ UpsLeft = UpTurns + 1 /\ DownsLeft' = 0
    BY <1>5, <2>1, Left DEF LeftIs, UpPCs, DownPCs
  <2> QED
    BY <1>1, <1>2, <2>1, <2>2, MovesOn
<1> QED
  BY <1>3, <1>4, <1>5 DEF UpLeaves, DownLeaves

\* The names that DeleteNodes posts are the workers of the batch.
LEMMA BatchIs == ASSUME IInv PROVE WorkerNames(Batch) = Batches!InBatch
<1>1. todo \in Seq(Nodes) /\ inc \in 0 .. Len(todo)
  BY DEF IInv, LocalOK
<1>2. DOMAIN Batch = 1 .. inc /\ \A i \in 1 .. inc : Batch[i] = todo[i]
  BY <1>1 DEF Batch
<1> QED
  BY <1>2 DEF WorkerNames, Elements, Batches!InBatch

\* The portal takes a request only when no job runs.
LEMMA Accepted ==
    ASSUME JobStatus, NEW j \in Job, j.own, Accept(j)
    PROVE  /\ ToAdd = 0 /\ ToDrop = {} /\ ToAdd' = j.add /\ ToDrop' = j.drop
           /\ UNCHANGED nodes
<1>1. job = NoJob /\ job' = j /\ UNCHANGED nodes
  BY DEF Accept, JobStatus
<1>2. j # NoJob
  BY AsgAssumption
<1> QED
  BY <1>1, <1>2 DEF ToAdd, ToDrop, OwnJobRuns

\* A post of IncreaseSize asks for new nodes, and one of DeleteNodes for removal.
LEMMA AsksUp ==
    ASSUME IInv, JobStatus, InTurn, PostUp, UNCHANGED <<todo, inc>>,
           UpsLeft' \in 0 .. UpsLeft - 1, DownsLeft' = DownsLeft
    PROVE  Batches!Next
<1>1. UpsLeft \in Nat /\ DownsLeft \in Nat
  BY LeftTypes
<1>2. CASE UNCHANGED clusterVars
  BY <1>1, <1>2, MovesOn DEF clusterVars
<1>3. ASSUME NEW n \in 1 .. inc, Accept([add |-> n, drop |-> {}, own |-> TRUE])
      PROVE  Batches!Next
  <2>1. [add |-> n, drop |-> {}, own |-> TRUE] \in Job
    BY AccountTypes DEF Job
  <2>2. ToAdd = 0 /\ ToDrop = {} /\ ToAdd' = n /\ ToDrop' = {} /\ UNCHANGED nodes
    BY <1>3, <2>1, Accepted
  <2> QED
    BY <2>2 DEF Batches!Next, Batches!AskForNodes, Batches!NothingLeft
<1> QED
  BY <1>2, <1>3 DEF PostUp

LEMMA AsksDown ==
    ASSUME IInv, JobStatus, InTurn, PerformScaleDown, UNCHANGED <<todo, inc>>,
           UpsLeft' = UpsLeft, DownsLeft' \in 0 .. DownsLeft - 1
    PROVE  Batches!Next
<1>1. UpsLeft \in Nat /\ DownsLeft \in Nat
  BY LeftTypes
<1>2. CASE UNCHANGED clusterVars
  BY <1>1, <1>2, MovesOn DEF clusterVars
<1>3. ASSUME Accept([add |-> 0, drop |-> WorkerNames(Batch), own |-> TRUE])
      PROVE  Batches!Next
  <2>1. [add |-> 0, drop |-> WorkerNames(Batch), own |-> TRUE] \in Job
    BY DEF Job, WorkerNames
  <2>2. /\ ToAdd = 0 /\ ToDrop = {} /\ ToAdd' = 0 /\ ToDrop' = Batches!InBatch
        /\ UNCHANGED nodes
    BY <1>3, <2>1, Accepted, BatchIs
  <2> QED
    BY <2>2 DEF Batches!Next, Batches!AskForRemoval, Batches!NothingLeft
<1> QED
  BY <1>2, <1>3 DEF PerformScaleDown

\* The steps of IncreaseSize.
LEMMA UpBatches == ASSUME IInv, JobStatus, InTurn, UpStep PROVE Batches!Next
<1> USE Left, LeftTypes, AsgAssumption DEF UpPCs, DownPCs
<1>1. InTurn'
  BY InTurnStep DEF Next, CallStep
<1>2. iter \in Nat /\ UpTurns \in Nat
  BY DEF IInv, LocalOK
<1>3. CASE UpCount \/ UpCheck \/ UpDone \/ UpNotYet \/ UpRead
  <2>1. UNCHANGED <<nodes, todo, inc, job, mode>>
    BY <1>3 DEF UpCount, UpCheck, UpDone, UpNotYet, UpRead, inFunction, clusterVars
  <2>2. UpsLeft' \in 0 .. UpsLeft
    BY <1>1, <1>2, <1>3 DEF UpCount, UpCheck, UpDone, UpNotYet, UpRead, NextTurn, LeftIs, InTurn
  <2>3. DownsLeft' \in 0 .. DownsLeft
    BY <1>3, <2>1 DEF UpCount, UpCheck, UpDone, UpNotYet, UpRead, LeftIs
  <2> QED
    BY <2>1, <2>2, <2>3, MovesOn
<1>4. CASE UpBusy \/ UpReturn
  BY <1>4, Leaves DEF UpBusy, UpReturn
<1>5. CASE UpPost
  <2>1. PostUp /\ UNCHANGED <<todo, inc, mode, iter>> /\ pc = "upPost" /\ pc' = "upWait"
    BY <1>5 DEF UpPost, inFunction
  <2>2. UpsLeft' \in 0 .. UpsLeft - 1 /\ DownsLeft' = DownsLeft
    BY <1>1, <1>2, <2>1 DEF LeftIs, InTurn
  <2> QED
    BY <2>1, <2>2, AsksUp
<1>6. CASE UpError
  <2>1. UNCHANGED <<todo, inc, mode, iter>> /\ pc = "upError" /\ pc' = "upRead"
    BY <1>6 DEF UpError, inFunction
  <2>2. UpsLeft' \in 0 .. UpsLeft - 1 /\ DownsLeft' = DownsLeft
    BY <1>2, <2>1 DEF LeftIs, IInv, CallInv, TurnBegan
  <2>3. CASE PostUp
    BY <2>1, <2>2, <2>3, AsksUp
  <2>4. CASE UNCHANGED clusterVars
    BY <2>1, <2>2, <2>4, MovesOn DEF clusterVars
  <2> QED
    BY <1>6, <2>3, <2>4 DEF UpError
<1> QED
  BY <1>3, <1>4, <1>5, <1>6 DEF UpStep

\* The steps of DeleteNodes.
LEMMA DownBatches == ASSUME IInv, JobStatus, InTurn, DownStep PROVE Batches!Next
<1> USE Left, LeftTypes, AsgAssumption DEF UpPCs, DownPCs
<1>1. CASE DownCount \/ DownCheck \/ DownRead \/ DownWaited \/ DownNoError
  <2>1. UNCHANGED <<nodes, todo, inc, job, mode>>
    BY <1>1 DEF DownCount, DownCheck, DownRead, DownWaited, DownNoError, inFunction,
                clusterVars
  <2>2. pc \in DownPCs /\ pc' \in DownPCs
    BY <1>1 DEF DownCount, DownCheck, DownRead, DownWaited, DownNoError
  <2>3. UpsLeft' \in 0 .. UpsLeft
    BY <2>1, <2>2 DEF LeftIs
  <2>4. DownsLeft' \in 0 .. DownsLeft
    BY <1>1 DEF DownCount, DownCheck, DownRead, DownWaited, DownNoError, LeftIs
  <2> QED
    BY <2>1, <2>3, <2>4, MovesOn
<1>2. CASE DownBusy \/ DownReturn
  BY <1>2, Leaves DEF DownBusy, DownReturn
<1>3. CASE DownPost \/ DownRepost
  <2>1. /\ PerformScaleDown /\ UNCHANGED <<todo, inc, mode>>
        /\ \/ pc = "downPost" /\ pc' = "downWait"
           \/ pc = "downError" /\ pc' = "downRewait"
    BY <1>3 DEF DownPost, DownRepost, inFunction
  <2>2. UpsLeft' = UpsLeft /\ DownsLeft' \in 0 .. DownsLeft - 1
    BY <2>1 DEF LeftIs
  <2> QED
    BY <2>1, <2>2, AsksDown
<1> QED
  BY <1>1, <1>2, <1>3 DEF DownStep

\* The steps of RunOnce and AsgRepairNodes.
LEMMA CallBatches ==
    ASSUME IInv, JobStatus, InTurn
    PROVE  /\ EndOfCall => Batches!Next
           /\ FirstLook \/ SecondLook \/ RemoveFirst \/ CreateFirst \/ Expand => Batches!Next
<1> USE Left DEF UpPCs, DownPCs
<1>1. UpsLeft \in Nat /\ DownsLeft \in Nat
  BY LeftTypes
<1>2. ASSUME EndOfCall PROVE Batches!Next
  <2>1. ~OwnJobRuns'
    BY <1>2 DEF EndOfCall, OwnJobRuns, IInv, ClusterOK, Job
  <2>2. ToAdd' = 0 /\ ToDrop' = {}
    BY <2>1 DEF ToAdd, ToDrop
  <2>3. UpsLeft' = 0 /\ DownsLeft' = 0
    BY <1>2 DEF EndOfCall, LeftIs
  <2> QED
    BY <1>2, <2>2, <2>3 DEF EndOfCall, Batches!Next, Batches!End
<1>3. ASSUME FirstLook \/ CreateFirst PROVE Batches!Next
  <2>1. UNCHANGED <<nodes, todo, inc, job>>
    BY <1>3 DEF FirstLook, CreateFirst, clusterVars
  <2>2. UpsLeft' = 0 /\ DownsLeft' = 0
    BY <1>3 DEF FirstLook, CreateFirst, LeftIs
  <2> QED
    BY <1>1, <2>1, <2>2, MovesOn
<1>4. ASSUME SecondLook PROVE Batches!Next
  <2>1. todo = <<>> /\ ~OwnJobRuns /\ UNCHANGED <<nodes, job, inc>>
    BY <1>4 DEF SecondLook, IInv, CallInv, NothingYet, clusterVars
  <2>2. ToAdd = 0 /\ ToDrop = {} /\ ToAdd' = 0 /\ ToDrop' = {}
    BY <2>1 DEF ToAdd, ToDrop, OwnJobRuns
  <2>3. UpsLeft' = UpsLeft /\ DownsLeft' = DownsLeft
    BY <1>4 DEF SecondLook, LeftIs
  <2>4. todo' \in Seq(nodes) /\ NoRepeats(todo')
    <3>1. PICK notReady \in SUBSET nodes :
              todo' \in {s \in [1 .. Cardinality(CommonNodes(seen, notReady)) ->
                                  CommonNodes(seen, notReady)] :
                           Elements(s) = CommonNodes(seen, notReady)}
      BY <1>4 DEF SecondLook
    <3> DEFINE common == CommonNodes(seen, notReady)
    <3>2. common \subseteq nodes /\ common \in SUBSET Nodes
      BY DEF CommonNodes, IInv, ClusterOK
    <3> HIDE DEF common
    <3>3. todo' \in [1 .. Cardinality(common) -> common] /\ Elements(todo') = common
      BY <3>1 DEF common
    <3>4. Cardinality(common) \in Nat
      BY <3>2, AsgAssumption, FS_Union, FS_Subset, FS_CardinalityType DEF Nodes
    <3>5. NoRepeats(todo')
      BY <3>2, <3>3, ListOfSet
    <3> QED
      BY <3>2, <3>3, <3>4, <3>5
  <2> QED
    BY <2>1, <2>2, <2>3, <2>4
    DEF Batches!Next, Batches!Start, Batches!NothingLeft, Batches!NoRepeats, NoRepeats
<1>5. ASSUME RemoveFirst \/ Expand PROVE Batches!Next
  <2>1. UNCHANGED <<nodes, todo, job>>
    BY <1>5 DEF RemoveFirst, Expand, clusterVars
  <2>2. ToAdd' = ToAdd /\ ToDrop' = ToDrop
    BY <2>1 DEF ToAdd, ToDrop, OwnJobRuns
  <2>3. inc = 0 /\ UpsLeft = 0 /\ DownsLeft = 0
    BY <1>5 DEF RemoveFirst, Expand, InTurn, LeftIs
  <2>4. UpsLeft' = UpTurns + 1 /\ DownsLeft' = 2
    BY <1>5 DEF RemoveFirst, Expand, InTurn, LeftIs
  <2>5. inc' \in 0 .. Len(todo)
    BY <1>5, <2>1, BatchInv DEF IInv, LocalOK
  <2>6. todo # <<>>
    BY <1>5, NoWorkerInNone DEF RemoveFirst, Expand, InTurn
  <2> QED
    BY <2>1, <2>2, <2>3, <2>4, <2>5, <2>6
    DEF Batches!Next, Batches!BeginBatch, Batches!NoBatch
<1> QED
  BY <1>2, <1>3, <1>4, <1>5

\* The steps of everyone else: of a job, of the auto scaler, and none.
LEMMA OtherBatches ==
    ASSUME IInv, JobStatus, InTurn, JobStep \/ AutoScale \/ UNCHANGED vars
    PROVE  Batches!Next
<1>1. UpsLeft \in Nat /\ DownsLeft \in Nat
  BY LeftTypes
<1>2. UpsLeft' = UpsLeft /\ DownsLeft' = DownsLeft /\ UNCHANGED <<todo, inc>>
  <2>1. UNCHANGED <<pc, mode, iter, todo, inc>>
    BY DEF JobStep, JobWorks, JobSucceeds, JobFails, AutoScale, callUnchanged, localVars, vars
  <2> QED
    BY <2>1 DEF UpsLeft, DownsLeft
<1>3. CASE UNCHANGED vars
  BY <1>1, <1>2, <1>3, MovesOn DEF vars, clusterVars
<1>4. CASE AutoScale
  <2>1. ~OwnJobRuns /\ ~OwnJobRuns' /\ UNCHANGED nodes
    BY <1>4 DEF AutoScale, OwnJobRuns, Succeeded, JobStatus
  <2>2. ToAdd' = ToAdd /\ ToDrop' = ToDrop
    BY <2>1 DEF ToAdd, ToDrop
  <2> QED
    BY <1>1, <1>2, <2>1, <2>2 DEF Batches!Next, Batches!Skip
<1>5. CASE JobSucceeds \/ JobFails
  <2>1. job' = NoJob /\ UNCHANGED nodes
    BY <1>5 DEF JobSucceeds, JobFails
  <2>2. ToAdd' = 0 /\ ToDrop' = {}
    BY <2>1 DEF ToAdd, ToDrop, OwnJobRuns
  <2> QED
    BY <1>2, <2>1, <2>2 DEF Batches!Next, Batches!JobEnds
<1>6. CASE JobWorks
  <2>1. job \in Job /\ job # NoJob
    BY <1>6 DEF JobWorks, IInv, ClusterOK
  <2>2. \/ /\ job.add > 0 /\ job' = [job EXCEPT !.add = job.add - 1]
           /\ \E w \in Workers \ nodes : nodes' = nodes \union {w}
        \/ \E w \in job.drop :
              nodes' = nodes \ {w} /\ job' = [job EXCEPT !.drop = job.drop \ {w}]
    BY <1>6 DEF JobWorks
  <2>3. job' \in Job /\ job' # NoJob /\ job'.own = job.own
    <3>1. job' \in Job /\ job'.own = job.own
      BY <2>1, <2>2 DEF Job
    <3> QED
      BY <3>1, AsgAssumption
  <2>4. CASE ~job.own
    <3>1. ToAdd = 0 /\ ToDrop = {} /\ ToAdd' = 0 /\ ToDrop' = {}
      BY <2>3, <2>4 DEF ToAdd, ToDrop, OwnJobRuns
    <3>2. \E w \in Workers : nodes' \in {nodes \union {w}, nodes \ {w}}
      BY <2>1, <2>2 DEF Job
    <3> QED
      BY <1>2, <3>1, <3>2 DEF Batches!Next, Batches!Others, Batches!NothingLeft
  <2>5. CASE job.own
    <3>1. /\ ToAdd = job.add /\ ToDrop = job.drop
          /\ ToAdd' = job'.add /\ ToDrop' = job'.drop
      BY <2>1, <2>3, <2>5 DEF ToAdd, ToDrop, OwnJobRuns
    <3>2. CASE /\ job.add > 0 /\ job' = [job EXCEPT !.add = job.add - 1]
               /\ \E w \in Workers \ nodes : nodes' = nodes \union {w}
      <4>1. job'.add = job.add - 1 /\ job'.drop = job.drop
        BY <2>1, <3>2 DEF Job
      <4> QED
        BY <1>2, <3>1, <3>2, <4>1 DEF Batches!Next, Batches!JobWorks
    <3>3. ASSUME NEW w \in job.drop, nodes' = nodes \ {w},
                 job' = [job EXCEPT !.drop = job.drop \ {w}]
          PROVE  Batches!Next
      <4>1. job'.add = job.add /\ job'.drop = job.drop \ {w}
        BY <2>1, <3>3 DEF Job
      <4> QED
        BY <1>2, <3>1, <3>3, <4>1 DEF Batches!Next, Batches!JobWorks
    <3> QED
      BY <2>2, <3>2, <3>3
  <2> QED
    BY <2>1, <2>4, <2>5 DEF Job
<1> QED
  BY <1>3, <1>4, <1>5, <1>6 DEF JobStep

\* The previous design does what BatchRepair promises, for any number of nodes,
\* turns, jobs, failures and calls, whatever the portal answers and however late:
\* it goes through its list without leaving out or repeating a node, asks for no
\* more nodes than the batch has and only for the removal of its workers, and
\* never more often than the waits have turns.
THEOREM ImplementsBatchRepair == Spec => BatchSpec
<1>1. Init => Batches!Init
  <2> SUFFICES ASSUME Init PROVE Batches!Init
    OBVIOUS
  <2>1. UpsLeft = 0 /\ DownsLeft = 0
    BY Left DEF Init, LeftIs
  <2>2. ToAdd = 0 /\ ToDrop = {}
    BY DEF Init, ToAdd, ToDrop, OwnJobRuns
  <2> QED
    BY <2>1, <2>2 DEF Init, Batches!Init, Batches!NoBatch, Batches!NothingLeft
<1>2. Init => InTurn
  BY DEF Init, InTurn
<1>3. IInv /\ JobStatus /\ InTurn /\ [Next]_vars => InTurn' /\ [Batches!Next]_(Batches!vars)
  <2> SUFFICES ASSUME IInv, JobStatus, InTurn, [Next]_vars
               PROVE  InTurn' /\ Batches!Next
    OBVIOUS
  <2>1. InTurn'
    BY InTurnStep
  <2>2. Batches!Next
    BY CallBatches, UpBatches, DownBatches, OtherBatches
    DEF Next, CallStep, NothingToRepair, SlicePanics, Crash
  <2> QED
    BY <2>1, <2>2
<1> QED
  BY <1>1, <1>2, <1>3, QuietInductive, PTL DEF Spec, BatchSpec, Batches!Spec

=============================================================================
