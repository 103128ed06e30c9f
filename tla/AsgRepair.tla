-------------------------------- MODULE AsgRepair --------------------------------
(***************************************************************************)
(* The previous design of the repair (core/static_autorepair.go and        *)
(* core/util.go): RunOnce looks twice for nodes that are not ready and     *)
(* AsgRepairNodes replaces those it saw both times, batch by batch, with   *)
(* IncreaseSize and DeleteNodes.  One goroutine runs it; pc is where it    *)
(* is.  Between two steps there are sleeps of seconds to minutes, in which *)
(* the portal, the auto scaler and the kubelets act.                       *)
(*                                                                         *)
(* Kubelets report at any time, so that each look finds any of the nodes   *)
(* not ready.  A list of nodes is a sequence only where its order matters. *)
(* ListedOnce, CreatesBefore, RecurseSkips, WaitingOnce and TurnUncounted  *)
(* are mutants of the definitions that follow them.                        *)
(***************************************************************************)
EXTENDS Integers, Sequences, FiniteSets

CONSTANTS
    Workers,      \* names of nodes that contain "worker", used or not
    Masters,      \* names of the other nodes
    MaxSize,      \* max_node_group_size
    UpTurns,      \* turns of the wait in IncreaseSize, 30
    DownTurns,    \* turns of each wait in DeleteNodes, 6
    MaxAutoJobs,  \* bound: jobs of the auto scaler
    MaxFailures,  \* bound: jobs that end in ERROR
    MaxRuns,      \* bound: calls of RunOnce
    NoJob         \* not a job

Nodes == Workers \union Masters

\* What a job still has to do: nodes to add, workers to drop; own: the present
\* call of RunOnce asked for it.
Job == [add : Nat, drop : SUBSET Workers, own : BOOLEAN]

ASSUME AsgAssumption ==
    /\ IsFiniteSet(Workers) /\ IsFiniteSet(Masters)
    /\ Workers \intersect Masters = {}
    /\ MaxSize \in Nat /\ UpTurns \in Nat /\ DownTurns \in Nat
    /\ MaxAutoJobs \in Nat /\ MaxFailures \in Nat /\ MaxRuns \in Nat
    /\ NoJob \notin Job

VARIABLES
    nodes,     \* what AllNodeLister lists
    status,    \* of the cluster, at the portal
    job,       \* the job that runs
    autoJobs,  \* jobs of the auto scaler so far
    failures,  \* failed jobs so far
    pc,        \* where the goroutine is
    seen,      \* notReadyNodes, of which the second look leaves CommonNodes
    todo,      \* toBeRepairedNodes
    inc,       \* incSize
    mode,      \* the branch of AsgRepairNodes
    prev,      \* prevSize
    curr,      \* currSize
    iter,      \* iter
    runs,      \* calls of RunOnce so far
    baseline,  \* history: the number of workers when this call began to repair
    spared,    \* history: nodes ready at one of the two looks
    done,      \* history: workers that jobs of this call dropped
    quiet      \* history: nothing came in the way of this call so far

clusterVars == <<nodes, status, job, autoJobs, failures>>
localVars == <<seen, todo, inc, mode, prev, curr, iter, runs>>
historyVars == <<baseline, spared, done, quiet>>
vars == <<clusterVars, pc, localVars, historyVars>>

UpPCs == {"upCount", "upCheck", "upPost", "upWait", "upError", "upRead", "upSettle"}
DownPCs ==
    {"downCount", "downCheck", "downPost", "downWait", "downError",
     "downRewait", "downSettle"}

TypeOK ==
    /\ nodes \subseteq Nodes
    /\ status \in {"SUCCEEDED", "SCALING", "ERROR"}
    /\ job \in Job \union {NoJob}
    /\ autoJobs \in 0 .. MaxAutoJobs /\ failures \in 0 .. MaxFailures
    /\ pc \in {"idle", "sleep", "asg", "calc"} \union UpPCs \union DownPCs
    /\ seen \subseteq Nodes /\ todo \in Seq(Nodes)
    /\ inc \in 0 .. Len(todo)
    /\ mode \in {"none", "createFirst", "removeFirst"}
    /\ prev \in Nat /\ curr \in Nat
    /\ iter \in Nat /\ (iter <= UpTurns \/ iter <= DownTurns)
    /\ runs \in 0 .. MaxRuns
    /\ baseline \in Nat /\ spared \subseteq Nodes /\ done \subseteq Workers
    /\ quiet \in BOOLEAN

-----------------------------------------------------------------------------
(* Counting nodes. *)

WorkerCount(S) == Cardinality(S \intersect Workers)
Elements(s) == {s[i] : i \in DOMAIN s}

\* WorkerNodeCount(nodes): the names, and by WorkerCount their number
WorkerNames(s) == Elements(s) \intersect Workers

Size == WorkerCount(nodes)
ListedOnce(notReadyNodes, stillNotReadyNodes) == notReadyNodes
CommonNodes(notReadyNodes, stillNotReadyNodes) ==
    notReadyNodes \intersect stillNotReadyNodes
Batch == SubSeq(todo, 1, inc)

CalcExpandSize ==
    LET allowed == MaxSize - Size
        desired == WorkerCount(Elements(todo))
    IN  IF allowed >= desired THEN desired ELSE allowed

-----------------------------------------------------------------------------
(* The portal. *)

\* What the checks find if the answer shows the status.  It need not: it may be no
\* JSON, a 401 or a list without the cluster, and then both checks are FALSE.  So
\* the actions for a check that is FALSE do not ask what the status is.
Succeeded == status = "SUCCEEDED"
InError == status = "ERROR"
OwnJobRuns == job # NoJob /\ job.own

Accept(j) ==
    /\ status # "SCALING"
    /\ status' = "SCALING" /\ job' = j
    /\ UNCHANGED <<nodes, autoJobs, failures>>

\* The posts of IncreaseSize, from inc downwards while the answer is that the
\* quota is reached.  The portal takes one of them or none.
PostUp ==
    \/ \E n \in 1 .. inc :
          /\ Size + n <= Cardinality(Workers)
          /\ Accept([add |-> n, drop |-> {}, own |-> TRUE])
    \/ UNCHANGED clusterVars

PerformScaleDown ==
    \/ Accept([add |-> 0, drop |-> WorkerNames(Batch), own |-> TRUE])
    \/ UNCHANGED clusterVars

-----------------------------------------------------------------------------
(* RunOnce *)

\* The job of a call that ends goes on, as one of nobody.
EndOfCall ==
    /\ job' = IF job = NoJob THEN NoJob ELSE [job EXCEPT !.own = FALSE]
    /\ UNCHANGED <<nodes, status, autoJobs, failures>>
    /\ pc' = "idle" /\ seen' = {} /\ todo' = <<>> /\ inc' = 0
    /\ mode' = "none" /\ prev' = 0 /\ curr' = 0 /\ iter' = 0
    /\ baseline' = 0 /\ spared' = {} /\ done' = {} /\ quiet' = FALSE
    /\ UNCHANGED runs

FirstLook ==
    /\ pc = "idle" /\ runs < MaxRuns
    /\ seen' \in (SUBSET nodes) \ {{}}
    /\ pc' = "sleep" /\ runs' = runs + 1
    /\ spared' = nodes \ seen'
    /\ UNCHANGED <<clusterVars, todo, inc, mode, prev, curr, iter, baseline,
                   done, quiet>>

\* The lists come in any order.  A master among the nodes makes the slices of
\* AsgRepairNodes shorter or longer than the number of workers in them.
SecondLook ==
    /\ pc = "sleep"
    /\ \E notReady \in SUBSET nodes :
          LET common == CommonNodes(seen, notReady) IN
          /\ common # {}
          /\ seen' = common
          /\ todo' \in {s \in [1 .. Cardinality(common) -> common] :
                            Elements(s) = common}
          /\ spared' = spared \union (nodes \ notReady)
          /\ quiet' = (Succeeded /\ common \subseteq Workers)
    /\ pc' = "asg" /\ baseline' = Size
    /\ UNCHANGED <<clusterVars, inc, mode, prev, curr, iter, runs, done>>

\* No node was not ready both times, or no worker is left to repair.
NothingToRepair ==
    /\ \/ pc = "sleep" /\ \E notReady \in SUBSET nodes :
                              CommonNodes(seen, notReady) = {}
       \/ pc = "asg" /\ WorkerNames(todo) = {}
    /\ EndOfCall

-----------------------------------------------------------------------------
(* AsgRepairNodes *)

CreatesBefore ==
    /\ pc = "asg" /\ WorkerNames(todo) # {} /\ Size >= MaxSize
    /\ mode' = "createFirst" /\ inc' = 1 /\ pc' = "upCount"
    /\ UNCHANGED <<clusterVars, seen, todo, prev, curr, iter, runs, historyVars>>

RemoveFirst ==
    /\ pc = "asg" /\ WorkerNames(todo) # {} /\ Size >= MaxSize
    /\ mode' = "removeFirst" /\ inc' = 1 /\ pc' = "downCount"
    /\ UNCHANGED <<clusterVars, seen, todo, prev, curr, iter, runs, historyVars>>

CreateFirst ==
    /\ pc = "asg" /\ WorkerNames(todo) # {} /\ Size < MaxSize
    /\ mode' = "createFirst" /\ pc' = "calc"
    /\ UNCHANGED <<clusterVars, seen, todo, inc, prev, curr, iter, runs, historyVars>>

Expand ==
    /\ pc = "calc" /\ CalcExpandSize >= 0
    /\ inc' = CalcExpandSize /\ pc' = "upCount"
    /\ UNCHANGED <<clusterVars, seen, todo, mode, prev, curr, iter, runs, historyVars>>

\* toBeRepairedNodes[0:incSize] with a negative incSize: the process ends.
SlicePanics ==
    /\ pc = "calc" /\ CalcExpandSize < 0
    /\ EndOfCall

RecurseSkips ==
    /\ pc' = "asg" /\ mode' = "none" /\ inc' = 0
    /\ todo' = SubSeq(todo, inc + 2, Len(todo))

\* AsgRepairNodes(toBeRepairedNodes[incSize:])
Recurse ==
    /\ pc' = "asg" /\ mode' = "none" /\ inc' = 0
    /\ todo' = SubSeq(todo, inc + 1, Len(todo))

-----------------------------------------------------------------------------
(* IncreaseSize *)

\* What the steps inside a function leave alone, and where it comes back to.
inFunction == UNCHANGED <<seen, todo, inc, mode, runs, baseline, spared, done>>

Leave(next) ==
    /\ IF next = "asg" THEN Recurse ELSE pc' = next /\ UNCHANGED <<todo, inc, mode>>
    /\ iter' = 0 /\ prev' = 0 /\ curr' = 0
    /\ UNCHANGED <<seen, runs, baseline, spared, done>>

UpLeaves == Leave(IF mode = "createFirst" THEN "downCount" ELSE "asg")

UpCount ==
    /\ pc = "upCount"
    /\ prev' = Size /\ curr' = Size /\ iter' = 0
    /\ pc' = "upCheck"
    /\ UNCHANGED <<clusterVars, quiet>> /\ inFunction

UpCheck ==
    /\ pc = "upCheck" /\ Succeeded
    /\ pc' = "upPost"
    /\ UNCHANGED <<clusterVars, prev, curr, iter, quiet>> /\ inFunction

UpBusy ==
    /\ pc = "upCheck"
    /\ UpLeaves /\ quiet' = FALSE
    /\ UNCHANGED clusterVars

UpPost ==
    /\ pc = "upPost"
    /\ PostUp
    /\ pc' = "upWait"
    /\ quiet' = (quiet /\ (inc > 0 => job' # job /\ job'.add = inc))
    /\ UNCHANGED <<prev, curr, iter>> /\ inFunction

WaitingOnce(target, turns) == curr # target /\ iter <= turns
Waiting(target, turns) == curr # target /\ iter < turns

UpDone ==
    /\ pc = "upWait" /\ (~Waiting(prev + inc, UpTurns) \/ Succeeded)
    /\ pc' = "upSettle"
    /\ UNCHANGED <<clusterVars, prev, curr, iter, quiet>> /\ inFunction

UpNotYet ==
    /\ pc = "upWait" /\ Waiting(prev + inc, UpTurns)
    /\ pc' = "upError"
    /\ UNCHANGED <<clusterVars, prev, curr, iter, quiet>> /\ inFunction

\* Posted again in every turn that finds ERROR.
UpError ==
    /\ pc = "upError"
    /\ (InError /\ PostUp) \/ UNCHANGED clusterVars
    /\ pc' = "upRead"
    /\ UNCHANGED <<prev, curr, iter, quiet>> /\ inFunction

TurnUncounted == iter
NextTurn == iter + 1

UpRead ==
    /\ pc = "upRead"
    /\ curr' = Size /\ iter' = NextTurn
    /\ pc' = "upWait"
    /\ UNCHANGED <<clusterVars, prev, quiet>> /\ inFunction

\* The last sleep is over, whatever became of the job.
UpReturn ==
    /\ pc = "upSettle"
    /\ UpLeaves /\ quiet' = (quiet /\ ~OwnJobRuns)
    /\ UNCHANGED clusterVars

-----------------------------------------------------------------------------
(* DeleteNodes *)

decSize == WorkerCount(Elements(Batch))
DownLeaves == Leave(IF mode = "removeFirst" THEN "upCount" ELSE "asg")

DownCount ==
    /\ pc = "downCount"
    /\ prev' = Size /\ curr' = Size /\ iter' = 0
    /\ pc' = "downCheck"
    /\ UNCHANGED <<clusterVars, quiet>> /\ inFunction

DownCheck ==
    /\ pc = "downCheck" /\ Succeeded
    /\ pc' = "downPost"
    /\ UNCHANGED <<clusterVars, prev, curr, iter, quiet>> /\ inFunction

DownBusy ==
    /\ pc = "downCheck"
    /\ DownLeaves /\ quiet' = FALSE
    /\ UNCHANGED clusterVars

DownPost ==
    /\ pc = "downPost"
    /\ PerformScaleDown
    /\ pc' = "downWait"
    /\ quiet' = (quiet /\ job' # job)
    /\ UNCHANGED <<prev, curr, iter>> /\ inFunction

\* One turn of either wait.
DownRead ==
    /\ pc \in {"downWait", "downRewait"} /\ Waiting(prev - decSize, DownTurns)
    /\ curr' = Size /\ iter' = NextTurn
    /\ UNCHANGED <<clusterVars, pc, prev, quiet>> /\ inFunction

DownWaited ==
    /\ ~Waiting(prev - decSize, DownTurns)
    /\ \/ pc = "downWait" /\ pc' = "downError"
       \/ pc = "downRewait" /\ pc' = "downSettle"
    /\ UNCHANGED <<clusterVars, prev, curr, iter, quiet>> /\ inFunction

DownNoError ==
    /\ pc = "downError"
    /\ pc' = "downSettle"
    /\ UNCHANGED <<clusterVars, prev, curr, iter, quiet>> /\ inFunction

DownRepost ==
    /\ pc = "downError" /\ InError
    /\ PerformScaleDown
    /\ pc' = "downRewait" /\ iter' = 0
    /\ UNCHANGED <<prev, curr, quiet>> /\ inFunction

DownReturn ==
    /\ pc = "downSettle"
    /\ DownLeaves /\ quiet' = (quiet /\ ~OwnJobRuns)
    /\ UNCHANGED clusterVars

-----------------------------------------------------------------------------
(* Everyone else. *)

callUnchanged == UNCHANGED <<pc, localVars, baseline, spared>>

\* The process is killed.
Crash == pc # "idle" /\ EndOfCall

\* A job adds and drops one node at a time.
JobWorks ==
    /\ job # NoJob
    /\ \/ /\ job.add > 0
          /\ \E w \in Workers \ nodes :
                nodes' = nodes \union {w}
          /\ job' = [job EXCEPT !.add = @ - 1]
          /\ UNCHANGED done
       \/ \E w \in job.drop :
             /\ nodes' = nodes \ {w}
             /\ job' = [job EXCEPT !.drop = @ \ {w}]
             /\ done' = IF job.own THEN done \union {w} ELSE done
    /\ UNCHANGED <<status, autoJobs, failures, quiet>> /\ callUnchanged

JobSucceeds ==
    /\ job # NoJob /\ job.add = 0 /\ job.drop = {}
    /\ status' = "SUCCEEDED" /\ job' = NoJob
    /\ UNCHANGED <<nodes, autoJobs, failures, done, quiet>>
    /\ callUnchanged

\* It leaves undone what it has not done.
JobFails ==
    /\ job # NoJob /\ failures < MaxFailures
    /\ status' = "ERROR" /\ job' = NoJob /\ failures' = failures + 1
    /\ quiet' = FALSE
    /\ UNCHANGED <<nodes, autoJobs, done>> /\ callUnchanged

AutoScale ==
    /\ autoJobs < MaxAutoJobs /\ Succeeded
    /\ status' = "SCALING" /\ autoJobs' = autoJobs + 1
    /\ \/ \E n \in 1 .. MaxSize - Size :
             /\ Size + n <= Cardinality(Workers)
             /\ job' = [add |-> n, drop |-> {}, own |-> FALSE]
       \/ \E W \in SUBSET (nodes \intersect Workers) :
             job' = [add |-> 0, drop |-> W, own |-> FALSE]
    /\ quiet' = FALSE
    /\ UNCHANGED <<nodes, failures, done>> /\ callUnchanged

-----------------------------------------------------------------------------
Init ==
    /\ nodes \in SUBSET Nodes
    /\ status = "SUCCEEDED" /\ job = NoJob /\ autoJobs = 0 /\ failures = 0
    /\ pc = "idle" /\ seen = {} /\ todo = <<>> /\ inc = 0 /\ mode = "none"
    /\ prev = 0 /\ curr = 0 /\ iter = 0 /\ runs = 0
    /\ baseline = 0 /\ spared = {} /\ done = {} /\ quiet = FALSE

UpStep ==
    \/ UpCount \/ UpCheck \/ UpBusy \/ UpPost \/ UpDone \/ UpNotYet \/ UpError
    \/ UpRead \/ UpReturn

DownStep ==
    \/ DownCount \/ DownCheck \/ DownBusy \/ DownPost \/ DownRead \/ DownWaited
    \/ DownNoError \/ DownRepost \/ DownReturn

CallStep ==
    \/ SecondLook \/ NothingToRepair \/ RemoveFirst \/ CreateFirst \/ Expand
    \/ SlicePanics \/ UpStep \/ DownStep

JobStep == JobWorks \/ JobSucceeds \/ JobFails

Next ==
    \/ FirstLook \/ CallStep \/ Crash
    \/ JobStep \/ AutoScale

Spec == Init /\ [][Next]_vars

\* Nobody but the goroutine has to do anything.
FairSpec == Spec /\ WF_vars(CallStep)

-----------------------------------------------------------------------------
(* Properties. *)

\* The second look is what protects a node that came back: no job of a call
\* drops a worker that was ready at one of the two looks of the call, however
\* many batches later, and none drops a node that is not a worker.
ReadyAtALookIsSpared == OwnJobRuns => job.drop \intersect spared = {}

\* As long as nothing gets in the way and every job ends within the wait for
\* it, the workers never get more than the maximum and what there was.
WithinMax ==
    quiet => Size <= IF baseline >= MaxSize THEN baseline ELSE MaxSize

\* A call that nothing got in the way of ends with as many workers as there
\* were, and without one of those that it was called for.
QuietRepairReplaces ==
    [][quiet /\ NothingToRepair /\ pc = "asg"
         => Size = baseline /\ done = seen]_vars

\* What the job of the call still has to do.
ToAdd == IF OwnJobRuns THEN job.add ELSE 0
ToDrop == IF OwnJobRuns THEN job.drop ELSE {}

\* How often the present batch may still post: for new nodes in every turn of
\* the wait and before it, for its removal before the first wait and after it.
UpsLeft ==
    CASE pc \in {"upCount", "upCheck", "upPost"} -> UpTurns + 1
      [] pc \in {"upWait", "upError"} -> UpTurns - iter
      [] pc = "upRead" -> UpTurns - iter - 1
      [] pc \in DownPCs /\ mode = "removeFirst" -> UpTurns + 1
      [] OTHER -> 0
DownsLeft ==
    CASE pc \in {"downCount", "downCheck", "downPost"} -> 2
      [] pc \in {"downWait", "downError"} -> 1
      [] pc \in UpPCs /\ mode = "createFirst" -> 2
      [] OTHER -> 0

Batches == INSTANCE BatchRepair
    WITH size <- inc, ups <- UpsLeft, downs <- DownsLeft,
         toAdd <- ToAdd, toDrop <- ToDrop, MaxUps <- UpTurns + 1

\* Whatever the portal answers and whoever else has jobs, a call goes through
\* its list batch by batch and asks for no more than BatchRepair promises.
BatchSpec == Batches!Spec

\* The recursion and all the waits end, if the portal never finishes a job
\* and whatever it answers.
RunOnceReturns == pc # "idle" ~> pc = "idle"
=============================================================================
