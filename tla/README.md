# Verification of the node auto repairer

TLA+ modules for the auto repair controller of a Kubernetes cluster whose nodes
are VMs behind vCloud Director and a cluster portal, with TLC configurations and
TLAPS proofs.  Paths are relative to `src/`.

## 1. Inventory

### The running program

| part | state | operations | talks to |
|---|---|---|---|
| controller (`Controller.go`, `main.go`) | `queue`, `enqueueMap`, `lock` | `handleUpdate`, `processItem`, `handleNotReadyNode`, `replaceNode`, two readiness polls | informer and work queue of client-go, vCloud, scaler |
| informer (client-go, external) | cache of nodes, pending notifications | update notifications, 10 s resync | API server, `handleUpdate` |
| work queue (client-go, external) | queue, dirty set, processing set | `Add`, `Get`, `Forget`; `Done` is never called | handler, worker |
| scaler (`scaler/ScaleUp.go`, `scaler/ScaleDown.go`) | locals of one call | `ScaleUp`, `ScaleDown`, `CheckWorkerNodeCanBeScaleDown` | portal, API server |
| portal client (`core/utils/utils.go`) | none | `CheckStatusCluster`, `CheckErrorStatusCluster`, `PerformScaleUp`, `PerformScaleDown` | portal (HTTP) |
| reboot (`vcd/manipulation/RebootMachine.go`) | power state of a VM | `RebootVM` | vCloud |

Two goroutines matter.  The *handler* is the listener goroutine of client-go: it
calls `handleUpdate` for one notification after the other, and each call polls the
node for up to five minutes.  The *worker* is started once by `run`; it takes a
node from the queue, reboots it up to three times, and then replaces it.  They
share `enqueueMap` (the *marks*), guarded by `lock` in one of four places.

What makes it hard: the long polls between an observation and the act based on it,
notifications that are handled minutes late, restarts (an unreachable portal or a
vanished node makes a goroutine panic) that forget marks and queue, a portal that
refuses, fails and is shared with the auto scaler, and requests whose outcome the
code learns from a status poll only.

### Code beside it

Nothing of this is called by the running program (the configuration readers are);
much of it was taken over from the cluster autoscaler.

| part | state and operations | correct when |
|---|---|---|
| configuration readers (`vcd/Fetch*.go`, `vcd/FindAutoScalerSize.go`, `src/utils.go`) | none; one request for each value | values that are used together belong together |
| static auto repair (`core/static_autorepair.go`, `core/util.go`), the previous design | `RunOnce`, `AsgRepairNodes` recursion, `IncreaseSize`, `DeleteNodes` | a node that a look saw ready is spared, the recursion ends, limits are kept |
| node deletion tracker (`scaler/ScaleDown.go`, copy in `core/scale_down.go`) | counters and results under a mutex | counters match starts and ends, each result is handed out once |
| pod eviction, drain, delayed deletion (same files) | `evictPod`, `cordonWorkerNodeAndDeletePod`, `waitForDelayDeletion` | a result says what happened to the pod; a drained node stays empty |
| cluster state registry (`clusterstate/clusterstate.go`) | readiness, acceptable ranges, last status, unregistered nodes | transition times move only with the status |
| log collector, status map (`clusterstate/utils`) | bounded store; config map | recent items are not lost; what users put into the map is kept |
| listers and readiness (`utils/kubernetes`) | one store for each lister; pure filters | a node that stays not ready is listed |
| comparison of node groups, processors, contexts, errors | none | - |
| `core/delete_nodes.go`, `clusterstate/utils/node_instances_cache.go` | entirely commented out | - |

### What should be true

* controller: a node that is not ready and has no mark reaches the worker, each time it
  fails and even across a restart; a mark stands for an offered node, keeps it from
  being offered again, and is dropped only when the worker has had the node or it recovered.
* scaling: a call awaits its creations, creates before it removes or the other way round
  and never mixes, keeps the workers within the limits, and comes back.
* reboot: `nil` means the VM went through a power cycle and is on.

The hazards, each at its line and with the properties aimed at it, are in
`PROJECT.json`.

## 2. Modules

| module | models | role |
|---|---|---|
| `NodeInformer` | cluster, informer cache, notifications | external, from its use |
| `WorkQueue` | `workqueue.Type` without `Done` | external, from its use |
| `Delivery` | offers, marks and deliveries: what the handler and the worker owe a node | abstract specification |
| `Controller` | both goroutines of `Controller.go` | core; extends the two above, implements `Delivery` |
| `Controller_proofs` | theorems about `Controller` | TLAPS |
| `Portal` | status, answers, jobs and requests; the auto scaler | external and portal client |
| `Replacement` | what one replacement may do | abstract specification |
| `Scaling` | `replaceNode`, `ScaleUp`, `ScaleDown` | extends `Portal`, implements `Replacement` |
| `Scaling_proofs` | theorems about `Scaling` | TLAPS |
| `PowerCycle` | what a reboot promises about the power of a VM | abstract specification |
| `VMReboot` | `RebootVM` and the tasks of vCloud | implements `PowerCycle` |
| `VMReboot_proofs` | theorems about `VMReboot` | TLAPS |
| `AsgRepair` | `RunOnce`, `AsgRepairNodes`, `IncreaseSize`, `DeleteNodes`, the portal under them | the previous design, implements `BatchRepair` |
| `BatchRepair` | how a repair goes through its list, and what it may ask for | abstract specification |
| `Deletions` | what a tracker of deletions promises | abstract specification |
| `DeletionTracker` | `NodeDeletionTracker` with its mutex | implements `Deletions` |
| `Eviction` | `evictPod`, users, kubelet, stateful sets | one goroutine for each pod |
| `NodeDrain` | `cordonWorkerNodeAndDeletePod`, the scheduler | one call |
| `LogCollector` | `Log`, `GetLogs`, `compact` | several goroutines and a clock |
| `StatusMap` | `WriteStatusConfigMap`, `NewStatusMapRecorder`, users | several processes |
| `ClusterStatus` | `GetStatus` and the conditions it builds | part of the registry |
| `NodeGroups` | health and size of groups, unregistered nodes | part of the registry |
| `NodeReadiness` | `GetNodeReadiness`, filters, `GetUnreadyNodeCopy` | pure operators |
| `NodeListers` | the listers of nodes, writers of the node | extends `NodeReadiness` |
| `Settings` | the configuration readers, and who calls them | objects change between two reads |
| `AsgRepair_proofs`, `DeletionTracker_proofs` | theorems about the module of the name | TLAPS |
| `Parts` | `DeletionTracker`, `LogCollector`, `ClusterStatus`, `NodeGroups`, `Settings`, `Eviction` side by side, their parameters as constants | composes parts that share no state |
| `Registry_proofs` | theorems about `ClusterStatus` and `NodeGroups`, as parts of `Parts` | TLAPS |
| `Parts_proofs` | theorems about `LogCollector`, `Settings`, `Eviction`, and that each part is its module | TLAPS |
| `LiveParts` | `StatusMap`, `NodeListers`, `NodeDrain` side by side, each with its fairness | composes parts that share no state |
| `LiveParts_proofs` | theorems about the three | TLAPS |
| `MCController`, `MCScaling`, `MCVMReboot`, `MCAsgRepair`, `MCParts`, `MCPartsLive` | model values for TLC | |

### Controller

State and code: `queue`, `dirty`, `processing` are the work queue; `enqueueMap` and
`lock` are the fields of `controller`; `hpc`, `hobj`, `htries` are the handler's
place, its `newNodeStatus` and the polls it has left; `wpc`, `wobj`, `wtries`,
`reboots` the same for the worker.  Every access to shared state, and every place
where a goroutine sleeps or calls out, is a step of its own:

* `HandleUpdate`, `Enqueue` / `AlreadyMarked`, `Mark`, `HandlerPoll` (one look at the
  cache), `HandlerLookup` / `HandlerFoundMark`, `HandlerUnmark` are `handleUpdate`
  from top to bottom.  The lock is held from `HandleUpdate` to the end only by a call
  that found its node not ready for too long (`defer` inside the `if`).
* `Get`, `Reboot` / `RebootFails`, `WorkerPoll`, `Replace`, `WorkerPollAll`,
  `WorkerUnmark` are `processItem` with `handleNotReadyNode`.
* `HandlerPanic`, `WorkerPanic` are the dereference of a nil node that left the
  cache, `MapRace` the abort of the Go runtime on concurrent map accesses, `Killed`
  the end from outside.  Each ends in `Crash`: memory is empty, the cluster goes on.

Time is abstract: `aged[n]` is the last transition of `n` known to be five minutes old,
and grows when the clock likes.  A version (`rev`) is a Go object; client-go never
changes one in place, so the record stands for the pointer that the queue compares.
When a poll has seen the node ready, the step that leaves the poll is taken at once
and the ten seconds of sleep lie between it and the next step.

`Delivery` is read off this state: `waiting` is the queue, `delivered` what the worker had
(`processing`, which nothing leaves, as `Done` is never called), `barred` are the marks, and
`recovered` the versions that their node recovered after.  The work queue alone does not
implement it: that a marked node is not offered again is the handler's doing, and that a mark
goes only when there is a reason needs both goroutines and their polls.

### Scaling

`pc` is where the one call is, `mode` the branch of `replaceNode`, `size` the value of
`currentSize`, `count` the counter of the wait in `ScaleDown`.  Each status query and
each request is a step.  An answer shows the status or not (`readable`, which `Lapse`
changes at any time): `CheckStatusCluster` and `CheckErrorStatusCluster` are both FALSE when
the answer is no JSON, a 401 because the token of the call has expired, a list of 25
clusters without this one, or a status that they do not know.  `PerformScaleUp` and `PerformScaleDown` drop the response, so
the portal may accept or refuse, and the caller does not know.  An accepted request
sets the status to SCALING before the next query, 30 seconds later.  Jobs end in
SUCCEEDED or ERROR; a failed job may have done its work.  The auto scaler posts
requests of its own, pods move, the process may end anywhere (`Crash`) and leave a
job running.  `created`, `removed` and `quiet` are history variables, reset when the
call ends; nothing in the model reads them.

### Reboot

`pc` is where `RebootVM` is, `power` what `GetStatus` reads, `task` the task that runs on
the VM, `seen` what the task that the call waits for tells of itself.  Each request and
each wait is a step; a request is accepted, refused, or accepted with its answer lost;
a wait ends with the task, well or badly, or because it cannot ask any more while the
task goes on.  `GetStatus` drops its error, which leaves the status unknown.  Operators
switch and suspend the VM at any time; the process may end anywhere (`Crash`).  vCloud
runs one task at a time on a VM and refuses a request for the state it already has.
`phase`, the variable of `PowerCycle`, is read off `pc` and `seen`: "off" is reached when the
call's own task has put the VM off or its status was found to be off, "on" when its own
task has put it on.  `touched` is a history variable that nothing reads.  The two
branches of the code share their second half, lines 32-42 and 44-54, and so do their
actions.

These three models are separate: in `Controller`, `Reboot` and `RebootFails` are one step
each, `Replace` is one step, and nodes get ready, join and leave when they like, which
includes everything `VMReboot` and `Scaling` do to them.

### The previous design

`AsgRepair` has one goroutine, whose `pc` is where it is between two sleeps or requests,
and locals of the code by their names: `seen` is `notReadyNodes`, after `SecondLook` the
common nodes; `todo` the list that `AsgRepairNodes` recurses on, of which `inc` come first
(`Batch`); `prev`, `curr`, `iter` belong to the wait at hand.  `FirstLook`, `SecondLook` are
`RunOnce`; `RemoveFirst`, `CreateFirst`, `Expand`, `Recurse` are `AsgRepairNodes`; the actions
`Up...` are `IncreaseSize`, those `Down...` are `DeleteNodes`, from top to bottom.  Each
function has two callers, `mode` says which, and `Leave` goes back.  The portal is modelled
anew, as this code differs from the scaler's in what it asks for: a number of nodes,
and a list of workers.  An answer that does not show the status makes a check FALSE, so the
actions for a check that is FALSE (`UpBusy`, `UpNotYet`, `DownBusy`, `DownNoError`) may be taken
in any status.  A job adds and drops one node at a time, so that a failed one has
done any part of its work.  The code slices lists of nodes by numbers of workers,
and the two differ when a master is among the nodes; `SlicePanics` is the slice that does
not exist.  `baseline`, `spared`, `done` and `quiet` are history variables.  `BatchRepair` has the
list, the size of the batch, the requests that the batch has left (`UpsLeft`, `DownsLeft`, from the
place and the turn of the wait) and what the job of the call has yet to do (`ToAdd`, `ToDrop`).

### The tracker

A method of the tracker is two steps, of which the first takes the mutex and reads,
and the second writes and releases it; what was read in between is in `read`.  A Go map
is a reference, hence `maps` holds every map of results there was, and `read` of a goroutine
that adds a result is the number of the map it writes to.  `Deletions` has the same
operations in one step each, on the counters and the current map.

### Registry, log, status map, listers, settings, eviction, drain

* `Eviction`: times count down, `left` until `retryUntil`, `nap` of a goroutine that sleeps,
  `grace` of a pod that leaves.  `Evict`, `AnswerLost`, `NotFound`, `Refused` are the outcomes of
  one attempt, `Wake` the post statement and the condition of the loop.
* `NodeDrain`: `unschedulable` is what the API server says, `known` what the scheduler has
  heard of it, and until then it binds pods (`Bind`).
* `LogCollector`: `Log` and `GetLogs` take the mutex and read the clock, `Logged` and `GotLogs` truncate
  and release it; `Tick` may come in between.  `everything` is a history variable.
* `StatusMap`: `fresh` tells whether the version a process has read is still the present one,
  which is what the API server asks of an update.
* `ClusterStatus`, `NodeGroups`: the answers of the registry as functions of what it holds.
  The code that would fill the registry in is not in the repository; `CountNodes`,
  `FindCandidates`, `Recalculate`, `Request` put in anything that can be.
* `NodeReadiness`, `NodeListers`: `Loop` is a loop over a list with its body as an operator;
  `SeeCondition`, `SeeTaint`, `KeepOther` are the bodies.  A reflector brings any later version of
  the node to the store of its lister.
* `Settings`: an object is the site it belongs to, `Empty` or `Gone`; `Read` is the next reader
  of the list of the call, and `Edit` changes an object between two of them.

## 3. What is checked

| run | question | properties | size |
|---|---|---|---|
| `controller` | are marks set and dropped right in all interleavings on two nodes? | `TypeOK`, `UnmarkJustified`, `FirstEntryStaysMarked`, `MarkWasOffered`, `DeliverySpec` | 1.06 M states |
| `controller_live` | does a node that is not ready reach the worker, each time it fails? | `NotReadyIsHandedOver`, `DeliveryFair` | 0.33 M states |
| `scaling` | what may a replacement do, and does it come back? | `JobsAwaited`, `WithinLimits`, `ReplacementSpec`, `QuietCallReplaces`, `OnlyErrorBlocks` | 0.62 M states |
| `vm_reboot` | is the VM rebooted when the call says so? | `NilMeansOn`, `PowerCycleSpec`, `CallReturns` | 129 states |
| `asg_repair` | what does the previous design delete and create, and does it end? | `ReadyAtALookIsSpared`, `WithinMax`, `QuietRepairReplaces`, `BatchSpec`, `RunOnceReturns` | 0.99 M states |
| `parts` | do six parts without shared state keep what they promise? | `TypesOK`; tracker: `CountsDeletions`, `HandedOutIsFrozen`, `DeletionsSpec`; log: `GetsTheRecent`; registry: `TransitionStartsTheRun`, `SinceIsFirstSeen`, `ReadyGroupsAreHealthy`; settings: `RequestNamesOneSite`; eviction: `ResultIsTrue` | 0.53 M states |
| `parts_live` | do three more of them get where they have to? | status map: `EditsSurvive`, `WriterGetsThrough`; listers: `ReadinessOfSets`, `NotReadyIsListed`; drain: `NothingSlipsIn`, `NothingStays` | 0.36 M states |

The parts of `parts` and `parts_live` neither call each other nor share state, so
their product would only multiply states.  Instead, `part` says in the initial state which
of them takes steps, and the others stay as they are: the run explores each part alone,
one after the other.  Their properties hold of each part by itself, and a property
of one part is looked at in all states of that part.  `Parts` does this for any value of
the parameters, and its theorems are about `PartsSpec`; `MCParts` gives the parameters values
and starts in fewer states (`MCInit` implies `PartsInit`), since what a part has as its inputs
need not vary while another one moves.  `LiveParts` with `MCPartsLive` does the same for parts
that are fair.

Bounds.  `controller`: two nodes, one with up to three versions (ready, not ready,
ready again, or a taint in between) and one with a single version that leaves,
ages, and gets in the way of the other in both goroutines; one notification may
wait besides the one in the handler, which is enough to have three versions of one
node in flight (queue, handler, notification); one poll and one reboot per repair,
since further turns of the loops repeat the first.  `controller_live` has a restart besides; the
last version of the first node, with which it fails, recovers and fails again, comes only where
the second was ready and left (`LastVersionIfAlone` in `MCController`), so that this is
checked of one node, and all that is shorter of two.  In the proofs these bounds are arbitrary.

`scaling`: three worker names, limits 1 and 2, so that both orders are chosen; two calls, one job of the auto scaler and two failures, so that a call can
meet the job of a crashed predecessor and a second ERROR after its retry; answers that
show the status or not, as often as they like.  It has no masters: that a call of a group
with masters takes it below its minimum by one at most is said by the
theorem; that it does happen follows from `ChooseOrder`, by `Full`.  `vm_reboot`:
no bound at all; one VM, because its state does not depend on any other.

`asg_repair`: three worker names and a maximum of two, so that a call finds one, two or three
workers not ready, below, at and above the maximum, and both branches are taken, also one
after the other; one turn for each wait, since further turns repeat the first, and
since a wait that ends before its job is what makes the later steps hard; one job of the
auto scaler and one failure.  It has no masters and one call, which the proofs do not
assume.  A batch that nothing disturbs has one node in this run; for the cut of a longer one
(`CalcExpandSize`) `WithinMax` and `QuietRepairReplaces` rest on their theorems.  `parts`: three results and two calls that hand them out, so that a node is deleted
again after its result was taken; a log of two items that live for two ticks, four
messages and times, so that items go for their number, for their age and for both;
three statuses, the least in which a condition changes and comes back; four updates of
unregistered nodes, in which a node goes and comes back; two sites and two changes in a
call; a pod that stops at once and one whose grace period is cut by the limit, and time
for three attempts.  `parts_live`: two writers, two edits and two failed requests; a
node of four versions, enough for a registration and a condition and a taint that come and
go; a pod each of a daemon set and of nobody besides two of replica sets.

Deadlock checking is off where a model may stop: its versions are used up and all
nodes are gone, no worker is left to replace, or a part has come to its bounds.

### Where code and documentation disagree

| run | statement | what the code does |
|---|---|---|
| `controller_lock` | `Controller.go:48`: the lock handles concurrent access | lines 150 and 161 delete from `enqueueMap` without it |
| `controller_stale` | `README.md:7`, `Controller.go:132`: the repair function is for a node that is not ready | a node that recovered in the queue is rebooted |
| `controller_again` | `Controller.go:161`: with its mark deleted, a node can be processed again | the same object is only made dirty, as `Done` is never called, then marked, and never repaired |
| `scaling_order` | `README.md:19`: create, then remove | a refused request to create is dropped (`ScaleUp.go:117`), the status is still SUCCEEDED, and the removal follows |
| `scaling_timeout` | `ScaleDown.go:232`: break after 50 minutes | `count` is declared inside the loop and never exceeds 1 |

`controller_again` is why `NotReadyIsHandedOver` is about nodes without a mark and excuses an offer
that is lost on the queue (`OfferLost`): its object is dirty and in processing, nothing of the
node waits, and the mark keeps other versions out.  A mark that a failed repair leaves behind
is no excuse, it makes the node not be meant at all, as the comment in the code wants it.

`scaling_order` takes the shortest way, a refused request; the busy branch (`ScaleUp.go:148`, also
taken when the answer does not show the status) returns a nil error as well and leads to the same.

Met while modelling, and not checked as runs, because one action of the model shows it:

* `Controller.go:288` and `README.md:26` speak of all nodes ready; the first ready node is enough
  (line 301, `SomeNodeReady`), which is also the first step of what `controller_again` shows.
* `README.md:16` does nothing on a conflict with the auto scaler; `Controller.go:191` compares all
  nodes, masters too, with limits that are for workers (`core/util.go:60`), so that with a master
  and a maximum of one more than the minimum a group at its minimum is removed from first and
  goes below it (`NodeCount`; `WithinLimits` leaves room for that one worker).
* `README.md:22` removes first at the maximum of the auto scaler; with a maximum that cannot be
  parsed, `vcd/FindAutoScalerSize.go:19` drops the error and the maximum is zero, so that
  every replacement removes first (`Unparsed` in `Settings`).  The previous design ends the process
  at such a text (`core/utils/utils.go:252`).
* `core/util.go:117` calls `IncreaseSize` blocking until all nodes are ready; it returns after
  thirty turns, or when the portal says SUCCEEDED, without a look at a node.
* `core/util.go:290` deletes first because the group is at its maximum; when the deletion
  fails or the portal is busy, the increase follows all the same and passes the maximum,
  which is why `WithinMax` is about calls that nothing gets in the way of.
* `clusterstate/utils/status.go:82` updates a map that exists; line 94 panics when that map
  has no data.

### Fairness

`Controller!Fairness`: weak fairness of each goroutine (the Go scheduler; `RebootVM` and
`replaceNode` are assumed to return, and `OnlyErrorBlocks` says when the latter does
not), of time passing, and strong fairness of the resync of each node, because the
informer factory resyncs for ever (`main.go:31`) and `MaxPending` must not be what
prevents it.  `Scaling!CallerFairSpec`: the goroutine runs.  `FairSpec` adds that
each job of the portal ends, well or badly; `scaling_timeout` is checked without it,
since the timeout is there for the job that does not end.  `OnlyErrorBlocks` has a premise of
its own, that the answers show the status from some time on: nothing in the code ends a wait
that cannot read it, and no fairness is assumed of `Lapse`.  `VMReboot!FairSpec`: the
goroutine runs and each task ends, well or badly; that a query fails or the process
dies is never relied on, so neither is part of `CallStep`.  `AsgRepair!FairSpec`: the
goroutine runs, and nobody else has to, neither the portal nor its jobs, because every
wait of that design counts its turns.  `StatusMap`: a process that runs comes back to its
loop and a request is answered; failures are bounded by `MaxFaults` and edits by `MaxEdits`,
so `WriterGetsThrough` is about what happens once both have stopped.  `NodeListers!FairSpec`:
a reflector watches for ever.  `NodeDrain`: the call goes on, and the kubelet stops the
pods that were deleted.

## 4. What is proved

`Controller_proofs`, for every set of nodes and every value of the bounds:
`TypeCorrect`, `UnmarkCorrect`, `MarksCorrect`, `OffersCorrect` (each `Spec => []P` for a `P` of
the run `controller`) and `ImplementsDelivery` (`Spec => DeliverySpec`).

All rest on one inductive invariant `IInv`, the conjunction of these invariants with two
about the queue: no version is queued twice or again after it was handed over
(`QueueDiscipline`), and what is queued, handed over or notified is in the order of versions
that the handler relies on (`InOrder`).  They need each other: `UnmarkJustified` holds when a
goroutine leaves its poll because the cached version is at least as new as the one at hand,
which is `InOrder`; `FirstEntryStaysMarked` survives the deletion of a mark because of
`UnmarkJustified`, and the handler's own deletion because whatever is queued is not
newer than the handler's version, `InOrder` again.  For `Delivery`, an offer is new because of
`QueueDiscipline` and of a node without a mark because of the handler's lookup; a mark is
of an offered version (`MarkWasOffered`); and each of the three deletions of a mark has its
reason from `UnmarkJustified` or because the worker has the node (`StepDelivery`).  The
assumptions are `InformerAssumption` and `ControllerAssumption` (natural bounds, positive
retries, `None` not a version).

`Scaling_proofs`, for every number of workers, masters, calls, failures and jobs of
the auto scaler, and all limits: `TypeCorrect`, `JobsAwaitedCorrect` and
`ImplementsReplacement` (`Spec => ReplacementSpec`).  The invariant adds to `TypeOK`
and to `Awaited` (no job of a call outlives the function that asked for it) what makes them
inductive: a job runs exactly while the status is
SCALING (`JobInv`), so that SUCCEEDED means that the call's own job has ended; the
order is chosen from `ChooseOrder` until the call returns (`ModeInv`); an own job is
of the kind that its place waits for, and its removal is that of the target
(`KindInv`); and what the call's jobs have done by each place (`HistoryInv`), which
bounds the created nodes by two and keeps the halves apart.  For the refinement, each step is shown
to be one of `Replacement` or unseen there: the end of an own job is `Create`,
`Remove` or `Fail`, an accepted request `Request`, a return or a crash `End`, and
what others do `Others`.  The assumptions are `PortalAssumption` (finitely many
workers, natural bounds), `NoJobAssumption` and `ScalingAssumption` (`CountLimit`
positive, or else the wait of `ScaleDown` would not wait for its job).  `Awaited` is about removals
too, but `JobsAwaited` says it of creations only: that `ScaleDown` waits for its job whatever
time it takes is due to the timeout that never comes (`scaling_timeout`), and nothing to
promise.

`WithinLimitsCorrect` and `QuietCallReplacesCorrect` relate numbers of nodes over a whole call,
and need more (`QuietInv`).  The branch of `replaceNode` fits the size that was read
(`OrderInv`), whatever happens.  As long as nothing gets in the way of a call, there is no job
but its own, no status ERROR and no retry (`NothingInTheWay`); each half of the order is
done exactly when its wait is over (`HalfByHalf`), which is where the wrong order of two
halves would show; and the nodes are those that were counted, and what the call has done since
(`Counted`).  Then the size of the cluster at any moment follows from the branch and the place.  `WithinLimits`
is about the workers, and the branch was chosen by workers and masters: the maximum holds for any
number of masters, the minimum without masters, and with them it is missed by one at most.

`VMReboot_proofs`, for any number of calls, tasks and failures: `TypeCorrect`,
`NilMeansOnCorrect` and `ImplementsPowerCycle` (`Spec => PowerCycleSpec`), from the
assumption `NoTaskAssumption`.  The invariant says that a running task of the call is the
one its place waits for (`OwnTaskInv`), so that its end is the step of the power cycle
that the call counts it for; that a value is kept until the next call only
(`ResultInv`); and that the VM is on already when the call hears of its success
(`SuccessMeansOn`), which makes `NilMeansOn` inductive.

`DeletionTracker_proofs`, for any goroutines, groups and nodes: `TypeCorrect`,
`HandedOutIsFrozenCorrect`, `CountsDeletionsCorrect` and `ImplementsDeletions`
(`Spec => DeletionsSpec`), from `TrackerAssumption`.  The invariant says that who is inside a
method holds the mutex, and nobody else is (`Mutex`), so that what a goroutine has read is
still what there is when it writes (`ReadIsCurrent`): the second step of a method
is then the operation of `Deletions`, and its first step a stutter.

`LiveParts_proofs`, from `StatusMapAssumption` and `LivePartsAssumption`:

* `TypeCorrect` and `EditsSurviveCorrect`, for any writers, edits and faults.  Whose version is
  fresh has read the map that there is (`FreshIsCurrent`), so that an update that is accepted
  keeps what users put there.
* `ReadinessCorrect`, for any number of writes to a node and so for lists of any length and order:
  the loops of `GetNodeReadiness` compute what `OfSets` declares of the sets of conditions and
  taints.  What a loop carries along is described in terms of the set of those it has seen
  (`FoundIn`, `FoundOn`), one more condition or taint extends that (`NextCondition`, `NextTaint`),
  and a least turn without it is refuted by the well-foundedness of the numbers (`UpTo`; the
  library's induction takes an operator, which the provers cannot instantiate).  The value of
  the recursive function in `Loop` is built up in the same way (`LoopRuns`).  A node has one
  condition of each type at most (`VersionsOK`), without which the reason would depend on the order.
* `NothingSlipsInCorrect`, for any pods of any kind: from the list of a quiet drain on, the
  scheduler knows of the cordon, and what runs on the worker is of a daemon set or still to be
  looked at (`NothingOverlooked`).

`AsgRepair_proofs`, for any nodes (masters too), limits, turns, jobs, failures and calls:
`TypeCorrect` and `SparedCorrect`, from `AsgAssumption`.  `TypeOK` says that a slice other than
the one that panics stays within its list, for which the number of workers of a list is
shown not to exceed its length.  What is left to repair is among what both looks saw not
ready (`TodoIsSeen`), which is apart from what one of them saw ready (`SeenNotSpared`), and
before the second look there is no job of the call (`NothingYet`): the jobs of an earlier
call, which may have asked for a node that is ready now, go on as nobody's.

`WithinMaxCorrect` and `QuietRepairReplacesCorrect` hold for any number of batches.  Between two
steps of a call that nothing gets in the way of, the workers are those that were counted at the
start, plus the batch that was asked for, minus the one that was given up, corrected by
what a running job has yet to add and to drop (`SizeAccounted`); the nodes dropped are those
of the earlier batches and of the present one (`DoneAccounted`), and what is to come is still
there (`StillThere`).  A batch is created first only as far as the maximum allows
(`BatchFits`), and the list has no node twice (`NoRepeats`), so that the length of a batch is
the number of its nodes: with a repetition the code would create more than it deletes.

`ImplementsBatchRepair` (`Spec => BatchSpec`) needs nothing to be quiet: requests are refused or
lost, jobs fail or outlast the wait for them, others change the nodes.  Still a call leaves out no
node of its list and repeats none, has one job at a time, asks for at most the size of a batch and
`UpTurns + 1` times, and only for the removal of the workers of the batch, twice.  That no job runs when
the portal takes a request is `JobStatus`; that the requests left are numbers, in every turn of
each wait, is `InTurn`; most steps are a stutter or skip a request (`MovesOn`).

`Registry_proofs`, from `PartsAssumption` (the assumptions of the six parts), for any numbers of
nodes, groups, statuses and updates:

* `TransitionCorrect`: every condition in every status that was published has the time of the
  first status of its run (`Runs`, by induction over the statuses published), because the last
  status is what the registry carries over (`History`) and what `GetConditionByType` finds in it
  is the condition at the place where `GetStatus` puts it (`ByPlace`).
* `SinceCorrect`: `SinceIsFirstSeen` is inductive with the types and `Updates`, the times of the
  registry being numbers of updates.
* `ReadyGroupsCorrect`: of the operators of `NodeGroups`, with integer division as the code has it.

`Parts_proofs`, from the same assumption:

* `ResultsCorrect`, for any pods and times: a goroutine that goes on has hit its pod only if
  the answer got lost (`HitsAreHeardOf`); the grace period of a pod that is hit is within
  both limits, whoever deleted it before, and both count down together.
* `GetsTheRecentCorrect`, for any threads, sizes and times: the store is always a suffix of
  everything that was logged, in the order of time, and what it lacks was outdated, for its
  number or its age, at a time that the clock has passed (`UpToDate`).  That needs the clock to be
  read under the mutex: no item is newer than what the holder has read (`LogInv`), which
  would be false if the clock were read before `Lock`.  That truncation stops at the first live
  item is then no loss (`CompactKeeps`).
* `RequestsCorrect`, for any sites, limits and edits: the fifth reading of a replacement is
  the id of the cluster that the four before it lead to, or empty (`IdOfValues`).
* `EachPartIsItsModule`: `PartsSpec` implies the specification of each of the six modules, so
  that nothing is lost or added by putting them side by side; `TypesCorrect`: their variables
  keep their types.

Every invariant and every action property of the runs that pass, and every refinement in
them, is thus stated by a theorem; the type invariants of `Scaling`, `VMReboot` and `AsgRepair` are proved
(`TypeCorrect`) and in no run.  Only model-checked are the liveness properties
(`NotReadyIsHandedOver`, `DeliveryFair`, `OnlyErrorBlocks`, `CallReturns`, `RunOnceReturns`,
`WriterGetsThrough`, `NotReadyIsListed`, `NothingStays`), since fairness and ENABLED are out of
the prover's reach.

## 5. Plan

1. Done: `Controller` over `NodeInformer` and `WorkQueue`, `Scaling` over `Portal`, `VMReboot`, each
   with its abstract specification and proofs.
2. Done: `AsgRepair`, `DeletionTracker` with `Deletions`, `Eviction`, `LogCollector`, `StatusMap` with
   proofs; `ClusterStatus`, `NodeGroups`, `NodeReadiness`, `NodeListers`, `NodeDrain`, `Settings`.
3. Done: proofs of the safety properties that were only model-checked, `WithinLimits` and
   `QuietCallReplaces`, `WithinMax` and `QuietRepairReplaces`, and those of `Parts`.
4. Done: `NothingSlipsIn`, the safety part of `NothingStays`, and the loops of `NodeReadiness`, proved in
   `LiveParts_proofs`.
5. Done: the refinement of `AsgRepair` to `BatchRepair`.
6. Left: `waitForDelayDeletion` with the lister it polls, and a rank that every step of `RunOnce`
   lowers, the part of `RunOnceReturns` that is not about fairness.

## 6. What is not modelled

HTTP, JSON and the encoding of secrets (pure I/O; where they end the process, `Crash` or
`Gone` stands for it), logging, the rate limiter of the queue (`Forget` on an item that was
never rate limited does nothing), `handleError` (logs only), the shutdown of the queue
(never called).  Furthermore:

* the scale functions of `core` (`core/scale_up.go`, `ScaleDown` of `core/scale_down.go`): without
  callers, and the latter returns at once as its list of candidates is always empty;
* `waitForDelayDeletion`: one `wait.Poll` on a lister, without state of its own;
* the copy of the check whether a worker can be removed, and the resource helpers of
  `src/utils.go`: not called;
* listers of pods, daemon sets, jobs and config maps: they wrap client-go without a filter;
* `PeriodicCleanup` and the failures of scale-ups in the registry: cleared, never set;
* the comparison of node groups, no-op processors, contexts, errors and the files that
  are commented out: no state.

`clusterstate.go:331` reads the readiness outside the lock that it takes for the health;
it is not among the hazards, as the code that would write the readiness at the same time is
not in the repository, and `ClusterStatus` lets it run in the goroutine that asks.

`PROJECT.json` lists every component with its status.

## 7. Running

    tlc -workers 2 -config MCController.cfg MCController.tla
    tlapm Controller_proofs.tla

and so on for each configuration and each module of proofs.  The longest runs, `asg_repair`
and `controller_live`, take about three minutes each.
