------------------------------- MODULE Controller -------------------------------
(***************************************************************************)
(* The auto repair controller (Controller.go).  Two goroutines share the   *)
(* work queue, enqueueMap and the informer's cache:                        *)
(*   - the handler, client-go's single listener goroutine, which calls     *)
(*     handleUpdate for one notification after the other;                  *)
(*   - the worker, started once in run, which calls processItem again and  *)
(*     again (wait.Until restarts it one second after an error).           *)
(* An h in a name stands for the handler, a w for the worker.  Every step  *)
(* between two accesses to shared state is a step of the model, and so     *)
(* is every place where a goroutine sleeps or calls out.  What the cluster *)
(* does meanwhile is NodeInformer's; what replaceNode does to it is in     *)
(* module Scaling, here a node leaves or joins when it likes.              *)
(*                                                                         *)
(* MustUnmarkAlways, EnqueueForgotten and the like, each in front of the   *)
(* definition it varies, are mutants: mistakes that the properties detect. *)
(*                                                                         *)
(* A panic in either goroutine and a concurrent access to enqueueMap (a Go *)
(* map without a lock) end the process; the Deployment starts a new one    *)
(* with empty memory.  Crash is that end and that start in one step: what  *)
(* the cluster does in between, it may also do just before.                *)
(***************************************************************************)
EXTENDS NodeInformer, WorkQueue, FiniteSets

CONSTANTS
    RebootRetries,  \* maxRebootRetry, 3 in the code
    PollTries,      \* maxRetry of both polls, 30 and 10 in the code
    MaxKills,       \* bound: times the pod is killed from outside
    None            \* not a version: what an idle goroutine works on

ASSUME ControllerAssumption ==
    /\ RebootRetries \in Nat \ {0}
    /\ PollTries \in Nat \ {0}
    /\ MaxKills \in Nat
    /\ None \notin Object

VARIABLES
    enqueueMap,  \* names of the nodes that may not be enqueued
    lock,        \* TRUE when controller.lock is held
    hpc,         \* where the handler is
    hobj,        \* the version it handles
    htries,      \* polls it has left
    wpc,         \* where the worker is
    wobj,        \* the version it repairs
    wtries,      \* polls it has left
    reboots,     \* reboots of wobj so far
    kills        \* times the pod was killed

handlerVars == <<lock, hpc, hobj, htries>>
workerVars == <<wpc, wobj, wtries, reboots>>
processVars == <<queueVars, enqueueMap, handlerVars, workerVars, kills>>
vars == <<informerVars, processVars>>

(***************************************************************************)
(* Handler: "idle", then "enqueue" (the lookup under the lock), "mark",    *)
(* "poll", and the lookup after the poll, "ready" or "gaveup" by what the  *)
(* poll returned, and "unmark".                                            *)
(* Worker: "idle" (blocked in Get), "reboot", "poll", "replace", "pollAll",*)
(* and "repaired" or "replaced" where it is about to unmark, after the one *)
(* poll or the other.                                                      *)
(***************************************************************************)
HandlerPCs == {"idle", "enqueue", "mark", "poll", "ready", "gaveup", "unmark"}
WorkerPCs ==
    {"idle", "reboot", "poll", "replace", "pollAll", "repaired", "replaced"}

TypeOK ==
    /\ InformerTypeOK
    /\ queue \in Seq(Object)
    /\ dirty \subseteq Object
    /\ processing \subseteq Object
    /\ enqueueMap \subseteq Nodes
    /\ lock \in BOOLEAN
    /\ hpc \in HandlerPCs /\ htries \in 0 .. PollTries
    /\ hobj \in IF hpc = "idle" THEN {None} ELSE Object
    /\ wpc \in WorkerPCs /\ wtries \in 0 .. PollTries
    /\ wobj \in IF wpc = "idle" THEN {None} ELSE Object
    /\ reboots \in 0 .. RebootRetries
    /\ kills \in 0 .. MaxKills

MemoryInit ==
    /\ QueueInit
    /\ enqueueMap = {}
    /\ lock = FALSE
    /\ hpc = "idle" /\ hobj = None /\ htries = 0
    /\ wpc = "idle" /\ wobj = None /\ wtries = 0 /\ reboots = 0

Init ==
    /\ InformerInit
    /\ MemoryInit
    /\ kills = 0

-----------------------------------------------------------------------------
(* The handler goroutine: handleUpdate. *)

hUnchanged == UNCHANGED <<present, latest, aged, workerVars, kills>>

\* The next notification; a version that was not ready for too long is looked
\* up under the lock, which is held until handleUpdate returns (the defer).
HandleUpdate ==
    /\ hpc = "idle" /\ pending # <<>>
    /\ hobj' = Head(pending)
    /\ pending' = Tail(pending)
    /\ IF TooLong(hobj')
       THEN ~lock /\ lock' = TRUE /\ hpc' = "enqueue" /\ htries' = htries
       ELSE UNCHANGED lock /\ hpc' = "poll" /\ htries' = PollTries
    /\ UNCHANGED <<queueVars, enqueueMap>> /\ hUnchanged

\* A node without a mark is added to the queue.
EnqueueForgotten ==
    /\ hpc = "enqueue" /\ hobj.node \notin enqueueMap
    /\ hpc' = "mark"
    /\ UNCHANGED <<pending, queueVars, enqueueMap, lock, hobj, htries>>
    /\ hUnchanged

EnqueueUnchecked ==
    /\ hpc = "enqueue"
    /\ Add(hobj)
    /\ hpc' = "mark"
    /\ UNCHANGED <<pending, enqueueMap, lock, hobj, htries>> /\ hUnchanged

EnqueueByName ==
    /\ hpc = "enqueue" /\ hobj.node \notin enqueueMap
    /\ IF \E o \in processing : o.node = hobj.node
       THEN UNCHANGED queueVars
       ELSE Add(hobj)
    /\ hpc' = "mark"
    /\ UNCHANGED <<pending, enqueueMap, lock, hobj, htries>> /\ hUnchanged

Enqueue ==
    /\ hpc = "enqueue" /\ hobj.node \notin enqueueMap
    /\ Add(hobj)
    /\ hpc' = "mark"
    /\ UNCHANGED <<pending, enqueueMap, lock, hobj, htries>> /\ hUnchanged

AlreadyMarked ==
    /\ hpc = "enqueue" /\ hobj.node \in enqueueMap
    /\ hpc' = "poll" /\ htries' = PollTries
    /\ UNCHANGED <<pending, queueVars, enqueueMap, lock, hobj>> /\ hUnchanged

Mark ==
    /\ hpc = "mark"
    /\ enqueueMap' = enqueueMap \union {hobj.node}
    /\ hpc' = "poll" /\ htries' = PollTries
    /\ UNCHANGED <<pending, queueVars, lock, hobj>> /\ hUnchanged

\* One turn of checkNodeReadyStatusAfterRepairing; HandlerPanic has the turn
\* in which the node is not in the cache.
HandlerPoll ==
    /\ hpc = "poll" /\ hobj.node \in present
    /\ \/ /\ CachedReady(hobj.node)
          /\ hpc' = "ready" /\ htries' = 0
       \/ /\ ~CachedReady(hobj.node)
          /\ htries' = htries - 1
          /\ hpc' = IF htries = 1 THEN "gaveup" ELSE "poll"
    /\ UNCHANGED <<pending, queueVars, enqueueMap, lock, hobj>> /\ hUnchanged

HandlerReturns == hpc' = "idle" /\ hobj' = None /\ lock' = FALSE

\* The lookup after the poll: the handler returns unless it has to unmark.
MustUnmarkAlways == hpc \in {"ready", "gaveup"} /\ hobj.node \in enqueueMap
MustUnmark == hpc = "ready" /\ hobj.node \in enqueueMap

HandlerLookup ==
    /\ hpc \in {"ready", "gaveup"} /\ ~MustUnmark
    /\ HandlerReturns
    /\ UNCHANGED <<pending, queueVars, enqueueMap, htries>> /\ hUnchanged

HandlerFoundMark ==
    /\ MustUnmark
    /\ hpc' = "unmark"
    /\ UNCHANGED <<pending, queueVars, enqueueMap, lock, hobj, htries>>
    /\ hUnchanged

HandlerUnmark ==
    /\ hpc = "unmark"
    /\ enqueueMap' = enqueueMap \ {hobj.node}
    /\ HandlerReturns
    /\ UNCHANGED <<pending, queueVars, htries>> /\ hUnchanged

-----------------------------------------------------------------------------
(* The worker goroutine: processItem and handleNotReadyNode. *)

wUnchanged == UNCHANGED <<informerVars, handlerVars, kills>>

Get ==
    /\ wpc = "idle"
    /\ Take
    /\ wpc' = "reboot" /\ wobj' = Head(queue)
    /\ UNCHANGED <<enqueueMap, wtries, reboots>> /\ wUnchanged

\* handleNotReadyNode returns, with an error or without.
WorkerReturns == wpc' = "idle" /\ wobj' = None /\ wtries' = 0 /\ reboots' = 0

\* createGoVCloudClient and RebootVM succeed; whether the node gets ready
\* afterwards is up to the cluster.
Reboot ==
    /\ wpc = "reboot"
    /\ reboots' = reboots + 1
    /\ wpc' = "poll" /\ wtries' = PollTries
    /\ UNCHANGED <<queueVars, enqueueMap, wobj>> /\ wUnchanged

\* One of them fails: the error is returned and the mark stays.
RebootFailsForGood ==
    /\ wpc = "reboot"
    /\ wpc' = "ended" /\ wobj' = None /\ wtries' = 0 /\ reboots' = 0
    /\ UNCHANGED <<queueVars, enqueueMap>> /\ wUnchanged

RebootFails ==
    /\ wpc = "reboot"
    /\ WorkerReturns
    /\ UNCHANGED <<queueVars, enqueueMap>> /\ wUnchanged

RebootOnceMore == reboots <= RebootRetries
RebootAgain == reboots < RebootRetries

WorkerPoll ==
    /\ wpc = "poll" /\ wobj.node \in present
    /\ \/ /\ CachedReady(wobj.node)
          /\ wpc' = "repaired" /\ wtries' = 0
       \/ /\ ~CachedReady(wobj.node)
          /\ wtries' = wtries - 1
          /\ wpc' = IF wtries > 1 THEN "poll"
                    ELSE IF RebootAgain THEN "reboot"
                    ELSE "replace"
    /\ UNCHANGED <<queueVars, enqueueMap, wobj, reboots>> /\ wUnchanged

\* replaceNode returns; its result is dropped.
Replace ==
    /\ wpc = "replace"
    /\ wpc' = "pollAll" /\ wtries' = PollTries
    /\ UNCHANGED <<queueVars, enqueueMap, wobj, reboots>> /\ wUnchanged

\* One turn of checkAllNodesReadyStatus, which is content with one ready node.
\* maxReplaceNodeRetry is 1: out of turns, the error is returned.
SomeNodeReady == \E n \in Nodes : CachedReady(n)

WorkerPollAll ==
    /\ wpc = "pollAll"
    /\ \/ /\ SomeNodeReady
          /\ wpc' = "replaced" /\ wtries' = 0 /\ UNCHANGED <<wobj, reboots>>
       \/ /\ ~SomeNodeReady /\ wtries > 1
          /\ wtries' = wtries - 1 /\ UNCHANGED <<wpc, wobj, reboots>>
       \/ /\ ~SomeNodeReady /\ wtries = 1
          /\ WorkerReturns
    /\ UNCHANGED <<queueVars, enqueueMap>> /\ wUnchanged

WorkerUnmark ==
    /\ wpc \in {"repaired", "replaced"}
    /\ enqueueMap' = enqueueMap \ {wobj.node}
    /\ WorkerReturns
    /\ UNCHANGED queueVars /\ wUnchanged

-----------------------------------------------------------------------------
(* The end of the process. *)

Crash ==
    /\ queue' = <<>> /\ dirty' = {} /\ processing' = {}
    /\ pending' = <<>>
    /\ enqueueMap' = {}
    /\ HandlerReturns /\ htries' = 0
    /\ WorkerReturns
    /\ UNCHANGED <<present, latest, aged>>

\* newNodeState is nil when the polled node has left the cache.
HandlerPanic ==
    /\ hpc = "poll" /\ hobj.node \notin present
    /\ Crash /\ UNCHANGED kills

WorkerPanic ==
    /\ wpc = "poll" /\ wobj.node \notin present
    /\ Crash /\ UNCHANGED kills

\* The worker deletes from enqueueMap without the lock.
HandlerInMap == hpc \in {"enqueue", "mark", "ready", "gaveup", "unmark"}
WorkerInMap == wpc \in {"repaired", "replaced"}

\* The Go runtime may notice a concurrent access, and then ends the process.
MapRace ==
    /\ HandlerInMap /\ WorkerInMap
    /\ Crash /\ UNCHANGED kills

Killed ==
    /\ kills < MaxKills
    /\ kills' = kills + 1
    /\ Crash

-----------------------------------------------------------------------------
HandlerStep ==
    \/ HandleUpdate \/ Enqueue \/ AlreadyMarked \/ Mark \/ HandlerPoll
    \/ HandlerLookup \/ HandlerFoundMark \/ HandlerUnmark \/ HandlerPanic

WorkerStep ==
    \/ Get \/ Reboot \/ RebootFails \/ WorkerPoll \/ Replace \/ WorkerPollAll
    \/ WorkerUnmark \/ WorkerPanic

EnvStep ==
    \/ \E n \in Nodes : ClusterStep(n) /\ UNCHANGED processVars
    \/ MapRace
    \/ Killed

Next == HandlerStep \/ WorkerStep \/ EnvStep

Spec == Init /\ [][Next]_vars

(***************************************************************************)
(* Both goroutines are scheduled, RebootVM and replaceNode return, resyncs *)
(* go on and time passes.  Strong fairness of Resync makes up for the      *)
(* bound MaxPending: in the code a notification always finds room.         *)
(***************************************************************************)
Fairness ==
    /\ WF_vars(HandlerStep)
    /\ WF_vars(WorkerStep)
    /\ \A n \in Nodes :
          /\ WF_vars(Age(n) /\ UNCHANGED processVars)
          /\ SF_vars(Resync(n) /\ UNCHANGED processVars)

FairSpec == Spec /\ Fairness

-----------------------------------------------------------------------------
(* Properties. *)

\* n left the cluster, is ready, or was ready at some time after version o.
RecoveredSince(o) ==
    \/ o.node \notin present
    \/ latest[o.node].ready
    \/ latest[o.node].since > o.rev

Entries == Range(queue)

\* A poll sleeps between its last look at the cache and the deletion of the
\* mark, and the node may change meanwhile.  Still, when either goroutine is
\* about to drop a mark on account of a poll of that node, the node did
\* recover at some time after the version that is being handled.
UnmarkJustified ==
    /\ hpc \in {"ready", "unmark"} => RecoveredSince(hobj)
    /\ wpc = "repaired" => RecoveredSince(wobj)

\* Until the worker has had a version of the node, a queued version is marked,
\* unless the node recovered since that version: neither a late notification
\* nor a poll of another version takes the mark away from a waiting node.
FirstEntryStaysMarked ==
    \A o \in Entries :
        \/ o.node \in enqueueMap
        \/ RecoveredSince(o)
        \/ \E p \in processing : p.node = o.node
        \/ hpc = "mark" /\ hobj = o

\* A mark is only ever there for a node of which this process has queued or
\* handed over a version: no node is refused that was not offered first.
MarkWasOffered ==
    \A n \in enqueueMap : \E o \in Entries \union processing : o.node = n

\* The versions that their node recovered after.
Outdated == {o \in Object : RecoveredSince(o)}

\* The handler, the queue and the worker's two deletions keep the promise of
\* Delivery: a marked node is not offered again, a version is handed over at
\* most once and in turn, and no mark goes before the worker has had the node,
\* unless what waits of it is out of date (handleUpdate, Controller.go:236-254,
\* processItem, Controller.go:88-106, and the deletions at 150 and 161).
D == INSTANCE Delivery WITH
        Version <- Object, waiting <- queue, delivered <- processing,
        barred <- enqueueMap, recovered <- Outdated

DeliverySpec == D!Spec

\* Every version in the queue is handed over, or the process ends.
DeliveryFair == D!FairSpec

\* n is marked, or about to be.
Barred(n) == n \in enqueueMap \/ (hpc = "mark" /\ hobj.node = n)

\* The last offer of n was lost on the queue: an object that the worker had
\* before is only dirty, and the mark of that offer keeps others out.
OfferLost(n) ==
    /\ Barred(n)
    /\ \E o \in dirty \intersect processing : o.node = n
    /\ \A o \in Entries : o.node # n
    /\ wobj # None => wobj.node # n

\* Each time again, a node that is not ready and has no mark gets to the
\* worker, unless it recovers or leaves, or its object was offered before and
\* the offer is lost (ReprocessedAfterUnmark): whatever the handler is polling,
\* whatever the worker did to the node or to others before, and although
\* notifications are lost when the process ends.
NotReadyIsHandedOver ==
    \A n \in Nodes :
        n \in present /\ ~latest[n].ready /\ ~Barred(n)
            ~> \/ CachedReady(n)
               \/ n \notin present
               \/ wobj # None /\ wobj.node = n
               \/ OfferLost(n)

\* What Controller.go:150 and 161 say of the deletion of a mark: the node can
\* be processed again.  A node offered without a mark is rebooted again, unless
\* it recovers or leaves.
ReprocessedAfterUnmark ==
    \A n \in Nodes :
        hpc = "enqueue" /\ hobj.node = n /\ n \notin enqueueMap
            ~> \/ CachedReady(n)
               \/ n \notin present
               \/ wpc = "reboot" /\ reboots = 0 /\ wobj.node = n

\* What Controller.go:48 says of the lock: concurrent accesses to enqueueMap
\* are handled.
LockOrdersMapAccess == ~(HandlerInMap /\ WorkerInMap)

\* What README.md:7 says: the repair function, which starts with a reboot, is
\* called for a node that is in state not ready.
HealthyNodeNotRebooted ==
    [][Reboot /\ reboots = 0 => ~CachedReady(wobj.node)]_vars
=============================================================================
