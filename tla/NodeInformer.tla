------------------------------ MODULE NodeInformer ------------------------------
(***************************************************************************)
(* What the controller sees of the cluster: the node objects, the cache of *)
(* the shared informer that nodeLister reads, and the FIFO of update       *)
(* notifications that client-go holds for the one handler the controller   *)
(* registers (newController, Controller.go:62-66, which sets UpdateFunc    *)
(* only).  The informer is client-go code; it is modelled from the way     *)
(* main.go and Controller.go use it.                                       *)
(*                                                                         *)
(* A version of a node is a Go object of its own: client-go never changes  *)
(* an object in place, so the record below also stands for the pointer     *)
(* that the handler puts on the work queue.                                *)
(***************************************************************************)
EXTENDS Naturals, Sequences, Functions

CONSTANTS
    Nodes,        \* names of nodes, of masters and workers alike
    Stable,       \* bound: nodes that keep their first version
    MaxRev,       \* bound: versions of any other node
    MaxPending    \* bound: notifications waiting for the handler

ASSUME InformerAssumption == MaxRev \in Nat \ {0} /\ MaxPending \in Nat

Revs == 1 .. MaxRev

(***************************************************************************)
(* "ready" is condition.Status = ConditionTrue of the NodeReady condition, *)
(* "since" the version at which that condition last changed, which stands  *)
(* for its LastTransitionTime.                                             *)
(***************************************************************************)
Object == [node : Nodes, rev : Revs, since : Revs, ready : BOOLEAN]

VARIABLES
    present,   \* the nodes in the informer's cache
    latest,    \* the latest version of each node, in the cache if present
    aged,      \* transitions of n up to aged[n] are at least 5 minutes old
    pending    \* notifications of the handler, oldest first

informerVars == <<present, latest, aged, pending>>

InformerTypeOK ==
    /\ present \subseteq Nodes
    /\ latest \in [Nodes -> Object]
    /\ aged \in [Nodes -> 0 .. MaxRev]
    /\ pending \in Seq(Object)

InformerInit ==
    /\ present \in SUBSET Nodes
    /\ latest \in [Nodes -> {o \in Object : o.rev = 1 /\ o.since = 1}]
    /\ \A n \in Nodes : latest[n].node = n
    /\ aged = [n \in Nodes |-> 0]
    /\ pending = <<>>

(***************************************************************************)
(* isNodeNotReadyForTooLong: the test looks at the version it is given,    *)
(* not at the cache, and at the time that has passed when it is called.    *)
(***************************************************************************)
TooLong(o) == ~o.ready /\ o.since <= aged[o.node]

\* nodeLister.Get(n), by a caller that only looks at the Ready condition.
CachedAtAll(n) == n \in present
CachedReady(n) == n \in present /\ latest[n].ready

Notify(o) ==
    /\ Len(pending) < MaxPending
    /\ pending' = Append(pending, o)

MayChange(n) == latest[n].rev < MaxRev /\ n \notin Stable

\* The Ready condition of n changes: a new version with a new transition.
Flip(n) ==
    /\ n \in present
    /\ MayChange(n)
    /\ latest' = [latest EXCEPT ![n] = [node  |-> n,
                                        rev   |-> latest[n].rev + 1,
                                        since |-> latest[n].rev + 1,
                                        ready |-> ~latest[n].ready]]
    /\ Notify(latest'[n])
    /\ UNCHANGED <<present, aged>>

\* Anything else of n changes (a taint, a label, a relist of the watch).
Touch(n) ==
    /\ n \in present
    /\ MayChange(n)
    /\ latest' = [latest EXCEPT ![n].rev = latest[n].rev + 1]
    /\ Notify(latest'[n])
    /\ UNCHANGED <<present, aged>>

\* The resync of the informer factory (main.go:31) repeats the cached object.
Resync(n) ==
    /\ n \in present
    /\ Notify(latest[n])
    /\ UNCHANGED <<present, latest, aged>>

\* waitingTimeForNotReady goes by after one more transition of n.
Age(n) ==
    /\ \E k \in aged[n] + 1 .. latest[n].since : aged' = [aged EXCEPT ![n] = k]
    /\ UNCHANGED <<present, latest, pending>>

\* A node leaves the cluster: there is no DeleteFunc, so no notification.
Leave(n) ==
    /\ n \in present
    /\ present' = present \ {n}
    /\ UNCHANGED <<latest, aged, pending>>

\* A node joins, under a new or an old name: no AddFunc, no notification.
Join(n) ==
    /\ n \notin present
    /\ MayChange(n)
    /\ present' = present \union {n}
    /\ \E b \in BOOLEAN :
          latest' = [latest EXCEPT ![n] = [node  |-> n,
                                           rev   |-> latest[n].rev + 1,
                                           since |-> latest[n].rev + 1,
                                           ready |-> b]]
    /\ UNCHANGED <<aged, pending>>

ClusterStep(n) ==
    Flip(n) \/ Touch(n) \/ Resync(n) \/ Age(n) \/ Leave(n) \/ Join(n)
=============================================================================
