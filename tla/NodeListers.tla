------------------------------- MODULE NodeListers -------------------------------
(***************************************************************************)
(* The listers of nodes (utils/kubernetes/listers.go).  Every lister has a *)
(* store of its own, which a reflector keeps up with the API server, and   *)
(* filters it when it is asked.  Nobody waits for the first list of a      *)
(* reflector: until then a store is empty.                                 *)
(*                                                                         *)
(* The node and those who write it (kubelet, node controller, an operator  *)
(* who cordons it) are external.  One node, as the filters look at one     *)
(* node at a time; version v of it was written at time v.                  *)
(***************************************************************************)
EXTENDS NodeReadiness

CONSTANT MaxVersions  \* bound: writes to the node

ListersConstants == MaxVersions \in Nat \ {0}

VARIABLES
    versions,  \* the node's versions, as they were written
    store      \* the version in each lister's store, 0 before the first list

vars == <<versions, store>>

Listers == {"ReadyNodeLister", "NotReadyNodeLister"}
Types == {"Ready", "MemoryPressure"} \union Pressures
Statuses == {"True", "False", "Unknown"}
Node == versions[Len(versions)]
Now == Len(versions) + 1

TypeOK ==
    /\ Len(versions) \in 1 .. MaxVersions
    /\ store \in [Listers -> 0 .. Len(versions)]
    /\ \A v \in DOMAIN versions :
          /\ \A i \in DOMAIN versions[v].conditions :
                /\ versions[v].conditions[i].type \in Types
                /\ versions[v].conditions[i].status \in Statuses
                /\ versions[v].conditions[i].since \in 1 .. v
          /\ \A i \in DOMAIN versions[v].taints :
                versions[v].taints[i].added \in 0 .. v
          /\ \A i, j \in DOMAIN versions[v].conditions :
                versions[v].conditions[i].type = versions[v].conditions[j].type
                    => i = j

\* A node is registered without conditions and with its first taint.
Init ==
    /\ versions = <<[conditions |-> <<>>,
                     taints |-> <<[key |-> "not-ready", added |-> NoTime]>>,
                     unschedulable |-> FALSE, created |-> 1]>>
    /\ store = [l \in Listers |-> 0]

-----------------------------------------------------------------------------
(* Writes to the node. *)

Write(node) ==
    /\ Len(versions) < MaxVersions
    /\ versions' = Append(versions, node)
    /\ UNCHANGED store

\* A condition changes its status, or is a new one, at either end.
SetCondition(type, status) ==
    LET old == {i \in DOMAIN Node.conditions : Node.conditions[i].type = type}
        new == [type |-> type, status |-> status, since |-> Now,
                reason |-> IF type = "Ready" THEN "Kubelet" ELSE ""]
    IN \/ \E i \in old : /\ Node.conditions[i].status # status
                         /\ Write([Node EXCEPT !.conditions[i] = new])
       \/ /\ old = {}
          /\ \/ Write([Node EXCEPT !.conditions = Append(@, new)])
             \/ Write([Node EXCEPT !.conditions = <<new>> \o @])

\* Only taints that evict pods tell when they were added.
AddTaint(key, added) ==
    /\ \A i \in DOMAIN Node.taints : Node.taints[i].key # key
    /\ Write([Node EXCEPT !.taints = Append(@, [key |-> key, added |-> added])])

RemoveTaint(key) ==
    \E i \in DOMAIN Node.taints :
        /\ Node.taints[i].key = key
        /\ Write([Node EXCEPT !.taints = SubSeq(@, 1, i - 1) \o SubSeq(@, i + 1, Len(@))])

Cordon == Write([Node EXCEPT !.unschedulable = ~@])

-----------------------------------------------------------------------------
\* The reflector of a lister lists the node, or sees a later version of it.
Reflect(l) ==
    /\ \E v \in store[l] + 1 .. Len(versions) : store' = [store EXCEPT ![l] = v]
    /\ UNCHANGED versions

filter(l, node) ==
    IF l = "ReadyNodeLister" THEN IsNodeReadyAndSchedulable(node)
                             ELSE IsNotNodeReadyAndSchedulable(node)

\* List: the node is in the list of the lister.
Listed(l) == store[l] # 0 /\ filter(l, versions[store[l]])

Next ==
    \/ \E t \in Types, s \in Statuses : SetCondition(t, s)
    \/ \E k \in notReadyTaints \union {"unschedulable"} :
          AddTaint(k, Now) \/ AddTaint(k, NoTime) \/ RemoveTaint(k)
    \/ Cordon
    \/ \E l \in Listers : Reflect(l)

Spec == Init /\ [][Next]_vars

\* A reflector retries its watch until it works (client-go).
FairSpec == Spec /\ \A l \in Listers : WF_vars(Reflect(l))

-----------------------------------------------------------------------------
(* Properties. *)

SetMax(S) == CHOOSE t \in S : \A u \in S : u <= t
Conditions(node) == {node.conditions[i] : i \in DOMAIN node.conditions}
Taints(node) == {node.taints[i] : i \in DOMAIN node.taints}

\* The loops of GetNodeReadiness compute what a declaration over the sets of
\* conditions and taints says: the node is ready when its Ready condition is
\* True and no pressure and no taint speaks against it, the time is the latest
\* of those it looked at, in whatever order the API returns them.
OfSets(node) ==
    LET ready == {c \in Conditions(node) : c.type = "Ready"}
        pressures == {c \in Conditions(node) : c.type \in Pressures}
        taints == {t \in Taints(node) : t.key \in notReadyTaints}
        bad == {c \in ready : c.status # "True"}
    IN IF ready = {}
       THEN Unknown
       ELSE [ready |-> bad = {} /\ taints = {}
                       /\ \A c \in pressures : c.status # "True",
             time |-> SetMax({NoTime} \union {t.added : t \in taints}
                             \union {c.since : c \in ready \union pressures}),
             reason |-> IF bad = {} THEN ""
                        ELSE (CHOOSE c \in bad : TRUE).reason]

\* So it does for the node and for the copy that marks a lack of resources,
\* which counts as not ready for that reason whatever the node was.
ReadinessOfSets ==
    LET copy == GetUnreadyNodeCopy(Node, "resource-not-ready")
    IN /\ \A node \in {Node, copy} : GetNodeReadiness(node) = OfSets(node)
       /\ ~IsNodeReadyAndSchedulable(copy) /\ IsNotNodeReadyAndSchedulable(copy)
       /\ GetNodeReadiness(copy).reason = "resource-not-ready"

\* A node that stays not ready comes to the list of the repair loop and leaves
\* the list of the ready nodes, for good.
NotReadyIsListed ==
    <>[](~GetNodeReadiness(Node).ready) =>
        <>[](Listed("NotReadyNodeLister") /\ ~Listed("ReadyNodeLister"))
=============================================================================
