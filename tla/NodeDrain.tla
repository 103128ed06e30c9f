-------------------------------- MODULE NodeDrain --------------------------------
(***************************************************************************)
(* cordonWorkerNodeAndDeletePod (scaler/ScaleDown.go): cordon a worker,    *)
(* list its pods and delete them one by one, while the scheduler, which    *)
(* learns of the cordon later, still binds pods to it.  Errors of the      *)
(* patch and of the deletions are dropped, one of the list ends the        *)
(* process, and so does a pod without an owner.  The call of it in         *)
(* ScaleDown is commented out.                                             *)
(*                                                                         *)
(* FirstOnly is a mutant of Remaining and Inverted of SkippedKinds.        *)
(***************************************************************************)
EXTENDS FiniteSets

CONSTANTS
    Pods,
    Kind  \* kind of each pod's first owner, or "none" without an owner

DrainConstants ==
    /\ IsFiniteSet(Pods)
    /\ Kind \in [Pods -> {"ReplicaSet", "DaemonSet", "none"}]

VARIABLES
    unschedulable,  \* of the node, in the API server
    known,          \* the same, as the scheduler knows it
    pod,            \* "pending", on the node "here" or "leaving", or "gone"
    pc,
    todo,           \* the pods listed that are not looked at yet
    quiet           \* history: no request failed, and the cordon was known in time

vars == <<unschedulable, known, pod, pc, todo, quiet>>

TypeOK ==
    /\ unschedulable \in BOOLEAN /\ known \in BOOLEAN
    /\ pod \in [Pods -> {"pending", "here", "leaving", "gone"}]
    /\ pc \in {"patch", "list", "delete", "returned", "ended"}
    /\ todo \subseteq Pods
    /\ quiet \in BOOLEAN
    \* The scheduler knows of no cordon but this one, and only pods that were
    \* bound are looked at.
    /\ known => unschedulable
    /\ \A p \in todo : pod[p] # "pending"

Init ==
    /\ unschedulable = FALSE /\ known = FALSE
    /\ pod \in [Pods -> {"pending", "here"}]
    /\ pc = "patch" /\ todo = {} /\ quiet = TRUE

-----------------------------------------------------------------------------
Patch ==
    /\ pc = "patch" /\ pc' = "list"
    /\ \/ unschedulable' = TRUE /\ UNCHANGED quiet
       \/ quiet' = FALSE /\ UNCHANGED unschedulable
    /\ UNCHANGED <<known, pod, todo>>

OnNode == {p \in Pods : pod[p] \in {"here", "leaving"}}

List ==
    /\ pc = "list"
    /\ \/ /\ todo' = OnNode
          /\ pc' = "delete"
       \/ pc' = "ended" /\ UNCHANGED todo
    /\ quiet' = (quiet /\ known)
    /\ UNCHANGED <<unschedulable, known, pod>>

FirstOnly(p) == {}
Remaining(p) == todo \ {p}

Inverted == {"ReplicaSet"}
SkippedKinds == {"DaemonSet"}

Skip(p) ==
    /\ pc = "delete" /\ p \in todo /\ Kind[p] \in SkippedKinds
    /\ todo' = Remaining(p)
    /\ UNCHANGED <<unschedulable, known, pod, pc, quiet>>

\* OwnerReferences[0]
Panic(p) ==
    /\ pc = "delete" /\ p \in todo /\ Kind[p] = "none"
    /\ pc' = "ended"
    /\ UNCHANGED <<unschedulable, known, pod, todo, quiet>>

DeletePod(p) ==
    /\ pc = "delete" /\ p \in todo /\ Kind[p] \notin SkippedKinds \union {"none"}
    /\ todo' = Remaining(p)
    /\ \/ /\ pod' = [pod EXCEPT ![p] = IF @ = "here" THEN "leaving" ELSE @]
          /\ UNCHANGED quiet
       \/ quiet' = FALSE /\ UNCHANGED pod
    /\ UNCHANGED <<unschedulable, known, pc>>

Return ==
    /\ pc = "delete" /\ todo = {}
    /\ pc' = "returned"
    /\ UNCHANGED <<unschedulable, known, pod, todo, quiet>>

-----------------------------------------------------------------------------
(* Scheduler and kubelet; pods of a daemon set tolerate the cordon. *)

Learn ==
    /\ known # unschedulable /\ known' = unschedulable
    /\ UNCHANGED <<unschedulable, pod, pc, todo, quiet>>

Bind(p) ==
    /\ pod[p] = "pending"
    /\ known => Kind[p] = "DaemonSet"
    /\ pod' = [pod EXCEPT ![p] = "here"]
    /\ UNCHANGED <<unschedulable, known, pc, todo, quiet>>

Stop(p) ==
    /\ pod[p] = "leaving"
    /\ pod' = [pod EXCEPT ![p] = "gone"]
    /\ UNCHANGED <<unschedulable, known, pc, todo, quiet>>

CallStep ==
    \/ Patch \/ List \/ Return
    \/ \E p \in Pods : Skip(p) \/ Panic(p) \/ DeletePod(p)

Next == CallStep \/ Learn \/ \E p \in Pods : Bind(p) \/ Stop(p)

\* The goroutine of the call goes on, and the kubelet stops pods.
Spec ==
    /\ Init /\ [][Next]_vars
    /\ WF_vars(CallStep) /\ \A p \in Pods : WF_vars(Stop(p))

-----------------------------------------------------------------------------
(* Properties. *)

\* The cordon comes before the list, so that after a quiet call no pod is on the
\* node but those of daemon sets and those about to stop: none was overlooked,
\* and none slips in later.
NothingSlipsIn ==
    pc = "returned" /\ quiet =>
        \A p \in Pods : pod[p] = "here" => Kind[p] = "DaemonSet"

\* After a quiet call nothing but pods of daemon sets is on the node for good.
NothingStays ==
    [](pc = "returned" /\ quiet =>
           \A p \in Pods : Kind[p] # "DaemonSet" => <>[](pod[p] # "here" /\ pod[p] # "leaving"))
=============================================================================
