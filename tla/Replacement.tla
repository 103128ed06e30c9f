------------------------------ MODULE Replacement ------------------------------
(***************************************************************************)
(* What one replacement of a worker may do to the cluster, whatever goes   *)
(* wrong: its jobs create at most two nodes (one, and one more by the      *)
(* retry after an ERROR), remove no worker but the one to be replaced, and *)
(* do not go back: what a call does first it does not do again second.     *)
(* Everyone else may change the workers as they like while no job of the   *)
(* call runs.                                                              *)
(***************************************************************************)
EXTENDS Naturals

CONSTANT Workers

VARIABLES
    workers,   \* the workers there are
    mode,      \* "none", or the order that the call under way chose
    target,    \* the worker to be replaced
    running,   \* whether a job of this call runs
    created,   \* nodes that jobs of this call created
    removed    \* whether a job of this call removed target

vars == <<workers, mode, target, running, created, removed>>

Modes == {"createFirst", "removeFirst"}

Init ==
    /\ workers \in SUBSET Workers
    /\ mode = "none" /\ target \in Workers
    /\ running = FALSE /\ created = 0 /\ removed = FALSE

Begin ==
    /\ mode = "none" /\ mode' \in Modes
    /\ UNCHANGED <<workers, target, running, created, removed>>

Request ==
    /\ mode # "none" /\ running' = TRUE
    /\ UNCHANGED <<workers, mode, target, created, removed>>

Create ==
    /\ running /\ running' = FALSE
    /\ created < 2
    /\ mode = "createFirst" => ~removed
    /\ created' = created + 1
    /\ \E w \in Workers : workers' = workers \union {w}
    /\ UNCHANGED <<mode, target, removed>>

Remove ==
    /\ running /\ running' = FALSE
    /\ mode = "removeFirst" => created = 0
    /\ removed' = TRUE
    /\ workers' = workers \ {target}
    /\ UNCHANGED <<mode, target, created>>

Fail ==
    /\ running /\ running' = FALSE
    /\ UNCHANGED <<workers, mode, target, created, removed>>

End ==
    /\ mode # "none" /\ mode' = "none"
    /\ running' = FALSE /\ created' = 0 /\ removed' = FALSE
    /\ UNCHANGED <<workers, target>>

\* Another actor, or a job that outlived the process that asked for it; and
\* between two calls the next one gets its target.
Others ==
    /\ ~running
    /\ workers' \in SUBSET Workers
    /\ target' \in Workers /\ (mode # "none" => target' = target)
    /\ UNCHANGED <<mode, running, created, removed>>

Next == Begin \/ Request \/ Create \/ Remove \/ Fail \/ End \/ Others

Spec == Init /\ [][Next]_vars
=============================================================================
