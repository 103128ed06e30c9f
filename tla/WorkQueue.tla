------------------------------- MODULE WorkQueue -------------------------------
(***************************************************************************)
(* The work queue of client-go (workqueue.Type) as the controller uses it. *)
(* Items are compared by pointer.  An item that is being processed is not  *)
(* queued again before it is given back with Done: the controller calls    *)
(* Get and Forget (Controller.go:92,96), but nowhere Done, so there is no  *)
(* action that takes an item out of processing.                            *)
(***************************************************************************)
EXTENDS Sequences, Functions

VARIABLES
    queue,        \* the items to hand out, oldest first
    dirty,        \* the items that were added and not handed out since
    processing    \* the items that were handed out and not given back

queueVars == <<queue, dirty, processing>>

QueueInit ==
    /\ queue = <<>>
    /\ dirty = {}
    /\ processing = {}

\* queue.Add(o)
Add(o) ==
    /\ dirty' = dirty \union {o}
    /\ queue' = IF o \in dirty \union processing THEN queue
                                                 ELSE Append(queue, o)
    /\ UNCHANGED processing

\* queue.Get(), which blocks on an empty queue, returning Head(queue)
Take ==
    /\ queue # <<>>
    /\ queue' = Tail(queue)
    /\ dirty' = dirty \ {Head(queue)}
    /\ processing' = processing \union {Head(queue)}
=============================================================================
