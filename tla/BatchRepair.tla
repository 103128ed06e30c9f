------------------------------ MODULE BatchRepair ------------------------------
(***************************************************************************)
(* What a repair promises: it goes through a list of nodes from front to   *)
(* back, batch by batch, and leaves none out.  While it is at a batch it   *)
(* asks so many times for new nodes, for no more than the batch has, and   *)
(* twice for the removal of the workers of the batch, in any order.  It    *)
(* has one job at a time, which does no more than it was asked for.        *)
(***************************************************************************)
EXTENDS Integers, Sequences

CONSTANTS
    Workers,
    MaxUps  \* requests for new nodes in a batch

VARIABLES
    nodes,   \* the nodes there are
    todo,    \* the list from the present batch on
    size,    \* how many of todo are in that batch
    ups,     \* how often the batch may still ask for new nodes
    downs,   \* how often it may still ask for its removal
    toAdd,   \* what the job of the repair has yet to add
    toDrop   \* what it has yet to drop

vars == <<nodes, todo, size, ups, downs, toAdd, toDrop>>

NoRepeats(s) == \A i, j \in DOMAIN s : s[i] = s[j] => i = j

InBatch == {todo[i] : i \in 1 .. size} \intersect Workers
NoBatch == size = 0 /\ ups = 0 /\ downs = 0
NothingLeft == toAdd = 0 /\ toDrop = {}

Init == todo = <<>> /\ NoBatch /\ NothingLeft

Start ==
    /\ todo = <<>> /\ NothingLeft
    /\ todo' \in Seq(nodes) /\ NoRepeats(todo')
    /\ UNCHANGED <<nodes, size, ups, downs, toAdd, toDrop>>

BeginBatch ==
    /\ todo # <<>> /\ NoBatch
    /\ size' \in 0 .. Len(todo) /\ ups' = MaxUps /\ downs' = 2
    /\ UNCHANGED <<nodes, todo, toAdd, toDrop>>

AskForNodes ==
    /\ NothingLeft
    /\ ups' \in 0 .. ups - 1 /\ toAdd' \in 1 .. size
    /\ UNCHANGED <<nodes, todo, size, downs, toDrop>>

AskForRemoval ==
    /\ NothingLeft
    /\ downs' \in 0 .. downs - 1 /\ toDrop' = InBatch
    /\ UNCHANGED <<nodes, todo, size, ups, toAdd>>

\* A request is refused, or not made.
Skip ==
    /\ ups' \in 0 .. ups /\ downs' \in 0 .. downs
    /\ UNCHANGED <<nodes, todo, size, toAdd, toDrop>>

\* The job of the batch may go on during the next one.
NextBatch ==
    /\ todo' = SubSeq(todo, size + 1, Len(todo))
    /\ size' = 0 /\ ups' = 0 /\ downs' = 0
    /\ UNCHANGED <<nodes, toAdd, toDrop>>

\* At the end of the list or before it, and the job goes on as nobody's.
End ==
    /\ todo' = <<>> /\ size' = 0 /\ ups' = 0 /\ downs' = 0
    /\ toAdd' = 0 /\ toDrop' = {}
    /\ UNCHANGED nodes

JobWorks ==
    /\ \/ /\ toAdd > 0 /\ toAdd' = toAdd - 1 /\ UNCHANGED toDrop
          /\ \E w \in Workers \ nodes : nodes' = nodes \union {w}
       \/ \E w \in toDrop :
             nodes' = nodes \ {w} /\ toDrop' = toDrop \ {w} /\ UNCHANGED toAdd
    /\ UNCHANGED <<todo, size, ups, downs>>

\* Done, or failed with some of it undone.
JobEnds ==
    /\ toAdd' = 0 /\ toDrop' = {}
    /\ UNCHANGED <<nodes, todo, size, ups, downs>>

\* Others add and drop workers while no job of the repair runs.
Others ==
    /\ NothingLeft
    /\ \E w \in Workers : nodes' \in {nodes \union {w}, nodes \ {w}}
    /\ UNCHANGED <<todo, size, ups, downs, toAdd, toDrop>>

Next ==
    \/ Start \/ BeginBatch \/ AskForNodes \/ AskForRemoval \/ Skip
    \/ NextBatch \/ End \/ JobWorks \/ JobEnds \/ Others

Spec == Init /\ [][Next]_vars
=============================================================================
