----------------------------- MODULE DeletionTracker -----------------------------
(***************************************************************************)
(* NodeDeletionTracker (scaler/ScaleDown.go, and word for word in          *)
(* core/scale_down.go) as its callers see it: goroutines that delete one   *)
(* node each, and one that asks for the results.  Its methods read and     *)
(* write maps in several steps under the mutex.  A Go map is a reference:  *)
(* maps holds every map of results there was, the last is the current one. *)
(*                                                                         *)
(* The result of a deletion is the number of the call that added it.       *)
(* Unlocked, EndUncounted, KeepsZero and ClearedInPlace are mutants of     *)
(* the definitions after them.                                             *)
(***************************************************************************)
EXTENDS Integers, Sequences, FiniteSets

CONSTANTS
    Deleters,  \* goroutines that delete nodes
    Reporter,  \* the goroutine that asks for the results
    NoOne,     \* holds the mutex when nobody does
    Groups,    \* node groups
    Names,     \* names of nodes
    MaxAdds,   \* bound: results added
    MaxTakes   \* bound: calls of GetAndClearNodeDeleteResults

ASSUME TrackerAssumption ==
    /\ IsFiniteSet(Deleters) /\ IsFiniteSet(Groups)
    /\ Reporter \notin Deleters
    /\ NoOne \notin Deleters \union {Reporter}
    /\ MaxAdds \in Nat /\ MaxTakes \in Nat

VARIABLES
    lock,                 \* who holds the mutex
    deletionsInProgress,  \* counters, for some of the groups
    maps,                 \* the maps of results, the current one last
    nonEmpty,             \* nonEmptyNodeDeleteInProgress
    pc,                   \* where each goroutine is
    group, name,          \* what each deleter deletes
    read,                 \* what each deleter read: a counter, or a map
    adds                  \* results added so far

vars == <<lock, deletionsInProgress, maps, nonEmpty, pc, group, name, read,
          adds>>

Goroutines == Deleters \union {Reporter}
Current == Len(maps)
NoResults == [n \in {} |-> 0]
DeleterPCs ==
    {"idle", "starting", "deleting", "adding", "added", "ending"}

TypeOK ==
    /\ lock \in Goroutines \union {NoOne}
    /\ DOMAIN deletionsInProgress \subseteq Groups
    /\ \A g \in DOMAIN deletionsInProgress : deletionsInProgress[g] \in Nat \ {0}
    /\ Current \in 1 .. MaxTakes + 1
    /\ \A i \in 1 .. Current :
          /\ DOMAIN maps[i] \subseteq Names
          /\ \A n \in DOMAIN maps[i] : maps[i][n] \in 1 .. MaxAdds
    /\ nonEmpty \in BOOLEAN
    /\ pc \in [Goroutines -> DeleterPCs \union {"taking"}]
    /\ pc[Reporter] \in {"idle", "taking"}
    /\ \A d \in Deleters : pc[d] # "taking"
    /\ group \in [Deleters -> Groups] /\ name \in [Deleters -> Names]
    /\ read \in [Deleters -> Nat]
    /\ adds \in 0 .. MaxAdds

Init ==
    /\ lock = NoOne
    /\ deletionsInProgress = [g \in {} |-> 0]
    /\ maps = <<NoResults>>
    /\ nonEmpty = FALSE
    /\ pc = [p \in Goroutines |-> "idle"]
    /\ group \in [Deleters -> Groups] /\ name \in [Deleters -> Names]
    /\ read = [d \in Deleters |-> 0]
    /\ adds = 0

-----------------------------------------------------------------------------
(* Methods of the tracker: Lock and the first access, then the rest and    *)
(* Unlock.  One with a single access is one step.                          *)

Unlocked(p) == lock' = p
Lock(p) == lock = NoOne /\ lock' = p
Unlock == lock' = NoOne
Goto(p, where) == pc' = [pc EXCEPT ![p] = where]

GetDeletionsInProgress(g) ==
    IF g \in DOMAIN deletionsInProgress THEN deletionsInProgress[g] ELSE 0

SetCounter(g, n) ==
    deletionsInProgress' =
        [h \in DOMAIN deletionsInProgress \union {g} |->
            IF h = g THEN n ELSE deletionsInProgress[h]]

StartDeletion(d, g, n) ==
    /\ pc[d] = "idle" /\ adds < MaxAdds
    /\ Lock(d) /\ Goto(d, "starting")
    /\ group' = [group EXCEPT ![d] = g] /\ name' = [name EXCEPT ![d] = n]
    /\ read' = [read EXCEPT ![d] = GetDeletionsInProgress(g)]
    /\ UNCHANGED <<deletionsInProgress, maps, nonEmpty, adds>>

Started(d) ==
    /\ pc[d] = "starting"
    /\ SetCounter(group[d], read[d] + 1)
    /\ Unlock /\ Goto(d, "deleting")
    /\ UNCHANGED <<maps, nonEmpty, group, name, read, adds>>

AddNodeDeleteResult(d) ==
    /\ pc[d] = "deleting" /\ adds < MaxAdds
    /\ Lock(d) /\ Goto(d, "adding")
    /\ read' = [read EXCEPT ![d] = Current]
    /\ UNCHANGED <<deletionsInProgress, maps, nonEmpty, group, name, adds>>

Added(d) ==
    /\ pc[d] = "adding"
    /\ adds' = adds + 1
    /\ maps' = [maps EXCEPT ![read[d]] =
                   [m \in DOMAIN @ \union {name[d]} |->
                       IF m = name[d] THEN adds' ELSE @[m]]]
    /\ Unlock /\ Goto(d, "added")
    /\ UNCHANGED <<deletionsInProgress, nonEmpty, group, name, read>>

\* Without a counter there is nothing to end, "this should never happen".
EndDeletion(d) ==
    /\ pc[d] = "added"
    /\ IF group[d] \in DOMAIN deletionsInProgress
       THEN /\ Lock(d) /\ Goto(d, "ending")
            /\ read' = [read EXCEPT ![d] = deletionsInProgress[group[d]]]
       ELSE lock = NoOne /\ Goto(d, "idle") /\ UNCHANGED <<lock, read>>
    /\ UNCHANGED <<deletionsInProgress, maps, nonEmpty, group, name, adds>>

EndUncounted(n) == n > 2
KeepsZero(n) == n > 0
Remaining(n) == n > 1

\* A counter that comes to zero leaves the map.
Ended(d) ==
    /\ pc[d] = "ending"
    /\ IF Remaining(read[d])
       THEN SetCounter(group[d], read[d] - 1)
       ELSE deletionsInProgress' =
                [h \in DOMAIN deletionsInProgress \ {group[d]} |->
                    deletionsInProgress[h]]
    /\ Unlock /\ Goto(d, "idle")
    /\ UNCHANGED <<maps, nonEmpty, group, name, read, adds>>

\* SetNonEmptyNodeDeleteInProgress
SetNonEmpty(status) ==
    /\ lock = NoOne
    /\ nonEmpty' = status
    /\ UNCHANGED <<lock, deletionsInProgress, maps, pc, group, name, read, adds>>

GetAndClear ==
    /\ pc[Reporter] = "idle" /\ Current <= MaxTakes
    /\ Lock(Reporter) /\ Goto(Reporter, "taking")
    /\ UNCHANGED <<deletionsInProgress, maps, nonEmpty, group, name, read, adds>>

ClearedInPlace ==
    maps' = Append([maps EXCEPT ![Current] = NoResults], NoResults)
Renewed == maps' = Append(maps, NoResults)

\* From here on the caller reads the map it got, without the mutex.
Cleared ==
    /\ pc[Reporter] = "taking"
    /\ Renewed
    /\ Unlock /\ Goto(Reporter, "idle")
    /\ UNCHANGED <<deletionsInProgress, nonEmpty, group, name, read, adds>>

-----------------------------------------------------------------------------
Proceed(d) ==
    \/ Started(d) \/ AddNodeDeleteResult(d) \/ Added(d)
    \/ EndDeletion(d) \/ Ended(d)

Next ==
    \/ \E d \in Deleters, g \in Groups, n \in Names : StartDeletion(d, g, n)
    \/ \E d \in Deleters : Proceed(d)
    \/ \E status \in BOOLEAN : SetNonEmpty(status)
    \/ GetAndClear \/ Cleared

Spec == Init /\ [][Next]_vars

-----------------------------------------------------------------------------
(* Properties. *)

Deleting(d) == pc[d] \in {"deleting", "adding", "added", "ending"}

\* The counter of a group is the number of deletions between StartDeletion and
\* EndDeletion, however they interleave; so EndDeletion always finds the counter
\* it looks for.
CountsDeletions ==
    \A g \in Groups :
        GetDeletionsInProgress(g) =
            Cardinality({d \in Deleters : Deleting(d) /\ group[d] = g})

\* From the step that hands it out a map is the caller's, who reads it without
\* the mutex: nobody writes to it any more.
HandedOutIsFrozen ==
    [][\A i \in 1 .. Current : i < Current' => maps'[i] = maps[i]]_vars

\* The tracker does what module Deletions promises.
Handed == UNION {{<<n, maps[i][n]>> : n \in DOMAIN maps[i]} : i \in 1 .. Current - 1}
D == INSTANCE Deletions WITH
         inProgress <- [g \in Groups |-> GetDeletionsInProgress(g)],
         results <- maps[Current], handed <- Handed, Results <- 1 .. MaxAdds
DeletionsSpec == D!Spec
=============================================================================
