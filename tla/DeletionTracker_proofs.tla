------------------------- MODULE DeletionTracker_proofs -------------------------
(***************************************************************************)
(* That the methods of NodeDeletionTracker act as if each happened at      *)
(* once, for any number of goroutines, node groups and nodes: the          *)
(* mutex keeps what a goroutine has read current until it writes.          *)
(***************************************************************************)
EXTENDS DeletionTracker, FiniteSetTheorems, TLAPS

Counters == UNION {[S -> Nat \ {0}] : S \in SUBSET Groups}
ResultMaps == UNION {[S -> 1 .. MaxAdds] : S \in SUBSET Names}

\* Where a goroutine holds the mutex.
Inside == {"starting", "adding", "ending", "taking"}

ShapeInv ==
    /\ deletionsInProgress \in Counters
    /\ maps \in Seq(ResultMaps)

Mutex == \A p \in Goroutines : pc[p] \in Inside <=> lock = p

\* What was read is still what there is.
ReadIsCurrent ==
    /\ \A d \in Deleters :
          /\ pc[d] = "starting" => read[d] = GetDeletionsInProgress(group[d])
          /\ pc[d] = "adding" => read[d] = Current /\ adds < MaxAdds
          /\ pc[d] = "ending" => /\ group[d] \in DOMAIN deletionsInProgress
                                 /\ read[d] = deletionsInProgress[group[d]]
    /\ pc[Reporter] = "taking" => Current <= MaxTakes

-----------------------------------------------------------------------------
(* The two kinds of maps. *)

\* A partial function into counters or results is told by its domain and values.
LEMMA CountersDef ==
    \A c : c \in Counters <=>
        /\ DOMAIN c \subseteq Groups
        /\ c \in [DOMAIN c -> Nat \ {0}]
  BY DEF Counters

LEMMA ResultMapsDef ==
    \A m : m \in ResultMaps <=>
        /\ DOMAIN m \subseteq Names
        /\ m \in [DOMAIN m -> 1 .. MaxAdds]
  BY DEF ResultMaps

\* A counter that is read is a number.
LEMMA CounterIsNat ==
    ASSUME ShapeInv, NEW g
    PROVE  /\ GetDeletionsInProgress(g) \in Nat
           /\ g \in DOMAIN deletionsInProgress <=> GetDeletionsInProgress(g) # 0
  BY CountersDef DEF ShapeInv, GetDeletionsInProgress

\* Storing a counter sets that counter and no other.
LEMMA SetCounterSets ==
    ASSUME ShapeInv, NEW g \in Groups, NEW n \in Nat \ {0}, SetCounter(g, n)
    PROVE  /\ deletionsInProgress' \in Counters
           /\ \A h : GetDeletionsInProgress(h)' =
                         IF h = g THEN n ELSE GetDeletionsInProgress(h)
<1> DEFINE S == DOMAIN deletionsInProgress \union {g}
<1>1. deletionsInProgress' = [h \in S |-> IF h = g THEN n ELSE deletionsInProgress[h]]
  BY DEF SetCounter
<1>2. S \subseteq Groups /\ \A h \in DOMAIN deletionsInProgress :
          deletionsInProgress[h] \in Nat \ {0}
  BY CountersDef DEF ShapeInv
<1>3. deletionsInProgress' \in [S -> Nat \ {0}]
  BY <1>1, <1>2
<1>4. deletionsInProgress' \in Counters
  BY <1>2, <1>3 DEF Counters
<1>5. \A h : GetDeletionsInProgress(h)' =
                 IF h = g THEN n ELSE GetDeletionsInProgress(h)
  BY <1>1 DEF GetDeletionsInProgress
<1> QED
  BY <1>4, <1>5

\* A counter that leaves the map reads zero, the others are as before.
LEMMA DropCounterSets ==
    ASSUME ShapeInv, NEW g,
           deletionsInProgress' =
               [h \in DOMAIN deletionsInProgress \ {g} |-> deletionsInProgress[h]]
    PROVE  /\ deletionsInProgress' \in Counters
           /\ \A h : GetDeletionsInProgress(h)' =
                         IF h = g THEN 0 ELSE GetDeletionsInProgress(h)
<1> DEFINE S == DOMAIN deletionsInProgress \ {g}
<1>1. S \subseteq Groups /\ \A h \in S : deletionsInProgress[h] \in Nat \ {0}
  BY CountersDef DEF ShapeInv
<1>2. deletionsInProgress' \in [S -> Nat \ {0}]
  BY <1>1
<1>3. deletionsInProgress' \in Counters
  BY <1>1, <1>2 DEF Counters
<1>4. \A h : GetDeletionsInProgress(h)' =
                 IF h = g THEN 0 ELSE GetDeletionsInProgress(h)
  BY DEF GetDeletionsInProgress
<1> QED
  BY <1>3, <1>4

\* A map with one result more is one of the maps of results.
LEMMA AddedResult ==
    ASSUME NEW m \in ResultMaps, NEW n \in Names, NEW r \in 1 .. MaxAdds
    PROVE  [k \in DOMAIN m \union {n} |-> IF k = n THEN r ELSE m[k]] \in ResultMaps
<1> DEFINE S == DOMAIN m \union {n}
           f == [k \in S |-> IF k = n THEN r ELSE m[k]]
<1>1. DOMAIN m \subseteq Names /\ \A k \in DOMAIN m : m[k] \in 1 .. MaxAdds
  BY ResultMapsDef
<1>2. f \in [S -> 1 .. MaxAdds] /\ S \subseteq Names
  BY <1>1
<1> QED
  BY <1>2 DEF ResultMaps

\* There is a map without a result, and one without a counter.
LEMMA NoResultsIsAMap == NoResults \in ResultMaps /\ [g \in {} |-> 0] \in Counters
<1>1. NoResults \in [{} -> 1 .. MaxAdds]
  BY DEF NoResults
<1>2. [g \in {} |-> 0] \in [{} -> Nat \ {0}]
  OBVIOUS
<1> QED
  BY <1>1, <1>2 DEF ResultMaps, Counters

-----------------------------------------------------------------------------
(* The invariant. *)

\* TypeOK, with the two kinds of maps by their names.
Shape ==
    /\ ShapeInv
    /\ lock \in Goroutines \union {NoOne}
    /\ Current \in 1 .. MaxTakes + 1
    /\ nonEmpty \in BOOLEAN
    /\ pc \in [Goroutines -> DeleterPCs \union {"taking"}]
    /\ pc[Reporter] \in {"idle", "taking"}
    /\ \A d \in Deleters : pc[d] # "taking"
    /\ group \in [Deleters -> Groups] /\ name \in [Deleters -> Names]
    /\ read \in [Deleters -> Nat]
    /\ adds \in 0 .. MaxAdds

IInv == Shape /\ Mutex /\ ReadIsCurrent

\* The shape of the maps is what TypeOK says of them.
LEMMA ShapeIsTypeOK == Shape => TypeOK
<1> SUFFICES ASSUME Shape PROVE TypeOK
  OBVIOUS
<1>1. /\ DOMAIN deletionsInProgress \subseteq Groups
      /\ \A g \in DOMAIN deletionsInProgress : deletionsInProgress[g] \in Nat \ {0}
  BY CountersDef DEF Shape, ShapeInv
<1>2. ASSUME NEW i \in 1 .. Current
      PROVE  /\ DOMAIN maps[i] \subseteq Names
             /\ \A n \in DOMAIN maps[i] : maps[i][n] \in 1 .. MaxAdds
  <2>1. maps[i] \in ResultMaps
    BY <1>2 DEF Shape, ShapeInv, Current
  <2> QED
    BY <2>1, ResultMapsDef
<1> QED
  BY <1>1, <1>2 DEF Shape, TypeOK

\* Nobody is inside and no map but the first exists.
LEMMA InitInv == Init => IInv
<1> SUFFICES ASSUME Init PROVE IInv
  OBVIOUS
<1>1. ShapeInv /\ Current = 1
  BY NoResultsIsAMap DEF Init, ShapeInv, Current
<1>2. Shape
  <2>1. nonEmpty \in BOOLEAN
    BY DEF Init
  <2>2. pc = [p \in Goroutines |-> "idle"] /\ lock = NoOne
    BY DEF Init
  <2>3. Current \in 1 .. MaxTakes + 1 /\ adds \in 0 .. MaxAdds
    BY <1>1, TrackerAssumption DEF Init
  <2>4. read \in [Deleters -> Nat] /\ group \in [Deleters -> Groups] /\ name \in [Deleters -> Names]
    BY DEF Init
  <2> QED
    BY <1>1, <2>1, <2>2, <2>3, <2>4 DEF Shape, Goroutines, DeleterPCs
<1>3. Mutex /\ ReadIsCurrent
  BY TrackerAssumption DEF Init, Mutex, ReadIsCurrent, Goroutines, Inside
<1> QED
  BY <1>2, <1>3 DEF IInv

\* StartDeletion takes the mutex and reads the counter of its group.
LEMMA StartDeletionInv ==
    ASSUME IInv, NEW d \in Deleters, NEW g \in Groups, NEW n \in Names,
           StartDeletion(d, g, n)
    PROVE  IInv'
<1>1. /\ lock = NoOne /\ lock' = d /\ pc' = [pc EXCEPT ![d] = "starting"]
      /\ group' = [group EXCEPT ![d] = g] /\ name' = [name EXCEPT ![d] = n]
      /\ read' = [read EXCEPT ![d] = GetDeletionsInProgress(g)]
      /\ UNCHANGED <<deletionsInProgress, maps, nonEmpty, adds>>
  BY DEF StartDeletion, Lock, Goto
<1>2. GetDeletionsInProgress(g) \in Nat
  BY CounterIsNat DEF IInv, Shape
<1>3. Shape'
  BY <1>1, <1>2, TrackerAssumption
  DEF IInv, Shape, ShapeInv, Current, Goroutines, DeleterPCs
<1>4. Mutex'
  BY <1>1, TrackerAssumption DEF IInv, Shape, Mutex, Goroutines, Inside
<1>5. ReadIsCurrent'
  BY <1>1, TrackerAssumption
  DEF IInv, Shape, Mutex, ReadIsCurrent, Goroutines, Inside, Current, GetDeletionsInProgress
<1> QED
  BY <1>3, <1>4, <1>5 DEF IInv

\* A goroutine that leaves its method is the only one inside.
LEMMA OnlyOneInside ==
    ASSUME Mutex, NEW p \in Goroutines, pc[p] \in Inside,
           NEW q \in Goroutines, q # p
    PROVE  pc[q] \notin Inside
  BY DEF Mutex

\* Releasing the mutex leaves nobody inside.
LEMMA UnlockMutex ==
    ASSUME IInv, NEW p \in Goroutines, pc[p] \in Inside,
           NEW where, where \notin Inside,
           lock' = NoOne, pc' = [pc EXCEPT ![p] = where]
    PROVE  Mutex'
<1>1. \A q \in Goroutines : pc'[q] \notin Inside
  BY OnlyOneInside DEF IInv, Shape
<1> QED
  BY <1>1, TrackerAssumption DEF Mutex, Goroutines

\* Taking the mutex makes one goroutine the only one inside.
LEMMA LockMutex ==
    ASSUME IInv, NEW p \in Goroutines, NEW where \in Inside, lock = NoOne,
           lock' = p, pc' = [pc EXCEPT ![p] = where]
    PROVE  Mutex' /\ \A q \in Goroutines : q # p => pc'[q] \notin Inside
  BY TrackerAssumption DEF IInv, Shape, Mutex, Goroutines

\* Nobody is inside, so nothing that was read is waited for.
LEMMA NobodyReads ==
    ASSUME IInv, \A q \in Goroutines : pc'[q] \notin Inside
    PROVE  ReadIsCurrent'
  BY DEF ReadIsCurrent, Goroutines, Inside

\* After a step out of a method nobody is inside.
LEMMA NobodyInside ==
    ASSUME IInv, NEW p \in Goroutines, pc[p] \in Inside,
           NEW where, where \notin Inside, pc' = [pc EXCEPT ![p] = where]
    PROVE  \A q \in Goroutines : pc'[q] \notin Inside
  BY OnlyOneInside DEF IInv, Shape

\* StartDeletion stores the counter it read, and one.
LEMMA StartedInv == ASSUME IInv, NEW d \in Deleters, Started(d) PROVE IInv'
<1>1. /\ pc[d] = "starting" /\ SetCounter(group[d], read[d] + 1)
      /\ lock' = NoOne /\ pc' = [pc EXCEPT ![d] = "deleting"]
      /\ UNCHANGED <<maps, nonEmpty, group, name, read, adds>>
  BY DEF Started, Unlock, Goto
<1>2. group[d] \in Groups /\ read[d] + 1 \in Nat \ {0} /\ d \in Goroutines
  BY DEF IInv, Shape, Goroutines
<1>3. deletionsInProgress' \in Counters
  BY <1>1, <1>2, SetCounterSets DEF IInv, Shape
<1>4. Shape'
  BY <1>1, <1>3, TrackerAssumption
  DEF IInv, Shape, ShapeInv, Current, Goroutines, DeleterPCs
<1>5. Mutex'
  BY <1>1, <1>2, UnlockMutex DEF Inside
<1>6. ReadIsCurrent'
  BY <1>1, <1>2, NobodyInside, NobodyReads DEF Inside
<1> QED
  BY <1>4, <1>5, <1>6 DEF IInv

\* AddNodeDeleteResult takes the mutex and reads which map is the current one.
LEMMA AddNodeDeleteResultInv ==
    ASSUME IInv, NEW d \in Deleters, AddNodeDeleteResult(d) PROVE IInv'
<1>1. /\ pc[d] = "deleting" /\ adds < MaxAdds /\ lock = NoOne /\ lock' = d
      /\ pc' = [pc EXCEPT ![d] = "adding"] /\ read' = [read EXCEPT ![d] = Current]
      /\ UNCHANGED <<deletionsInProgress, maps, nonEmpty, group, name, adds>>
  BY DEF AddNodeDeleteResult, Lock, Goto
<1>2. Current \in Nat /\ d \in Goroutines /\ Current' = Current
  BY <1>1, TrackerAssumption DEF IInv, Shape, Goroutines, Current
<1>3. Shape'
  BY <1>1, <1>2, TrackerAssumption DEF IInv, Shape, ShapeInv, Goroutines, DeleterPCs
<1>4. Mutex' /\ \A q \in Goroutines : q # d => pc'[q] \notin Inside
  <2>1. "adding" \in Inside
    BY DEF Inside
  <2> QED
    BY <1>1, <1>2, <2>1, LockMutex
<1>5. ReadIsCurrent'
  <2>1. pc'[d] = "adding" /\ read'[d] = Current
    BY <1>1, <1>2 DEF IInv, Shape
  <2> QED
    BY <1>1, <1>2, <1>4, <2>1, TrackerAssumption
    DEF ReadIsCurrent, Goroutines, Inside
<1> QED
  BY <1>3, <1>4, <1>5 DEF IInv

\* The result goes to the map that is still the current one.
LEMMA AddedInv == ASSUME IInv, NEW d \in Deleters, Added(d) PROVE IInv'
<1>1. /\ pc[d] = "adding" /\ adds' = adds + 1
      /\ maps' = [maps EXCEPT ![read[d]] =
                     [m \in DOMAIN maps[read[d]] \union {name[d]} |->
                         IF m = name[d] THEN adds' ELSE maps[read[d]][m]]]
      /\ lock' = NoOne /\ pc' = [pc EXCEPT ![d] = "added"]
      /\ UNCHANGED <<deletionsInProgress, nonEmpty, group, name, read>>
  BY DEF Added, Unlock, Goto
<1>2. read[d] = Current /\ adds < MaxAdds /\ name[d] \in Names /\ d \in Goroutines
  BY <1>1 DEF IInv, Shape, ReadIsCurrent, Goroutines
<1>3. adds' \in 1 .. MaxAdds /\ Current \in 1 .. Len(maps)
  BY <1>1, <1>2, TrackerAssumption DEF IInv, Shape, Current
<1>4. maps[Current] \in ResultMaps
  BY <1>3 DEF IInv, Shape, ShapeInv
<1>5. [m \in DOMAIN maps[Current] \union {name[d]} |->
          IF m = name[d] THEN adds' ELSE maps[Current][m]] \in ResultMaps
  BY <1>2, <1>3, <1>4, AddedResult
<1>6. maps' \in Seq(ResultMaps) /\ Len(maps') = Len(maps)
  <2> DEFINE f == [m \in DOMAIN maps[Current] \union {name[d]} |->
                      IF m = name[d] THEN adds' ELSE maps[Current][m]]
  <2>1. maps' = [maps EXCEPT ![Current] = f] /\ f \in ResultMaps
    BY <1>1, <1>2, <1>5
  <2> HIDE DEF f
  <2> QED
    BY <2>1, <1>3 DEF IInv, Shape, ShapeInv
<1>7. Shape'
  <2>1. Current' \in 1 .. MaxTakes + 1
    BY <1>6 DEF IInv, Shape, Current
  <2>2. adds' \in 0 .. MaxAdds
    BY <1>3, TrackerAssumption
  <2> QED
    BY <1>1, <1>6, <2>1, <2>2, TrackerAssumption
    DEF IInv, Shape, ShapeInv, Goroutines, DeleterPCs
<1>8. Mutex'
  BY <1>1, <1>2, UnlockMutex DEF Inside
<1>9. ReadIsCurrent'
  BY <1>1, <1>2, NobodyInside, NobodyReads DEF Inside
<1> QED
  BY <1>7, <1>8, <1>9 DEF IInv

\* EndDeletion reads the counter there is, or leaves everything alone.
LEMMA EndDeletionInv == ASSUME IInv, NEW d \in Deleters, EndDeletion(d) PROVE IInv'
<1>1. /\ pc[d] = "added" /\ lock = NoOne /\ d \in Goroutines
      /\ UNCHANGED <<deletionsInProgress, maps, nonEmpty, group, name, adds>>
  BY DEF EndDeletion, Lock, Goroutines
<1>2. CASE group[d] \in DOMAIN deletionsInProgress
  <2>1. /\ lock' = d /\ pc' = [pc EXCEPT ![d] = "ending"]
        /\ read' = [read EXCEPT ![d] = deletionsInProgress[group[d]]]
    BY <1>2 DEF EndDeletion, Lock, Goto
  <2>2. deletionsInProgress[group[d]] \in Nat
    BY <1>2, CountersDef DEF IInv, Shape, ShapeInv
  <2>3. Shape'
    BY <1>1, <2>1, <2>2, TrackerAssumption
    DEF IInv, Shape, ShapeInv, Current, Goroutines, DeleterPCs
  <2>4. Mutex' /\ \A q \in Goroutines : q # d => pc'[q] \notin Inside
    <3>1. "ending" \in Inside
      BY DEF Inside
    <3> QED
      BY <1>1, <2>1, <3>1, LockMutex
  <2>5. ReadIsCurrent'
    <3>1. pc'[d] = "ending" /\ read'[d] = deletionsInProgress[group[d]]
      BY <1>1, <2>1 DEF IInv, Shape
    <3> QED
      BY <1>1, <1>2, <2>4, <3>1, TrackerAssumption
      DEF ReadIsCurrent, Goroutines, Inside
  <2> QED
    BY <2>3, <2>4, <2>5 DEF IInv
<1>3. CASE group[d] \notin DOMAIN deletionsInProgress
  <2>1. UNCHANGED <<lock, read>> /\ pc' = [pc EXCEPT ![d] = "idle"]
    BY <1>3 DEF EndDeletion, Goto
  <2>2. Shape'
    BY <1>1, <2>1, TrackerAssumption
    DEF IInv, Shape, ShapeInv, Current, Goroutines, DeleterPCs
  <2>3. \A q \in Goroutines : pc'[q] \notin Inside
    BY <1>1, <2>1, TrackerAssumption DEF IInv, Shape, Mutex, Inside, Goroutines
  <2>4. Mutex'
    BY <1>1, <2>1, <2>3, TrackerAssumption DEF Mutex, Goroutines
  <2> QED
    BY <2>2, <2>3, <2>4, NobodyReads DEF IInv
<1> QED
  BY <1>2, <1>3

\* EndDeletion stores the counter it read less one, or drops it at zero.
LEMMA EndedInv == ASSUME IInv, NEW d \in Deleters, Ended(d) PROVE IInv'
<1>1. /\ pc[d] = "ending" /\ lock' = NoOne /\ pc' = [pc EXCEPT ![d] = "idle"]
      /\ UNCHANGED <<maps, nonEmpty, group, name, read, adds>>
  BY DEF Ended, Unlock, Goto
<1>2. group[d] \in Groups /\ read[d] \in Nat /\ d \in Goroutines
  BY DEF IInv, Shape, Goroutines
<1>3. deletionsInProgress' \in Counters
  <2>1. CASE read[d] > 1
    <3>1. SetCounter(group[d], read[d] - 1) /\ read[d] - 1 \in Nat \ {0}
      BY <1>2, <2>1 DEF Ended, Remaining
    <3> QED
      BY <1>2, <3>1, SetCounterSets DEF IInv, Shape
  <2>2. CASE ~(read[d] > 1)
    <3>1. deletionsInProgress' = [h \in DOMAIN deletionsInProgress \ {group[d]} |->
                                     deletionsInProgress[h]]
      BY <2>2 DEF Ended, Remaining
    <3> QED
      BY <3>1, DropCounterSets DEF IInv, Shape
  <2> QED
    BY <2>1, <2>2
<1>4. Shape'
  BY <1>1, <1>3, TrackerAssumption
  DEF IInv, Shape, ShapeInv, Current, Goroutines, DeleterPCs
<1>5. Mutex'
  BY <1>1, <1>2, UnlockMutex DEF Inside
<1>6. ReadIsCurrent'
  BY <1>1, <1>2, NobodyInside, NobodyReads DEF Inside
<1> QED
  BY <1>4, <1>5, <1>6 DEF IInv

\* The flag has nothing to do with the rest.
LEMMA SetNonEmptyInv ==
    ASSUME IInv, NEW status \in BOOLEAN, SetNonEmpty(status) PROVE IInv'
<1>1. /\ nonEmpty' \in BOOLEAN
      /\ UNCHANGED <<lock, deletionsInProgress, maps, pc, group, name, read, adds>>
  BY DEF SetNonEmpty
<1> QED
  BY <1>1 DEF IInv, Shape, ShapeInv, Mutex, ReadIsCurrent, Current, GetDeletionsInProgress

\* The reporter takes the mutex as long as the bound allows another map.
LEMMA GetAndClearInv == ASSUME IInv, GetAndClear PROVE IInv'
<1>1. /\ pc[Reporter] = "idle" /\ Current <= MaxTakes /\ lock = NoOne
      /\ lock' = Reporter /\ pc' = [pc EXCEPT ![Reporter] = "taking"]
      /\ UNCHANGED <<deletionsInProgress, maps, nonEmpty, group, name, read, adds>>
  BY DEF GetAndClear, Lock, Goto
<1>2. Reporter \in Goroutines /\ Current' = Current
  BY <1>1 DEF Goroutines, Current
<1>3. Shape'
  BY <1>1, <1>2, TrackerAssumption DEF IInv, Shape, ShapeInv, Goroutines, DeleterPCs
<1>4. Mutex' /\ \A q \in Goroutines : q # Reporter => pc'[q] \notin Inside
  <2>1. "taking" \in Inside
    BY DEF Inside
  <2> QED
    BY <1>1, <1>2, <2>1, LockMutex
<1>5. ReadIsCurrent'
  BY <1>1, <1>2, <1>4, TrackerAssumption DEF ReadIsCurrent, Goroutines, Inside
<1> QED
  BY <1>3, <1>4, <1>5 DEF IInv

\* A new map follows the one that is handed out.
LEMMA ClearedInv == ASSUME IInv, Cleared PROVE IInv'
<1>1. /\ pc[Reporter] = "taking" /\ maps' = Append(maps, NoResults)
      /\ lock' = NoOne /\ pc' = [pc EXCEPT ![Reporter] = "idle"]
      /\ UNCHANGED <<deletionsInProgress, nonEmpty, group, name, read, adds>>
  BY DEF Cleared, Renewed, Unlock, Goto
<1>2. maps' \in Seq(ResultMaps) /\ Len(maps') = Len(maps) + 1
  BY <1>1, NoResultsIsAMap DEF IInv, Shape, ShapeInv
<1>3. Current' \in 1 .. MaxTakes + 1
  BY <1>1, <1>2, TrackerAssumption DEF IInv, Shape, ReadIsCurrent, Current
<1>4. Shape'
  BY <1>1, <1>2, <1>3, TrackerAssumption
  DEF IInv, Shape, ShapeInv, Goroutines, DeleterPCs
<1>5. Reporter \in Goroutines
  BY DEF Goroutines
<1>6. Mutex'
  BY <1>1, <1>5, UnlockMutex DEF Inside
<1>7. ReadIsCurrent'
  BY <1>1, <1>5, NobodyInside, NobodyReads DEF Inside
<1> QED
  BY <1>4, <1>6, <1>7 DEF IInv

\* Every step keeps the invariant.
LEMMA StepInv == IInv /\ [Next]_vars => IInv'
<1> SUFFICES ASSUME IInv, [Next]_vars PROVE IInv'
  OBVIOUS
<1>1. ASSUME NEW d \in Deleters, Proceed(d) PROVE IInv'
  BY <1>1, StartedInv, AddNodeDeleteResultInv, AddedInv, EndDeletionInv, EndedInv
  DEF Proceed
<1>2. CASE UNCHANGED vars
  BY <1>2 DEF vars, IInv, Shape, ShapeInv, Mutex, ReadIsCurrent, Current,
              GetDeletionsInProgress
<1> QED
  BY <1>1, <1>2, StartDeletionInv, SetNonEmptyInv, GetAndClearInv, ClearedInv
  DEF Next

\* The invariant holds throughout.
THEOREM Invariance == Spec => []IInv
  BY InitInv, StepInv, PTL DEF Spec

\* The tracker keeps the types of its maps and counters; in particular no
\* counter at zero stays in the map.
THEOREM TypeCorrect == Spec => []TypeOK
<1>1. IInv => TypeOK
  BY ShapeIsTypeOK DEF IInv
<1> QED
  BY <1>1, Invariance, PTL

-----------------------------------------------------------------------------
(* The maps that were handed out. *)

\* Nobody writes to a map that its caller reads without the mutex.
THEOREM HandedOutIsFrozenCorrect == Spec => HandedOutIsFrozen
<1> DEFINE Frozen == \A i \in 1 .. Current : i < Current' => maps'[i] = maps[i]
<1>1. ASSUME IInv, Next PROVE Frozen
  <2>1. CASE maps' = maps
    BY <2>1 DEF Current
  <2>2. ASSUME NEW d \in Deleters, Added(d) PROVE Frozen
    <3>1. read[d] = Current /\ \E f : maps' = [maps EXCEPT ![read[d]] = f]
      BY <2>2, <1>1 DEF Added, IInv, ReadIsCurrent
    <3>2. maps \in Seq(ResultMaps)
      BY <1>1 DEF IInv, Shape, ShapeInv
    <3> QED
      BY <3>1, <3>2 DEF Current
  <2>3. CASE Cleared
    <3>1. maps' = Append(maps, NoResults) /\ maps \in Seq(ResultMaps)
      BY <2>3, <1>1 DEF Cleared, Renewed, IInv, Shape, ShapeInv
    <3> QED
      BY <3>1, NoResultsIsAMap DEF Current
  <2> QED
    BY <1>1, <2>1, <2>2, <2>3
    DEF Next, Proceed, StartDeletion, Started, AddNodeDeleteResult, EndDeletion,
        Ended, SetNonEmpty, GetAndClear
<1>2. ASSUME UNCHANGED vars PROVE Frozen
  BY <1>2 DEF vars, Current
<1> QED
  BY <1>1, <1>2, Invariance, PTL DEF Spec, HandedOutIsFrozen

-----------------------------------------------------------------------------
(* The operations happen at once. *)

\* The counters of the abstract tracker.
inProgressBar == [g \in Groups |-> GetDeletionsInProgress(g)]

\* At first there are no deletions, no results and nothing handed out.
LEMMA InitMaps == Init => D!Init
<1> SUFFICES ASSUME Init PROVE D!Init
  OBVIOUS
<1>1. inProgressBar = [g \in Groups |-> 0]
  BY DEF Init, inProgressBar, GetDeletionsInProgress
<1>2. Current = 1 /\ maps[Current] = NoResults
  BY DEF Init, Current
<1>3. Handed = {}
  BY <1>2, SMT DEF Handed
<1>4. NoResults = D!NoResults
  BY DEF NoResults, D!NoResults
<1> QED
  BY <1>1, <1>2, <1>3, <1>4 DEF D!Init, inProgressBar

\* What was handed out depends on the maps before the current one only.
LEMMA HandedKept ==
    ASSUME Current \in Nat, UNCHANGED Current,
           \A i \in 1 .. Current - 1 : maps'[i] = maps[i]
    PROVE  UNCHANGED Handed
  BY DEF Handed

\* The results of the abstract tracker change in two steps only.
LEMMA SameResults ==
    ASSUME UNCHANGED maps
    PROVE  UNCHANGED <<maps[Current], Handed>>
  BY DEF Handed, Current

\* A counter that is set is the one of its group.
LEMMA StartedMaps ==
    ASSUME IInv, NEW d \in Deleters, Started(d) PROVE D!StartDeletion(group[d])
<1>1. /\ SetCounter(group[d], read[d] + 1) /\ UNCHANGED maps
      /\ read[d] = GetDeletionsInProgress(group[d])
  BY DEF Started, IInv, ReadIsCurrent
<1>2. group[d] \in Groups /\ read[d] + 1 \in Nat \ {0}
  BY DEF IInv, Shape
<1>3. \A h : GetDeletionsInProgress(h)' =
                 IF h = group[d] THEN read[d] + 1 ELSE GetDeletionsInProgress(h)
  BY <1>1, <1>2, SetCounterSets DEF IInv, Shape
<1>4. inProgressBar' = [inProgressBar EXCEPT ![group[d]] = @ + 1]
  BY <1>1, <1>2, <1>3 DEF inProgressBar
<1> QED
  BY <1>1, <1>4, SameResults DEF D!StartDeletion, inProgressBar

\* A counter that is taken down is the one of its group.
LEMMA EndedMaps ==
    ASSUME IInv, NEW d \in Deleters, Ended(d) PROVE D!EndDeletion(group[d])
<1>1. /\ UNCHANGED maps /\ group[d] \in Groups /\ read[d] \in Nat \ {0}
      /\ read[d] = GetDeletionsInProgress(group[d])
  <2>1. /\ group[d] \in DOMAIN deletionsInProgress
        /\ read[d] = deletionsInProgress[group[d]]
    BY DEF Ended, IInv, ReadIsCurrent
  <2> QED
    BY <2>1, CountersDef DEF Ended, IInv, Shape, ShapeInv, GetDeletionsInProgress
<1>2. \A h : GetDeletionsInProgress(h)' =
                 IF h = group[d] THEN read[d] - 1 ELSE GetDeletionsInProgress(h)
  <2>1. CASE read[d] > 1
    <3>1. SetCounter(group[d], read[d] - 1) /\ read[d] - 1 \in Nat \ {0}
      BY <1>1, <2>1 DEF Ended, Remaining
    <3> QED
      BY <1>1, <3>1, SetCounterSets DEF IInv, Shape
  <2>2. CASE ~(read[d] > 1)
    <3>1. deletionsInProgress' = [h \in DOMAIN deletionsInProgress \ {group[d]} |->
                                     deletionsInProgress[h]]
      BY <2>2 DEF Ended, Remaining
    <3>2. \A h : GetDeletionsInProgress(h)' =
                     IF h = group[d] THEN 0 ELSE GetDeletionsInProgress(h)
      BY <3>1, DropCounterSets DEF IInv, Shape
    <3>3. read[d] - 1 = 0
      BY <1>1, <2>2
    <3> QED
      BY <3>2, <3>3
  <2> QED
    BY <2>1, <2>2
<1>3. inProgressBar' = [inProgressBar EXCEPT ![group[d]] = @ - 1]
  BY <1>1, <1>2 DEF inProgressBar
<1>4. inProgressBar[group[d]] > 0
  BY <1>1 DEF inProgressBar
<1> QED
  BY <1>1, <1>3, <1>4, SameResults DEF D!EndDeletion, inProgressBar

\* A result that is added is in the current map, and nowhere else.
LEMMA AddedMaps ==
    ASSUME IInv, NEW d \in Deleters, Added(d)
    PROVE  D!AddNodeDeleteResult(name[d], adds')
<1>1. /\ read[d] = Current /\ UNCHANGED deletionsInProgress
      /\ maps' = [maps EXCEPT ![Current] =
                     [m \in DOMAIN maps[Current] \union {name[d]} |->
                         IF m = name[d] THEN adds' ELSE maps[Current][m]]]
  BY DEF Added, IInv, ReadIsCurrent
<1>2. Current \in 1 .. Len(maps) /\ maps \in Seq(ResultMaps) /\ Current \in Nat
  BY TrackerAssumption DEF IInv, Shape, ShapeInv, Current
<1>3. Current' = Current
  BY <1>1, <1>2 DEF Current
<1>4. maps'[Current] = [m \in DOMAIN maps[Current] \union {name[d]} |->
                           IF m = name[d] THEN adds' ELSE maps[Current][m]]
  BY <1>1, <1>2
<1>5. \A i \in 1 .. Current - 1 : maps'[i] = maps[i]
  BY <1>1, <1>2
<1>6. UNCHANGED inProgressBar
  BY <1>1 DEF inProgressBar, GetDeletionsInProgress
<1> QED
  BY <1>2, <1>3, <1>4, <1>5, <1>6, HandedKept
  DEF D!AddNodeDeleteResult, inProgressBar

\* What the current map held has been handed out as it was.
LEMMA ClearedMaps == ASSUME IInv, Cleared PROVE D!GetAndClearNodeDeleteResults
<1>1. maps' = Append(maps, NoResults) /\ UNCHANGED deletionsInProgress
  BY DEF Cleared, Renewed
<1>2. maps \in Seq(ResultMaps) /\ Current \in Nat \ {0}
  BY TrackerAssumption DEF IInv, Shape, ShapeInv
<1>3. /\ Current' = Current + 1 /\ maps'[Current'] = NoResults
      /\ \A i \in 1 .. Current : maps'[i] = maps[i]
  BY <1>1, <1>2, NoResultsIsAMap DEF Current
<1>4. Handed' = Handed \union {<<n, maps[Current][n]>> : n \in DOMAIN maps[Current]}
  <2>1. Current' - 1 = Current /\ 1 .. Current = (1 .. Current - 1) \union {Current}
    BY <1>2, <1>3
  <2>2. Handed' = UNION {{<<n, maps[i][n]>> : n \in DOMAIN maps[i]} :
                            i \in (1 .. Current - 1) \union {Current}}
    BY <1>3, <2>1 DEF Handed
  <2> QED
    BY <2>2 DEF Handed
<1>5. UNCHANGED inProgressBar
  BY <1>1 DEF inProgressBar, GetDeletionsInProgress
<1>6. NoResults = D!NoResults
  BY DEF NoResults, D!NoResults
<1> QED
  BY <1>3, <1>4, <1>5, <1>6 DEF D!GetAndClearNodeDeleteResults, inProgressBar

\* The methods of the tracker act as if each happened at once, in the step
\* that writes: no counter and no result gets lost between two goroutines.
THEOREM ImplementsDeletions == Spec => DeletionsSpec
<1>1. Init => D!Init
  BY InitMaps
<1>2. ASSUME IInv, [Next]_vars PROVE [D!Next]_D!vars
  <2>1. ASSUME UNCHANGED <<deletionsInProgress, maps>> PROVE UNCHANGED D!vars
    <3>1. UNCHANGED inProgressBar
      BY <2>1 DEF inProgressBar, GetDeletionsInProgress
    <3> QED
      BY <2>1, <3>1, SameResults DEF D!vars, inProgressBar
  <2>2. ASSUME NEW d \in Deleters, Proceed(d) PROVE [D!Next]_D!vars
    <3>1. CASE Started(d)
      BY <1>2, <3>1, StartedMaps DEF IInv, Shape, D!Next
    <3>2. CASE Ended(d)
      BY <1>2, <3>2, EndedMaps DEF IInv, Shape, D!Next
    <3>3. CASE Added(d)
      <4>1. adds' \in 1 .. MaxAdds /\ name[d] \in Names
        BY <1>2, <3>3, TrackerAssumption DEF Added, IInv, Shape, ReadIsCurrent
      <4> QED
        BY <1>2, <3>3, <4>1, AddedMaps DEF D!Next
    <3>4. CASE AddNodeDeleteResult(d) \/ EndDeletion(d)
      BY <2>1, <3>4 DEF AddNodeDeleteResult, EndDeletion
    <3> QED
      BY <2>2, <3>1, <3>2, <3>3, <3>4 DEF Proceed
  <2>3. CASE Cleared
    BY <1>2, <2>3, ClearedMaps DEF D!Next
  <2>4. CASE UNCHANGED vars
    BY <2>1, <2>4 DEF vars
  <2> QED
    BY <1>2, <2>1, <2>2, <2>3, <2>4 DEF Next, StartDeletion, SetNonEmpty, GetAndClear
<1> QED
  BY <1>1, <1>2, Invariance, PTL DEF Spec, DeletionsSpec, D!Spec

-----------------------------------------------------------------------------
(* The counters. *)

Counted(g) == {d \in Deleters : Deleting(d) /\ group[d] = g}

\* The counter of every group counts the deleters of a finite set.
LEMMA CountedFinite == \A g : IsFiniteSet(Counted(g)) /\ Cardinality(Counted(g)) \in Nat
<1>1. \A g : Counted(g) \subseteq Deleters
  BY DEF Counted
<1> QED
  BY <1>1, TrackerAssumption, FS_Subset, FS_CardinalityType

\* A deleter that comes in or goes out changes one count by one.
LEMMA CountsStep == ASSUME IInv, CountsDeletions, Next PROVE CountsDeletions'
<1>0. \A g \in Groups : GetDeletionsInProgress(g) = Cardinality(Counted(g))
  BY DEF CountsDeletions, Counted
<1> SUFFICES \A g \in Groups : GetDeletionsInProgress(g)' = Cardinality(Counted(g)')
  BY DEF CountsDeletions, Counted
<1>1. ASSUME UNCHANGED deletionsInProgress, \A g \in Groups : Counted(g)' = Counted(g)
      PROVE  \A g \in Groups : GetDeletionsInProgress(g)' = Cardinality(Counted(g)')
  BY <1>0, <1>1 DEF GetDeletionsInProgress
<1>2. ASSUME NEW d \in Deleters, NEW g \in Groups, NEW n \in Names, StartDeletion(d, g, n)
      PROVE  UNCHANGED deletionsInProgress /\ \A h \in Groups : Counted(h)' = Counted(h)
  BY <1>2 DEF StartDeletion, Goto, Counted, Deleting, IInv, Shape, Goroutines
<1>3. ASSUME NEW d \in Deleters, Started(d)
      PROVE  \A g \in Groups : GetDeletionsInProgress(g)' = Cardinality(Counted(g)')
  <2>1. PICK k \in Groups : k = group[d]
    BY DEF IInv, Shape
  <2>2. /\ read[d] + 1 \in Nat \ {0} /\ read[d] = GetDeletionsInProgress(k)
        /\ SetCounter(k, read[d] + 1)
    BY <1>3, <2>1 DEF Started, IInv, Shape, ReadIsCurrent
  <2>3. \A h : GetDeletionsInProgress(h)' =
                   IF h = k THEN read[d] + 1 ELSE GetDeletionsInProgress(h)
    BY <2>1, <2>2, SetCounterSets DEF IInv, Shape
  <2>4. d \notin Counted(k)
    BY <1>3 DEF Started, Counted, Deleting
  <2>5. /\ Counted(k)' = Counted(k) \union {d}
        /\ \A h \in Groups : h # k => Counted(h)' = Counted(h)
    BY <1>3, <2>1 DEF Started, Goto, Counted, Deleting, IInv, Shape, Goroutines
  <2>6. Cardinality(Counted(k)') = Cardinality(Counted(k)) + 1
    BY <2>4, <2>5, CountedFinite, FS_AddElement
  <2> QED
    BY <1>0, <2>1, <2>2, <2>3, <2>5, <2>6
<1>4. ASSUME NEW d \in Deleters, Ended(d)
      PROVE  \A g \in Groups : GetDeletionsInProgress(g)' = Cardinality(Counted(g)')
  <2>1. PICK k \in Groups : k = group[d]
    BY DEF IInv, Shape
  <2>2. d \in Counted(k)
    BY <1>4, <2>1 DEF Ended, Counted, Deleting
  <2>3. inProgressBar' = [inProgressBar EXCEPT ![k] = @ - 1]
    BY <1>4, <2>1, EndedMaps DEF D!EndDeletion, inProgressBar
  <2>4. \A h \in Groups : GetDeletionsInProgress(h)' =
            IF h = k THEN GetDeletionsInProgress(h) - 1 ELSE GetDeletionsInProgress(h)
    BY <2>3 DEF inProgressBar
  <2>5. /\ Counted(k)' = Counted(k) \ {d}
        /\ \A h \in Groups : h # k => Counted(h)' = Counted(h)
    BY <1>4, <2>1 DEF Ended, Goto, Counted, Deleting, IInv, Shape, Goroutines
  <2>6. Cardinality(Counted(k)') = Cardinality(Counted(k)) - 1
    BY <2>2, <2>5, CountedFinite, FS_RemoveElement
  <2> QED
    BY <1>0, <2>1, <2>4, <2>5, <2>6
<1>5. ASSUME NEW d \in Deleters, EndDeletion(d)
      PROVE  UNCHANGED deletionsInProgress /\ \A h \in Groups : Counted(h)' = Counted(h)
  <2>1. d \in Counted(group[d]) /\ group[d] \in Groups
    BY <1>5 DEF EndDeletion, Counted, Deleting, IInv, Shape
  <2>2. Counted(group[d]) # {}
    BY <2>1
  <2>3. Cardinality(Counted(group[d])) # 0
    BY <2>2, CountedFinite, FS_EmptySet
  <2>4. group[d] \in DOMAIN deletionsInProgress
    BY <1>0, <2>1, <2>3 DEF GetDeletionsInProgress
  <2>5. pc' = [pc EXCEPT ![d] = "ending"] /\ UNCHANGED <<deletionsInProgress, group>>
    BY <1>5, <2>4 DEF EndDeletion, Goto
  <2> QED
    BY <1>5, <2>5 DEF EndDeletion, Counted, Deleting, IInv, Shape, Goroutines
<1>6. ASSUME NEW d \in Deleters, AddNodeDeleteResult(d) \/ Added(d)
      PROVE  UNCHANGED deletionsInProgress /\ \A h \in Groups : Counted(h)' = Counted(h)
  BY <1>6
  DEF AddNodeDeleteResult, Added, Goto, Counted, Deleting, IInv, Shape, Goroutines
<1>7. ASSUME GetAndClear \/ Cleared \/ \E status \in BOOLEAN : SetNonEmpty(status)
      PROVE  UNCHANGED deletionsInProgress /\ \A h \in Groups : Counted(h)' = Counted(h)
  BY <1>7, TrackerAssumption
  DEF GetAndClear, Cleared, SetNonEmpty, Goto, Counted, Deleting, IInv, Shape, Goroutines
<1> QED
  BY <1>1, <1>2, <1>3, <1>4, <1>5, <1>6, <1>7 DEF Next, Proceed

\* A counter is the number of deletions between StartDeletion and EndDeletion,
\* however they interleave, so EndDeletion always finds the counter it looks for.
THEOREM CountsDeletionsCorrect == Spec => []CountsDeletions
<1>1. Init => CountsDeletions
  <2> SUFFICES ASSUME Init, NEW g \in Groups
               PROVE  GetDeletionsInProgress(g) = Cardinality(Counted(g))
    BY DEF CountsDeletions, Counted
  <2>1. Counted(g) = {}
    BY DEF Init, Counted, Deleting, Goroutines
  <2> QED
    BY <2>1, FS_EmptySet DEF Init, GetDeletionsInProgress
<1>2. ASSUME CountsDeletions, UNCHANGED vars PROVE CountsDeletions'
  BY <1>2 DEF vars, CountsDeletions, GetDeletionsInProgress, Deleting
<1> QED
  BY <1>1, <1>2, CountsStep, Invariance, PTL DEF Spec
=============================================================================
