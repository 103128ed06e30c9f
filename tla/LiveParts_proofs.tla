---------------------------- MODULE LiveParts_proofs ----------------------------
(***************************************************************************)
(* The parts of LiveParts, for any number of writers, pods, writes to a    *)
(* node, edits and failed requests: no writer of the status config map     *)
(* overwrites what users have put into it (StatusMap), the readiness of a  *)
(* node does not depend on the order of its conditions and taints          *)
(* (NodeReadiness, NodeListers), and a quiet drain overlooks no pod        *)
(* (NodeDrain).                                                            *)
(***************************************************************************)
EXTENDS LiveParts, SequenceTheorems, WellFoundedInduction, TLAPS

-----------------------------------------------------------------------------
(* StatusMap: who is allowed to write has read the map that is there. *)

\* An update is accepted only from a process that has read the present map.
FreshIsCurrent == \A w \in Writers : fresh[w] => read[w] = configMap

IInv == TypeOK /\ FreshIsCurrent

\* What a map and a process without a map are, field by field.
LEMMA MapFields ==
    /\ Absent \in Maps /\ Absent.exists = FALSE
    /\ \A m \in Maps : m = Absent \/ m.exists = TRUE
    /\ \A m \in Maps, w \in Writers : m.exists =>
          /\ [m EXCEPT !.status = w] \in Maps
          /\ [m EXCEPT !.status = w].exists = TRUE
          /\ [m EXCEPT !.status = w].note = m.note
    /\ \A w \in Writers : [exists |-> TRUE, status |-> w, note |-> 0] \in Maps
    /\ \A m \in Maps, n \in 0 .. MaxEdits : m.exists =>
          /\ [m EXCEPT !.note = n] \in Maps
          /\ [m EXCEPT !.status = NoData, !.note = n] \in Maps
<1> DEFINE Real == [exists : {TRUE}, status : Writers \union {NoData},
                    note : 0 .. MaxEdits]
<1>1. Maps = {Absent} \union Real
  BY DEF Maps
<1>2. Absent.exists = FALSE
  BY DEF Absent
<1>3. \A m \in Real : m.exists = TRUE
  OBVIOUS
<1>4. \A m \in Real, w \in Writers :
          /\ [m EXCEPT !.status = w] \in Real
          /\ [m EXCEPT !.status = w].exists = TRUE
          /\ [m EXCEPT !.status = w].note = m.note
  OBVIOUS
<1>5. \A w \in Writers : [exists |-> TRUE, status |-> w, note |-> 0] \in Real
  BY StatusMapAssumption
<1>6. \A m \in Real, n \in 0 .. MaxEdits : [m EXCEPT !.note = n] \in Real
  OBVIOUS
<1>7. \A m \in Real, n \in 0 .. MaxEdits :
          [m EXCEPT !.status = NoData, !.note = n] \in Real
  OBVIOUS
<1> HIDE DEF Real
<1> QED
  BY <1>1, <1>2, <1>3, <1>4, <1>5, <1>6, <1>7

\* The end of a call keeps the types of its variables.
LEMMA ReturnType ==
    ASSUME TypeOK, NEW w \in Writers, NEW outcome \in {"written", "error"},
           Return(w, outcome)
    PROVE  /\ pc' \in [Writers -> {"off", "getting", "got", "idle", "panicked"}]
           /\ result' \in [Writers -> {"none", "written", "error"}]
           /\ active' \in [Writers -> {"no", "active", "inactive"}]
           /\ \A v \in Writers : pc'[v] = "idle" => active'[v] # "no"
<1> DEFINE decided == IF active[w] # "no" THEN active[w]
                      ELSE IF outcome = "written" THEN "active" ELSE "inactive"
<1>1. decided \in {"active", "inactive"}
  BY DEF TypeOK
<1>2. /\ pc' = [pc EXCEPT ![w] = "idle"] /\ result' = [result EXCEPT ![w] = outcome]
      /\ active' = [active EXCEPT ![w] = decided]
  BY DEF Return
<1> HIDE DEF decided
<1> QED
  BY <1>1, <1>2 DEF TypeOK

\* So does a request that took effect, with or without an answer.
LEMMA AnsweredType ==
    ASSUME TypeOK, NEW w \in Writers, Answered(w)
    PROVE  /\ pc' \in [Writers -> {"off", "getting", "got", "idle", "panicked"}]
           /\ result' \in [Writers -> {"none", "written", "error"}]
           /\ active' \in [Writers -> {"no", "active", "inactive"}]
           /\ \A v \in Writers : pc'[v] = "idle" => active'[v] # "no"
           /\ faults' \in 0 .. MaxFaults
<1>1. Return(w, "written") \/ Return(w, "error")
  BY DEF Answered
<1>2. faults' \in 0 .. MaxFaults
  BY StatusMapAssumption DEF Answered, TypeOK
<1> QED
  BY <1>1, <1>2, ReturnType

\* Writing a map leaves no process that has read it.
LEMMA PutFresh ==
    ASSUME NEW m \in Maps, Put(m)
    PROVE  configMap' \in Maps /\ fresh' \in [Writers -> BOOLEAN] /\ FreshIsCurrent'
<1>1. \A w \in Writers : fresh'[w] = FALSE
  BY DEF Put
<1> QED
  BY <1>1 DEF Put, FreshIsCurrent

\* No step leaves a process allowed to write without the present map.
LEMMA StepInv == IInv /\ [Next]_vars => IInv'
<1> SUFFICES ASSUME IInv, [Next]_vars PROVE IInv'
  OBVIOUS
<1> USE DEF IInv
<1>1. ASSUME NEW w \in Writers, Call(w) PROVE IInv'
  BY <1>1 DEF Call, TypeOK, FreshIsCurrent
<1>2. ASSUME NEW w \in Writers, Get(w) PROVE IInv'
  <2>1. FreshIsCurrent'
    BY <1>2 DEF Get, TypeOK, FreshIsCurrent
  <2>2. TypeOK'
    BY <1>2 DEF Get, TypeOK
  <2> QED
    BY <2>1, <2>2
<1>3. ASSUME NEW w \in Writers, RequestFails(w) PROVE IInv'
  <2>1. Return(w, "error") /\ UNCHANGED <<configMap, fresh, read, edits>>
    BY <1>3 DEF RequestFails
  <2>2. faults' \in 0 .. MaxFaults
    BY <1>3, StatusMapAssumption DEF RequestFails, TypeOK
  <2>3. TypeOK'
    BY <2>1, <2>2, ReturnType DEF TypeOK
  <2> QED
    BY <2>1, <2>3 DEF FreshIsCurrent
<1>4. ASSUME NEW w \in Writers, Update(w) PROVE IInv'
  <2>1. read[w] \in Maps /\ read[w].exists /\ UNCHANGED <<read, edits>>
    BY <1>4 DEF Update, TypeOK
  <2>2. CASE fresh[w]
    <3>1. Put(Updated(w)) /\ Answered(w)
      BY <1>4, <2>2 DEF Update
    <3>2. Updated(w) \in Maps
      BY <2>1, MapFields DEF Updated
    <3> QED
      BY <2>1, <3>1, <3>2, PutFresh, AnsweredType DEF TypeOK
  <2>3. CASE ~fresh[w]
    <3>1. Return(w, "error") /\ UNCHANGED <<configMap, fresh, faults>>
      BY <1>4, <2>3 DEF Update
    <3>2. TypeOK'
      BY <2>1, <3>1, ReturnType DEF TypeOK
    <3> QED
      BY <2>1, <3>1, <3>2 DEF FreshIsCurrent
  <2> QED
    BY <2>2, <2>3
<1>5. ASSUME NEW w \in Writers, Panic(w) PROVE IInv'
  BY <1>5 DEF Panic, TypeOK, FreshIsCurrent
<1>6. ASSUME NEW w \in Writers, Create(w) PROVE IInv'
  <2>1. UNCHANGED <<read, edits>>
    BY <1>6 DEF Create
  <2>2. CASE configMap.exists
    <3>1. Return(w, "error") /\ UNCHANGED <<configMap, fresh, faults>>
      BY <1>6, <2>2 DEF Create
    <3>2. TypeOK'
      BY <2>1, <3>1, ReturnType DEF TypeOK
    <3> QED
      BY <2>1, <3>1, <3>2 DEF FreshIsCurrent
  <2>3. CASE ~configMap.exists
    <3>1. Put([exists |-> TRUE, status |-> w, note |-> 0]) /\ Answered(w)
      BY <1>6, <2>3 DEF Create
    <3> QED
      BY <2>1, <3>1, MapFields, PutFresh, AnsweredType DEF TypeOK
  <2> QED
    BY <2>2, <2>3
<1>7. ASSUME Edit PROVE IInv'
  <2>1. /\ edits' \in 0 .. MaxEdits /\ edits' = edits + 1
        /\ configMap \in Maps /\ configMap.exists
        /\ UNCHANGED <<pc, read, active, result, faults>>
    BY <1>7, StatusMapAssumption DEF Edit, TypeOK
  <2>2. /\ [configMap EXCEPT !.note = edits'] \in Maps
        /\ [configMap EXCEPT !.status = NoData, !.note = 0] \in Maps
    <3>1. 0 \in 0 .. MaxEdits
      BY StatusMapAssumption
    <3> QED
      BY <2>1, <3>1, MapFields
  <2>3. \E m \in Maps : Put(m)
    BY <1>7, <2>2 DEF Edit
  <2> QED
    BY <2>1, <2>3, PutFresh DEF TypeOK
<1>8. ASSUME Delete PROVE IInv'
  <2>1. edits' \in 0 .. MaxEdits /\ UNCHANGED <<pc, read, active, result, faults>>
    BY <1>8, StatusMapAssumption DEF Delete, TypeOK
  <2> QED
    BY <1>8, <2>1, MapFields, PutFresh DEF Delete, TypeOK
<1>9. CASE UNCHANGED vars
  BY <1>9 DEF vars, TypeOK, FreshIsCurrent
<1> QED
  BY <1>1, <1>2, <1>3, <1>4, <1>5, <1>6, <1>7, <1>8, <1>9 DEF Next, WriterStep

\* Nobody has read a map before there is one.
LEMMA InitInv == Init => IInv
<1> SUFFICES ASSUME Init PROVE IInv
  OBVIOUS
<1>1. configMap \in Maps /\ read \in [Writers -> Maps]
  BY MapFields DEF Init
<1>2. fresh \in [Writers -> BOOLEAN] /\ \A w \in Writers : fresh[w] = FALSE
  BY DEF Init
<1>3. pc = [w \in Writers |-> "off"] /\ edits \in 0 .. MaxEdits /\ faults \in 0 .. MaxFaults
  BY StatusMapAssumption DEF Init
<1>4. active = [w \in Writers |-> "no"] /\ result = [w \in Writers |-> "none"]
  BY DEF Init
<1>5. TypeOK
  BY <1>1, <1>2, <1>3, <1>4 DEF TypeOK
<1> QED
  BY <1>2, <1>5 DEF IInv, FreshIsCurrent

\* The invariant holds throughout.
THEOREM Invariance == Spec => []IInv
  BY InitInv, StepInv, PTL DEF Spec

\* All variables keep their types; in particular no process loops without
\* having decided on its recorder.
THEOREM TypeCorrect == Spec => []TypeOK
<1>1. IInv => TypeOK
  BY DEF IInv
<1> QED
  BY <1>1, Invariance, PTL

\* Only users change what users have put into the map, or delete it: an update
\* keeps what it read, which is what there is, and a creation needs a map that
\* is not there.
THEOREM EditsSurviveCorrect == Spec => EditsSurvive
<1> DEFINE Kept == configMap.exists /\ edits' = edits =>
                       configMap'.exists /\ configMap'.note = configMap.note
<1>1. ASSUME IInv, Next PROVE Kept
  <2> SUFFICES ASSUME configMap.exists, edits' = edits
               PROVE  configMap'.exists /\ configMap'.note = configMap.note
    OBVIOUS
  <2>1. CASE UNCHANGED configMap
    BY <2>1
  <2>2. ASSUME NEW w \in Writers, Update(w), fresh[w]
        PROVE  configMap'.exists /\ configMap'.note = configMap.note
    <3>1. /\ read[w] = configMap /\ configMap \in Maps
          /\ configMap' = [read[w] EXCEPT !.status = w]
      BY <1>1, <2>2 DEF IInv, TypeOK, FreshIsCurrent, Update, Put, Updated
    <3> QED
      BY <3>1, MapFields
  <2>3. ASSUME NEW w \in Writers, Update(w), ~fresh[w] PROVE UNCHANGED configMap
    BY <2>3 DEF Update
  <2>4. ASSUME NEW w \in Writers, Create(w) PROVE UNCHANGED configMap
    BY <2>4 DEF Create
  <2>5. ~(Edit \/ Delete)
    BY <1>1 DEF Edit, Delete, IInv, TypeOK
  <2> QED
    BY <1>1, <2>1, <2>2, <2>3, <2>4, <2>5
    DEF Next, WriterStep, Call, Get, RequestFails, Panic
<1>2. ASSUME UNCHANGED vars PROVE Kept
  BY <1>2 DEF vars
<1> QED
  BY <1>1, <1>2, Invariance, PTL DEF Spec, EditsSurvive

-----------------------------------------------------------------------------
(* Loops. *)

\* What holds of 0 and is handed on from each number to the next holds up to n.
LEMMA UpTo ==
    ASSUME NEW n \in Nat, NEW T, 0 \in T, \A i \in 1 .. n : i - 1 \in T => i \in T
    PROVE  0 .. n \subseteq T
<1> DEFINE Missing == {i \in 0 .. n : i \notin T}
<1>1. SUFFICES ASSUME Missing # {} PROVE FALSE
  OBVIOUS
<1>2. Missing \subseteq Nat
  OBVIOUS
<1>3. \E i \in Missing : \A j \in Missing : ~(<<j, i>> \in OpToRel(<, Nat))
  BY <1>1, <1>2, NatLessThanWellFounded, WFMin
<1>4. PICK i \in Missing : \A j \in Missing : ~(j < i)
  BY <1>2, <1>3, Zenon DEF OpToRel
<1>5. i \in 1 .. n /\ i - 1 \in 0 .. n
  BY <1>4
<1>6. i - 1 \in T
  BY <1>4, <1>5
<1> QED
  BY <1>4, <1>5, <1>6

\* A loop of n turns stays in S, and has a value after each of its turns.
StaysIn(S, n, turn) == \A i \in 1 .. n : \A s \in S : turn[i][s] \in S
RunOf(r, S, n, first, turn) ==
    /\ r \in [0 .. n -> S] /\ r[0] = first
    /\ \A i \in 1 .. n : r[i] = turn[i][r[i - 1]]

\* Such a loop has its values, turn by turn.
LEMMA LoopRuns ==
    ASSUME NEW S, NEW first \in S, NEW n \in Nat, NEW turn, StaysIn(S, n, turn)
    PROVE  \E r : RunOf(r, S, n, first, turn)
<1> USE DEF StaysIn, RunOf
<1> DEFINE Goes(k, r) == RunOf(r, S, k, first, turn)
           T == {k \in 0 .. n : \E r : Goes(k, r)}
<1>1. 0 \in T
  <2>1. Goes(0, [i \in 0 .. 0 |-> first])
    OBVIOUS
  <2>2. \E r : Goes(0, r)
    BY <2>1
  <2> HIDE DEF Goes, RunOf
  <2> QED
    BY <2>2
<1>2. ASSUME NEW k \in 1 .. n, k - 1 \in T PROVE k \in T
  <2>1. PICK r : Goes(k - 1, r)
    BY <1>2
  <2> DEFINE last == turn[k][r[k - 1]]
             q == [i \in 0 .. k |-> IF i < k THEN r[i] ELSE last]
  <2>2. last \in S
    BY <2>1
  <2> HIDE DEF last
  <2>3. q \in [0 .. k -> S] /\ q[0] = first
    BY <2>1, <2>2
  <2>4. q[k] = last /\ \A i \in 0 .. k - 1 : q[i] = r[i]
    OBVIOUS
  <2>5. \A i \in 1 .. k : q[i] = turn[i][q[i - 1]]
    <3> SUFFICES ASSUME NEW i \in 1 .. k PROVE q[i] = turn[i][q[i - 1]]
      OBVIOUS
    <3>1. q[i - 1] = r[i - 1]
      BY <2>4
    <3>2. CASE i = k
      BY <2>4, <3>1, <3>2 DEF last
    <3>3. CASE i \in 1 .. k - 1
      BY <2>1, <2>4, <3>1, <3>3
    <3> QED
      BY <3>2, <3>3
  <2> HIDE DEF q
  <2>6. Goes(k, q)
    BY <2>3, <2>5
  <2> QED
    BY <2>6
<1> HIDE DEF T
<1>3. 0 .. n \subseteq T
  BY <1>1, <1>2, UpTo
<1>4. n \in T
  BY <1>3
<1> QED
  BY <1>4 DEF T

-----------------------------------------------------------------------------
(* GetNodeReadiness. *)

Reasons == {"", "Kubelet", "resource-not-ready"}
Condition ==
    [type : Lister!Types, status : Lister!Statuses, since : Nat, reason : Reasons]
Taint == [key : Lister!notReadyTaints \union {"unschedulable"}, added : Nat]
Seen == [canBeReady : BOOLEAN, found : BOOLEAN, time : Nat, reason : Reasons]

CountedTypes == {"Ready"} \union Lister!Pressures
IsBad(c) == c.type = "Ready" /\ c.status # "True"

\* What the loop over the conditions has found when it has seen those of C.
FoundIn(r, C) ==
    /\ r \in Seen /\ C \subseteq Condition
    /\ r.canBeReady <=> \A c \in C : ~Lister!Against(c)
    /\ r.found <=> \E c \in C : c.type = "Ready"
    /\ \A c \in C : c.type \in CountedTypes => c.since <= r.time
    /\ r.time = 0 \/ \E c \in C : c.type \in CountedTypes /\ r.time = c.since
    /\ \/ r.reason = "" /\ \A c \in C : ~IsBad(c)
       \/ \E c \in C : IsBad(c) /\ r.reason = c.reason

\* What the loop over the taints has added to it when it has seen those of T.
FoundOn(r, before, T) ==
    /\ r \in Seen /\ before \in Seen /\ T \subseteq Taint
    /\ r.found = before.found /\ r.reason = before.reason
    /\ r.canBeReady <=> before.canBeReady /\ \A t \in T : t.key \notin Lister!notReadyTaints
    /\ before.time <= r.time
    /\ \A t \in T : t.key \in Lister!notReadyTaints => t.added <= r.time
    /\ \/ r.time = before.time
       \/ \E t \in T : t.key \in Lister!notReadyTaints /\ r.time = t.added

\* A turn keeps the types of what the loop carries along.
LEMMA SeeTypes ==
    ASSUME NEW r \in Seen
    PROVE  /\ \A c \in Condition : Lister!SeeCondition(r, c) \in Seen
           /\ \A t \in Taint : Lister!SeeTaint(r, t) \in Seen
  BY DEF Seen, Condition, Taint, Lister!SeeCondition, Lister!SeeTaint, Lister!Against,
     Lister!Later

\* The value the loop starts with has them too.
LEMMA NothingSeenType == Lister!NothingSeen \in Seen
  BY DEF Lister!NothingSeen, Seen, Lister!NoTime, Reasons

\* The loop over the conditions is what its turns make of it.  (Loop takes an
\* operator, so that each of its three uses needs a lemma of its own.)
LEMMA ConditionLoop ==
    ASSUME NEW list \in Seq(Condition)
    PROVE  \E r : /\ r[0] = Lister!NothingSeen
                  /\ \A i \in 1 .. Len(list) : r[i] = Lister!SeeCondition(r[i - 1], list[i])
                  /\ Lister!Loop(Lister!SeeCondition, Lister!NothingSeen, list) = r[Len(list)]
<1> DEFINE n == Len(list)
           Goes(r) == r = [i \in 0 .. n |-> IF i = 0 THEN Lister!NothingSeen
                                            ELSE Lister!SeeCondition(r[i - 1], list[i])]
           after == CHOOSE r : Goes(r)
<1>1. n \in Nat /\ \A i \in 1 .. n : list[i] \in Condition
  OBVIOUS
<1>2. \E r : Goes(r)
  <2> DEFINE turn == [i \in 1 .. n |-> [s \in Seen |-> Lister!SeeCondition(s, list[i])]]
  <2>1. \A i \in 1 .. n : \A s \in Seen :
            /\ turn[i][s] = Lister!SeeCondition(s, list[i])
            /\ turn[i][s] \in Seen
    BY <1>1, SeeTypes
  <2> HIDE DEF n, turn, Goes, after
  <2>2. n \in Nat /\ StaysIn(Seen, n, turn)
    BY <1>1, <2>1 DEF StaysIn
  <2>3. PICK r : RunOf(r, Seen, n, Lister!NothingSeen, turn)
    BY <2>2, NothingSeenType, LoopRuns
  <2> USE <2>3 DEF RunOf
  <2>4. \A i \in 1 .. n : r[i] = Lister!SeeCondition(r[i - 1], list[i])
    <3> TAKE i \in 1 .. n
    <3>1. r[i - 1] \in Seen
      BY <2>2
    <3> QED
      BY <2>1, <3>1
  <2>5. r = [i \in 0 .. n |-> IF i = 0 THEN Lister!NothingSeen
                              ELSE Lister!SeeCondition(r[i - 1], list[i])]
    BY <1>1, <2>4
  <2> QED
    BY <2>5 DEF Goes
<1>3. Goes(after)
  BY <1>2, Zenon
<1>4. Lister!Loop(Lister!SeeCondition, Lister!NothingSeen, list) = after[n]
  BY Zenon DEF Lister!Loop
<1> HIDE DEF after
<1>5. after[0] = Lister!NothingSeen
  BY <1>1, <1>3
<1>6. \A i \in 1 .. n : after[i] = Lister!SeeCondition(after[i - 1], list[i])
  BY <1>1, <1>3
<1> QED
  BY <1>4, <1>5, <1>6

\* So is the one over the taints.
LEMMA TaintLoop ==
    ASSUME NEW list \in Seq(Taint), NEW first \in Seen
    PROVE  \E r : /\ r[0] = first
                  /\ \A i \in 1 .. Len(list) : r[i] = Lister!SeeTaint(r[i - 1], list[i])
                  /\ Lister!Loop(Lister!SeeTaint, first, list) = r[Len(list)]
<1> DEFINE n == Len(list)
           Goes(r) == r = [i \in 0 .. n |-> IF i = 0 THEN first
                                            ELSE Lister!SeeTaint(r[i - 1], list[i])]
           after == CHOOSE r : Goes(r)
<1>1. n \in Nat /\ \A i \in 1 .. n : list[i] \in Taint
  OBVIOUS
<1>2. \E r : Goes(r)
  <2> DEFINE turn == [i \in 1 .. n |-> [s \in Seen |-> Lister!SeeTaint(s, list[i])]]
  <2>1. \A i \in 1 .. n : \A s \in Seen :
            /\ turn[i][s] = Lister!SeeTaint(s, list[i])
            /\ turn[i][s] \in Seen
    BY <1>1, SeeTypes
  <2> HIDE DEF n, turn, Goes, after
  <2>2. n \in Nat /\ StaysIn(Seen, n, turn)
    BY <1>1, <2>1 DEF StaysIn
  <2>3. PICK r : RunOf(r, Seen, n, first, turn)
    BY <2>2, LoopRuns
  <2> USE <2>3 DEF RunOf
  <2>4. \A i \in 1 .. n : r[i] = Lister!SeeTaint(r[i - 1], list[i])
    <3> TAKE i \in 1 .. n
    <3>1. r[i - 1] \in Seen
      BY <2>2
    <3> QED
      BY <2>1, <3>1
  <2>5. r = [i \in 0 .. n |-> IF i = 0 THEN first
                              ELSE Lister!SeeTaint(r[i - 1], list[i])]
    BY <1>1, <2>4
  <2> QED
    BY <2>5 DEF Goes
<1>3. Goes(after)
  BY <1>2, Zenon
<1>4. Lister!Loop(Lister!SeeTaint, first, list) = after[n]
  BY Zenon DEF Lister!Loop
<1> HIDE DEF after
<1>5. after[0] = first
  BY <1>1, <1>3
<1>6. \A i \in 1 .. n : after[i] = Lister!SeeTaint(after[i - 1], list[i])
  BY <1>1, <1>3
<1> QED
  BY <1>4, <1>5, <1>6

\* A turn of the copying loop makes a list of conditions again.
LEMMA KeepType ==
    ASSUME NEW s \in Seq(Condition), NEW c \in Condition
    PROVE  Lister!KeepOther(s, c) \in Seq(Condition)
  BY DEF Lister!KeepOther

\* So is the one that copies the conditions.
LEMMA CopyLoop ==
    ASSUME NEW list \in Seq(Condition), NEW first \in Seq(Condition)
    PROVE  \E r : /\ r[0] = first
                  /\ \A i \in 1 .. Len(list) : r[i] = Lister!KeepOther(r[i - 1], list[i])
                  /\ Lister!Loop(Lister!KeepOther, first, list) = r[Len(list)]
<1> DEFINE n == Len(list)
           Goes(r) == r = [i \in 0 .. n |-> IF i = 0 THEN first
                                            ELSE Lister!KeepOther(r[i - 1], list[i])]
           after == CHOOSE r : Goes(r)
<1>1. n \in Nat /\ \A i \in 1 .. n : list[i] \in Condition
  OBVIOUS
<1>2. \E r : Goes(r)
  <2> DEFINE turn == [i \in 1 .. n |-> [s \in Seq(Condition) |-> Lister!KeepOther(s, list[i])]]
  <2>1. \A i \in 1 .. n : \A s \in Seq(Condition) :
            /\ turn[i][s] = Lister!KeepOther(s, list[i])
            /\ turn[i][s] \in Seq(Condition)
    BY <1>1, KeepType
  <2> HIDE DEF n, turn, Goes, after
  <2>2. n \in Nat /\ StaysIn(Seq(Condition), n, turn)
    BY <1>1, <2>1 DEF StaysIn
  <2>3. PICK r : RunOf(r, Seq(Condition), n, first, turn)
    BY <2>2, LoopRuns
  <2> USE <2>3 DEF RunOf
  <2>4. \A i \in 1 .. n : r[i] = Lister!KeepOther(r[i - 1], list[i])
    <3> TAKE i \in 1 .. n
    <3>1. r[i - 1] \in Seq(Condition)
      BY <2>2
    <3> QED
      BY <2>1, <3>1
  <2>5. r = [i \in 0 .. n |-> IF i = 0 THEN first
                              ELSE Lister!KeepOther(r[i - 1], list[i])]
    BY <1>1, <2>4
  <2> QED
    BY <2>5 DEF Goes
<1>3. Goes(after)
  BY <1>2, Zenon
<1>4. Lister!Loop(Lister!KeepOther, first, list) = after[n]
  BY Zenon DEF Lister!Loop
<1> HIDE DEF after
<1>5. after[0] = first
  BY <1>1, <1>3
<1>6. \A i \in 1 .. n : after[i] = Lister!KeepOther(after[i - 1], list[i])
  BY <1>1, <1>3
<1> QED
  BY <1>4, <1>5, <1>6

\* The length of a list is a number.
LEMMA LenNat == \A S : \A list \in Seq(S) : Len(list) \in Nat
  OBVIOUS

\* The members of a list up to its i-th.
FirstOf(list, i) == {list[j] : j \in 1 .. i}

\* The first i members are the first i - 1 and the i-th.
LEMMA OneMore ==
    ASSUME NEW S, NEW list \in Seq(S)
    PROVE  /\ FirstOf(list, 0) = {}
           /\ \A i \in 1 .. Len(list) :
                 list[i] \in S /\ FirstOf(list, i) = FirstOf(list, i - 1) \union {list[i]}
<1>1. FirstOf(list, 0) = {}
  BY DEF FirstOf
<1>2. ASSUME NEW i \in 1 .. Len(list)
      PROVE  list[i] \in S /\ FirstOf(list, i) = FirstOf(list, i - 1) \union {list[i]}
  <2>1. 1 .. i = (1 .. i - 1) \union {i}
    OBVIOUS
  <2>2. list[i] \in S
    OBVIOUS
  <2> QED
    BY <2>1, <2>2, Zenon DEF FirstOf
<1> QED
  BY <1>1, <1>2

\* One more condition.
LEMMA NextCondition ==
    ASSUME NEW r, NEW C, FoundIn(r, C), NEW c \in Condition
    PROVE  FoundIn(Lister!SeeCondition(r, c), C \union {c})
<1> DEFINE s == Lister!SeeCondition(r, c)
<1>1. r \in Seen /\ s \in Seen /\ C \union {c} \subseteq Condition
  BY SeeTypes DEF FoundIn
<1>2. CASE c.type \notin CountedTypes
  <2>1. s = r /\ ~Lister!Against(c) /\ c.type # "Ready" /\ ~IsBad(c)
    BY <1>2 DEF Lister!SeeCondition, CountedTypes, Lister!Against, IsBad
  <2> HIDE DEF s
  <2>2. /\ \A d \in C \union {c} : d.type \in CountedTypes => d.since <= r.time
        /\ r.time = 0 \/ \E d \in C \union {c} : d.type \in CountedTypes /\ r.time = d.since
    BY <1>2, Zenon DEF FoundIn
  <2>3. /\ r.canBeReady <=> \A d \in C \union {c} : ~Lister!Against(d)
        /\ r.found <=> \E d \in C \union {c} : d.type = "Ready"
    BY <2>1, Zenon DEF FoundIn
  <2>4. \/ r.reason = "" /\ \A d \in C \union {c} : ~IsBad(d)
        \/ \E d \in C \union {c} : IsBad(d) /\ r.reason = d.reason
    BY <2>1, Zenon DEF FoundIn
  <2>5. FoundIn(r, C \union {c})
    BY <1>1, <2>2, <2>3, <2>4, Zenon DEF FoundIn
  <2> QED
    BY <2>1, <2>5 DEF s
<1>3. CASE c.type \in CountedTypes
  <2>1. /\ s.canBeReady = (r.canBeReady /\ ~Lister!Against(c))
        /\ s.found = (r.found \/ c.type = "Ready")
        /\ s.time = Lister!Later(r.time, c.since)
        /\ s.reason = IF c.type = "Ready" /\ Lister!Against(c) THEN c.reason ELSE r.reason
    BY <1>3 DEF Lister!SeeCondition, CountedTypes
  <2>2. c.type = "Ready" => (IsBad(c) <=> Lister!Against(c))
    BY DEF IsBad, Lister!Against, Condition, Lister!Statuses, Lister!NotReadyStatus,
       Lister!Pressures
  <2>3. r.time \in Nat /\ c.since \in Nat
    BY <1>1 DEF Seen, Condition
  <2> HIDE DEF s
  <2>4. s.canBeReady <=> \A d \in C \union {c} : ~Lister!Against(d)
    BY <2>1, Zenon DEF FoundIn
  <2>5. s.found <=> \E d \in C \union {c} : d.type = "Ready"
    BY <2>1, Zenon DEF FoundIn
  <2>6. r.time <= s.time /\ c.since <= s.time /\ (s.time = r.time \/ s.time = c.since)
    BY <2>1, <2>3 DEF Lister!Later
  <2>7. \A d \in C \union {c} : d.type \in CountedTypes => d.since <= s.time
    <3>1. ASSUME NEW d \in C, d.type \in CountedTypes PROVE d.since <= s.time
      <4>1. d.since \in Nat /\ s.time \in Nat /\ d.since <= r.time
        BY <1>1, <3>1 DEF Condition, Seen, FoundIn
      <4> QED
        BY <2>3, <2>6, <4>1
    <3> QED
      BY <2>6, <3>1
  <2>8. s.time = 0 \/ \E d \in C \union {c} : d.type \in CountedTypes /\ s.time = d.since
    BY <1>3, <2>6, Zenon DEF FoundIn
  <2>9. \/ s.reason = "" /\ \A d \in C \union {c} : ~IsBad(d)
        \/ \E d \in C \union {c} : IsBad(d) /\ s.reason = d.reason
    <3>1. CASE IsBad(c)
      <4>1. s.reason = c.reason
        BY <2>1, <2>2, <3>1 DEF IsBad
      <4> QED
        BY <3>1, <4>1
    <3>2. CASE ~IsBad(c)
      <4>1. s.reason = r.reason
        BY <2>1, <2>2, <3>2
      <4> QED
        BY <3>2, <4>1, Zenon DEF FoundIn
    <3> QED
      BY <3>1, <3>2
  <2>10. FoundIn(s, C \union {c})
    BY <1>1, <2>4, <2>5, <2>7, <2>8, <2>9, Zenon DEF FoundIn
  <2> QED
    BY <2>10 DEF s
<1> QED
  BY <1>2, <1>3

\* One more taint.
LEMMA NextTaint ==
    ASSUME NEW r, NEW before, NEW T, FoundOn(r, before, T), NEW t \in Taint
    PROVE  FoundOn(Lister!SeeTaint(r, t), before, T \union {t})
<1> DEFINE s == Lister!SeeTaint(r, t)
<1>1. r \in Seen /\ s \in Seen /\ before \in Seen /\ T \union {t} \subseteq Taint
  BY SeeTypes DEF FoundOn
<1>2. CASE t.key \notin Lister!notReadyTaints
  <2>1. s = r
    BY <1>2 DEF Lister!SeeTaint
  <2>2. FoundOn(r, before, T \union {t})
    BY <1>1, <1>2, <2>1, Zenon DEF FoundOn
  <2> QED
    BY <2>1, <2>2
<1>3. CASE t.key \in Lister!notReadyTaints
  <2>1. r.time \in Nat /\ t.added \in Nat /\ before.time \in Nat
    BY <1>1 DEF Seen, Taint
  <2>2. /\ s.canBeReady = FALSE /\ s.found = r.found /\ s.reason = r.reason
        /\ s.time = Lister!Later(r.time, t.added)
    BY <1>1, <1>3 DEF Lister!SeeTaint, Seen
  <2> HIDE DEF s
  <2>3. r.time <= s.time /\ t.added <= s.time /\ (s.time = r.time \/ s.time = t.added)
    BY <2>1, <2>2 DEF Lister!Later
  <2>4. s.time \in Nat /\ before.time <= r.time
    BY <1>1 DEF Seen, FoundOn
  <2>5. before.time <= s.time
    BY <2>1, <2>3, <2>4
  <2>6. \A u \in T \union {t} : u.key \in Lister!notReadyTaints => u.added <= s.time
    <3>1. ASSUME NEW u \in T, u.key \in Lister!notReadyTaints PROVE u.added <= s.time
      <4>1. u.added \in Nat /\ u.added <= r.time
        BY <1>1, <3>1 DEF Taint, FoundOn
      <4> QED
        BY <2>1, <2>3, <2>4, <4>1
    <3> QED
      BY <2>3, <3>1
  <2>7. \/ s.time = before.time
        \/ \E u \in T \union {t} : u.key \in Lister!notReadyTaints /\ s.time = u.added
    BY <1>3, <2>3, Zenon DEF FoundOn
  <2>8. /\ s.found = before.found /\ s.reason = before.reason
        /\ s.canBeReady <=>
              before.canBeReady /\ \A u \in T \union {t} : u.key \notin Lister!notReadyTaints
    BY <1>3, <2>2, Zenon DEF FoundOn
  <2>9. FoundOn(s, before, T \union {t})
    BY <1>1, <2>5, <2>6, <2>7, <2>8, Zenon DEF FoundOn
  <2> QED
    BY <2>9 DEF s
<1> QED
  BY <1>2, <1>3

\* So the loops find what there is in their lists.
LEMMA ConditionsRead ==
    ASSUME NEW list \in Seq(Condition)
    PROVE  FoundIn(Lister!Loop(Lister!SeeCondition, Lister!NothingSeen, list),
                   FirstOf(list, Len(list)))
<1>1. PICK r : /\ r[0] = Lister!NothingSeen
               /\ \A i \in 1 .. Len(list) : r[i] = Lister!SeeCondition(r[i - 1], list[i])
               /\ Lister!Loop(Lister!SeeCondition, Lister!NothingSeen, list) = r[Len(list)]
  BY ConditionLoop
<1> DEFINE n == Len(list)
           T == {i \in 0 .. n : FoundIn(r[i], FirstOf(list, i))}
<1>2. n \in Nat
  BY LenNat
<1>3. FoundIn(Lister!NothingSeen, {})
  BY NothingSeenType DEF FoundIn, Lister!NothingSeen, Lister!NoTime
<1>4. FirstOf(list, 0) = {} /\ 0 \in 0 .. n
  BY <1>2, OneMore
<1>5. ASSUME NEW i \in 1 .. n, i - 1 \in T PROVE i \in T
  BY <1>1, <1>2, <1>5, OneMore, NextCondition
<1>6. 0 \in T
  BY <1>1, <1>3, <1>4, Zenon
<1> HIDE DEF T, n
<1>7. 0 .. n \subseteq T
  BY <1>2, <1>5, <1>6, UpTo
<1>8. n \in T
  BY <1>2, <1>7
<1> QED
  BY <1>1, <1>8 DEF T, n

\* The same of the taints.
LEMMA TaintsRead ==
    ASSUME NEW list \in Seq(Taint), NEW first \in Seen
    PROVE  FoundOn(Lister!Loop(Lister!SeeTaint, first, list), first,
                   FirstOf(list, Len(list)))
<1>1. PICK r : /\ r[0] = first
               /\ \A i \in 1 .. Len(list) : r[i] = Lister!SeeTaint(r[i - 1], list[i])
               /\ Lister!Loop(Lister!SeeTaint, first, list) = r[Len(list)]
  BY TaintLoop
<1> DEFINE n == Len(list)
           T == {i \in 0 .. n : FoundOn(r[i], first, FirstOf(list, i))}
<1>2. n \in Nat
  BY LenNat
<1>3. FoundOn(first, first, {})
  BY DEF FoundOn, Seen
<1>4. FirstOf(list, 0) = {} /\ 0 \in 0 .. n
  BY <1>2, OneMore
<1>5. ASSUME NEW i \in 1 .. n, i - 1 \in T PROVE i \in T
  BY <1>1, <1>2, <1>5, OneMore, NextTaint
<1>6. 0 \in T
  BY <1>1, <1>3, <1>4, Zenon
<1> HIDE DEF T, n
<1>7. 0 .. n \subseteq T
  BY <1>2, <1>5, <1>6, UpTo
<1>8. n \in T
  BY <1>2, <1>7
<1> QED
  BY <1>1, <1>8 DEF T, n

\* The copy keeps its first condition, and no other of the type Ready.
LEMMA ConditionsCopied ==
    ASSUME NEW list \in Seq(Condition), NEW new \in Condition
    PROVE  LET copy == Lister!Loop(Lister!KeepOther, <<new>>, list)
           IN /\ copy \in Seq(Condition) /\ copy # <<>> /\ copy[1] = new
              /\ \A j \in 2 .. Len(copy) : copy[j].type # "Ready"
<1> DEFINE n == Len(list)
           Kept(s) == /\ s \in Seq(Condition) /\ Len(s) >= 1 /\ s[1] = new
                      /\ \A j \in 2 .. Len(s) : s[j].type # "Ready"
<1>1. <<new>> \in Seq(Condition) /\ Kept(<<new>>)
  OBVIOUS
<1>2. PICK r : /\ r[0] = <<new>>
               /\ \A i \in 1 .. Len(list) : r[i] = Lister!KeepOther(r[i - 1], list[i])
               /\ Lister!Loop(Lister!KeepOther, <<new>>, list) = r[Len(list)]
  BY <1>1, CopyLoop
<1> DEFINE T == {i \in 0 .. n : Kept(r[i])}
<1>3. n \in Nat /\ \A i \in 1 .. n : list[i] \in Condition
  OBVIOUS
<1>4. Kept(r[0]) /\ 0 \in 0 .. n
  BY <1>1, <1>2, <1>3
<1>5. 0 \in T
  BY <1>4
<1>6. ASSUME NEW i \in 1 .. n, i - 1 \in T PROVE i \in T
  <2> DEFINE c == list[i]
             s == r[i - 1]
  <2>1. c \in Condition /\ Kept(s) /\ r[i] = Lister!KeepOther(s, c)
    BY <1>2, <1>3, <1>6
  <2>2. Kept(r[i])
    <3> HIDE DEF c, s
    <3>1. CASE c.type # "Ready"
      <4>1. r[i] = Append(s, c)
        BY <2>1, <3>1 DEF Lister!KeepOther
      <4>2. /\ Append(s, c) \in Seq(Condition) /\ Len(Append(s, c)) = Len(s) + 1
            /\ Append(s, c)[Len(s) + 1] = c
            /\ \A j \in 1 .. Len(s) : Append(s, c)[j] = s[j]
        BY <2>1, AppendProperties
      <4>3. Len(s) \in Nat /\ \A j \in 2 .. Len(s) + 1 : j \in 2 .. Len(s) \/ j = Len(s) + 1
        BY <2>1
      <4>4. \A j \in 2 .. Len(s) + 1 : Append(s, c)[j].type # "Ready"
        BY <2>1, <3>1, <4>2, <4>3
      <4> QED
        BY <2>1, <4>1, <4>2, <4>3, <4>4
    <3>2. CASE c.type = "Ready"
      BY <2>1, <3>2 DEF Lister!KeepOther
    <3> QED
      BY <3>1, <3>2
  <2> QED
    BY <2>2
<1> HIDE DEF T, n
<1>7. 0 .. n \subseteq T
  BY <1>3, <1>5, <1>6, UpTo
<1>8. n \in T
  BY <1>3, <1>7
<1> QED
  BY <1>2, <1>8 DEF T, n

\* What the API server accepts as a node, and that it has one Ready condition
\* at most.
Nodes == [conditions : Seq(Condition), taints : Seq(Taint),
          unschedulable : BOOLEAN, created : Nat]
OneReady(node) ==
    \A i, j \in DOMAIN node.conditions :
        node.conditions[i].type = "Ready" /\ node.conditions[j].type = "Ready" => i = j

\* A member that no other exceeds is the maximum.
LEMMA MaxIs ==
    ASSUME NEW S, S \subseteq Nat, NEW m \in S, \A t \in S : t <= m
    PROVE  Lister!SetMax(S) = m
<1> DEFINE Max(t) == t \in S /\ \A u \in S : u <= t
<1>1. Max(m)
  OBVIOUS
<1>2. \A t : Max(t) => t = m
  <2>1. ASSUME NEW t, Max(t) PROVE t = m
    <3>1. t \in Nat /\ m \in Nat /\ t <= m /\ m <= t
      BY <2>1
    <3> QED
      BY <3>1
  <2> QED
    BY <2>1
<1>3. Lister!SetMax(S) = CHOOSE t \in S : \A u \in S : u <= t
  BY DEF Lister!SetMax
<1> QED
  BY <1>1, <1>2, <1>3, Zenon

\* Whatever the order, the loops give what the sets say.
LEMMA ReadinessIs ==
    ASSUME NEW node \in Nodes, OneReady(node)
    PROVE  Lister!GetNodeReadiness(node) = Lister!OfSets(node)
<1> DEFINE C == Lister!Conditions(node)
           T == Lister!Taints(node)
           before == Lister!Loop(Lister!SeeCondition, Lister!NothingSeen, node.conditions)
           seen == Lister!Loop(Lister!SeeTaint, before, node.taints)
           ready == {c \in C : c.type = "Ready"}
           pressures == {c \in C : c.type \in Lister!Pressures}
           taints == {t \in T : t.key \in Lister!notReadyTaints}
           bad == {c \in ready : c.status # "True"}
           times == {Lister!NoTime} \union {t.added : t \in taints}
                       \union {c.since : c \in ready \union pressures}
<1>1. node.conditions \in Seq(Condition) /\ node.taints \in Seq(Taint)
  BY DEF Nodes
<1>2. FoundIn(before, FirstOf(node.conditions, Len(node.conditions)))
  BY <1>1, ConditionsRead
<1>3. before \in Seen
  BY <1>2, Zenon DEF FoundIn
<1>4. FoundOn(seen, before, FirstOf(node.taints, Len(node.taints)))
  BY <1>1, <1>3, TaintsRead
<1>5. /\ DOMAIN node.conditions = 1 .. Len(node.conditions)
      /\ DOMAIN node.taints = 1 .. Len(node.taints)
  BY <1>1
<1>6. FoundIn(before, C) /\ FoundOn(seen, before, T)
  BY <1>2, <1>4, <1>5, Zenon DEF FirstOf, Lister!Conditions, Lister!Taints
<1>7. \A c, d \in ready : c = d
  BY Zenon DEF OneReady, Lister!Conditions
<1>8. /\ Lister!GetNodeReadiness(node) =
             IF seen.found
             THEN [ready |-> seen.canBeReady, time |-> seen.time, reason |-> seen.reason]
             ELSE Lister!Unknown
      /\ Lister!OfSets(node) =
             IF ready = {}
             THEN Lister!Unknown
             ELSE [ready |-> bad = {} /\ taints = {}
                             /\ \A c \in pressures : c.status # "True",
                   time |-> Lister!SetMax(times),
                   reason |-> IF bad = {} THEN "" ELSE (CHOOSE c \in bad : TRUE).reason]
  BY Zenon DEF Lister!GetNodeReadiness, Lister!OfSets
<1> HIDE DEF C, T, before, seen
<1>9. seen.found <=> ready # {}
  BY <1>6, Zenon DEF FoundIn, FoundOn
<1>10. seen.canBeReady = (bad = {} /\ taints = {} /\ \A c \in pressures : c.status # "True")
  <2>1. seen.canBeReady \in BOOLEAN
    BY <1>6 DEF FoundOn, Seen
  <2>2. \A c \in C : Lister!Against(c) <=> c \in bad \/ (c \in pressures /\ c.status = "True")
    <3>1. \A c \in C : c.status \in Lister!Statuses
      BY <1>6 DEF FoundIn, Condition
    <3> QED
      BY <3>1 DEF Lister!Against, Lister!Statuses, Lister!NotReadyStatus, Lister!Pressures
  <2>3. before.canBeReady <=> \A c \in C : ~Lister!Against(c)
    BY <1>6, Zenon DEF FoundIn
  <2>4. before.canBeReady <=> bad = {} /\ \A c \in pressures : c.status # "True"
    BY <2>2, <2>3, Zenon
  <2>5. seen.canBeReady <=> before.canBeReady /\ taints = {}
    BY <1>6, Zenon DEF FoundOn
  <2> QED
    BY <2>1, <2>4, <2>5
<1>11. Lister!SetMax(times) = seen.time
  <2>1. times \subseteq Nat /\ seen.time \in Nat
    <3>1. C \subseteq Condition /\ T \subseteq Taint /\ seen \in Seen
      BY <1>6, Zenon DEF FoundIn, FoundOn
    <3>2. \A c \in ready \union pressures : c.since \in Nat
      BY <3>1 DEF Condition
    <3>3. \A t \in taints : t.added \in Nat
      BY <3>1 DEF Taint
    <3>4. seen.time \in Nat
      BY <3>1 DEF Seen
    <3> HIDE DEF ready, pressures, taints
    <3> QED
      BY <3>2, <3>3, <3>4 DEF Lister!NoTime
  <2>2. \A c \in C : c.type \in CountedTypes <=> c \in ready \union pressures
    BY DEF CountedTypes
  <2>3. before.time = 0 \/ \E c \in ready \union pressures : before.time = c.since
    BY <1>6, <2>2, Zenon DEF FoundIn
  <2>4. seen.time = before.time \/ \E t \in taints : seen.time = t.added
    BY <1>6, Zenon DEF FoundOn
  <2>5. seen.time \in times
    BY <2>3, <2>4 DEF Lister!NoTime
  <2>6. before.time \in Nat /\ before.time <= seen.time
    BY <1>6 DEF FoundIn, FoundOn, Seen
  <2>7. \A c \in ready \union pressures : c.since \in Nat /\ c.since <= before.time
    BY <1>6, <2>2 DEF FoundIn, Condition
  <2>8. \A t \in taints : t.added <= seen.time
    BY <1>6, Zenon DEF FoundOn
  <2> HIDE DEF ready, pressures, taints
  <2>9. \A t \in times : t <= seen.time
    BY <2>1, <2>6, <2>7, <2>8 DEF Lister!NoTime
  <2> HIDE DEF times
  <2> QED
    BY <2>1, <2>5, <2>9, MaxIs
<1>12. seen.reason = IF bad = {} THEN "" ELSE (CHOOSE c \in bad : TRUE).reason
  <2>1. \A c \in C : IsBad(c) <=> c \in bad
    BY DEF IsBad
  <2>2. seen.reason = before.reason
    BY <1>6 DEF FoundOn
  <2>3. \/ before.reason = "" /\ bad = {}
        \/ \E c \in bad : before.reason = c.reason
    <3>1. \/ before.reason = "" /\ \A c \in C : ~IsBad(c)
          \/ \E c \in C : IsBad(c) /\ before.reason = c.reason
      BY <1>6, Zenon DEF FoundIn
    <3>2. bad \subseteq C
      OBVIOUS
    <3> HIDE DEF bad
    <3> QED
      BY <2>1, <3>1, <3>2
  <2>4. ASSUME NEW c \in bad PROVE (CHOOSE d \in bad : TRUE) = c
    <3>1. \A d \in bad : d = c
      BY <1>7, <2>4
    <3> HIDE DEF bad
    <3> QED
      BY <3>1, Zenon
  <2> HIDE DEF bad
  <2> QED
    BY <2>2, <2>3, <2>4
<1> HIDE DEF bad, ready, pressures, taints, times
<1> QED
  BY <1>8, <1>9, <1>10, <1>11, <1>12

\* The copy is a node, not ready for the reason given.
LEMMA CopyIsNotReady ==
    ASSUME NEW node \in Nodes
    PROVE  LET copy == Lister!GetUnreadyNodeCopy(node, "resource-not-ready")
           IN /\ copy \in Nodes /\ OneReady(copy)
              /\ Lister!OfSets(copy).ready = FALSE
              /\ Lister!OfSets(copy).reason = "resource-not-ready"
<1> DEFINE new == [type |-> "Ready", status |-> "False", since |-> node.created,
                   reason |-> "resource-not-ready"]
           list == Lister!Loop(Lister!KeepOther, <<new>>, node.conditions)
           copy == Lister!GetUnreadyNodeCopy(node, "resource-not-ready")
<1>1. new \in Condition /\ node.conditions \in Seq(Condition)
  BY DEF Nodes, Condition, Reasons, Lister!Types, Lister!Statuses
<1>2. /\ list \in Seq(Condition) /\ list # <<>> /\ list[1] = new
      /\ \A j \in 2 .. Len(list) : list[j].type # "Ready"
  <2> HIDE DEF new
  <2> QED
    BY <1>1, ConditionsCopied
<1>3. copy = [node EXCEPT !.conditions = list]
  BY Zenon DEF Lister!GetUnreadyNodeCopy
<1>4. new.type = "Ready" /\ new.status = "False" /\ new.reason = "resource-not-ready"
  OBVIOUS
<1> HIDE DEF list, copy, new
<1>5. copy \in Nodes /\ copy.conditions = list
  BY <1>2, <1>3 DEF Nodes
<1>6. DOMAIN list = 1 .. Len(list) /\ Len(list) \in Nat /\ 1 \in DOMAIN list
  BY <1>2
<1>7. \A j \in DOMAIN list : list[j].type = "Ready" <=> j = 1
  BY <1>2, <1>4, <1>6
<1>8. OneReady(copy)
  BY <1>5, <1>7 DEF OneReady
<1> DEFINE ready == {c \in Lister!Conditions(copy) : c.type = "Ready"}
           bad == {c \in ready : c.status # "True"}
<1>9. ready = {new}
  BY <1>2, <1>4, <1>5, <1>6, <1>7, Zenon DEF Lister!Conditions
<1>10. bad = {new}
  BY <1>4, <1>9
<1>11. (CHOOSE c \in bad : TRUE) = new
  BY <1>10
<1>12. \E others, time :
          Lister!OfSets(copy) =
             IF ready = {} THEN Lister!Unknown
             ELSE [ready |-> bad = {} /\ others, time |-> time,
                   reason |-> IF bad = {} THEN "" ELSE (CHOOSE c \in bad : TRUE).reason]
  <2> DEFINE taints == {t \in Lister!Taints(copy) : t.key \in Lister!notReadyTaints}
             pressures == {c \in Lister!Conditions(copy) : c.type \in Lister!Pressures}
             others == taints = {} /\ \A c \in pressures : c.status # "True"
             time == Lister!SetMax({Lister!NoTime} \union {t.added : t \in taints}
                             \union {c.since : c \in ready \union pressures})
  <2>1. Lister!OfSets(copy) =
             IF ready = {} THEN Lister!Unknown
             ELSE [ready |-> bad = {} /\ others, time |-> time,
                   reason |-> IF bad = {} THEN "" ELSE (CHOOSE c \in bad : TRUE).reason]
    BY Zenon DEF Lister!OfSets
  <2> HIDE DEF others, time, ready, bad
  <2> QED
    BY <2>1
<1> HIDE DEF ready, bad
<1>13. Lister!OfSets(copy).ready = FALSE /\ Lister!OfSets(copy).reason = new.reason
  <2>1. ready # {} /\ bad # {}
    BY <1>9, <1>10
  <2>2. PICK others, time :
          Lister!OfSets(copy) =
             IF ready = {} THEN Lister!Unknown
             ELSE [ready |-> bad = {} /\ others, time |-> time,
                   reason |-> IF bad = {} THEN "" ELSE (CHOOSE c \in bad : TRUE).reason]
    BY <1>12, Zenon
  <2>3. Lister!OfSets(copy) =
             [ready |-> bad = {} /\ others, time |-> time,
              reason |-> IF bad = {} THEN "" ELSE (CHOOSE c \in bad : TRUE).reason]
    BY <2>1, <2>2, Zenon
  <2>4. (bad = {} /\ others) = FALSE
    BY <2>1
  <2>5. (IF bad = {} THEN "" ELSE (CHOOSE c \in bad : TRUE).reason) = new.reason
    BY <2>1, <1>11
  <2>6. Lister!OfSets(copy) = [ready |-> FALSE, time |-> time, reason |-> new.reason]
    BY <2>3, <2>4, <2>5, Zenon
  <2> QED
    BY <2>6
<1> QED
  BY <1>4, <1>5, <1>8, <1>13 DEF copy

-----------------------------------------------------------------------------
(* NodeListers: a node has no two conditions of one type. *)

OneOfEach(list) == \A i, j \in DOMAIN list : list[i].type = list[j].type => i = j
KnownNodes == {node \in Nodes : OneOfEach(node.conditions)}
VersionsOK == versions \in Seq(KnownNodes) /\ versions # <<>>

\* Writing such a node keeps the versions of the node such.
LEMMA WriteIsKnown ==
    ASSUME VersionsOK, NEW node \in KnownNodes, Lister!Write(node)
    PROVE  VersionsOK'
<1>1. versions' = Append(versions, node) /\ versions \in Seq(KnownNodes)
  BY DEF Lister!Write, VersionsOK
<1> HIDE DEF KnownNodes
<1>2. Append(versions, node) \in Seq(KnownNodes) /\ Append(versions, node) # <<>>
  BY <1>1
<1> QED
  BY <1>1, <1>2 DEF VersionsOK, KnownNodes

\* The present node has its types, and one condition of each.
LEMMA NodeIsKnown ==
    ASSUME VersionsOK
    PROVE  /\ Lister!Node \in KnownNodes /\ Lister!Now \in Nat
           /\ Lister!Node.conditions \in Seq(Condition) /\ Lister!Node.taints \in Seq(Taint)
           /\ OneOfEach(Lister!Node.conditions)
<1>1. Lister!Node \in KnownNodes /\ Lister!Now \in Nat
  <2> HIDE DEF KnownNodes
  <2> QED
    BY DEF VersionsOK, Lister!Node, Lister!Now
<1> QED
  BY <1>1 DEF KnownNodes, Nodes

\* A condition replaces the one of its type, or is new at either end.
LEMMA SetConditionKnown ==
    ASSUME VersionsOK, NEW t \in Lister!Types, NEW s \in Lister!Statuses,
           Lister!SetCondition(t, s)
    PROVE  VersionsOK'
<1> DEFINE node == Lister!Node
           list == node.conditions
           new == [type |-> t, status |-> s, since |-> Lister!Now,
                   reason |-> IF t = "Ready" THEN "Kubelet" ELSE ""]
           old == {i \in DOMAIN list : list[i].type = t}
<1>1. node \in KnownNodes /\ list \in Seq(Condition) /\ OneOfEach(list)
  BY NodeIsKnown
<1>2. new \in Condition /\ new.type = t
  BY NodeIsKnown DEF Condition, Reasons
<1>3. \A l \in Seq(Condition) : OneOfEach(l) => [node EXCEPT !.conditions = l] \in KnownNodes
  BY <1>1 DEF KnownNodes, Nodes
<1>4. \/ \E i \in old : Lister!Write([node EXCEPT !.conditions[i] = new])
      \/ old = {} /\ Lister!Write([node EXCEPT !.conditions = Append(@, new)])
      \/ old = {} /\ Lister!Write([node EXCEPT !.conditions = <<new>> \o @])
  BY Zenon DEF Lister!SetCondition
<1> HIDE DEF new, node
<1>5. CASE \E i \in old : Lister!Write([node EXCEPT !.conditions[i] = new])
  <2>1. PICK i \in old : Lister!Write([node EXCEPT !.conditions[i] = new])
    BY <1>5
  <2> DEFINE l == [list EXCEPT ![i] = new]
  <2>2. [node EXCEPT !.conditions[i] = new] = [node EXCEPT !.conditions = l]
    BY <1>1 DEF KnownNodes, Nodes
  <2>3. i \in DOMAIN list /\ list[i].type = t
    BY <2>1
  <2>4. l \in Seq(Condition) /\ DOMAIN l = DOMAIN list
    BY <1>1, <1>2, <2>3
  <2>5. \A j \in DOMAIN list : l[j].type = list[j].type
    BY <1>1, <1>2, <2>3
  <2> HIDE DEF l
  <2>6. OneOfEach(l)
    BY <1>1, <2>4, <2>5 DEF OneOfEach
  <2> QED
    BY <1>3, <2>1, <2>2, <2>4, <2>6, WriteIsKnown
<1>6. CASE old = {} /\ Lister!Write([node EXCEPT !.conditions = Append(@, new)])
  <2> DEFINE l == Append(list, new)
  <2>1. l \in Seq(Condition) /\ DOMAIN l = DOMAIN list \union {Len(list) + 1}
    BY <1>1, <1>2
  <2>2. l[Len(list) + 1] = new /\ \A j \in DOMAIN list : l[j] = list[j]
    BY <1>1, <1>2
  <2>3. \A j \in DOMAIN list : list[j].type # t
    BY <1>6
  <2> HIDE DEF l
  <2>4. OneOfEach(l)
    BY <1>1, <1>2, <2>1, <2>2, <2>3 DEF OneOfEach
  <2>5. [node EXCEPT !.conditions = Append(@, new)] = [node EXCEPT !.conditions = l]
    BY <1>1 DEF KnownNodes, Nodes, l
  <2> QED
    BY <1>3, <1>6, <2>1, <2>4, <2>5, WriteIsKnown
<1>7. CASE old = {} /\ Lister!Write([node EXCEPT !.conditions = <<new>> \o @])
  <2> DEFINE l == <<new>> \o list
  <2>1. l \in Seq(Condition) /\ Len(l) = Len(list) + 1 /\ Len(list) \in Nat
    BY <1>1, <1>2
  <2>2. l[1] = new /\ \A j \in 2 .. Len(l) : l[j] = list[j - 1]
    BY <1>1, <1>2
  <2>3. \A j \in DOMAIN list : list[j].type # t
    BY <1>7
  <2>4. DOMAIN l = 1 .. Len(l) /\ DOMAIN list = 1 .. Len(list)
    BY <1>1, <2>1
  <2> HIDE DEF l
  <2>5. \A j \in DOMAIN l : j = 1 \/ (j \in 2 .. Len(l) /\ j - 1 \in DOMAIN list)
    BY <2>1, <2>4
  <2>6. ASSUME NEW i \in DOMAIN l, NEW j \in DOMAIN l, l[i].type = l[j].type PROVE i = j
    <3>1. CASE i = 1 /\ j # 1
      BY <1>2, <2>2, <2>3, <2>5, <2>6, <3>1
    <3>2. CASE j = 1 /\ i # 1
      BY <1>2, <2>2, <2>3, <2>5, <2>6, <3>2
    <3>3. CASE i # 1 /\ j # 1
      <4>1. i - 1 \in DOMAIN list /\ j - 1 \in DOMAIN list /\ i \in Nat /\ j \in Nat
        BY <2>5, <3>3, <2>1
      <4>2. list[i - 1].type = list[j - 1].type
        BY <2>2, <2>5, <2>6, <3>3
      <4>3. i - 1 = j - 1
        BY <1>1, <4>1, <4>2 DEF OneOfEach
      <4> QED
        BY <4>1, <4>3
    <3> QED
      BY <3>1, <3>2, <3>3
  <2>7. OneOfEach(l)
    BY <2>6 DEF OneOfEach
  <2>8. [node EXCEPT !.conditions = <<new>> \o @] = [node EXCEPT !.conditions = l]
    BY <1>1 DEF KnownNodes, Nodes, l
  <2> QED
    BY <1>3, <1>7, <2>1, <2>7, <2>8, WriteIsKnown
<1> QED
  BY <1>4, <1>5, <1>6, <1>7

\* Taints do not touch the conditions.
LEMMA TaintsKnown ==
    ASSUME VersionsOK, NEW l \in Seq(Taint)
    PROVE  [Lister!Node EXCEPT !.taints = l] \in KnownNodes
<1>1. Lister!Node \in KnownNodes
  BY NodeIsKnown
<1>2. [Lister!Node EXCEPT !.taints = l] \in Nodes
  BY <1>1 DEF KnownNodes, Nodes
<1>3. [Lister!Node EXCEPT !.taints = l].conditions = Lister!Node.conditions
  BY <1>1 DEF KnownNodes, Nodes
<1> QED
  BY <1>1, <1>2, <1>3 DEF KnownNodes

\* No step gives a node two conditions of one type.
LEMMA ListersStep ==
    ASSUME VersionsOK, Lister!Next
    PROVE  VersionsOK'
<1> DEFINE node == Lister!Node
           keys == Lister!notReadyTaints \union {"unschedulable"}
<1>1. node \in KnownNodes /\ node.taints \in Seq(Taint) /\ Lister!Now \in Nat
  BY NodeIsKnown
<1>2. ASSUME NEW t \in Lister!Types, NEW s \in Lister!Statuses, Lister!SetCondition(t, s)
      PROVE  VersionsOK'
  BY <1>2, SetConditionKnown
<1>3. ASSUME NEW k \in keys, NEW added \in Nat, Lister!AddTaint(k, added)
      PROVE  VersionsOK'
  <2> DEFINE l == Append(node.taints, [key |-> k, added |-> added])
  <2>1. l \in Seq(Taint)
    BY <1>1 DEF Taint
  <2>2. Lister!Write([node EXCEPT !.taints = Append(@, [key |-> k, added |-> added])])
    BY <1>3, Zenon DEF Lister!AddTaint
  <2>3. [node EXCEPT !.taints = Append(@, [key |-> k, added |-> added])]
          = [node EXCEPT !.taints = l]
    BY <1>1 DEF KnownNodes, Nodes
  <2> QED
    BY <2>1, <2>2, <2>3, TaintsKnown, WriteIsKnown
<1>4. ASSUME NEW k \in keys, Lister!RemoveTaint(k)
      PROVE  VersionsOK'
  <2>1. PICK i \in DOMAIN node.taints :
            Lister!Write([node EXCEPT !.taints = SubSeq(@, 1, i - 1) \o SubSeq(@, i + 1, Len(@))])
    BY <1>4, Zenon DEF Lister!RemoveTaint
  <2> DEFINE u == node.taints
             l == SubSeq(u, 1, i - 1) \o SubSeq(u, i + 1, Len(u))
  <2>2. i \in 1 .. Len(u) /\ Len(u) \in Nat
    BY <1>1
  <2>3. SubSeq(u, 1, i - 1) \in Seq(Taint)
    BY <1>1, <2>2, SubSeqProperties
  <2>4. SubSeq(u, i + 1, Len(u)) \in Seq(Taint)
    BY <1>1, <2>2, SubSeqProperties
  <2>5. l \in Seq(Taint)
    BY <2>3, <2>4
  <2>6. [node EXCEPT !.taints = SubSeq(@, 1, i - 1) \o SubSeq(@, i + 1, Len(@))]
          = [node EXCEPT !.taints = l]
    BY <1>1 DEF KnownNodes, Nodes
  <2> HIDE DEF l
  <2> QED
    BY <2>1, <2>5, <2>6, TaintsKnown, WriteIsKnown
<1>5. ASSUME Lister!Cordon PROVE VersionsOK'
  <2>1. [node EXCEPT !.unschedulable = ~@] \in KnownNodes
    BY <1>1 DEF KnownNodes, Nodes
  <2> QED
    BY <1>5, <2>1, WriteIsKnown DEF Lister!Cordon
<1>6. ASSUME NEW l \in Lister!Listers, Lister!Reflect(l) PROVE VersionsOK'
  BY <1>6 DEF Lister!Reflect, VersionsOK
<1> QED
  BY <1>1, <1>2, <1>3, <1>4, <1>5, <1>6 DEF Lister!Next, Lister!NoTime

\* For any number of writes, in whatever order the API returns conditions and
\* taints, the loops of GetNodeReadiness compute what the sets say, for the node
\* and for its copy.
THEOREM ReadinessCorrect == PartsSpec => []ReadinessOfSets
<1>1. PartsInit => VersionsOK
  <2> SUFFICES ASSUME PartsInit PROVE VersionsOK
    OBVIOUS
  <2> DEFINE t == [key |-> "not-ready", added |-> Lister!NoTime]
             first == [conditions |-> <<>>, taints |-> <<t>>,
                       unschedulable |-> FALSE, created |-> 1]
  <2>1. versions = <<first>>
    BY Zenon DEF PartsInit, Lister!Init
  <2>2. t \in Taint
    BY DEF Taint, Lister!notReadyTaints, Lister!NoTime
  <2>3. first \in Nodes
    BY <2>2 DEF Nodes
  <2>4. first \in KnownNodes
    BY <2>3 DEF KnownNodes, OneOfEach
  <2> HIDE DEF first, KnownNodes
  <2> QED
    BY <2>1, <2>4 DEF VersionsOK
<1>2. VersionsOK /\ [PartsNext]_allVars => VersionsOK'
  <2> SUFFICES ASSUME VersionsOK, [PartsNext]_allVars PROVE VersionsOK'
    OBVIOUS
  <2>1. Lister!Next \/ UNCHANGED versions
    BY DEF PartsNext, allVars, listerVars
  <2> QED
    BY <2>1, ListersStep DEF VersionsOK
<1>3. VersionsOK => ReadinessOfSets
  <2> SUFFICES ASSUME VersionsOK PROVE ReadinessOfSets
    OBVIOUS
  <2> DEFINE node == Lister!Node
             copy == Lister!GetUnreadyNodeCopy(node, "resource-not-ready")
  <2>1. node \in Nodes /\ OneReady(node)
    BY NodeIsKnown DEF KnownNodes, OneReady, OneOfEach
  <2>2. /\ copy \in Nodes /\ OneReady(copy)
        /\ Lister!OfSets(copy).ready = FALSE
        /\ Lister!OfSets(copy).reason = "resource-not-ready"
    BY <2>1, CopyIsNotReady
  <2>3. /\ Lister!GetNodeReadiness(node) = Lister!OfSets(node)
        /\ Lister!GetNodeReadiness(copy) = Lister!OfSets(copy)
    BY <2>1, <2>2, ReadinessIs
  <2>4. ~Lister!IsNodeReadyAndSchedulable(copy) /\ Lister!IsNotNodeReadyAndSchedulable(copy)
    BY <2>2, <2>3, Zenon DEF Lister!IsNodeReadyAndSchedulable, Lister!IsNotNodeReadyAndSchedulable
  <2> QED
    BY <2>2, <2>3, <2>4, Zenon DEF ReadinessOfSets, Lister!ReadinessOfSets
<1> QED
  BY <1>1, <1>2, <1>3, PTL DEF PartsSpec

-----------------------------------------------------------------------------
(* NodeDrain. *)

\* From the list of a quiet drain on, the scheduler knows of the cordon, and what
\* runs on the worker is of a daemon set or still to be looked at.
NothingOverlooked ==
    quiet /\ drainPC \in {"delete", "returned"} =>
        /\ known
        /\ \A p \in Pods : pod[p] = "here" => Kind[p] = "DaemonSet" \/ p \in todo

DrainInv ==
    /\ Drain!TypeOK
    /\ NothingOverlooked
    /\ drainPC = "returned" => todo = {}

\* A pod is bound only before the scheduler knows, and then List sees it.
LEMMA DrainStep ==
    ASSUME DrainInv, Drain!Next
    PROVE  DrainInv'
<1> USE LivePartsAssumption
<1> USE DEF DrainInv, Drain!TypeOK, NothingOverlooked, Drain!DrainConstants, Drain!SkippedKinds
<1>1. CASE Drain!Patch
  BY <1>1 DEF Drain!Patch
<1>2. CASE Drain!List
  BY <1>2 DEF Drain!List, Drain!OnNode
<1>3. CASE Drain!Return
  BY <1>3 DEF Drain!Return
<1>4. ASSUME NEW p \in Pods, Drain!Skip(p) PROVE DrainInv'
  BY <1>4 DEF Drain!Skip, Drain!Remaining
<1>5. ASSUME NEW p \in Pods, Drain!Panic(p) PROVE DrainInv'
  BY <1>5 DEF Drain!Panic
<1>6. ASSUME NEW p \in Pods, Drain!DeletePod(p) PROVE DrainInv'
  <2>1. /\ pod[p] \in {"here", "leaving", "gone"} /\ todo' = todo \ {p}
        /\ drainPC' = drainPC /\ known' = known /\ unschedulable' = unschedulable
        /\ drainPC = "delete" /\ p \in todo
    BY <1>6 DEF Drain!DeletePod, Drain!Remaining
  <2>2. CASE /\ pod' = [pod EXCEPT ![p] = IF pod[p] = "here" THEN "leaving" ELSE pod[p]]
             /\ quiet' = quiet
    <3>1. pod' \in [Pods -> {"pending", "here", "leaving", "gone"}]
      BY <2>1, <2>2
    <3>2. \A q \in Pods : q # p => pod'[q] = pod[q]
      BY <2>2
    <3>3. pod'[p] # "here" /\ pod'[p] # "pending"
      BY <2>1, <2>2
    <3> QED
      BY <2>1, <2>2, <3>1, <3>2, <3>3
  <2>3. CASE quiet' = FALSE /\ pod' = pod
    BY <2>1, <2>3
  <2> QED
    BY <1>6, <2>2, <2>3 DEF Drain!DeletePod
<1>7. CASE Drain!Learn
  BY <1>7 DEF Drain!Learn
<1>8. ASSUME NEW p \in Pods, Drain!Bind(p) PROVE DrainInv'
  BY <1>8 DEF Drain!Bind
<1>9. ASSUME NEW p \in Pods, Drain!Stop(p) PROVE DrainInv'
  BY <1>9 DEF Drain!Stop
<1> QED
  BY <1>1, <1>2, <1>3, <1>4, <1>5, <1>6, <1>7, <1>8, <1>9 DEF Drain!Next, Drain!CallStep

\* The invariant of the drain holds throughout.
LEMMA DrainInvariance == PartsSpec => []DrainInv
<1>1. PartsInit => DrainInv
  BY LivePartsAssumption
  DEF PartsInit, Drain!Init, DrainInv, Drain!TypeOK, NothingOverlooked, Drain!DrainConstants
<1>2. DrainInv /\ [PartsNext]_allVars => DrainInv'
  <2> SUFFICES ASSUME DrainInv, [PartsNext]_allVars PROVE DrainInv'
    OBVIOUS
  <2>1. Drain!Next \/ UNCHANGED drainVars
    BY DEF PartsNext, allVars
  <2>2. CASE UNCHANGED drainVars
    BY <2>2 DEF drainVars, DrainInv, Drain!TypeOK, NothingOverlooked
  <2> QED
    BY <2>1, <2>2, DrainStep
<1> QED
  BY <1>1, <1>2, PTL DEF PartsSpec

\* For any set of pods, at most those of daemon sets run on a worker after a quiet
\* drain: neither was one overlooked, nor does one slip in.
THEOREM NothingSlipsInCorrect == PartsSpec => []NothingSlipsIn
<1>1. DrainInv => NothingSlipsIn
  BY DEF DrainInv, NothingOverlooked, NothingSlipsIn, Drain!NothingSlipsIn
<1> QED
  BY <1>1, DrainInvariance, PTL
=============================================================================
