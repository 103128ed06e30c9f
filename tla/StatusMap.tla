-------------------------------- MODULE StatusMap --------------------------------
(***************************************************************************)
(* The status config map (clusterstate/utils/status.go).  Processes write  *)
(* it at their start (NewStatusMapRecorder, as NewStaticAutorepair calls   *)
(* it) and whenever they have a status; a write is a Get and then an       *)
(* Update or a Create.  Users edit the map, empty it or delete it, and     *)
(* requests fail, before or after they took effect.                        *)
(*                                                                         *)
(* An update of an object that changed since it was read is refused: fresh *)
(* tells whether a process has read the present version.  Rebuilt and      *)
(* LeftOnNotFound are mutants of the definitions after them.               *)
(***************************************************************************)
EXTENDS Naturals

CONSTANTS
    Writers,    \* processes that write the status
    MaxEdits,   \* bound: edits and deletions by users
    MaxFaults   \* bound: requests that fail

ASSUME StatusMapAssumption == MaxEdits \in Nat /\ MaxFaults \in Nat

VARIABLES
    configMap,  \* the map in the API server
    fresh,      \* whether the map is as the process has read it
    pc,         \* where the call of each process is
    read,       \* what each process read
    active,     \* whether its recorder was made active; "no" before the start
    result,     \* of the last call of each process
    edits, faults

vars == <<configMap, fresh, pc, read, active, result, edits, faults>>

\* status: who wrote it, NoData when the map has no Data; note: a key of users.
Absent == [exists |-> FALSE, status |-> "none", note |-> 0]
NoData == "no data"
Maps == {Absent} \union
        [exists : {TRUE}, status : Writers \union {NoData}, note : 0 .. MaxEdits]

TypeOK ==
    /\ configMap \in Maps
    /\ fresh \in [Writers -> BOOLEAN]
    /\ pc \in [Writers -> {"off", "getting", "got", "idle", "panicked"}]
    /\ read \in [Writers -> Maps]
    /\ active \in [Writers -> {"no", "active", "inactive"}]
    /\ result \in [Writers -> {"none", "written", "error"}]
    /\ edits \in 0 .. MaxEdits /\ faults \in 0 .. MaxFaults
    \* A process runs with a recorder, and a refused first write makes it an
    \* inactive one for good.
    /\ \A w \in Writers : pc[w] = "idle" => active[w] # "no"

Init ==
    /\ configMap = Absent
    /\ fresh = [w \in Writers |-> FALSE]
    /\ pc = [w \in Writers |-> "off"]
    /\ read = [w \in Writers |-> Absent]
    /\ active = [w \in Writers |-> "no"]
    /\ result = [w \in Writers |-> "none"]
    /\ edits = 0 /\ faults = 0

-----------------------------------------------------------------------------
(* WriteStatusConfigMap. *)

\* A process starts, or the loop of one that runs writes its status.
Call(w) ==
    /\ pc[w] \in {"off", "idle"}
    /\ pc' = [pc EXCEPT ![w] = "getting"]
    /\ result' = [result EXCEPT ![w] = "none"]
    /\ UNCHANGED <<configMap, fresh, read, active, edits, faults>>

\* The first call decides on the recorder: NewStaticAutorepair falls back to an
\* inactive one when it fails.
Return(w, outcome) ==
    /\ pc' = [pc EXCEPT ![w] = "idle"]
    /\ result' = [result EXCEPT ![w] = outcome]
    /\ active' = [active EXCEPT ![w] =
                     IF @ # "no" THEN @
                     ELSE IF outcome = "written" THEN "active" ELSE "inactive"]

Get(w) ==
    /\ pc[w] = "getting"
    /\ pc' = [pc EXCEPT ![w] = "got"]
    /\ read' = [read EXCEPT ![w] = configMap]
    /\ fresh' = [fresh EXCEPT ![w] = TRUE]
    /\ UNCHANGED <<configMap, active, result, edits, faults>>

\* Get, Update or Create fails and has no effect.
RequestFails(w) ==
    /\ pc[w] = "getting" \/ (pc[w] = "got" /\ read[w].status # NoData)
    /\ faults < MaxFaults
    /\ faults' = faults + 1
    /\ Return(w, "error")
    /\ UNCHANGED <<configMap, fresh, read, edits>>

Put(m) ==
    /\ configMap' = m
    /\ fresh' = [w \in Writers |-> FALSE]

\* A request that took effect: the process may get an error all the same.
Answered(w) ==
    \/ Return(w, "written") /\ UNCHANGED faults
    \/ faults < MaxFaults /\ faults' = faults + 1 /\ Return(w, "error")

Rebuilt(w) == [exists |-> TRUE, status |-> w, note |-> 0]
Updated(w) == [read[w] EXCEPT !.status = w]

\* The status is put into the map that was read.
Update(w) ==
    /\ pc[w] = "got" /\ read[w].exists /\ read[w].status # NoData
    /\ IF fresh[w]
       THEN Put(Updated(w)) /\ Answered(w)
       ELSE Return(w, "error") /\ UNCHANGED <<configMap, fresh, faults>>
    /\ UNCHANGED <<read, edits>>

\* configMap.Data["status"] = statusMsg on a nil map.
Panic(w) ==
    /\ pc[w] = "got" /\ read[w].exists /\ read[w].status = NoData
    /\ pc' = [pc EXCEPT ![w] = "panicked"]
    /\ UNCHANGED <<configMap, fresh, read, active, result, edits, faults>>

LeftOnNotFound(w) ==
    /\ pc[w] = "got" /\ ~read[w].exists
    /\ Return(w, "error")
    /\ UNCHANGED <<configMap, fresh, read, edits, faults>>

\* Refused when another process has created the map meanwhile.
Create(w) ==
    /\ pc[w] = "got" /\ ~read[w].exists
    /\ IF configMap.exists
       THEN Return(w, "error") /\ UNCHANGED <<configMap, fresh, faults>>
       ELSE /\ Put([exists |-> TRUE, status |-> w, note |-> 0])
            /\ Answered(w)
    /\ UNCHANGED <<read, edits>>

-----------------------------------------------------------------------------
(* Users, and DeleteStatusConfigMap. *)

Edit ==
    /\ configMap.exists /\ edits < MaxEdits
    /\ edits' = edits + 1
    /\ \/ configMap.status # NoData /\ Put([configMap EXCEPT !.note = edits'])
       \/ Put([configMap EXCEPT !.status = NoData, !.note = 0])
    /\ UNCHANGED <<pc, read, active, result, faults>>

Delete ==
    /\ configMap.exists /\ edits < MaxEdits
    /\ edits' = edits + 1
    /\ Put(Absent)
    /\ UNCHANGED <<pc, read, active, result, faults>>

WriterStep(w) == Get(w) \/ RequestFails(w) \/ Update(w) \/ Panic(w) \/ Create(w)

Next ==
    \/ \E w \in Writers : Call(w) \/ WriterStep(w)
    \/ Edit \/ Delete

\* A call that was made goes on, and the loop of a process calls again.
Spec ==
    /\ Init /\ [][Next]_vars
    /\ \A w \in Writers : WF_vars(WriterStep(w)) /\ WF_vars(Call(w))

-----------------------------------------------------------------------------
(* Properties. *)

\* What users have put into the map is kept by all writers, those that read it
\* before the edit too: only users change it, or delete it with the map.
EditsSurvive ==
    [][configMap.exists /\ edits' = edits =>
           configMap'.exists /\ configMap'.note = configMap.note]_vars

\* The writers that run and lose a race, or a request, get "a free retry each
\* loop" (status.go:132): again and again one of them gets its status written,
\* unless all have panicked, however they and the users interfere.
SomeWriterGetsThrough ==
    []<>(\/ \E w \in Writers : result[w] = "written"
         \/ \A w \in Writers : pc[w] = "panicked")
=============================================================================
