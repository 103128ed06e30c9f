-------------------------------- MODULE VMReboot --------------------------------
(***************************************************************************)
(* RebootVM (vcd/manipulation/RebootMachine.go) and the VM that it reboots *)
(* in vCloud, where a request starts a task, one task at a time, and the   *)
(* task ends later.  The worker goroutine calls RebootVM for one node      *)
(* after the other, so that one call is under way.  Others use the VM too, *)
(* and a task goes on when the process that waits for it has ended.        *)
(*                                                                         *)
(* FailureIsFine, FailureUnseen and PowerOnUnawaited are mutants of the    *)
(* definitions that follow them.                                           *)
(***************************************************************************)

CONSTANT NoTask  \* not a task

Powers == {"POWERED_ON", "POWERED_OFF", "SUSPENDED"}

\* "own" tells the task that the call under way waits for.
Task == [op : {"off", "on"}, own : BOOLEAN]

ASSUME NoTaskAssumption == NoTask \notin Task

VARIABLES
    power,    \* what GetStatus returns
    task,     \* the task that runs on the VM
    pc,       \* where RebootVM is
    seen,     \* what the task that the call waits for tells of itself
    result,   \* what the last call returned
    touched   \* history: someone else's task ended since the last request

vars == <<power, task, pc, seen, result, touched>>

Waits == {"waitOff", "waitOn"}

TypeOK ==
    /\ power \in Powers
    /\ task \in Task \union {NoTask}
    /\ pc \in {"idle", "find", "status", "powerOff", "powerOn"} \union Waits
    /\ seen \in IF pc \in Waits THEN {"running", "success", "error"}
                ELSE {"none"}
    /\ result \in {"none", "nil", "error"}
    /\ touched \in BOOLEAN

Init ==
    /\ power \in Powers /\ task = NoTask
    /\ pc = "idle" /\ seen = "none" /\ result = "none" /\ touched = FALSE

-----------------------------------------------------------------------------
(* vCloud *)

After(op) == IF op = "off" THEN "POWERED_OFF" ELSE "POWERED_ON"

Start(op, own) ==
    /\ task = NoTask /\ power # After(op)
    /\ task' = [op |-> op, own |-> own]

TaskEnds ==
    /\ task # NoTask /\ task' = NoTask
    /\ \E outcome \in {"success", "error"} :
          /\ power' = IF outcome = "success" THEN After(task.op) ELSE power
          /\ seen' = IF task.own THEN outcome ELSE seen
    /\ touched' = (touched \/ ~task.own)
    /\ UNCHANGED <<pc, result>>

\* An operator, or vCloud itself, switches the VM or suspends it.
Others ==
    /\ \/ \E op \in {"off", "on"} : Start(op, FALSE) /\ UNCHANGED power
       \/ task = NoTask /\ power' = "SUSPENDED" /\ UNCHANGED task
    /\ touched' = (touched \/ power' # power)
    /\ UNCHANGED <<pc, seen, result>>

\* The task that the call waited for, if any, is nobody's now.
Disown ==
    task' = IF task = NoTask THEN NoTask ELSE [task EXCEPT !.own = FALSE]

-----------------------------------------------------------------------------
(* RebootVM *)

Returns(value) ==
    /\ pc' = "idle" /\ seen' = "none" /\ result' = value
    /\ UNCHANGED <<power, touched>>

Goes(place) == pc' = place /\ UNCHANGED <<power, result, touched>>

Call ==
    /\ pc = "idle" /\ pc' = "find" /\ result' = "none"
    /\ UNCHANGED <<power, task, seen, touched>>

GetVMFromName ==
    /\ pc = "find"
    /\ Goes("status") \/ Returns("error")
    /\ seen' = "none" /\ UNCHANGED task

\* A query that fails leaves the status empty, which is an unknown one.
GetStatus ==
    /\ pc = "status"
    /\ \/ power = "POWERED_ON" /\ Goes("powerOff")
       \/ power = "POWERED_OFF" /\ Goes("powerOn")
       \/ Returns("error")
    /\ seen' = "none" /\ UNCHANGED task

\* A request is accepted or refused, or accepted and the answer lost.
Request(op, wait) ==
    \/ /\ Start(op, TRUE)
       /\ pc' = wait /\ seen' = "running" /\ touched' = FALSE
       /\ UNCHANGED <<power, result>>
    \/ /\ Start(op, FALSE) \/ UNCHANGED task
       /\ Returns("error")

PowerOff == pc = "powerOff" /\ Request("off", "waitOff")

PowerOnUnawaited ==
    /\ pc = "powerOn"
    /\ \/ Start("on", FALSE) /\ touched' = FALSE /\ result' = "nil"
       \/ UNCHANGED <<task, touched>> /\ result' = "error"
    /\ pc' = "idle" /\ seen' = "none" /\ UNCHANGED power

PowerOn == pc = "powerOn" /\ Request("on", "waitOn")

OffTaskDone ==
    /\ pc = "waitOff" /\ seen = "success"
    /\ Goes("powerOn") /\ seen' = "none" /\ UNCHANGED task

OnTaskDone ==
    /\ pc = "waitOn" /\ seen = "success"
    /\ Returns("nil") /\ UNCHANGED task

FailureIsFine ==
    /\ pc \in Waits /\ seen = "error"
    /\ Returns("nil") /\ UNCHANGED task

FailureUnseen ==
    /\ pc = "waitOff" /\ seen = "error"
    /\ Returns("error") /\ UNCHANGED task

TaskFailed ==
    /\ pc \in Waits /\ seen = "error"
    /\ Returns("error") /\ UNCHANGED task

\* The wait cannot ask for the task any more: an error while the task goes on.
WaitFails ==
    /\ pc \in Waits
    /\ Returns("error") /\ Disown

\* The end of the process.
Crash ==
    /\ pc # "idle"
    /\ Returns("none") /\ Disown

-----------------------------------------------------------------------------
CallStep ==
    \/ GetVMFromName \/ GetStatus \/ PowerOff \/ PowerOn
    \/ OffTaskDone \/ OnTaskDone \/ TaskFailed

Next == Call \/ CallStep \/ WaitFails \/ Crash \/ TaskEnds \/ Others

Spec == Init /\ [][Next]_vars

\* The goroutine runs, and tasks end some time, well or badly.
FairSpec == Spec /\ WF_vars(CallStep) /\ WF_vars(TaskEnds)

-----------------------------------------------------------------------------
(* Properties. *)

\* How far the power cycle of the call under way has come.
phase ==
    CASE pc = "idle" -> "idle"
      [] pc \in {"find", "status", "powerOff"} -> "begun"
      [] pc = "waitOff" -> IF seen = "success" THEN "off" ELSE "begun"
      [] pc = "powerOn" -> "off"
      [] pc = "waitOn" -> IF seen = "success" THEN "on" ELSE "off"

\* A call does to the VM what module PowerCycle allows.
P == INSTANCE PowerCycle
PowerCycleSpec == P!Spec

\* After a call that returned nil the VM is on, whatever tasks of earlier
\* calls went on after an error or a crash, as long as nobody else has used it.
NilMeansOn == result = "nil" /\ ~touched => power = "POWERED_ON"

\* RebootVM returns, although its waits have no timeout: each task ends, and
\* both of its ends are seen.
CallReturns == pc # "idle" ~> pc = "idle"

=============================================================================
