----------------------------- MODULE VMReboot_proofs -----------------------------
(***************************************************************************)
(* That RebootVM power-cycles a VM in order, and that nil means on, for    *)
(* any number of calls, tasks, failures and steps of others.               *)
(***************************************************************************)
EXTENDS VMReboot, TLAPS

\* A task of the call under way is the one that its place waits for.
OwnTaskInv ==
    task # NoTask /\ task.own =>
        /\ seen = "running"
        /\ \/ pc = "waitOff" /\ task.op = "off"
           \/ pc = "waitOn" /\ task.op = "on"

\* The value of the last call is kept until the next one begins only.
ResultInv == pc # "idle" => result = "none"

\* NilMeansOn, already when the call learns that the VM has been put on.
SuccessMeansOn ==
    pc = "waitOn" /\ seen = "success" /\ ~touched => power = "POWERED_ON"

IInv == TypeOK /\ OwnTaskInv /\ ResultInv /\ SuccessMeansOn /\ NilMeansOn

-----------------------------------------------------------------------------
\* A task that has been started is one of those there are (vCloud).
LEMMA StartType ==
    ASSUME NEW op \in {"off", "on"}, NEW own \in BOOLEAN, Start(op, own)
    PROVE  /\ task' \in Task /\ task' # NoTask
           /\ task'.op = op /\ task'.own = own
<1>1. task' = [op |-> op, own |-> own]
  BY DEF Start
<1>2. task' \in Task
  BY <1>1 DEF Task
<1> QED
  BY <1>1, <1>2, NoTaskAssumption

\* A task that has been disowned is nobody's.
LEMMA DisownType ==
    ASSUME TypeOK, Disown
    PROVE  /\ task' \in Task \union {NoTask}
           /\ task' # NoTask => task'.own = FALSE
  BY NoTaskAssumption DEF TypeOK, Disown, Task

\* The initial states satisfy the invariant.
LEMMA InitInv == ASSUME Init PROVE IInv
  BY DEF Init, IInv, TypeOK, OwnTaskInv, ResultInv, SuccessMeansOn, NilMeansOn,
     Waits

\* The steps of a call that neither start nor disown a task.
LEMMA PlainSteps ==
    ASSUME IInv, Call \/ GetVMFromName \/ GetStatus \/ OffTaskDone
                 \/ OnTaskDone \/ TaskFailed
    PROVE  IInv'
<1> USE DEF IInv, TypeOK, Waits, Call, GetVMFromName, GetStatus, OffTaskDone,
        OnTaskDone, TaskFailed, Goes, Returns
<1>1. TypeOK'
  OBVIOUS
<1>2. OwnTaskInv'
  BY DEF OwnTaskInv
<1>3. ResultInv'
  BY DEF ResultInv
<1>4. SuccessMeansOn' /\ NilMeansOn'
  BY DEF SuccessMeansOn, NilMeansOn
<1> QED
  BY <1>1, <1>2, <1>3, <1>4

\* The requests.
LEMMA RequestSteps ==
    ASSUME IInv, NEW op \in {"off", "on"}, NEW wait \in Waits,
           op = "off" <=> wait = "waitOff", Request(op, wait),
           pc \in {"powerOff", "powerOn"}
    PROVE  IInv'
<1> USE DEF IInv, TypeOK, Waits, Request, Returns
<1>1. CASE Start(op, TRUE) /\ pc' = wait /\ seen' = "running"
           /\ touched' = FALSE /\ UNCHANGED <<power, result>>
  <2>1. TypeOK'
    BY <1>1, StartType
  <2>2. OwnTaskInv'
    BY <1>1, StartType DEF OwnTaskInv
  <2>3. ResultInv' /\ SuccessMeansOn' /\ NilMeansOn'
    BY <1>1 DEF ResultInv, SuccessMeansOn, NilMeansOn
  <2> QED
    BY <2>1, <2>2, <2>3
<1>2. CASE (Start(op, FALSE) \/ UNCHANGED task) /\ Returns("error")
  <2>1. TypeOK'
    BY <1>2, StartType
  <2>2. OwnTaskInv'
    <3>1. CASE Start(op, FALSE)
      <4>1. task'.own = FALSE
        BY <3>1, StartType
      <4> QED
        BY <4>1 DEF OwnTaskInv
    <3>2. CASE UNCHANGED task
      BY <1>2, <3>2 DEF OwnTaskInv
    <3> QED
      BY <1>2, <3>1, <3>2
  <2>3. ResultInv' /\ SuccessMeansOn' /\ NilMeansOn'
    BY <1>2 DEF ResultInv, SuccessMeansOn, NilMeansOn
  <2> QED
    BY <2>1, <2>2, <2>3
<1> QED
  BY <1>1, <1>2

\* The steps that give up a task.
LEMMA DisownSteps == ASSUME IInv, WaitFails \/ Crash PROVE IInv'
<1> USE DEF IInv, TypeOK, Waits, WaitFails, Crash, Returns
<1>1. TypeOK'
  BY DisownType
<1>2. OwnTaskInv'
  BY DisownType DEF OwnTaskInv
<1>3. ResultInv' /\ SuccessMeansOn' /\ NilMeansOn'
  BY DEF ResultInv, SuccessMeansOn, NilMeansOn
<1> QED
  BY <1>1, <1>2, <1>3

\* The end of a task.
LEMMA TaskSteps == ASSUME IInv, TaskEnds PROVE IInv'
<1> USE DEF IInv, TypeOK, TaskEnds, After
<1>1. task \in Task /\ task' = NoTask /\ UNCHANGED <<pc, result>>
  OBVIOUS
<1>2. CASE task.own = TRUE
  <2>1. /\ touched' = touched
        /\ seen' \in {"success", "error"}
        /\ seen' = "success" => power' = After(task.op)
        /\ power' \in Powers
        /\ pc \in Waits
        /\ pc = "waitOn" => task.op = "on"
    BY <1>1, <1>2 DEF OwnTaskInv, Powers, Waits
  <2>2. TypeOK'
    BY <1>1, <2>1 DEF Waits
  <2>3. OwnTaskInv' /\ ResultInv'
    BY <1>1 DEF OwnTaskInv, ResultInv
  <2>4. SuccessMeansOn'
    BY <1>1, <2>1 DEF SuccessMeansOn
  <2>5. NilMeansOn'
    BY <1>1, <2>1 DEF NilMeansOn, ResultInv, Waits
  <2> QED
    BY <2>2, <2>3, <2>4, <2>5
<1>3. CASE task.own = FALSE
  <2>1. touched' = TRUE /\ seen' = seen /\ power' \in Powers
    BY <1>3 DEF Powers
  <2>2. TypeOK'
    BY <1>1, <2>1
  <2>3. OwnTaskInv' /\ ResultInv'
    BY <1>1 DEF OwnTaskInv, ResultInv
  <2>4. SuccessMeansOn' /\ NilMeansOn'
    BY <2>1 DEF SuccessMeansOn, NilMeansOn
  <2> QED
    BY <2>2, <2>3, <2>4
<1>4. task.own \in BOOLEAN
  BY <1>1 DEF Task
<1> QED
  BY <1>2, <1>3, <1>4

\* Everyone else.
LEMMA OthersSteps == ASSUME IInv, Others PROVE IInv'
<1>1. UNCHANGED <<pc, seen, result>>
  BY DEF Others
<1>2. power' = power \/ (touched' = TRUE /\ power' \in Powers)
  BY DEF Others, Powers, IInv, TypeOK
<1>3. \/ task' = task
      \/ task' \in Task /\ task'.own = FALSE
  BY StartType DEF Others
<1>4. touched' \in BOOLEAN /\ (touched' = FALSE => touched = FALSE)
  BY DEF Others, IInv, TypeOK
<1>5. TypeOK'
  BY <1>1, <1>2, <1>3, <1>4 DEF IInv, TypeOK
<1>6. OwnTaskInv' /\ ResultInv'
  BY <1>1, <1>3 DEF IInv, OwnTaskInv, ResultInv
<1>7. SuccessMeansOn' /\ NilMeansOn'
  BY <1>1, <1>2, <1>4 DEF IInv, SuccessMeansOn, NilMeansOn
<1> QED
  BY <1>5, <1>6, <1>7 DEF IInv

\* Every step keeps the invariant.
LEMMA Steps == ASSUME IInv, [Next]_vars PROVE IInv'
<1>1. CASE PowerOff
  BY <1>1, RequestSteps DEF PowerOff, Waits
<1>2. CASE PowerOn
  BY <1>2, RequestSteps DEF PowerOn, Waits
<1>3. CASE UNCHANGED vars
  BY <1>3 DEF vars, IInv, TypeOK, OwnTaskInv, ResultInv, SuccessMeansOn,
     NilMeansOn
<1> QED
  BY <1>1, <1>2, <1>3, PlainSteps, DisownSteps, TaskSteps, OthersSteps
     DEF Next, CallStep

\* The invariant of RebootVM and its VM.
THEOREM Inductive == Spec => []IInv
<1>1. Init => IInv
  BY InitInv
<1>2. IInv /\ [Next]_vars => IInv'
  BY Steps
<1> QED
  BY <1>1, <1>2, PTL DEF Spec

\* Every variable has its type; in particular a call hears of a task only
\* while it waits for one.
THEOREM TypeCorrect == Spec => []TypeOK
<1>1. IInv => TypeOK
  BY DEF IInv
<1> QED
  BY <1>1, Inductive, PTL

\* After RebootVM returned nil the VM is on, unless somebody else has used it.
THEOREM NilMeansOnCorrect == Spec => []NilMeansOn
<1>1. IInv => NilMeansOn
  BY DEF IInv
<1> QED
  BY <1>1, Inductive, PTL

-----------------------------------------------------------------------------
(* The refinement. *)

\* The end of a task turns the VM off or on for the call that waits for it.
LEMMA TaskEndsRefines == ASSUME IInv, TaskEnds PROVE P!Next
<1>1. task \in Task /\ UNCHANGED <<pc, result>> /\ power' \in Powers
  BY DEF TaskEnds, IInv, TypeOK, Powers, After
<1>2. CASE task.own /\ seen' = "success"
  <2>1. task # NoTask /\ seen = "running" /\ power' = After(task.op)
    BY <1>2 DEF TaskEnds, IInv, OwnTaskInv
  <2>2. CASE pc = "waitOff" /\ task.op = "off"
    BY <1>1, <1>2, <2>1, <2>2 DEF phase, After, P!TurnOff, P!Next
  <2>3. CASE pc = "waitOn" /\ task.op = "on"
    BY <1>1, <1>2, <2>1, <2>3 DEF phase, After, P!TurnOn, P!Next
  <2> QED
    BY <1>2, <2>1, <2>2, <2>3 DEF IInv, OwnTaskInv
<1>3. CASE ~(task.own /\ seen' = "success")
  <2>1. seen' = "success" <=> seen = "success"
    BY <1>3 DEF TaskEnds, IInv, OwnTaskInv
  <2>2. phase' = phase
    BY <1>1, <2>1 DEF phase
  <2> QED
    BY <1>1, <2>2 DEF P!Others, P!Powers, P!Next, Powers
<1> QED
  BY <1>2, <1>3

\* Every step is one of a power cycle, or not seen there.
LEMMA StepRefines == ASSUME IInv, [Next]_vars PROVE [P!Next]_P!vars
<1> USE DEF IInv, TypeOK, Waits
<1>1. CASE Call
  BY <1>1 DEF Call, phase, P!Begin, P!Next
<1>2. CASE GetVMFromName
  BY <1>2 DEF GetVMFromName, Goes, Returns, phase, P!GiveUp, P!Next, P!vars
<1>3. CASE GetStatus
  BY <1>3 DEF GetStatus, Goes, Returns, phase, P!FindOff, P!GiveUp, P!Next,
     P!vars
<1>4. CASE PowerOff
  BY <1>4 DEF PowerOff, Request, Returns, phase, P!GiveUp, P!Next, P!vars
<1>5. CASE PowerOn
  BY <1>5 DEF PowerOn, Request, Returns, phase, P!GiveUp, P!Next, P!vars
<1>6. CASE OffTaskDone
  BY <1>6 DEF OffTaskDone, Goes, phase, P!vars
<1>7. CASE OnTaskDone
  BY <1>7 DEF OnTaskDone, Returns, phase, P!ReturnNil, P!Next
<1>8. CASE TaskFailed \/ WaitFails \/ Crash
  <2>1. pc # "idle" /\ pc' = "idle" /\ result' \in {"error", "none"}
        /\ power' = power
    BY <1>8 DEF TaskFailed, WaitFails, Crash, Returns
  <2>2. phase # "idle" /\ phase' = "idle"
    BY <2>1 DEF phase
  <2> QED
    BY <2>1, <2>2 DEF P!GiveUp, P!Next
<1>9. CASE TaskEnds
  BY <1>9, TaskEndsRefines
<1>10. CASE Others
  <2>1. UNCHANGED <<pc, seen, result>> /\ power' \in Powers
    BY <1>10 DEF Others, Powers
  <2>2. phase' = phase
    BY <2>1 DEF phase
  <2> QED
    BY <2>1, <2>2 DEF P!Others, P!Powers, P!Next, Powers
<1>11. CASE UNCHANGED vars
  BY <1>11 DEF vars, phase, P!vars
<1> QED
  BY <1>1, <1>2, <1>3, <1>4, <1>5, <1>6, <1>7, <1>8, <1>9, <1>10, <1>11
     DEF Next, CallStep

\* RebootVM does to a VM what module PowerCycle allows: off before on, each
\* once at most, and nil only after both, whatever fails, crashes or interferes.
THEOREM ImplementsPowerCycle == Spec => PowerCycleSpec
<1>1. Init => P!Init
  BY DEF Init, P!Init, P!Powers, Powers, phase
<1>2. IInv /\ [Next]_vars => [P!Next]_P!vars
  BY StepRefines
<1> QED
  BY <1>1, <1>2, Inductive, PTL DEF Spec, P!Spec, PowerCycleSpec
=============================================================================
