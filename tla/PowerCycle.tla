------------------------------- MODULE PowerCycle -------------------------------
(***************************************************************************)
(* What RebootVM promises about the power of a VM: a call sees the VM off, *)
(* or puts it off, before it puts it on, does each once at most, and has   *)
(* nil to return only when it has done both.  An error promises nothing.   *)
(***************************************************************************)
VARIABLES
    power,   \* the power state of the VM
    phase,   \* how far the call under way has come
    result   \* what the last call returned, "none" for none or its end

vars == <<power, phase, result>>

Powers == {"POWERED_ON", "POWERED_OFF", "SUSPENDED"}

Init == power \in Powers /\ phase = "idle" /\ result = "none"

Begin ==
    /\ phase = "idle" /\ phase' = "begun"
    /\ result' = "none" /\ UNCHANGED power

FindOff ==
    /\ phase = "begun" /\ phase' = "off"
    /\ power = "POWERED_OFF" /\ UNCHANGED <<power, result>>

TurnOff ==
    /\ phase = "begun" /\ phase' = "off"
    /\ power' = "POWERED_OFF" /\ UNCHANGED result

TurnOn ==
    /\ phase = "off" /\ phase' = "on"
    /\ power' = "POWERED_ON" /\ UNCHANGED result

ReturnNil ==
    /\ phase = "on" /\ phase' = "idle"
    /\ result' = "nil" /\ UNCHANGED power

\* An error is returned, or the process ends.
GiveUp ==
    /\ phase # "idle" /\ phase' = "idle"
    /\ result' \in {"error", "none"} /\ UNCHANGED power

Others == power' \in Powers /\ UNCHANGED <<phase, result>>

Next ==
    \/ Begin \/ FindOff \/ TurnOff \/ TurnOn \/ ReturnNil \/ GiveUp \/ Others

Spec == Init /\ [][Next]_vars
=============================================================================
