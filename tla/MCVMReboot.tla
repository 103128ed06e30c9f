------------------------------- MODULE MCVMReboot -------------------------------
(* One VM, in every power state at first. *)
EXTENDS VMReboot
=============================================================================
