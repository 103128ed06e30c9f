------------------------------ MODULE MCAsgRepair ------------------------------
(* The repair of workers among three names. *)
EXTENDS AsgRepair

CONSTANTS w1, w2, w3
=============================================================================
