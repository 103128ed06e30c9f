------------------------------- MODULE MCScaling -------------------------------
(* The replacement of workers w1, w2 and w3, of which some exist at first. *)
EXTENDS Scaling, TLC

CONSTANTS w1, w2, w3

WorkerSymmetry == Permutations(Workers)
=============================================================================
