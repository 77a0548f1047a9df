---------------------------- MODULE MCControlGate ----------------------------
(* Instances of ControlGate for TLC.                                       *)
EXTENDS ControlGate, TLC

ThreadSymmetry == Permutations(Threads)
=============================================================================
