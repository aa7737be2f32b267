------------------------------- MODULE MCTL2 -------------------------------
(* TL2, its inductive invariant and its refinement on small instances. *)
EXTENDS TL2Inv, TL2Refines, TLC

Threads == Permutations(Thread)
=============================================================================
