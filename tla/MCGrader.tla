------------------------------ MODULE MCGrader ------------------------------
(* Grader on a small instance. *)
EXTENDS Grader
=============================================================================
