----------------------------- MODULE MCMeasure -----------------------------
(* Measure on small instances. *)
EXTENDS Measure
=============================================================================
