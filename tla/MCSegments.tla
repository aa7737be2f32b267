----------------------------- MODULE MCSegments -----------------------------
(* Segments on small instances. *)
EXTENDS Segments
=============================================================================
