----------------------------- MODULE MCClosures -----------------------------
(* Closures on a small instance. *)
EXTENDS Closures
=============================================================================
