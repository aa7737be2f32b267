--------------------------- MODULE MCCounterCheck ---------------------------
(* CounterCheck on small instances. *)
EXTENDS CounterCheck
=============================================================================
