---------------------------- MODULE MCReferenceTM ----------------------------
(* ReferenceTM on small instances. *)
EXTENDS ReferenceTM, TLC

Symmetric == Permutations(Thread) \cup Permutations(Segment)
=============================================================================
