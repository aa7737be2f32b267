------------------------------- MODULE MCBank -------------------------------
(* Bank on small instances. *)
EXTENDS Bank

\* grading.cpp as it stands, over template/; and with alloc_tx over reference/.
Sound   == { [alloc |-> FALSE, serial |-> FALSE], [alloc |-> TRUE, serial |-> TRUE] }

\* alloc_tx over template/.
Exposed == { [alloc |-> TRUE, serial |-> FALSE] }
=============================================================================
