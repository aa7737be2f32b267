---------------------------- MODULE BoundedQueue ----------------------------
(***************************************************************************)
(* What a producer and a consumer promise each other: the items come out   *)
(* in the order they went in, each once and whole, and never more than     *)
(* Capacity of them are under way.                                         *)
(***************************************************************************)
EXTENDS Naturals, Sequences

CONSTANTS Item, Capacity

VARIABLES put, taken   \* all items that went in, that came out

queueVars == <<put, taken>>

QInit == put = <<>> /\ taken = <<>>

Put(x) == /\ Len(put) < Len(taken) + Capacity
          /\ put' = Append(put, x)
          /\ UNCHANGED taken

Take == /\ Len(taken) < Len(put)
        /\ taken' = Append(taken, put[Len(taken) + 1])
        /\ UNCHANGED put

QNext == Take \/ \E x \in Item : Put(x)

QSpec == QInit /\ [][QNext]_queueVars
=============================================================================
