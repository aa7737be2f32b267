---------------------------- MODULE BarrierSpec ----------------------------
(***************************************************************************)
(* What a reusable barrier promises: nobody comes out of a call of sync    *)
(* before everybody has gone into theirs.                                  *)
(***************************************************************************)
EXTENDS Naturals

CONSTANT Party

VARIABLES
    inside,   \* who is inside a call of sync
    done      \* per party, the calls it has come out of

bvars == <<inside, done>>

BInit == inside = {} /\ done = [p \in Party |-> 0]

Arrive(p) == /\ p \notin inside
             /\ inside' = inside \cup {p}
             /\ UNCHANGED done

\* q has gone into the call that p wants to come out of.
Arrived(q, p) == done[q] > done[p] \/ (done[q] = done[p] /\ q \in inside)

Depart(p) == /\ p \in inside
             /\ \A q \in Party : Arrived(q, p)
             /\ inside' = inside \ {p}
             /\ done' = [done EXCEPT ![p] = @ + 1]

BNext == \E p \in Party : Arrive(p) \/ Depart(p)

BSpec == BInit /\ [][BNext]_bvars
=============================================================================
