------------------------------ MODULE Barrier ------------------------------
(***************************************************************************)
(* The spin barrier of grading/common.hpp: a counter that goes up to       *)
(* cardinal as the threads enter and down to zero as they leave, and a     *)
(* mode that the last thread of each half switches.  One action is one     *)
(* access to step or mode.                                                 *)
(***************************************************************************)
EXTENDS Integers, FiniteSets

CONSTANTS Thread, MaxRounds   \* MaxRounds: bound on the calls of a thread

ASSUME ThreadAssumption == IsFiniteSet(Thread) /\ Thread # {}

VARIABLES step, mode,
          place, round   \* per thread, its place inside sync and its calls
                         \* of it that are over

barrierVars == <<step, mode, place, round>>

cardinal == Cardinality(Thread)

BarrierInit ==
    /\ step = 0 /\ mode = "enter"
    /\ place = [p \in Thread |-> "out"]
    /\ round = [p \in Thread |-> 0]

Move(p, from, to) == place[p] = from /\ place' = [place EXCEPT ![p] = to]

\* step.fetch_add(1) + 1 == cardinal
Enter(p) ==
    /\ round[p] < MaxRounds
    /\ step' = step + 1
    /\ Move(p, "out", IF step + 1 = cardinal THEN "setLeave" ELSE "waitLeave")
    /\ UNCHANGED <<mode, round>>

SetLeave(p) ==
    /\ Move(p, "setLeave", "leave")
    /\ mode' = "leave"
    /\ UNCHANGED <<step, round>>

WaitLeave(p) ==
    /\ mode = "leave"
    /\ Move(p, "waitLeave", "leave")
    /\ UNCHANGED <<step, mode, round>>

\* The first thread out switches the mode back, not the last.
LastOut_fault == step = cardinal
LastOut == step - 1 = 0

\* step.fetch_sub(1) - 1 == 0
Leave(p) ==
    /\ step' = step - 1
    /\ Move(p, "leave", IF LastOut THEN "setEnter" ELSE "waitEnter")
    /\ UNCHANGED <<mode, round>>

SetEnter(p) ==
    /\ Move(p, "setEnter", "out")
    /\ mode' = "enter"
    /\ round' = [round EXCEPT ![p] = @ + 1]
    /\ UNCHANGED step

\* A barrier with one phase: a thread goes on while others have yet to leave.
CanGo_fault == TRUE
CanGo == mode = "enter"

WaitEnter(p) ==
    /\ CanGo
    /\ Move(p, "waitEnter", "out")
    /\ round' = [round EXCEPT ![p] = @ + 1]
    /\ UNCHANGED <<step, mode>>

BarrierStep(p) == \/ Enter(p) \/ SetLeave(p) \/ WaitLeave(p)
                  \/ Leave(p) \/ SetEnter(p) \/ WaitEnter(p)

\* Threads that do nothing but call sync.
BarrierNext == \E p \in Thread : BarrierStep(p)

SyncSpec == BarrierInit /\ [][BarrierNext]_barrierVars
-----------------------------------------------------------------------------
(* Properties.                                                              *)

Promise == INSTANCE BarrierSpec WITH
    Party <- Thread, inside <- { p \in Thread : place[p] # "out" }, done <- round

\* The counter and the mode of common.hpp:290 implement a reusable barrier:
\* no call of sync returns before every thread is in the call of that round.
ImplementsBarrier == Promise!BSpec
=============================================================================
