--------------------------- MODULE ExampleThreads ---------------------------
(***************************************************************************)
(* What the programs of sync-examples share: threads that each make RUNS   *)
(* rounds and are then joined by main, and the exclusive lock of lock.c    *)
(* with its condition variable.  Which program runs is chosen at the       *)
(* start.                                                                  *)
(***************************************************************************)
EXTENDS Integers, FiniteSets

CONSTANTS Thread, RUNS, Nobody

ASSUME ThreadsAssumption == IsFiniteSet(Thread) /\ Thread # {} /\ Nobody \notin Thread
ASSUME RunsAssumption    == RUNS \in Nat \ {0}

VARIABLES
    program,
    pc, round,       \* per thread, its place and the rounds it has made
    owner,           \* who holds the mutex
    asleep           \* who waits on the condition variable

threadVars == <<program, pc, round, owner, asleep>>

At(t, label)   == pc[t] = label
Goto(t, label) == pc' = [pc EXCEPT ![t] = label]
-----------------------------------------------------------------------------
(* lock.c                                                                   *)

\* A lock that keeps nobody out, as the empty Lock::lock of the playground.
lock_acquire_fault(t) == owner' = t /\ UNCHANGED asleep
lock_acquire(t) == owner = Nobody /\ owner' = t /\ UNCHANGED asleep

lock_release == owner' = Nobody /\ UNCHANGED asleep

\* Give the mutex back and fall asleep, in one step.
lock_wait(t) == owner' = Nobody /\ asleep' = asleep \cup {t}

\* A broadcast that is forgotten.
lock_wake_up_fault == UNCHANGED <<owner, asleep>>
lock_wake_up == asleep' = {} /\ UNCHANGED owner
-----------------------------------------------------------------------------
Locked == program \in {"counter2", "election2", "procon2", "procon4"}

\* Where a round begins.
Entry == IF Locked THEN "acquire" ELSE "body"

StartThreads(started) ==
    /\ pc = [t \in Thread |-> IF t \in started THEN Entry ELSE "done"]
    /\ round = [t \in Thread |-> 0]
    /\ owner = Nobody /\ asleep = {}

Acquire(t) ==
    /\ At(t, "acquire")
    /\ lock_acquire(t)
    /\ Goto(t, "body")
    /\ UNCHANGED <<program, round>>

EndRound(t) ==
    /\ round' = [round EXCEPT ![t] = @ + 1]
    /\ Goto(t, IF round[t] + 1 = RUNS THEN "done" ELSE Entry)

Release(t) ==
    /\ At(t, "release")
    /\ lock_release
    /\ EndRound(t)
    /\ UNCHANGED program

\* The end of a round's work, for a program with and without the lock.
Leave(t) == IF Locked THEN Goto(t, "release") /\ UNCHANGED round ELSE EndRound(t)

\* main has joined its threads and looks at the result.
AllDone == \A t \in Thread : pc[t] = "done"
=============================================================================
