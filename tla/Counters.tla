------------------------------ MODULE Counters ------------------------------
(***************************************************************************)
(* sync-examples/counter1.c to counter4.c, and the playground: threads     *)
(* that increment one shared counter.  counter++ is a load and a store in  *)
(* the code that the Makefiles build, which neither keep the counter in a  *)
(* register (-O0) nor inline shared_access (another source file).          *)
(***************************************************************************)
EXTENDS ExampleThreads

VARIABLES
    counter,
    local,           \* per thread, the value that its load has returned
    check_counter    \* the playground's second, atomic counter

counterVars == <<counter, local, check_counter>>

\* The programs that load and store the counter with nothing in between that
\* keeps the others out.
Racing          == {"counter1", "counter3", "playground"}
CounterPrograms == Racing \cup {"counter2", "counter4"}

CInit ==
    /\ program \in CounterPrograms
    /\ StartThreads(Thread)
    /\ counter = 0 /\ check_counter = 0
    /\ local = [t \in Thread |-> 0]

\* The load moved out of the loop, its result updated by the thread itself.
Loaded_fault(t) == IF round[t] = 0 THEN counter ELSE local[t]
Loaded(t) == counter

Load(t) ==
    /\ program # "counter4" /\ At(t, "body")
    /\ local' = [local EXCEPT ![t] = Loaded(t)]
    /\ Goto(t, "store")
    /\ UNCHANGED <<program, round, owner, asleep, counter, check_counter>>

Store(t) ==
    /\ At(t, "store")
    /\ counter' = local[t] + 1
    /\ IF program = "playground" THEN Goto(t, "tally") /\ UNCHANGED round ELSE Leave(t)
    /\ UNCHANGED <<program, owner, asleep, local, check_counter>>

\* check_counter.fetch_add, on the way out of shared_access.
Tally(t) ==
    /\ At(t, "tally")
    /\ check_counter' = check_counter + 1
    /\ EndRound(t)
    /\ UNCHANGED <<program, owner, asleep, counter, local>>

FetchAdd(t) ==
    /\ program = "counter4" /\ At(t, "body")
    /\ counter' = counter + 1
    /\ EndRound(t)
    /\ UNCHANGED <<program, owner, asleep, local, check_counter>>

CStep(t) == \/ Load(t) \/ Store(t) \/ Tally(t) \/ FetchAdd(t)
            \/ (Acquire(t) \/ Release(t)) /\ UNCHANGED counterVars

CNext == program \in CounterPrograms /\ \E t \in Thread : CStep(t)

CSpec == CInit /\ [][CNext]_<<threadVars, counterVars>>
-----------------------------------------------------------------------------
(* Properties.                                                              *)

Increments == RUNS * Cardinality(Thread)

\* The programs marked "**Correct**" (counter2.c:22, counter4.c:15) count every
\* increment, as their main checks.
CountIsExact ==
    program \in CounterPrograms \ Racing /\ AllDone => counter = Increments

\* The racing programs lose increments, but never all but one: a thread that
\* undoes the others' work stores at least its own and one it has seen.  The
\* playground's check_counter counts them all, so that its verdict (runner.cpp:50)
\* is an alarm exactly if some are lost.
SomeIncrementsSurvive ==
    program \in Racing /\ AllDone =>
        /\ counter \in (IF RUNS > 1 THEN 2 ELSE 1) .. Increments
        /\ program = "playground" => check_counter = Increments
=============================================================================
