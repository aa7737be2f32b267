------------------------------- MODULE Grader -------------------------------
(***************************************************************************)
(* main of grading/grading.cpp: each library is loaded, its memory created,*)
(* the workload measured, the memory destroyed and the library unloaded,   *)
(* by the destructors of tl and bank.  Creation and destruction go through *)
(* bounded_run of grading/common.hpp: main waits for a runner thread, for  *)
(* some time, on a condition variable without a predicate.  measure is one *)
(* step with its three outcomes here, and Measure.tla has the detail.      *)
(***************************************************************************)
EXTENDS Integers

CONSTANTS
    NbLibraries,     \* the reference first, then the tested ones
    MaxSpurious      \* bound on the wake-ups that nobody asked for

ASSUME GraderAssumption == NbLibraries \in Nat \ {0} /\ MaxSpurious \in Nat

VARIABLES
    place,           \* where main is
    lib,             \* i of its loop
    limits,          \* maxtick_init, maxtick_perf and maxtick_chck are set
    failing,         \* main is on its way out with code 1
    exit,            \* how the process ended
    mapped, memory,  \* libraries that are loaded, whose memory exists
    passed,          \* libraries that were measured without an error
    workers,         \* the workers of measure are running
    task, runner,    \* what bounded_run runs (or has given up), and its thread
    notified,        \* main has been woken on cv
    spurious,
    strayed          \* ghost: a runner used the frame of a bounded_run that is over

mainVars   == <<place, lib, limits, failing, exit, passed, workers>>
objectVars == <<mapped, memory>>
runVars    == <<task, runner, notified, spurious, strayed>>
graderVars == <<mainVars, objectVars, runVars>>

Library == 1 .. NbLibraries

MainInit ==
    /\ place = "load" /\ lib = 1 /\ limits = FALSE /\ failing = FALSE
    /\ exit = "none" /\ passed = {} /\ workers = FALSE
    /\ mapped = {} /\ memory = {}
    /\ task = "create" /\ runner = "none" /\ notified = FALSE
    /\ spurious = 0 /\ strayed = FALSE

MainAt(label) == exit = "none" /\ place = label
MainGoto(label) == place' = label /\ UNCHANGED exit
End(how)  == exit' = how /\ UNCHANGED place
-----------------------------------------------------------------------------
(* TransactionalLibrary.                                                    *)

Load ==
    /\ MainAt("load")
    /\ mapped' = mapped \cup {lib}
    /\ task' = "create" /\ MainGoto("spawn")
    /\ UNCHANGED <<lib, limits, failing, passed, workers, memory,
                   runner, notified, spurious, strayed>>

\* No such file, or a symbol is missing: the constructor throws, and a module
\* that is open by then stays open, as no destructor runs.
LoadFails ==
    /\ MainAt("load")
    /\ mapped' \in {mapped, mapped \cup {lib}}
    /\ End("1")
    /\ UNCHANGED <<lib, limits, failing, passed, workers, memory, runVars>>

\* ~TransactionalLibrary.  Then main goes on with the loop or returns.
Unload ==
    /\ MainAt("unload")
    /\ mapped' = mapped \ {lib}
    /\ IF failing \/ lib = NbLibraries
       THEN MainGoto("return") /\ UNCHANGED lib
       ELSE MainGoto("load") /\ lib' = lib + 1
    /\ UNCHANGED <<limits, failing, passed, workers, memory, runVars>>

Return ==
    /\ MainAt("return")
    /\ End(IF failing THEN "1" ELSE "0")
    /\ UNCHANGED <<lib, limits, failing, passed, workers, objectVars, runVars>>
-----------------------------------------------------------------------------
(* bounded_run: main's side.  It holds the lock in "spawned" and "joining". *)

\* The runner may notify; a runner that does not take the lock.
LockFree_fault == TRUE
LockFree       == place \notin {"spawned", "joining"}

Spawn ==
    /\ MainAt("spawn")
    /\ runner' = "func" /\ notified' = FALSE
    /\ MainGoto("spawned")
    /\ UNCHANGED <<lib, limits, failing, passed, workers, objectVars, task, spurious, strayed>>

\* An exception leaves bounded_run: from the constructor of TransactionalMemory it
\* unwinds main, which is not in its inner try block yet; the destructor is
\* noexcept.
Throw ==
    IF task = "create"
    THEN failing' = TRUE /\ task' = "abandoned" /\ MainGoto("unload")
    ELSE End("terminated") /\ UNCHANGED <<failing, task>>

SpawnFails ==
    /\ MainAt("spawn")
    /\ Throw
    /\ UNCHANGED <<lib, limits, passed, workers, objectVars,
                   runner, notified, spurious, strayed>>

Wait ==
    /\ MainAt("spawned")
    /\ MainGoto("waiting")
    /\ UNCHANGED <<lib, limits, failing, passed, workers, objectVars, runVars>>

\* wait_for returns no_timeout, with the lock.
Notified ==
    /\ MainAt("waiting") /\ notified
    /\ MainGoto("joining")
    /\ UNCHANGED <<lib, limits, failing, passed, workers, objectVars, runVars>>

WokenUp ==
    /\ MainAt("waiting") /\ ~ notified /\ spurious < MaxSpurious
    /\ spurious' = spurious + 1
    /\ MainGoto("joining")
    /\ UNCHANGED <<lib, limits, failing, passed, workers, objectVars,
                   task, runner, notified, strayed>>

\* What becomes of the runner on a timeout; one that is joined.
Detached_fault == runner = "ended"
Detached       == TRUE

\* The time has passed, whether or not the runner has notified meanwhile.
WaitTimeOut ==
    /\ MainAt("waiting") /\ Detached
    /\ Throw
    /\ UNCHANGED <<lib, limits, passed, workers, objectVars,
                   runner, notified, spurious, strayed>>

Join ==
    /\ MainAt("joining") /\ runner = "ended"
    /\ MainGoto(IF task = "create" THEN "measure" ELSE "unload")
    /\ UNCHANGED <<lib, limits, failing, passed, workers, objectVars, runVars>>
-----------------------------------------------------------------------------
(* bounded_run: the runner, for TransactionalMemory's constructor and       *)
(* destructor.                                                              *)

Func ==
    /\ exit = "none" /\ runner = "func" /\ lib \in mapped
    /\ memory' = IF task = "destroy" THEN memory \ {lib} ELSE memory \cup {lib}
    /\ runner' = "notify"
    /\ UNCHANGED <<mainVars, mapped, task, notified, spurious, strayed>>

\* tm_create fails: TransactionCreate leaves the function of a thread.
FuncThrows ==
    /\ exit = "none" /\ runner = "func" /\ lib \in mapped /\ task # "destroy"
    /\ End("terminated")
    /\ UNCHANGED <<lib, limits, failing, passed, workers, objectVars, runVars>>

\* The code of the library is gone.
FuncCrashes ==
    /\ exit = "none" /\ runner = "func" /\ lib \notin mapped
    /\ End("crashed")
    /\ UNCHANGED <<lib, limits, failing, passed, workers, objectVars, runVars>>

\* One critical section; notify_all wakes main only if it waits.
RunnerNotify ==
    /\ exit = "none" /\ runner = "notify" /\ LockFree
    /\ notified' = (place = "waiting")
    /\ strayed' = (strayed \/ place # "waiting")
    /\ runner' = "ended"
    /\ UNCHANGED <<mainVars, objectVars, task, spurious>>
-----------------------------------------------------------------------------
(* The body of main's loop.                                                 *)

StartMeasure ==
    /\ MainAt("measure")
    /\ workers' = TRUE
    /\ MainGoto("measuring")
    /\ UNCHANGED <<lib, limits, failing, passed, objectVars, runVars>>

\* bank is destroyed at the end of its block, before tl; the other order.
FirstDestroyed_fault == "unload"
FirstDestroyed       == "spawn"

\* measure has joined its workers and returns, with or without an error.
Measured(violated) ==
    /\ MainAt("measuring")
    /\ workers' = FALSE
    /\ limits' = (limits \/ ~ violated)
    /\ failing' = violated
    /\ passed' = IF violated THEN passed ELSE passed \cup {lib}
    /\ task' = "destroy" /\ MainGoto(FirstDestroyed)
    /\ UNCHANGED <<lib, objectVars, runner, notified, spurious, strayed>>

\* "cannot unload library with running threads": quick_exit, or an error like
\* the others.
OnException_fault == failing' = TRUE /\ task' = "destroy" /\ MainGoto("spawn")
OnException       == End("2") /\ UNCHANGED <<failing, task>>

\* A thread cannot be created, with some of the others running; or a timeout,
\* which only a tested library can have, with the workers at work.
MeasureThrows ==
    /\ \/ MainAt("measure") /\ workers' \in BOOLEAN
       \/ MainAt("measuring") /\ limits /\ UNCHANGED workers
    /\ OnException
    /\ UNCHANGED <<lib, limits, passed, objectVars, runner, notified, spurious, strayed>>
-----------------------------------------------------------------------------
Main == \/ Load \/ LoadFails \/ Unload \/ Return
        \/ Spawn \/ SpawnFails \/ Wait \/ Notified \/ WaitTimeOut \/ Join
        \/ StartMeasure \/ MeasureThrows
        \/ \E violated \in BOOLEAN : Measured(violated)

Runner == Func \/ FuncThrows \/ FuncCrashes \/ RunnerNotify

MainNext == Main \/ Runner \/ WokenUp

\* main is scheduled, a timeout that main waits for comes, and measure ends (as
\* measure_sync checks).  That tm_create and tm_destroy return is not assumed.
MainSpec == MainInit /\ [][MainNext]_graderVars /\ WF_graderVars(Main) /\ WF_graderVars(RunnerNotify)
-----------------------------------------------------------------------------
(* Properties.                                                              *)

\* As long as its workers run or its memory exists a library is loaded, and no
\* worker outlives the memory: the destructors run in the order that needs, and
\* an exception out of measure runs none of them (grading.cpp:342).  Only a creation
\* that main has given up may leave a memory behind.
LibraryInUse ==
    /\ task # "abandoned" => memory \subseteq mapped
    /\ workers => lib \in memory

\* A runner that is done while main waits has woken it: with no spurious wake-up
\* and in time, bounded_run does not take a call that returned for an overrun.
NoWakeUpLost == MainAt("waiting") /\ runner = "ended" => notified

\* Code 0 says that every library passed, and nothing is left behind.
CleanExit == exit = "0" => passed = Library /\ memory = {} /\ mapped = {}

\* main ends whatever tm_create and tm_destroy do, unless a wake-up that nobody
\* asked for has sent it to join a runner that has not notified yet.
MainEnds == <>(exit # "none" \/ spurious > 0)

\* What does not hold of the code (README, section 5).
BoundedRunEnds  == <>(exit # "none")
NoRunnerCrashes == exit # "crashed"
FrameOutlives   == ~ strayed
=============================================================================
