------------------------------ MODULE Measure ------------------------------
(***************************************************************************)
(* grading/grading.cpp: measure and the class Sync it coordinates the      *)
(* master and the workers with, over the Latch of common.hpp.  The phases  *)
(* are the initialisation, the repetitions and the check.  One action is   *)
(* one access to nbready, status, errmsg, runtime or the latch.            *)
(***************************************************************************)
EXTENDS Integers, FiniteSets

CONSTANTS
    Worker,
    NbRepeats,     \* performance measurements between init and check
    Outcome,       \* how Workload::init, run and check may end: "ok", "error"
                   \* (an error message) or "throw" (an exception)
    Faults         \* what else may go wrong: "timeout" (donelatch.wait has a
                   \* maximal duration), "nothread" (a thread is not created)

ASSUME WorkerAssumption == IsFiniteSet(Worker) /\ Worker # {}
ASSUME PhaseAssumption  == NbRepeats \in Nat /\ "ok" \in Outcome
ASSUME FaultAssumption  == Faults \subseteq {"timeout", "nothread"}

Phases == NbRepeats + 2
Check  == Phases    \* the phase of Workload::check

VARIABLES
    nbready, status, errmsg,    \* Sync
    raised,                     \* Latch
    local, total,               \* Chrono runtime: the phase whose start is the
                                \* start of the segment, the phases added up
    mpc, phase,                 \* the master, and its phase
    error,                      \* what measure will return
    pc, turn, threw,            \* the workers: place, phase, exception pending
    failed                      \* history: workers failing in this phase

syncVars   == <<nbready, status, errmsg>>
masterVars == <<mpc, phase, error>>
workerVars == <<pc, turn, threw>>
vars       == <<syncVars, raised, local, total, masterVars, workerVars, failed>>

Init ==
    /\ nbready = 0 /\ status = "Done" /\ errmsg = FALSE
    /\ raised = FALSE
    /\ local = 0 /\ total = {}
    /\ mpc = "create" /\ phase = 1 /\ error = FALSE
    /\ pc = [w \in Worker |-> "none"] /\ turn = [w \in Worker |-> 1]
    /\ threw = [w \in Worker |-> FALSE]
    /\ failed = {}

n == Cardinality(Worker)

At(w, label)   == mpc # "left" /\ pc[w] = label
Goto(w, label) == pc' = [pc EXCEPT ![w] = label]
-----------------------------------------------------------------------------
(* worker_wait                                                              *)

\* Spin until the status is Wait or Quit.
Poll(w) ==
    /\ At(w, "poll") /\ status \in {"Wait", "Quit"}
    /\ Goto(w, IF status = "Wait" THEN "ready" ELSE "gone")
    /\ UNCHANGED <<syncVars, raised, local, total, masterVars, turn, threw, failed>>

Ready(w) ==
    /\ At(w, "ready")
    /\ nbready' = nbready + 1
    /\ Goto(w, IF nbready + 1 = n THEN "reset" ELSE "spin")
    /\ UNCHANGED <<status, errmsg, raised, local, total, masterVars, turn, threw, failed>>

\* The reset of the counter by the latest worker, forgotten.
Reset_fault == nbready
Reset == 0

ResetReady(w) ==
    /\ At(w, "reset")
    /\ nbready' = Reset
    /\ Goto(w, "release")
    /\ UNCHANGED <<status, errmsg, raised, local, total, masterVars, turn, threw, failed>>

Release(w) ==
    /\ At(w, "release")
    /\ status' = "Run"
    /\ Goto(w, "work")
    /\ UNCHANGED <<nbready, errmsg, raised, local, total, masterVars, turn, threw, failed>>

Spin(w) ==
    /\ At(w, "spin") /\ status \in {"Run", "Abort"}
    /\ Goto(w, "work")
    /\ UNCHANGED <<syncVars, raised, local, total, masterVars, turn, threw, failed>>
-----------------------------------------------------------------------------
(* The work of a phase, and worker_notify                                   *)

\* A phase ends with a result or with an exception.  Workload::check, unless it
\* throws, goes on to its last barrier, which lets the workers through together.
Work(w, outcome) ==
    /\ At(w, "work")
    /\ threw' = [threw EXCEPT ![w] = outcome = "throw"]
    /\ failed' = IF outcome = "ok" THEN failed ELSE failed \cup {w}
    /\ Goto(w, IF turn[w] = Check /\ outcome # "throw" THEN "barrier"
               ELSE IF outcome = "ok" THEN "count" ELSE "errmsg")
    /\ UNCHANGED <<syncVars, raised, local, total, masterVars, turn>>

PastBarrier(v) ==
    /\ ~ threw[v]
    /\ \/ turn[v] > Check
       \/ pc[v] \in {"barrier", "errmsg", "abort", "count", "reset2", "verdict", "stop", "raise"}

LeaveBarrier(w) ==
    /\ At(w, "barrier") /\ \A v \in Worker : PastBarrier(v)
    /\ Goto(w, IF w \in failed THEN "errmsg" ELSE "count")
    /\ UNCHANGED <<syncVars, raised, local, total, masterVars, turn, threw, failed>>

SetMessage(w) ==
    /\ At(w, "errmsg")
    /\ errmsg' = TRUE
    /\ Goto(w, "abort")
    /\ UNCHANGED <<nbready, status, raised, local, total, masterVars, turn, threw, failed>>

SetAbort(w) ==
    /\ At(w, "abort")
    /\ status' = "Abort"
    /\ Goto(w, "count")
    /\ UNCHANGED <<nbready, errmsg, raised, local, total, masterVars, turn, threw, failed>>

\* Where worker_notify returns to: the next phase, or the end of a thread whose
\* work threw.
Resume(w) == IF threw[w] THEN "gone" ELSE "poll"

Count(w) ==
    /\ At(w, "count")
    /\ nbready' = nbready + 1
    /\ IF nbready + 1 = n
       THEN Goto(w, "reset2") /\ UNCHANGED turn
       ELSE Goto(w, Resume(w)) /\ turn' = [turn EXCEPT ![w] = @ + 1]
    /\ UNCHANGED <<status, errmsg, raised, local, total, masterVars, threw, failed>>

ResetCount(w) ==
    /\ At(w, "reset2")
    /\ nbready' = Reset
    /\ Goto(w, "verdict")
    /\ UNCHANGED <<status, errmsg, raised, local, total, masterVars, turn, threw, failed>>

\* The latest worker judges by its own run only.
Failure_fault(w) == w \in failed
Failure(w) == status = "Abort"

Verdict(w) ==
    /\ At(w, "verdict")
    /\ status' = IF Failure(w) THEN "Fail" ELSE "Done"
    /\ Goto(w, "stop")
    /\ UNCHANGED <<nbready, errmsg, raised, local, total, masterVars, turn, threw, failed>>

\* runtime.stop(): total += now - local.
StopClock(w) ==
    /\ At(w, "stop")
    /\ total' = total \cup {local}
    /\ Goto(w, "raise")
    /\ UNCHANGED <<syncVars, raised, local, masterVars, turn, threw, failed>>

\* donelatch.raise(), under the mutex of the latch.
Raise(w) ==
    /\ At(w, "raise")
    /\ raised' = TRUE
    /\ Goto(w, Resume(w))
    /\ turn' = [turn EXCEPT ![w] = @ + 1]
    /\ UNCHANGED <<syncVars, local, total, masterVars, threw, failed>>
-----------------------------------------------------------------------------
(* The master                                                               *)

\* The threads are started one after the other, and run from then on.
Create(w) ==
    /\ mpc = "create" /\ pc[w] = "none"
    /\ Goto(w, "poll")
    /\ mpc' = IF \A v \in Worker \ {w} : pc[v] # "none" THEN "notify" ELSE "create"
    /\ UNCHANGED <<syncVars, raised, local, total, phase, error, turn, threw, failed>>

\* A failure detaches the threads started so far, and leaves measure.
CreateFails ==
    /\ mpc = "create" /\ "nothread" \in Faults
    /\ mpc' = "left"
    /\ UNCHANGED <<syncVars, raised, local, total, phase, error, workerVars, failed>>

\* master_notify: the status first, then the clock.
Notify ==
    /\ mpc = "notify"
    /\ status' = "Wait"
    /\ failed' = {}
    /\ mpc' = "start"
    /\ UNCHANGED <<nbready, errmsg, raised, local, total, phase, error, workerVars>>

StartClock ==
    /\ mpc = "start"
    /\ local' = phase
    /\ mpc' = "wait"
    /\ UNCHANGED <<syncVars, raised, total, phase, error, workerVars, failed>>

\* The latch is not lowered by the waiter that it let through.
Lowered_fault == TRUE
Lowered == FALSE

\* donelatch.wait: raised, then lowered again.
Woken ==
    /\ mpc = "wait" /\ raised
    /\ raised' = Lowered
    /\ mpc' = "result"
    /\ UNCHANGED <<syncVars, local, total, phase, error, workerVars, failed>>

\* The exception of master_wait detaches the threads and leaves measure; main
\* then ends the process with quick_exit.
TimeOut ==
    /\ mpc = "wait" /\ "timeout" \in Faults /\ ~ raised
    /\ mpc' = "left"
    /\ UNCHANGED <<syncVars, raised, local, total, phase, error, workerVars, failed>>

\* The switch of master_wait, and what measure does with it.
Result ==
    /\ mpc = "result"
    /\ \/ /\ status = "Done" /\ phase < Phases
          /\ mpc' = "notify" /\ phase' = phase + 1 /\ UNCHANGED error
       \/ /\ status = "Done" /\ phase = Phases
          /\ mpc' = "join" /\ UNCHANGED <<phase, error>>
       \/ /\ status = "Fail"
          /\ mpc' = "join" /\ error' = TRUE /\ UNCHANGED phase
       \/ /\ status \notin {"Done", "Fail"}
          /\ mpc' = "unreachable" /\ UNCHANGED <<phase, error>>
    /\ UNCHANGED <<syncVars, raised, local, total, workerVars, failed>>

MasterJoin ==
    /\ mpc = "join"
    /\ status' = "Quit"
    /\ mpc' = "joining"
    /\ UNCHANGED <<nbready, errmsg, raised, local, total, phase, error, workerVars, failed>>

Joined ==
    /\ mpc = "joining" /\ \A w \in Worker : pc[w] = "gone"
    /\ mpc' = "done"
    /\ UNCHANGED <<syncVars, raised, local, total, phase, error, workerVars, failed>>
-----------------------------------------------------------------------------
Master == (\E w \in Worker : Create(w)) \/ Notify \/ StartClock \/ Woken \/ Result \/ MasterJoin \/ Joined

Notifying(w) == \/ SetMessage(w) \/ SetAbort(w) \/ Count(w) \/ ResetCount(w)
                \/ Verdict(w) \/ StopClock(w) \/ Raise(w)

WorkerStep(w) ==
    \/ Poll(w) \/ Ready(w) \/ ResetReady(w) \/ Release(w) \/ Spin(w)
    \/ (\E outcome \in Outcome : Work(w, outcome))
    \/ LeaveBarrier(w)
    \/ Notifying(w)

Next == Master \/ CreateFails \/ TimeOut \/ \E w \in Worker : WorkerStep(w)

\* Every thread is scheduled, and the work of a phase ends.
Spec     == Init /\ [][Next]_vars
FairSpec == Spec /\ WF_vars(Master) /\ \A w \in Worker : WF_vars(WorkerStep(w))
-----------------------------------------------------------------------------
(* Properties.                                                              *)

Working(w) == pc[w] \in {"work", "barrier", "errmsg", "abort", "count"}

\* Sync: a worker is at work only while the master waits for that very phase,
\* and then no worker is a phase ahead of it or behind.
PhasesAligned ==
    \A w \in Worker : Working(w) =>
        /\ mpc \in {"start", "wait", "left"} /\ turn[w] = phase
        /\ \A v \in Worker : turn[v] \in {phase, phase + 1}

\* master_wait: no error is lost and none is left over from another phase;
\* when it returns every worker has finished the phase.
VerdictIsRight ==
    mpc = "result" =>
        /\ status = IF failed = {} THEN "Done" ELSE "Fail"
        /\ failed # {} => errmsg
        /\ nbready = 0 /\ \A w \in Worker : pc[w] \in {"poll", "gone"}

\* measure returns, after it joined every worker, or gives up on a timeout.
MeasureEnds == <>(mpc \in {"done", "left"})

\* "Runtime between 'master_notify' and when the last worker finished"
RuntimeOfPhase == mpc = "result" => total = {phase}

\* The same, for its start: the clock is started before it is stopped.
ClockStartedFirst == \A w \in Worker : pc[w] = "stop" => local = phase
=============================================================================
