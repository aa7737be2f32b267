--------------------------- MODULE MCSyncExamples ---------------------------
(* The programs of sync-examples and the playground, one per behaviour. *)
EXTENDS Counters, Elections, ProducerConsumer

vars == <<threadVars, counterVars, electionVars, bufferVars>>

\* The variables of the programs that do not run.
CIdle == counter = 0 /\ local = <<>> /\ check_counter = 0
EIdle == leader = <<>> /\ nb_leaders = <<>>
PIdle == /\ buffer = <<>> /\ consumed = <<>> /\ spurious = 0
         /\ until = [t \in {Producer, Consumer} |-> 0]

Init == \/ CInit /\ EIdle /\ PIdle
        \/ CIdle /\ EInit /\ PIdle
        \/ CIdle /\ EIdle /\ PInit

Step(t) ==
    \/ /\ program \in CounterPrograms /\ CStep(t)
       /\ UNCHANGED <<electionVars, bufferVars>>
    \/ /\ program \in ElectionPrograms /\ EStep(t)
       /\ UNCHANGED <<counterVars, bufferVars>>
    \/ /\ program \in ProConPrograms /\ PStep(t)
       /\ UNCHANGED <<counterVars, electionVars>>

Spurious(t) == SpuriousWakeUp(t) /\ UNCHANGED <<counterVars, electionVars>>

Next == \E t \in Thread : Step(t) \/ Spurious(t)

\* Every thread is scheduled.  Nothing is promised of which thread gets the mutex
\* next, nor of wake-ups that nobody asked for.
Spec == Init /\ [][Next]_vars /\ \A t \in Thread : WF_vars(Step(t))

\* Every program but procon2 ends.  In procon4, of which it is least clear, no
\* wake-up is lost although it is sent after the lock is released.
ProgramsEnd == program # "procon2" => <>AllDone

\* procon2 ends if the mutex is fair; the code has no reason to assume so.
PollingEnds == program = "procon2" => <>AllDone
=============================================================================
