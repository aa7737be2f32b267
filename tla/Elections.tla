----------------------------- MODULE Elections -----------------------------
(***************************************************************************)
(* sync-examples/election1.c to election4.c: in each round every thread    *)
(* tries to become the leader of the round.                                *)
(***************************************************************************)
EXTENDS ExampleThreads

VARIABLES leader, nb_leaders   \* per round; the second one to check the first

electionVars == <<leader, nb_leaders>>

Round            == 0 .. RUNS - 1
ElectionPrograms == {"election1", "election2", "election3", "election4"}

EInit ==
    /\ program \in ElectionPrograms
    /\ StartThreads(Thread)
    /\ leader = [r \in Round |-> Nobody]
    /\ nb_leaders = [r \in Round |-> 0]

\* if (leader[r] == 0), in election2.c under the lock.
Look(t) ==
    /\ program # "election4" /\ At(t, "body")
    /\ IF leader[round[t]] = Nobody
       THEN Goto(t, "claim") /\ UNCHANGED round
       ELSE Leave(t)
    /\ UNCHANGED <<program, owner, asleep, electionVars>>

\* main numbers the threads from 1, as 0 stands for no leader; from 0.
Tid_fault(t) == IF t = CHOOSE u \in Thread : TRUE THEN Nobody ELSE t
Tid(t) == t

Claim(t) ==
    /\ At(t, "claim")
    /\ leader' = [leader EXCEPT ![round[t]] = Tid(t)]
    /\ Goto(t, "count")
    /\ UNCHANGED <<program, round, owner, asleep, nb_leaders>>

\* Whether the compare-and-swap takes the round; one that is a plain exchange.
Free_fault(r) == TRUE
Free(r) == leader[r] = Nobody

CompareExchange(t) ==
    /\ program = "election4" /\ At(t, "body")
    /\ IF Free(round[t])
       THEN /\ leader' = [leader EXCEPT ![round[t]] = Tid(t)]
            /\ Goto(t, "count") /\ UNCHANGED round
       ELSE EndRound(t) /\ UNCHANGED leader
    /\ UNCHANGED <<program, owner, asleep, nb_leaders>>

CountLeader(t) ==
    /\ At(t, "count")
    /\ nb_leaders' = [nb_leaders EXCEPT ![round[t]] = @ + 1]
    /\ Leave(t)
    /\ UNCHANGED <<program, owner, asleep, leader>>

EStep(t) == \/ Look(t) \/ Claim(t) \/ CompareExchange(t) \/ CountLeader(t)
            \/ (Acquire(t) \/ Release(t)) /\ UNCHANGED electionVars

ENext == program \in ElectionPrograms /\ \E t \in Thread : EStep(t)

ESpec == EInit /\ [][ENext]_<<threadVars, electionVars>>
-----------------------------------------------------------------------------
(* Properties.                                                              *)

\* The programs marked "**Correct**" (election2.c:26, election4.c:20): a round
\* never has a second leader, also while it is running, and has one in the end.
OneLeader ==
    program \in {"election2", "election4"} =>
        \A r \in Round : /\ nb_leaders[r] <= 1
                         /\ AllDone => nb_leaders[r] = 1

\* In all four, a round that goes wrong goes wrong by too many leaders: none is
\* left without a leader, and every leader is counted.
SomeLeader ==
    program \in ElectionPrograms /\ AllDone =>
        \A r \in Round : /\ leader[r] # Nobody
                         /\ nb_leaders[r] \in 1 .. Cardinality(Thread)
=============================================================================
