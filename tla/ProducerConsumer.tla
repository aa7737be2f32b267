-------------------------- MODULE ProducerConsumer --------------------------
(***************************************************************************)
(* sync-examples/procon1.c to procon4.c: one producer and one consumer     *)
(* over a circular buffer, with nothing to keep them in step (procon1), a  *)
(* lock and polling (procon2), two atomic counters (procon3), a lock and   *)
(* its condition variable (procon4).  An item is copied in two halves.     *)
(***************************************************************************)
EXTENDS ExampleThreads

CONSTANTS
    Producer, Consumer,
    BUFFER_SIZE,
    MaxSpurious      \* bound on the wake-ups that nobody asked for

ASSUME ProConAssumption == {Producer, Consumer} \subseteq Thread /\ Producer # Consumer
ASSUME BufferAssumption == BUFFER_SIZE \in Nat \ {0} /\ MaxSpurious \in Nat

VARIABLES
    buffer,
    until,           \* produced_until and consumed_until, by their thread
    consumed,        \* what the consumer has copied, per round
    spurious

bufferVars == <<buffer, until, consumed, spurious>>

ProConPrograms == {"procon1", "procon2", "procon3", "procon4"}

Half        == {"front", "back"}
Produced(r) == [h \in Half |-> r + 1]     \* the random text of round r
Blank       == [h \in Half |-> 0]

PInit ==
    /\ program \in ProConPrograms
    /\ StartThreads({Producer, Consumer})
    /\ buffer = [i \in 0 .. BUFFER_SIZE - 1 |-> Blank]
    /\ until = [t \in {Producer, Consumer} |-> 0]
    /\ consumed = [r \in 0 .. RUNS - 1 |-> Blank]
    /\ spurious = 0

Slot(t) == round[t] % BUFFER_SIZE

\* The producer one slot too far ahead.
MayGo_fault(t) == IF t = Producer THEN until[Consumer] + BUFFER_SIZE >= round[t]
                                  ELSE until[Producer] > round[t]
MayGo(t)       == IF t = Producer THEN until[Consumer] + BUFFER_SIZE > round[t]
                                  ELSE until[Producer] > round[t]
-----------------------------------------------------------------------------
\* The condition of the loop is met; in procon1 there is none.  procon3 polls
\* here, so that a failing test is no step.
Go(t) ==
    /\ At(t, "body")
    /\ program = "procon1" \/ MayGo(t)
    /\ Goto(t, "front")
    /\ UNCHANGED <<program, round, owner, asleep, bufferVars>>

\* procon2: release the lock and try again.
GiveUp(t) ==
    /\ program = "procon2" /\ At(t, "body") /\ ~ MayGo(t)
    /\ lock_release
    /\ Goto(t, "acquire")
    /\ UNCHANGED <<program, round, bufferVars>>

\* procon4: sleep until the other one wakes us up.
Wait(t) ==
    /\ program = "procon4" /\ At(t, "body") /\ ~ MayGo(t)
    /\ lock_wait(t)
    /\ Goto(t, "waiting")
    /\ UNCHANGED <<program, round, bufferVars>>

Resume(t) ==
    /\ At(t, "waiting") /\ t \notin asleep
    /\ lock_acquire(t)
    /\ Goto(t, "body")
    /\ UNCHANGED <<program, round, bufferVars>>

SpuriousWakeUp(t) ==
    /\ t \in asleep /\ spurious < MaxSpurious
    /\ asleep' = asleep \ {t}
    /\ spurious' = spurious + 1
    /\ UNCHANGED <<program, pc, round, owner, buffer, until, consumed>>

\* One half of buffer[r % BUFFER_SIZE] = produced[r], or of
\* consumed[r] = buffer[r % BUFFER_SIZE].
Copy(t, h) ==
    /\ At(t, h)
    /\ IF t = Producer
       THEN buffer' = [buffer EXCEPT ![Slot(t)][h] = Produced(round[t])[h]] /\ UNCHANGED consumed
       ELSE consumed' = [consumed EXCEPT ![round[t]][h] = buffer[Slot(t)][h]] /\ UNCHANGED buffer
    /\ IF h = "front" THEN Goto(t, "back") /\ UNCHANGED round
       ELSE IF program = "procon1" THEN EndRound(t)
       ELSE Goto(t, "publish") /\ UNCHANGED round
    /\ UNCHANGED <<program, owner, asleep, until, spurious>>

\* produced_until++, consumed_until++; a fetch_add in procon3.
Publish(t) ==
    /\ At(t, "publish")
    /\ until' = [until EXCEPT ![t] = @ + 1]
    /\ Leave(t)
    /\ UNCHANGED <<program, owner, asleep, buffer, consumed, spurious>>

Unlock(t) ==
    /\ program = "procon4" /\ At(t, "release")
    /\ lock_release
    /\ Goto(t, "wakeup")
    /\ UNCHANGED <<program, round, bufferVars>>

\* procon4 wakes the other one up after it has released the lock.
WakeUp(t) ==
    /\ At(t, "wakeup")
    /\ lock_wake_up
    /\ EndRound(t)
    /\ UNCHANGED <<program, bufferVars>>

PStep(t) == \/ Go(t) \/ GiveUp(t) \/ Wait(t) \/ Resume(t)
            \/ (\E h \in Half : Copy(t, h))
            \/ Publish(t) \/ Unlock(t) \/ WakeUp(t)
            \/ (Acquire(t) \/ (program = "procon2" /\ Release(t))) /\ UNCHANGED bufferVars

PNext == program \in ProConPrograms /\ \E t \in {Producer, Consumer} : PStep(t) \/ SpuriousWakeUp(t)

PSpec == PInit /\ [][PNext]_<<threadVars, bufferVars>>
-----------------------------------------------------------------------------
(* Properties.                                                              *)

Q == INSTANCE BoundedQueue WITH
    Item     <- { Produced(r) : r \in 0 .. RUNS - 1 },
    Capacity <- BUFFER_SIZE,
    put      <- [i \in 1 .. until[Producer] |-> Produced(i - 1)],
    taken    <- [i \in 1 .. until[Consumer] |-> consumed[i - 1]]

\* The programs that keep the two threads in step ("Correct", procon2.c:49 and
\* procon4.c:56, and procon3) deliver what was produced, in order, whole, once:
\* they implement a bounded queue.
ImplementsQueue == Q!QSpec

\* In those three the two threads never access one slot at the same time, which
\* in C would be a data race.
SlotsNotShared ==
    program \in ProConPrograms \ {"procon1"} =>
        ~ ( /\ \A t \in {Producer, Consumer} : pc[t] \in Half
            /\ Slot(Producer) = Slot(Consumer) )
=============================================================================
