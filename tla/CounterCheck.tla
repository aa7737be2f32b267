---------------------------- MODULE CounterCheck ----------------------------
(***************************************************************************)
(* WorkloadBank::check of grading/workload.hpp: every worker decreases one *)
(* shared counter, each by transactions of its own, between three rounds   *)
(* of Barrier.  A transaction reads the counter when it begins; its write  *)
(* is installed when it commits, if the counter has not changed since, and *)
(* else it starts again.  The library may also refuse a call for reasons   *)
(* of its own, and tm_begin may fail, which throws.                        *)
(***************************************************************************)
EXTENDS Barrier

CONSTANTS
    First,           \* the worker with uid 0
    NbTx,            \* nbtxperwrk: decrements of a worker
    Libraries,       \* the libraries tested: "correct", or "broken", whose
                     \* reads return any of Wrong and commits notice no change
    MaxRefusals      \* bound: calls refused without a conflict

ASSUME FirstAssumption   == First \in Thread
ASSUME NbTxAssumption    == NbTx \in Nat
ASSUME RefusalAssumption == MaxRefusals \in Nat
ASSUME LibraryAssumption == Libraries \subseteq {"correct", "broken"}

InitCounter == NbTx * Cardinality(Thread)
Wrong       == {0, InitCounter}
Good        == -1

VARIABLES
    library,
    counter,         \* the committed value
    pc,
    more,            \* of a worker that returns an error, the calls of sync
                     \* after the one it is in; Good of the others
    done,            \* decrements of a worker
    last, value,     \* what its two transactions have read
    refusals         \* counts to MaxRefusals

vars == <<library, counter, pc, barrierVars, more, done, last, value, refusals>>

Init ==
    /\ library \in Libraries
    /\ counter = 0
    /\ pc = [w \in Thread |-> "arrive"]
    /\ BarrierInit
    /\ more = [w \in Thread |-> Good] /\ done = [w \in Thread |-> 0]
    /\ last = [w \in Thread |-> 0] /\ value = [w \in Thread |-> 0]
    /\ refusals = 0

At(w, label)   == pc[w] = label
Goto(w, label) == pc' = [pc EXCEPT ![w] = label]

\* value - 1 on a size_t, whose largest value stands as InitCounter.
Less(v) == IF v = 0 THEN InitCounter ELSE v - 1

Seen == IF library = "broken" THEN Wrong ELSE {counter}
Stale_fault(w) == FALSE
Stale(w) == library = "correct" /\ counter # value[w]
-----------------------------------------------------------------------------
\* barrier.sync, up to the access that lets the worker out of it.
Sync(w) ==
    /\ At(w, "arrive")
    /\ \/ Enter(w) \/ SetLeave(w) \/ WaitLeave(w) \/ Leave(w)
    /\ UNCHANGED <<library, counter, pc, more, done, last, value, refusals>>

\* Where check goes on after its k-th sync.
Continue(w, k) ==
    CASE more[w] > 0 -> "arrive"
      [] more[w] = 0 -> "error"
      [] more[w] = Good /\ k = 1 -> IF w = First THEN "init" ELSE "arrive"
      [] more[w] = Good /\ k = 2 -> "fetch"
      [] more[w] = Good /\ k = 3 -> IF w = First THEN "final" ELSE "correct"

\* The last access of the call, and what follows it.
Synced(w) ==
    /\ SetEnter(w) \/ WaitEnter(w)
    /\ Goto(w, Continue(w, round[w] + 1))
    /\ more' = [more EXCEPT ![w] = IF @ > 0 THEN @ - 1 ELSE @]
    /\ UNCHANGED <<library, counter, done, last, value, refusals>>

InitWrite(w) ==
    /\ At(w, "init")
    /\ counter' = InitCounter
    /\ Goto(w, "initcheck")
    /\ UNCHANGED <<library, barrierVars, more, done, last, value, refusals>>

\* An early return first goes through the barriers the others still meet.
Owed_fault(k) == 1
Owed(k) == 3 - k

Fail(w) == /\ Goto(w, "arrive")
           /\ more' = [more EXCEPT ![w] = Owed(round[w]) - 1]

InitRead(w) ==
    /\ At(w, "initcheck")
    /\ \E x \in Seen : IF x = InitCounter THEN Goto(w, "arrive") /\ UNCHANGED more ELSE Fail(w)
    /\ UNCHANGED <<library, counter, barrierVars, done, last, value, refusals>>

Fetch(w) ==
    /\ At(w, "fetch")
    /\ IF done[w] = NbTx
       THEN Goto(w, "arrive") /\ UNCHANGED last
       ELSE /\ \E x \in Seen : last' = [last EXCEPT ![w] = x]
            /\ Goto(w, "begin")
    /\ UNCHANGED <<library, counter, barrierVars, more, done, value, refusals>>

Begin(w) ==
    /\ At(w, "begin")
    /\ \E x \in Seen : value' = [value EXCEPT ![w] = x]
    /\ Goto(w, "commit")
    /\ UNCHANGED <<library, counter, barrierVars, more, done, last, refusals>>

\* The rest of the closure, and the tm_end of ~Transaction.  One that wrote
\* nothing may commit although the counter has changed.
Commit(w) ==
    /\ At(w, "commit")
    /\ \/ /\ Stale(w)
          /\ Goto(w, "begin")
          /\ UNCHANGED <<counter, more, done>>
       \/ /\ value[w] > last[w]
          /\ Fail(w)
          /\ UNCHANGED <<counter, done>>
       \/ /\ value[w] <= last[w] /\ ~ Stale(w)
          /\ counter' = Less(value[w])
          /\ done' = [done EXCEPT ![w] = @ + 1]
          /\ Goto(w, "fetch")
          /\ UNCHANGED more
    /\ UNCHANGED <<library, barrierVars, last, value, refusals>>

FinalRead(w) ==
    /\ At(w, "final")
    /\ \E x \in Seen : Goto(w, IF x = 0 THEN "correct" ELSE "error")
    /\ UNCHANGED <<library, counter, barrierVars, more, done, last, value, refusals>>

\* Where a worker is about to begin a transaction.
Transacts(w) == \/ pc[w] \in {"init", "initcheck", "begin", "final"}
                \/ At(w, "fetch") /\ done[w] < NbTx

\* A call of the transaction is refused: transactional() calls the closure again.
Refuse(w) ==
    /\ refusals < MaxRefusals
    /\ refusals' = refusals + 1
    /\ \/ Transacts(w) /\ UNCHANGED pc
       \/ At(w, "commit") /\ Goto(w, "begin")
    /\ UNCHANGED <<library, counter, barrierVars, more, done, last, value>>

\* tm_begin fails: the exception leaves check, past the barriers.
Throw(w) ==
    /\ Transacts(w)
    /\ Goto(w, "thrown")
    /\ UNCHANGED <<library, counter, barrierVars, more, done, last, value, refusals>>
-----------------------------------------------------------------------------
Step(w) == \/ Sync(w) \/ Synced(w) \/ InitWrite(w) \/ InitRead(w)
           \/ Fetch(w) \/ Begin(w) \/ Commit(w) \/ FinalRead(w)

Next == \E w \in Thread : Step(w) \/ Refuse(w) \/ Throw(w)

\* Every worker is scheduled, and the calls of the library return.
Spec     == Init /\ [][Next]_vars
FairSpec == Spec /\ \A w \in Thread : WF_vars(Step(w))
-----------------------------------------------------------------------------
(* Properties.                                                              *)

\* check reports nothing of a correct library: no worker sees the counter go
\* up, and it ends at zero.
NoFalseAlarm ==
    library = "correct" => \A w \in Thread : pc[w] # "error" /\ more[w] = Good

\* check returns in every worker unless an exception leaves it, whatever the
\* library reads back and however often, but finitely, it refuses: an early
\* return leaves no other worker waiting in the barrier.
ChecksEnd == <>(\/ \E w \in Thread : pc[w] = "thrown"
                \/ \A w \in Thread : pc[w] \in {"correct", "error"})
=============================================================================
