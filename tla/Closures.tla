------------------------------ MODULE Closures ------------------------------
(***************************************************************************)
(* transactional, Transaction and Shared of grading/transactional.hpp,     *)
(* running one closure that allocates and frees: WorkloadBank::alloc_tx    *)
(* with two accounts per segment and a trigger of two.  The first segment  *)
(* is then always full; with no second segment the closure allocates one   *)
(* with one account, with one it deletes that account and the segment.     *)
(*                                                                         *)
(* The libraries are what tm.hpp promises of them:                         *)
(*   locking     a transaction runs alone and is never refused;            *)
(*   optimistic  a transaction works on a copy, and a conflict or a        *)
(*               refusal takes all of it back;                             *)
(*   eager       the same, but tm_alloc and tm_free act at once and are    *)
(*               not taken back, as in template/tm.c.                      *)
(***************************************************************************)
EXTENDS Integers, FiniteSets

CONSTANTS
    Thread, Segment, Null,
    NbTx,            \* calls of alloc_tx per thread
    Libraries,       \* those of the three that a run considers
    MaxRefusals      \* bound on the calls that fail without a conflict

ASSUME ClosuresAssumption ==
    /\ IsFiniteSet(Thread) /\ Null \notin Segment
    /\ NbTx \in Nat \ {0} /\ MaxRefusals \in Nat
    /\ Libraries \subseteq {"locking", "optimistic", "eager"}

VARIABLES
    pc,              \* the next call of the closure, or where the thread is
    segment,         \* the closure's pointer to the second segment
    aborted,         \* Transaction::aborted
    leaving,         \* how the closure was left: value, Retry or Alloc
    calls,           \* ghost: calls of transactional that have returned
    terminated,      \* std::terminate was called
    library, memory, allocated, version, tx, refusals, \* the library
    changed          \* ghost: per thread, its commits that changed the list

clientVars  == <<pc, segment, aborted, leaving, calls, terminated>>
libraryVars == <<library, memory, allocated, version, tx, refusals, changed>>
vars        == <<clientVars, libraryVars>>

At(t, label) == pc[t] = label
Eager        == library = "eager"

\* Shared memory as a closure sees it: first_segment.next, the segments that
\* have their one account, and the segments that exist.
Memory == [next : Segment \cup {Null}, filled : SUBSET Segment, live : SUBSET Segment]
Empty  == [next |-> Null, filled |-> {}, live |-> {}]
Closed == [open |-> FALSE, seen |-> 0, copy |-> Empty]

Init ==
    /\ pc = [t \in Thread |-> "begin"] /\ segment = [t \in Thread |-> Null]
    /\ aborted = [t \in Thread |-> FALSE] /\ leaving = [t \in Thread |-> "value"]
    /\ calls = [t \in Thread |-> 0] /\ terminated = FALSE
    /\ library \in Libraries
    /\ memory = Empty /\ allocated = {} /\ version = 0
    /\ tx = [t \in Thread |-> Closed]
    /\ refusals = 0 /\ changed = [t \in Thread |-> 0]
-----------------------------------------------------------------------------
(* The library.                                                             *)

View(t)    == tx[t].copy
Conflict(t) == tx[t].seen # version

\* A segment that malloc may return: nobody has it, not in any transaction.
Fresh(s) == s \notin allocated \cup UNION { View(u).live : u \in Thread }

\* The eager library looks up the segment of an address and may not find it.
Missing(t) == Eager /\ pc[t] \in {"count", "free"} /\ segment[t] \notin allocated

\* A call may always fail on a conflict, and without one for reasons of its own.
MayRefuse(t) ==
    /\ library # "locking"
    /\ IF Conflict(t) \/ Missing(t)
       THEN UNCHANGED refusals
       ELSE refusals < MaxRefusals /\ refusals' = refusals + 1

\* The library drops the transaction.
Drop(t) == /\ tx' = [tx EXCEPT ![t] = Closed]
           /\ UNCHANGED <<library, memory, allocated, version, changed>>

\* The call goes through, the closure sees copy and goes on to next.
Through(t, copy, next) ==
    /\ tx' = [tx EXCEPT ![t].copy = copy]
    /\ pc' = [pc EXCEPT ![t] = next]
    /\ UNCHANGED <<aborted, leaving, calls, terminated,
                   library, memory, version, refusals, changed>>
-----------------------------------------------------------------------------
(* transactional and Transaction.                                           *)

\* Transaction::Transaction; the reference library waits in tm_begin.
Begin(t) ==
    /\ At(t, "begin")
    /\ library = "locking" => \A u \in Thread : ~ tx[u].open
    /\ tx' = [tx EXCEPT ![t] = [open |-> TRUE, seen |-> version, copy |-> memory]]
    /\ aborted' = [aborted EXCEPT ![t] = FALSE]
    /\ leaving' = [leaving EXCEPT ![t] = "value"]
    /\ pc' = [pc EXCEPT ![t] = "look"]
    /\ UNCHANGED <<segment, calls, terminated,
                   library, memory, allocated, version, refusals, changed>>

\* tm_begin returns invalid_tx: TransactionBegin leaves transactional.
BeginFails(t) ==
    /\ At(t, "begin") /\ refusals < MaxRefusals
    /\ refusals' = refusals + 1
    /\ pc' = [pc EXCEPT ![t] = "failed"]
    /\ UNCHANGED <<segment, aborted, leaving, calls, terminated,
                   library, memory, allocated, version, tx, changed>>

\* The closure is left by an exception.
LeaveWith(t, how) ==
    /\ leaving' = [leaving EXCEPT ![t] = how]
    /\ pc' = [pc EXCEPT ![t] = "leave"]
    /\ UNCHANGED <<calls, terminated>>

Callable == {"look", "count", "alloc", "link", "fill", "free", "unlink", "fold"}

\* Transaction::read, write, alloc and free when the call fails.
Refused(t) ==
    /\ pc[t] \in Callable
    /\ MayRefuse(t)
    /\ Drop(t)
    /\ aborted' = [aborted EXCEPT ![t] = TRUE]
    /\ LeaveWith(t, "Retry") /\ UNCHANGED segment

\* Only a normal exit commits, as if ~Transaction could tell.
MustEnd_fault(t) == leaving[t] = "value"
MustEnd(t)       == ~ aborted[t]

\* The result of tm_end not looked at.
EndResult_fault(ok) == TRUE
EndResult(ok)       == ok

Commit(t) ==
    /\ memory' = View(t)
    /\ allocated' = IF Eager THEN allocated ELSE View(t).live
    /\ version' = version + 1
    /\ changed' = IF View(t).next = memory.next THEN changed ELSE [changed EXCEPT ![t] = @ + 1]
    /\ tx' = [tx EXCEPT ![t] = Closed]
    /\ UNCHANGED <<library, refusals>>

\* WorkloadBank::run counts its transactions; one too many.
LastCall_fault(t) == calls[t] = NbTx
LastCall(t)       == calls[t] + 1 = NbTx

\* What ~Transaction and the catch of transactional make of tm_end's result.
After(t, ok) ==
    \/ /\ leaving[t] = "value" /\ ok
       /\ calls' = [calls EXCEPT ![t] = @ + 1]
       /\ pc' = [pc EXCEPT ![t] = IF LastCall(t) THEN "done" ELSE "begin"]
       /\ UNCHANGED terminated
    \/ /\ leaving[t] = "Alloc" /\ ok
       /\ pc' = [pc EXCEPT ![t] = "failed"] /\ UNCHANGED <<calls, terminated>>
    \/ /\ leaving[t] = "Alloc" /\ ~ ok    \* throws while another exception is under way
       /\ terminated' = TRUE /\ UNCHANGED <<pc, calls>>
    \/ /\ leaving[t] # "Alloc" /\ (leaving[t] = "value" => ~ ok)    \* TransactionRetry
       /\ pc' = [pc EXCEPT ![t] = "begin"] /\ UNCHANGED <<calls, terminated>>

\* ~Transaction of a transaction that is still open.
End(t) ==
    /\ At(t, "leave") /\ MustEnd(t)
    /\ \/ ~ Conflict(t) /\ Commit(t) /\ After(t, EndResult(TRUE))
       \/ MayRefuse(t) /\ Drop(t) /\ After(t, EndResult(FALSE))
    /\ UNCHANGED <<segment, aborted, leaving>>

\* ~Transaction of an aborted one: the exception goes on.
Unwound(t) ==
    /\ At(t, "leave") /\ ~ MustEnd(t)
    /\ pc' = [pc EXCEPT ![t] = IF leaving[t] = "Retry" THEN "begin" ELSE "failed"]
    /\ UNCHANGED <<segment, aborted, leaving, calls, terminated, libraryVars>>
-----------------------------------------------------------------------------
(* The closure: Shared::read, write, alloc and free as alloc_tx calls them. *)

\* segment.count and segment.next of the first segment.
Look(t) ==
    /\ At(t, "look")
    /\ segment' = [segment EXCEPT ![t] = View(t).next]
    /\ Through(t, View(t), IF View(t).next = Null THEN "alloc" ELSE "count")
    /\ UNCHANGED allocated

\* count, next, parity and account of the second segment: one step for several
\* tm_read, as a refusal of any of them ends the attempt in the same way.
ReadSegment(t) ==
    /\ At(t, "count") /\ ~ Missing(t)
    /\ Through(t, View(t), "free")
    /\ UNCHANGED <<segment, allocated>>

\* tx.alloc in Shared<Type*>::alloc.
Alloc(t) ==
    /\ At(t, "alloc")
    /\ \E s \in Segment :
          /\ Fresh(s)
          /\ segment' = [segment EXCEPT ![t] = s]
          /\ Through(t, [View(t) EXCEPT !.live = @ \cup {s}, !.filled = @ \ {s}], "link")
          /\ allocated' = IF Eager THEN allocated \cup {s} ELSE allocated

\* nomem leaves the transaction open: "TX was not aborted" (tm.hpp).
AllocFails(t) ==
    /\ At(t, "alloc")
    /\ LeaveWith(t, "Alloc")
    /\ UNCHANGED <<segment, aborted, libraryVars>>

\* write(addr) in Shared<Type*>::alloc.
Link(t) ==
    /\ At(t, "link")
    /\ Through(t, [View(t) EXCEPT !.next = segment[t]], "fill")
    /\ UNCHANGED <<segment, allocated>>

\* count and account of the new segment, again one step for several calls, and
\* the closure returns.
Fill(t) ==
    /\ At(t, "fill")
    /\ Through(t, [View(t) EXCEPT !.filled = @ \cup {segment[t]}], "leave")
    /\ UNCHANGED <<segment, allocated>>

\* tx.free(read()) in Shared<Type*>::free.
Free(t) ==
    /\ At(t, "free") /\ ~ Missing(t)
    /\ Through(t, [View(t) EXCEPT !.live = @ \ {segment[t]}, !.filled = @ \ {segment[t]}], "unlink")
    /\ allocated' = IF Eager THEN allocated \ {segment[t]} ELSE allocated
    /\ UNCHANGED segment

\* write(nullptr) in Shared<Type*>::free; one that forgets it.
Cleared_fault(copy) == copy
Cleared(copy)       == [copy EXCEPT !.next = Null]

Unlink(t) ==
    /\ At(t, "unlink")
    /\ Through(t, Cleared(View(t)), "fold")
    /\ UNCHANGED <<segment, allocated>>

\* The parity of the first segment, and the closure returns.
Fold(t) ==
    /\ At(t, "fold")
    /\ Through(t, View(t), "leave")
    /\ UNCHANGED <<segment, allocated>>
-----------------------------------------------------------------------------
Step(t) ==
    /\ ~ terminated
    /\ \/ Begin(t) \/ Refused(t) \/ End(t) \/ Unwound(t)
       \/ Look(t) \/ ReadSegment(t) \/ Alloc(t) \/ AllocFails(t) \/ Link(t) \/ Fill(t)
       \/ Free(t) \/ Unlink(t) \/ Fold(t)

Next == \E t \in Thread : Step(t) \/ (~ terminated /\ BeginFails(t))

\* A thread that can go on does, but no tm_begin that waits must ever fail.
Spec == Init /\ [][Next]_vars /\ \A t \in Thread : WF_vars(Step(t))
-----------------------------------------------------------------------------
(* Properties.                                                              *)

TypeOK ==
    /\ pc \in [Thread -> Callable \cup {"begin", "leave", "failed", "done"}]
    /\ segment \in [Thread -> Segment \cup {Null}]
    /\ aborted \in [Thread -> BOOLEAN]
    /\ leaving \in [Thread -> {"value", "Retry", "Alloc"}]
    /\ memory \in Memory /\ allocated \subseteq Segment
    /\ \A t \in Thread : View(t) \in Memory /\ calls[t] \in 0 .. NbTx

\* Whatever ends the closure, ~Transaction ends the library's transaction exactly
\* once: no call is made on one that the library has dropped, and none is left
\* open behind a value or an exception.
HandlesMatch ==
    \A t \in Thread :
        /\ pc[t] \in Callable => tx[t].open
        /\ At(t, "leave") /\ ~ terminated => (MustEnd(t) <=> tx[t].open)
        /\ pc[t] \in {"begin", "failed", "done"} => ~ tx[t].open

\* A library that takes back what an aborted transaction allocated and freed
\* leaves, between transactions and through all retries, exactly the segments that are linked, and the
\* linked one has its account: none leaks, none dangles, none is half built.
SegmentsMatchPointers ==
    (\A t \in Thread : ~ tx[t].open) =>
        /\ allocated = {memory.next} \ {Null}
        /\ memory.next # Null => memory.next \in memory.filled

\* Every call of transactional that returned changed the list exactly once, and
\* one that threw changed nothing.
EachCallOnce == changed = calls

\* Repeating a closure until it commits comes to an end in every thread, unless
\* the process is terminated.
CallsEnd == <>(terminated \/ \A t \in Thread : pc[t] \in {"done", "failed"})

\* No exception leaves ~Transaction while another one is under way.
NeverTerminates == ~ terminated
=============================================================================
