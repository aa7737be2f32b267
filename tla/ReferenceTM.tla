----------------------------- MODULE ReferenceTM -----------------------------
(***************************************************************************)
(* The transactional memory of reference/: one readers-writer lock around  *)
(* the region, writes in place, no abort.  The lock is pthread_rwlock: it  *)
(* is held by readers or by one writer, and a blocked acquisition is an    *)
(* action that is not enabled.  A memcpy of a word is two steps, so that a *)
(* reader let in too early would see what a data race lets it see.         *)
(***************************************************************************)
EXTENDS Integers

CONSTANTS
    Thread, NWords, Value, Zero,
    Segment,   \* the addresses posix_memalign may return to tm_alloc
    Null,
    MaxTx,     \* bound: read-write transactions ever ended
    MaxOps     \* bound: reads, writes, allocations and frees of a transaction

ASSUME ZeroAssumption == Zero \in Value
ASSUME NullAssumption == Null \notin Segment

Word == 0 .. NWords - 1

VARIABLES
    readers, writer,          \* the pthread_rwlock
    mem,                      \* the words at region->start
    allocs, next, prev,       \* region->allocs and the fields of segment_node
    live,                     \* segments allocated and not freed
    pc, word, val,            \* of a thread: where it is, a write under way
    ops,                      \* calls made, bounded by MaxOps
    clock, hist,              \* history: commits, and the versions of a word
    at, snap, wrote           \* history: of a transaction, when it began, what
                              \* it read from others, what it wrote

lockVars == <<readers, writer>>
listVars == <<allocs, next, prev, live>>
txVars   == <<at, snap, wrote>>
vars     == <<lockVars, mem, listVars, pc, word, val, ops, clock, hist, txVars>>

Init ==
    /\ readers = {} /\ writer = {}
    /\ mem = [w \in Word |-> Zero]
    /\ allocs = Null /\ live = {}
    /\ next = [s \in Segment |-> Null] /\ prev = [s \in Segment |-> Null]
    /\ pc = [p \in Thread |-> "idle"]
    /\ word = [p \in Thread |-> 0] /\ val = [p \in Thread |-> Zero]
    /\ ops = [p \in Thread |-> 0]
    /\ clock = 0 /\ hist = [w \in Word |-> {[ver |-> 0, val |-> Zero]}]
    /\ at = [p \in Thread |-> 0] /\ snap = [p \in Thread |-> {}]
    /\ wrote = [p \in Thread |-> {}]

At(p, label)   == pc[p] = label
Goto(p, label) == pc' = [pc EXCEPT ![p] = label]
Count(p)       == ops[p] < MaxOps /\ ops' = [ops EXCEPT ![p] = @ + 1]
-----------------------------------------------------------------------------
(* tm_begin, tm_end                                                         *)

\* shared_lock_acquire_shared: waits for the writer.
BeginReadOnly(p) ==
    /\ At(p, "idle") /\ writer = {}
    /\ readers' = readers \cup {p}
    /\ at' = [at EXCEPT ![p] = clock]
    /\ Goto(p, "ro")
    /\ UNCHANGED <<writer, mem, listVars, word, val, ops, clock, hist, snap, wrote>>

\* A read-write transaction that asks for the shared access.
Exclusive_fault == writer = {}
Exclusive == writer = {} /\ readers = {}

\* shared_lock_acquire: waits for the writer and for every reader.  Where it or
\* shared_lock_acquire_shared fails instead, tm_begin returns invalid_tx and has
\* changed nothing: that is a stutter.
BeginReadWrite(p) ==
    /\ At(p, "idle") /\ Exclusive
    /\ writer' = {p}
    /\ at' = [at EXCEPT ![p] = clock]
    /\ Goto(p, "rw")
    /\ UNCHANGED <<readers, mem, listVars, word, val, ops, clock, hist, snap, wrote>>

\* tm_end of a read-write transaction begins: its writes are already there.
EndReadWrite(p) ==
    /\ At(p, "rw") /\ clock < MaxTx
    /\ clock' = clock + 1
    /\ hist' = [w \in Word |-> IF \E x \in wrote[p] : x.word = w
                               THEN hist[w] \cup {[ver |-> clock + 1, val |-> mem[w]]}
                               ELSE hist[w]]
    /\ Goto(p, "unlock")
    /\ UNCHANGED <<lockVars, mem, listVars, word, val, ops, txVars>>

Forget(p) == /\ at' = [at EXCEPT ![p] = 0] /\ snap' = [snap EXCEPT ![p] = {}]
             /\ wrote' = [wrote EXCEPT ![p] = {}] /\ ops' = [ops EXCEPT ![p] = 0]

\* shared_lock_release, shared_lock_release_shared
Unlock(p) ==
    /\ At(p, "unlock") \/ At(p, "ro")
    /\ readers' = readers \ {p} /\ writer' = writer \ {p}
    /\ Goto(p, "idle")
    /\ Forget(p)
    /\ UNCHANGED <<mem, listVars, word, val, clock, hist>>
-----------------------------------------------------------------------------
(* tm_read, tm_write                                                        *)

InTx(p) == At(p, "ro") \/ At(p, "rw")

\* What memcpy reads: any value while another thread copies to the word.
CopyOutcomes(w) ==
    IF \E q \in Thread : At(q, "copy") /\ word[q] = w THEN Value ELSE {mem[w]}

Read(p, w) ==
    /\ InTx(p) /\ Count(p)
    /\ \E v \in CopyOutcomes(w) :
          snap' = IF \E x \in wrote[p] : x.word = w THEN snap
                  ELSE [snap EXCEPT ![p] = @ \cup {[word |-> w, val |-> v]}]
    /\ UNCHANGED <<lockVars, mem, listVars, pc, word, val, clock, hist, at, wrote>>

WriteStart(p, w, v) ==
    /\ At(p, "rw") /\ Count(p)
    /\ word' = [word EXCEPT ![p] = w] /\ val' = [val EXCEPT ![p] = v]
    /\ Goto(p, "copy")
    /\ UNCHANGED <<lockVars, mem, listVars, clock, hist, txVars>>

WriteFinish(p) ==
    /\ At(p, "copy")
    /\ mem' = [mem EXCEPT ![word[p]] = val[p]]
    /\ wrote' = [wrote EXCEPT ![p] = {x \in @ : x.word # word[p]}
                                     \cup {[word |-> word[p], val |-> val[p]]}]
    /\ word' = [word EXCEPT ![p] = 0] /\ val' = [val EXCEPT ![p] = Zero]
    /\ Goto(p, "rw")
    /\ UNCHANGED <<lockVars, listVars, ops, clock, hist, at, snap>>
-----------------------------------------------------------------------------
(* tm_alloc, tm_free: read-write transactions only, under the writer lock.  *)

\* The new node is put in front of region->allocs.
Alloc(p, s) ==
    /\ At(p, "rw") /\ Count(p) /\ s \notin live
    /\ live' = live \cup {s}
    /\ next' = [next EXCEPT ![s] = allocs]
    /\ prev' = [x \in Segment |-> IF x = s THEN Null ELSE IF x = allocs THEN s ELSE prev[x]]
    /\ allocs' = s
    /\ UNCHANGED <<lockVars, mem, pc, word, val, clock, hist, txVars>>

\* The head of the list forgotten when its first node is freed.
HeadAfter_fault(s) == allocs
HeadAfter(s) == IF prev[s] = Null THEN next[s] ELSE allocs

\* The client frees what it has allocated and not freed yet.
Free(p, s) ==
    /\ At(p, "rw") /\ Count(p) /\ s \in live
    /\ allocs' = HeadAfter(s)
    /\ next' = [x \in Segment |-> IF x = prev[s] THEN next[s] ELSE next[x]]
    /\ prev' = [x \in Segment |-> IF x = next[s] THEN prev[s] ELSE prev[x]]
    /\ live' = live \ {s}
    /\ UNCHANGED <<lockVars, mem, pc, word, val, clock, hist, txVars>>

\* The nodes from region->allocs on: what every set has that is closed under next.
Closed(S) == \A s \in S : next[s] # Null => next[s] \in S
Listed ==
    { s \in Segment : \A S \in SUBSET Segment :
          (allocs # Null => allocs \in S) /\ Closed(S) => s \in S }

\* tm_destroy, once no transaction runs: the nodes of the list are freed.
Destroy ==
    /\ \A p \in Thread : At(p, "idle")
    /\ pc' = [p \in Thread |-> "gone"]
    /\ live' = live \ Listed /\ allocs' = Null
    /\ UNCHANGED <<lockVars, mem, next, prev, word, val, ops, clock, hist, txVars>>
-----------------------------------------------------------------------------
Next == Destroy \/ \E p \in Thread :
    \/ BeginReadOnly(p) \/ BeginReadWrite(p) \/ EndReadWrite(p) \/ Unlock(p) \/ WriteFinish(p)
    \/ \E w \in Word : Read(p, w) \/ \E v \in Value : WriteStart(p, w, v)
    \/ \E s \in Segment : Alloc(p, s) \/ Free(p, s)

Spec == Init /\ [][Next]_vars
-----------------------------------------------------------------------------
(* Properties.                                                              *)

\* Serializability (tm_begin, tm_end): as long as a transaction runs, what it
\* has read is what the memory holds, but for what it wrote itself.  The code
\* of template/ only promises the state at the start.
ReadsStayCurrent ==
    \A p \in Thread : \A x \in snap[p] :
        (\A y \in wrote[p] : y.word # x.word) /\ ~ (At(p, "copy") /\ word[p] = x.word)
        => mem[x.word] = x.val

\* tm_alloc, tm_free, tm_destroy: the list holds exactly the segments that
\* tm_destroy has to free, linked both ways.
ListIsLive ==
    /\ Listed = live
    /\ \A s \in live : IF prev[s] = Null THEN s = allocs ELSE next[prev[s]] = s

\* From the entry of tm_end on, a read-write transaction has committed.
StatusOf(p) == IF pc[p] \in {"idle", "gone"} THEN "out" ELSE IF At(p, "unlock") THEN "committed" ELSE "in"

Abstract == INSTANCE VersionedTM WITH
    Client <- Thread, Addr <- Word, Val <- Value, InitVal <- Zero,
    store <- hist, status <- [p \in Thread |-> StatusOf(p)], seen <- snap, pending <- wrote

\* The lock implements the same abstract memory as the versions of template/.
ImplementsVersionedTM == Abstract!ASpec
=============================================================================
