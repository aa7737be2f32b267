-------------------------------- MODULE TL2 --------------------------------
(***************************************************************************)
(* The transactional memory of template/: tm_begin, tm_read, tm_write and  *)
(* tm_end over one segment, with the helpers of tm_helpers.c and the       *)
(* try-lock of lock.c.  Each action makes at most one access to memory the *)
(* threads share (the atomics of Region and lock_node, the words), so      *)
(* every sequentially consistent interleaving of the C code is a behaviour.*)
(* Definitions named X_fault are X with a plausible bug; no specification  *)
(* uses them, they are there to be put in the place of X.                  *)
(*                                                                         *)
(* A call that spans n words is n rounds of the loop of tm_read/tm_write;  *)
(* the model issues the rounds one by one.  Segments other than the first  *)
(* are the subject of module Segments.                                     *)
(***************************************************************************)
EXTENDS Integers, Sequences, FiniteSets

CONSTANTS
    Thread,        \* the threads that run transactions
    NWords,        \* words of the segment, size / align
    WordsPerLock,  \* TSM_WORDS_PER_LOCK
    Value,         \* what a word can hold
    Zero,          \* the word tm_create leaves behind (memset 0)
    Garbage,       \* what an uninitialised writeSetSize may hold
    MaxTx,         \* bound: transactions ever begun
    MaxOps         \* bound: tm_read and tm_write rounds of one transaction

ASSUME SizeAssumption    == NWords \in Nat \ {0} /\ WordsPerLock \in Nat \ {0}
ASSUME ZeroAssumption    == Zero \in Value
ASSUME BoundAssumption   == MaxTx \in Nat /\ MaxOps \in Nat
ASSUME GarbageAssumption == Garbage \subseteq Int /\ Garbage # {}

Word == 0 .. NWords - 1

\* getLock, getLockNode, getVersion: the lock_node that guards a word, an
\* index of the array of lock_size nodes that tm_create allocates.
LockOf(w) == w \div WordsPerLock
LockSize  == (NWords \div WordsPerLock) + IF NWords % WordsPerLock = 0 THEN 0 ELSE 1
Lock      == 0 .. LockSize - 1

VARIABLES
    globalVersion, latestTransactionId,  \* Region
    version, mutex, holder,              \* lock_node: version and its lock_t
    mem,                                 \* the words, freeSpace of the segment
    pc,                                  \* where each thread is in the code
    id, rv, isReadOnly,                  \* transaction: id, version, isReadOnly
    readSet, writeSet, writeSetSize,     \* transaction: its two lists
    word, sampled, buf,                  \* locals of tm_read
    k, n, newVersion, ok,                \* locals of tm_end and its helpers
    ops,                                 \* rounds issued, bounded by MaxOps
    hist,                                \* history: versions installed per word
    snap,                                \* history: what a transaction has read
    commits                              \* history: committed read-write ones

locks   == <<version, mutex, holder>>
tx      == <<id, rv, isReadOnly, readSet, writeSet, writeSetSize, ops, snap>>
rdVars  == <<word, sampled, buf>>
endVars == <<k, n, newVersion, ok>>
vars    == <<globalVersion, latestTransactionId, locks, mem, pc, tx, rdVars,
             endVars, hist, commits>>

Init ==
    /\ globalVersion = 0 /\ latestTransactionId = 1
    /\ version = [l \in Lock |-> 0]
    /\ mutex = [l \in Lock |-> FALSE]
    /\ holder = [l \in Lock |-> 0]
    /\ mem = [w \in Word |-> Zero]
    /\ pc = [p \in Thread |-> "idle"]
    /\ id = [p \in Thread |-> 0]
    /\ rv = [p \in Thread |-> 0]
    /\ isReadOnly = [p \in Thread |-> FALSE]
    /\ readSet = [p \in Thread |-> <<>>]
    /\ writeSet = [p \in Thread |-> <<>>]
    /\ writeSetSize = [p \in Thread |-> 0]
    /\ word = [p \in Thread |-> 0]
    /\ sampled = [p \in Thread |-> 0]
    /\ buf = [p \in Thread |-> Zero]
    /\ k = [p \in Thread |-> 0]
    /\ n = [p \in Thread |-> 0]
    /\ newVersion = [p \in Thread |-> 0]
    /\ ok = [p \in Thread |-> FALSE]
    /\ ops = [p \in Thread |-> 0]
    /\ hist = [w \in Word |-> {[ver |-> 0, val |-> Zero]}]
    /\ snap = [p \in Thread |-> {}]
    /\ commits = {}
-----------------------------------------------------------------------------
(* Helpers over a transaction's lists.                                      *)

\* checkWriteSet: the node of the write set for a word, if there is one.
Buffers(p, w) == \E j \in 1 .. Len(writeSet[p]) : writeSet[p][j].word = w
NodeOf(p, w)  == CHOOSE j \in 1 .. Len(writeSet[p]) : writeSet[p][j].word = w

BufferedValue(p, w) == writeSet[p][NodeOf(p, w)].val

\* A new node at the end of either list; the first one sets writeSetSize.
addReadSet(p, w) == readSet' = [readSet EXCEPT ![p] = Append(@, w)]

addWriteSet(p, w, v) ==
    /\ writeSet' = [writeSet EXCEPT ![p] = Append(@, [word |-> w, val |-> v])]
    /\ writeSetSize' = [writeSetSize EXCEPT ![p] = IF writeSet[p] = <<>> THEN 1 ELSE @ + 1]

\* tm_read takes the word from the write set when it is there.
FromWriteSet(p) == ~ isReadOnly[p] /\ Buffers(p, word[p])

\* getLocks: the lock array of a commit, in the order of the write set.
NLocks(p)      == Len(writeSet[p])
LockAt(p, j)   == LockOf(writeSet[p][j].word)
OwnLock(p, l)  == \E j \in 1 .. NLocks(p) : LockAt(p, j) = l

At(p, label)   == pc[p] = label
Goto(p, label) == pc' = [pc EXCEPT ![p] = label]

\* clearSets: both lists and the transaction itself are freed; the thread is
\* out of the transaction.  Dead locals take their first value back.
ClearSets(p) ==
    /\ Goto(p, "idle")
    /\ id'           = [id EXCEPT ![p] = 0]
    /\ rv'           = [rv EXCEPT ![p] = 0]
    /\ isReadOnly'   = [isReadOnly EXCEPT ![p] = FALSE]
    /\ readSet'      = [readSet EXCEPT ![p] = <<>>]
    /\ writeSet'     = [writeSet EXCEPT ![p] = <<>>]
    /\ writeSetSize' = [writeSetSize EXCEPT ![p] = 0]
    /\ ops'          = [ops EXCEPT ![p] = 0]
    /\ snap'         = [snap EXCEPT ![p] = {}]

ForgetRead(p) ==
    /\ word'    = [word EXCEPT ![p] = 0]
    /\ sampled' = [sampled EXCEPT ![p] = 0]
    /\ buf'     = [buf EXCEPT ![p] = Zero]

ForgetEnd(p) ==
    /\ k' = [k EXCEPT ![p] = 0]
    /\ n' = [n EXCEPT ![p] = 0]
    /\ newVersion' = [newVersion EXCEPT ![p] = 0]
    /\ ok' = [ok EXCEPT ![p] = FALSE]

\* What a copy of a word can return: a copy that overlaps the copy of a
\* write-back of the same word is a data race and yields any value.
CopyOutcomes(w) ==
    IF \E q \in Thread : At(q, "wbCopy") /\ writeSet[q][k[q]].word = w
    THEN Value ELSE {mem[w]}
-----------------------------------------------------------------------------
(* tm_begin                                                                 *)

\* Transactions begun, those included that have yet to draw their id.
Begun == latestTransactionId + Cardinality({ q \in Thread : At(q, "beginId") })

\* newTransaction->version = region->globalVersion, before the id is drawn.
BeginVersion(p, ro) ==
    /\ At(p, "idle") /\ Begun <= MaxTx
    /\ rv' = [rv EXCEPT ![p] = globalVersion]
    /\ isReadOnly' = [isReadOnly EXCEPT ![p] = ro]
    /\ Goto(p, "beginId")
    /\ UNCHANGED <<globalVersion, latestTransactionId, locks, mem, id, readSet,
                   writeSet, writeSetSize, ops, snap, rdVars, endVars, hist, commits>>

\* ++latestTransactionId.  The lists are empty, writeSetSize is not assigned.
BeginId(p) ==
    /\ At(p, "beginId")
    /\ latestTransactionId' = latestTransactionId + 1
    /\ id' = [id EXCEPT ![p] = latestTransactionId + 1]
    /\ \E g \in Garbage : writeSetSize' = [writeSetSize EXCEPT ![p] = g]
    /\ Goto(p, "run")
    /\ UNCHANGED <<globalVersion, locks, mem, rv, isReadOnly, readSet, writeSet,
                   ops, snap, rdVars, endVars, hist, commits>>
-----------------------------------------------------------------------------
(* tm_read: one round of its loop.                                          *)

\* version = lockNode->version
ReadSample(p, w) ==
    /\ At(p, "run") /\ ops[p] < MaxOps
    /\ ops' = [ops EXCEPT ![p] = @ + 1]
    /\ word' = [word EXCEPT ![p] = w]
    /\ sampled' = [sampled EXCEPT ![p] = version[LockOf(w)]]
    /\ Goto(p, "rdVer")
    /\ UNCHANGED <<globalVersion, latestTransactionId, locks, mem, id, rv, isReadOnly,
                   readSet, writeSet, writeSetSize, snap, buf, endVars, hist, commits>>

\* One of the three tests before the copy and the three after it: the
\* transaction aborts (clearSets, return false) or goes on.
ReadTest(p, here, passed, next) ==
    /\ At(p, here)
    /\ IF passed
       THEN Goto(p, next) /\ UNCHANGED <<tx, rdVars>>
       ELSE ClearSets(p) /\ ForgetRead(p)
    /\ UNCHANGED <<globalVersion, latestTransactionId, locks, mem, endVars, hist, commits>>

SameVersion(p) == sampled[p] = version[LockOf(word[p])]

NotLocked_fault(p) == TRUE    \* a locked word is read
NotLocked(p) == ~ mutex[LockOf(word[p])]

NotNewer_fault(p) == version[LockOf(word[p])] <= rv[p] + 1
NotNewer(p) == version[LockOf(word[p])] <= rv[p]

ReadVer(p)   == ReadTest(p, "rdVer",   SameVersion(p), "rdLock")
ReadLock(p)  == ReadTest(p, "rdLock",  NotLocked(p),   "rdMax")
ReadMax(p)   == ReadTest(p, "rdMax",   NotNewer(p),    "rdCopy")
ReadVer2(p)  == ReadTest(p, "rdVer2",  SameVersion(p), "rdLock2")
ReadLock2(p) == ReadTest(p, "rdLock2", NotLocked(p),   "rdMax2")

\* checkWriteSet, then the copy from the write set or from the segment.
ReadCopy(p) ==
    /\ At(p, "rdCopy")
    /\ \E v \in IF FromWriteSet(p) THEN {BufferedValue(p, word[p])}
                ELSE CopyOutcomes(word[p]) :
          buf' = [buf EXCEPT ![p] = v]
    /\ Goto(p, "rdVer2")
    /\ UNCHANGED <<globalVersion, latestTransactionId, locks, mem, tx, word, sampled,
                   endVars, hist, commits>>

\* The last test; when it passes addReadSet and the call returns the value.
ReadMax2(p) ==
    /\ At(p, "rdMax2")
    /\ IF NotNewer(p)
       THEN /\ Goto(p, "run")
            /\ IF isReadOnly[p] THEN UNCHANGED readSet ELSE addReadSet(p, word[p])
            /\ snap' = IF FromWriteSet(p) THEN snap
                       ELSE [snap EXCEPT ![p] = @ \cup {[word |-> word[p], val |-> buf[p]]}]
            /\ UNCHANGED <<id, rv, isReadOnly, writeSet, writeSetSize, ops>>
       ELSE ClearSets(p)
    /\ ForgetRead(p)
    /\ UNCHANGED <<globalVersion, latestTransactionId, locks, mem, endVars, hist, commits>>
-----------------------------------------------------------------------------
(* tm_write: the value stays in the write set until the commit.             *)

Write(p, w, v) ==
    /\ At(p, "run") /\ ~ isReadOnly[p] /\ ops[p] < MaxOps
    /\ ops' = [ops EXCEPT ![p] = @ + 1]
    /\ IF Buffers(p, w)
       THEN /\ writeSet' = [writeSet EXCEPT ![p][NodeOf(p, w)] = [word |-> w, val |-> v]]
            /\ UNCHANGED writeSetSize
       ELSE addWriteSet(p, w, v)
    /\ UNCHANGED <<globalVersion, latestTransactionId, locks, mem, pc, id, rv,
                   isReadOnly, readSet, snap, rdVars, endVars, hist, commits>>
-----------------------------------------------------------------------------
(* tm_end                                                                   *)

\* A read-only transaction has nothing to do.
EndReadOnly(p) ==
    /\ At(p, "run") /\ isReadOnly[p]
    /\ ClearSets(p)
    /\ UNCHANGED <<globalVersion, latestTransactionId, locks, mem, rdVars, endVars,
                   hist, commits>>

\* getLocks walks writeSetSize nodes of a list that may be shorter: the walk
\* then dereferences NULL (or a NULL array) and the program dies.
GetLocks(p) ==
    /\ At(p, "run") /\ ~ isReadOnly[p]
    /\ IF writeSetSize[p] = NLocks(p)
       THEN Goto(p, "acquire") /\ k' = [k EXCEPT ![p] = 1]
       ELSE Goto(p, "segv") /\ UNCHANGED k
    /\ UNCHANGED <<globalVersion, latestTransactionId, locks, mem, tx, rdVars, n,
                   newVersion, ok, hist, commits>>

\* The number of locks to give back when the k-th is taken, one short.
UndoCount_fault(p) == IF k[p] > 1 THEN k[p] - 2 ELSE 0
UndoCount_under(p) == k[p] - 2  \* below zero when the first lock is taken
UndoCount(p) == k[p] - 1

\* Waiting for a taken lock instead of giving up.
Acquire_fault(p) ==
    /\ At(p, "acquire") /\ k[p] <= NLocks(p)
    /\ ~ mutex[LockAt(p, k[p])]
    /\ mutex' = [mutex EXCEPT ![LockAt(p, k[p])] = TRUE]
    /\ Goto(p, "setHolder")
    /\ UNCHANGED <<globalVersion, latestTransactionId, version, holder, mem, tx, rdVars,
                   endVars, hist, commits>>

\* acquireLocks, lock_acquire: the compare-and-swap on the k-th lock.  A lock
\* that is taken ends the loop: the first k - 1 are released, tm_end is FALSE.
Acquire(p) ==
    /\ At(p, "acquire") /\ k[p] <= NLocks(p)
    /\ LET l == LockAt(p, k[p]) IN
       IF mutex[l]
       THEN /\ Goto(p, "release")
            /\ n' = [n EXCEPT ![p] = UndoCount(p)]
            /\ k' = [k EXCEPT ![p] = 1]
            /\ ok' = [ok EXCEPT ![p] = FALSE]
            /\ UNCHANGED mutex
       ELSE /\ mutex' = [mutex EXCEPT ![l] = TRUE]
            /\ Goto(p, "setHolder")
            /\ UNCHANGED <<n, k, ok>>
    /\ UNCHANGED <<globalVersion, latestTransactionId, version, holder, mem, tx, rdVars,
                   newVersion, hist, commits>>

\* lock->holder = holder
SetHolder(p) ==
    /\ At(p, "setHolder")
    /\ holder' = [holder EXCEPT ![LockAt(p, k[p])] = id[p]]
    /\ k' = [k EXCEPT ![p] = @ + 1]
    /\ Goto(p, "acquire")
    /\ UNCHANGED <<globalVersion, latestTransactionId, version, mutex, mem, tx, rdVars, n,
                   newVersion, ok, hist, commits>>

\* The version of a commit taken from the snapshot, not from the clock.
DrawnVersion_fault(p) == rv[p] + 1
DrawnVersion(p) == globalVersion + 1

\* Validating only when the clock is behind the transaction: never.
MustValidate_fault(p) == rv[p] > globalVersion
MustValidate(p) == rv[p] + 1 # globalVersion + 1

\* newVersion = ++region->globalVersion.  The read set needs no validation when
\* no other transaction drew a version since this one began.
Stamp(p) ==
    /\ At(p, "acquire") /\ k[p] > NLocks(p)
    /\ globalVersion' = globalVersion + 1
    /\ newVersion' = [newVersion EXCEPT ![p] = DrawnVersion(p)]
    /\ k' = [k EXCEPT ![p] = 1]
    /\ Goto(p, IF MustValidate(p) THEN "valVer" ELSE "wbVer")
    /\ UNCHANGED <<latestTransactionId, locks, mem, tx, rdVars, n, ok, hist, commits>>

\* tm_end gives up: releaseLocks over the whole array, then return false.
StartRelease(p, result) ==
    /\ Goto(p, "release")
    /\ k' = [k EXCEPT ![p] = 1]
    /\ n' = [n EXCEPT ![p] = NLocks(p)]
    /\ ok' = [ok EXCEPT ![p] = result]

\* First test of the validation loop: lockNode->version > transaction->version.
ValidateVer(p) ==
    /\ At(p, "valVer") /\ k[p] <= Len(readSet[p])
    /\ IF version[LockOf(readSet[p][k[p]])] > rv[p]
       THEN StartRelease(p, FALSE)
       ELSE Goto(p, "valLock") /\ UNCHANGED <<k, n, ok>>
    /\ UNCHANGED <<globalVersion, latestTransactionId, locks, mem, tx, rdVars,
                   newVersion, hist, commits>>

\* Second test: lock_is_locked_byAnotherThread.
ValidateLock(p) ==
    /\ At(p, "valLock")
    /\ LET l == LockOf(readSet[p][k[p]]) IN
       IF mutex[l] /\ ~ OwnLock(p, l)
       THEN StartRelease(p, FALSE)
       ELSE Goto(p, "valVer") /\ k' = [k EXCEPT ![p] = @ + 1] /\ UNCHANGED <<n, ok>>
    /\ UNCHANGED <<globalVersion, latestTransactionId, locks, mem, tx, rdVars,
                   newVersion, hist, commits>>

Validated(p) ==
    /\ At(p, "valVer") /\ k[p] > Len(readSet[p])
    /\ Goto(p, "wbVer")
    /\ k' = [k EXCEPT ![p] = 1]
    /\ UNCHANGED <<globalVersion, latestTransactionId, locks, mem, tx, rdVars, n, ok,
                   newVersion, hist, commits>>

\* The wrong one of Region's two counters: the transaction's id.
InstalledVersion_fault(p) == id[p]
InstalledVersion(p) == newVersion[p]

\* Write-back of the k-th node: its version first ...
WriteBackVer(p) ==
    /\ At(p, "wbVer") /\ k[p] <= NLocks(p)
    /\ LET w == writeSet[p][k[p]].word IN
       /\ version' = [version EXCEPT ![LockOf(w)] = InstalledVersion(p)]
       /\ hist' = [hist EXCEPT ![w] = @ \cup {[ver |-> InstalledVersion(p),
                                               val |-> writeSet[p][k[p]].val]}]
    /\ Goto(p, "wbCopy")
    /\ UNCHANGED <<globalVersion, latestTransactionId, mutex, holder, mem, tx, rdVars,
                   endVars, commits>>

\* ... then its value.
WriteBackCopy(p) ==
    /\ At(p, "wbCopy")
    /\ mem' = [mem EXCEPT ![writeSet[p][k[p]].word] = writeSet[p][k[p]].val]
    /\ k' = [k EXCEPT ![p] = @ + 1]
    /\ Goto(p, "wbVer")
    /\ UNCHANGED <<globalVersion, latestTransactionId, locks, tx, rdVars, n, newVersion,
                   ok, hist, commits>>

WrittenBack(p) ==
    /\ At(p, "wbVer") /\ k[p] > NLocks(p)
    /\ StartRelease(p, TRUE)
    /\ commits' = commits \cup
          {[rv |-> rv[p], wv |-> newVersion[p],
            reads  |-> { readSet[p][j] : j \in 1 .. Len(readSet[p]) },
            writes |-> { writeSet[p][j].word : j \in 1 .. NLocks(p) }]}
    /\ UNCHANGED <<globalVersion, latestTransactionId, locks, mem, tx, rdVars, newVersion,
                   hist>>

\* releaseLocks and the undo loop of acquireLocks.  lock_release reads the
\* holder, clears it, then clears the mutex.
ReleaseTest(p) ==
    /\ At(p, "release") /\ k[p] <= n[p]
    /\ IF holder[LockAt(p, k[p])] = id[p]
       THEN Goto(p, "relHolder") /\ UNCHANGED k
       ELSE UNCHANGED pc /\ k' = [k EXCEPT ![p] = @ + 1]
    /\ UNCHANGED <<globalVersion, latestTransactionId, locks, mem, tx, rdVars, n,
                   newVersion, ok, hist, commits>>

ReleaseHolder(p) ==
    /\ At(p, "relHolder")
    /\ holder' = [holder EXCEPT ![LockAt(p, k[p])] = 0]
    /\ Goto(p, "relMutex")
    /\ UNCHANGED <<globalVersion, latestTransactionId, version, mutex, mem, tx, rdVars,
                   endVars, hist, commits>>

ReleaseMutex(p) ==
    /\ At(p, "relMutex")
    /\ mutex' = [mutex EXCEPT ![LockAt(p, k[p])] = FALSE]
    /\ k' = [k EXCEPT ![p] = @ + 1]
    /\ Goto(p, "release")
    /\ UNCHANGED <<globalVersion, latestTransactionId, version, holder, mem, tx, rdVars,
                   n, newVersion, ok, hist, commits>>

\* clearSets and the return of tm_end.
EndReturn(p) ==
    /\ At(p, "release") /\ k[p] > n[p]
    /\ ClearSets(p) /\ ForgetEnd(p)
    /\ UNCHANGED <<globalVersion, latestTransactionId, locks, mem, rdVars, hist, commits>>
-----------------------------------------------------------------------------
\* What the client decides: which call comes next.
Call(p) ==
    \/ \E ro \in BOOLEAN : BeginVersion(p, ro)
    \/ \E w \in Word : ReadSample(p, w)
    \/ \E w \in Word, v \in Value : Write(p, w, v)
    \/ EndReadOnly(p)
    \/ GetLocks(p)

\* The steps of a call that has started.
InCall(p) ==
    \/ BeginId(p)
    \/ ReadVer(p) \/ ReadLock(p) \/ ReadMax(p) \/ ReadCopy(p)
    \/ ReadVer2(p) \/ ReadLock2(p) \/ ReadMax2(p)
    \/ Acquire(p) \/ SetHolder(p) \/ Stamp(p)
    \/ ValidateVer(p) \/ ValidateLock(p) \/ Validated(p)
    \/ WriteBackVer(p) \/ WriteBackCopy(p) \/ WrittenBack(p)
    \/ ReleaseTest(p) \/ ReleaseHolder(p) \/ ReleaseMutex(p) \/ EndReturn(p)

\* A thread that dies takes the whole program with it.
Crashed == \E p \in Thread : At(p, "segv")

Next == ~ Crashed /\ \E p \in Thread : Call(p) \/ InCall(p)

\* The operating system runs every thread; the client need not make a call.
Fairness == \A p \in Thread : WF_vars(~ Crashed /\ InCall(p))

Spec     == Init /\ [][Next]_vars
FairSpec == Spec /\ Fairness
-----------------------------------------------------------------------------
(* Properties.                                                              *)

PC == {"idle", "beginId", "run", "rdVer", "rdLock", "rdMax", "rdCopy", "rdVer2", "rdLock2",
       "rdMax2", "acquire", "setHolder", "valVer", "valLock", "wbVer", "wbCopy",
       "release", "relHolder", "relMutex", "segv"}

WriteNode == [word : Word, val : Value]
Stored    == [ver : Nat, val : Value]
Commit    == [rv : Nat, wv : Nat, reads : SUBSET Word, writes : SUBSET Word]

RegionType ==
    /\ globalVersion \in Nat /\ latestTransactionId \in Nat
    /\ version \in [Lock -> Nat] /\ mutex \in [Lock -> BOOLEAN] /\ holder \in [Lock -> Nat]
    /\ mem \in [Word -> Value]
TxType ==
    /\ pc \in [Thread -> PC]
    /\ id \in [Thread -> Nat] /\ rv \in [Thread -> Nat] /\ isReadOnly \in [Thread -> BOOLEAN]
    /\ readSet \in [Thread -> Seq(Word)] /\ writeSet \in [Thread -> Seq(WriteNode)]
    /\ writeSetSize \in [Thread -> Int] /\ ops \in [Thread -> Nat]
ReadType ==
    word \in [Thread -> Word] /\ sampled \in [Thread -> Nat] /\ buf \in [Thread -> Value]
EndType ==
    /\ k \in [Thread -> Nat] /\ n \in [Thread -> Nat]
    /\ newVersion \in [Thread -> Nat] /\ ok \in [Thread -> BOOLEAN]
HistType ==
    /\ hist \in [Word -> SUBSET Stored] /\ snap \in [Thread -> SUBSET WriteNode]
    /\ commits \in SUBSET Commit

\* Every variable holds a value of the C type it models.
TypeOK == RegionType /\ TxType /\ ReadType /\ EndType /\ HistType

Committing(p) == pc[p] \in {"valVer", "valLock", "wbVer", "wbCopy"}
Releasing(p)  == pc[p] \in {"release", "relHolder", "relMutex"}

\* The entries of its lock array a thread has taken and not given back.
OwnedIdx(p) ==
    { j \in 1 .. NLocks(p) :
        \/ At(p, "acquire") /\ j < k[p]
        \/ At(p, "setHolder") /\ j <= k[p]
        \/ Committing(p)
        \/ Releasing(p) /\ k[p] <= j /\ j <= n[p] }
Owned(p) == { LockAt(p, j) : j \in OwnedIdx(p) }

\* Mutual exclusion of the commit locks, with its bookkeeping (lock_acquire,
\* lock_release): two threads never own one lock, and a lock is taken exactly
\* when some thread in tm_end still has to release it: none leaks on any of the
\* three failing paths, and the holder test of lock_release never skips one.
LocksExclusive ==
    /\ \A p, q \in Thread : p # q => Owned(p) \cap Owned(q) = {}
    /\ \A l \in Lock : mutex[l] <=> \E p \in Thread : l \in Owned(p)

\* The value of a word at a version: what the last commit up to it installed.
ValueAt(w, ver, val) ==
    \E r \in hist[w] : /\ r.val = val /\ r.ver <= ver
                       /\ \A q \in hist[w] : q.ver <= ver => q.ver <= r.ver

\* Opacity of the reads (tm_read): whatever a transaction has read so far, even
\* one that will abort, is the state of the memory at the version it began
\* with, and stays so: no commit slips in below that version afterwards.
SnapshotReads ==
    \A p \in Thread : \A x \in snap[p] : ValueAt(x.word, rv[p], x.val)

\* No lost update (tm_end): between the snapshot and the commit of a read-write
\* transaction, no other commit changed a word it both read and wrote.
NoLostUpdate ==
    \A c \in commits : \A w \in c.reads \cap c.writes :
        ~ \E r \in hist[w] : c.rv < r.ver /\ r.ver < c.wv

\* What Transactional Locking II promises for the whole read set: a committed
\* transaction read what was current when it committed.
ReadsStillCurrent ==
    \A c \in commits : \A w \in c.reads :
        ~ \E r \in hist[w] : c.rv < r.ver /\ r.ver < c.wv

\* Two commits never share a version, and a word gets no version twice.
OneWritePerVersion ==
    /\ \A c, d \in commits : c.wv = d.wv => c = d
    /\ \A w \in Word : \A r, q \in hist[w] : r.ver = q.ver => r = q

\* tm_begin's "empty readSet and writeSet": until its first write a transaction
\* has a write set of size 0, so that getLocks stays inside the list.
EmptySetsAtBegin == ~ Crashed

\* What a reader may rely on between two of its steps: a version only grows.
VersionsGrow ==
    [][/\ globalVersion' >= globalVersion
       /\ \A l \in Lock : version'[l] >= version[l]
       /\ \A l \in Lock : version'[l] # version[l] => mutex[l]]_vars

\* The places of a thread inside tm_begin, tm_read or tm_end.
InACall(p) == pc[p] \in PC \ {"idle", "run", "segv"}

\* tm_begin, tm_read and tm_end return, whatever the other threads do: the locks
\* are tried in write-set order, unsorted, and no loop waits for one.
CallsReturn == \A p \in Thread : InACall(p) ~> pc[p] \in {"idle", "run"}
=============================================================================
