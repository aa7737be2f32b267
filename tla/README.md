# A TLA+ verification project for the CS453 transactional memory

The repository is a student project of EPFL's CS453: a software transactional
memory in C, a reference implementation of the same interface, and the harness
that grades the one against the other. This directory holds TLA+ models of
them, TLC configurations that check the models on small instances, and TLAPS
proofs of the main results for every instance.

    tlasany M.tla                       parse a module
    tlc -config X.cfg M                 check module M (the tables below say which)
    tlapm M.tla                         check the proofs of module M

`PROJECT.json` is the machine-readable index: components, runs, mutants (bugs
that each property is known to catch), the lines of C and C++ each definition
stands for, findings, hazards, theorems.

## 1. Inventory

| part | state | operations | what makes it hard |
|---|---|---|---|
| `template/tm.c` with `tm_helpers.c`, `lock.c`, `tsm_types.h`: the memory, after Transactional Locking II | `Region`: `globalVersion`, `latestTransactionId`, list of segments. Per word a `lock_node`: version, try-lock, holder. Per transaction: snapshot version, read set, write set | `tm_begin`, `tm_read`, `tm_write`, `tm_end`; `tm_alloc`, `tm_free`; `tm_create`, `tm_destroy` | every access is a step of its own and nothing but the commit locks orders them; reads are optimistic; a failing commit must give back exactly what it took |
| `reference/tm.c`, `shared-lock.c` | a readers-writer lock, the words, a list of segments | the same interface | in-place writes, so exclusion is everything |
| `grading/common.hpp` | `Barrier`: a counter and a mode; `Latch`; `Chrono`; `bounded_run`: a lock, a condition variable, a runner thread | `sync`; `raise`, `wait`; `start`, `stop` | reuse of the barrier by threads of different speed; time-outs; a wait without a predicate |
| `grading/grading.cpp`: `main` | the library and the bank of one turn of its loop, the time limits | load, create, measure, destroy, unload | order of destructors, exceptions at each stage, threads that outlive what they use |
| `grading/grading.cpp`: `measure` | `Sync`: `nbready`, `status`, `errmsg`, a clock, a latch; the master and the workers of `measure` | `master_notify`, `master_wait`, `master_join`, `worker_wait`, `worker_notify` | one counter and one status word serve two rendez-vous per phase; errors, exceptions, time-outs |
| `grading/workload.hpp` | the bank: a list of account segments in shared memory | `init`, `run` (`short_tx`, `long_tx`, `alloc_tx`), `check` | closures that are called again after an abort; consistency over many words |
| `grading/transactional.hpp` | `Transaction`, `Shared`, `transactional` | begin, read, write, alloc, free, commit in the destructor, retry | exceptions as control flow, and a destructor that commits |
| `sync-examples/` | twelve small programs: a counter; leaders per round; a circular buffer. `lock.c`: a mutex and a condition variable | `count`; `elect`; `produce`, `consume` | races, test-then-act, reuse of slots, lost wake-ups |
| `playground/` | two counters; one thread per processor, a lock whose methods are empty | `entry_point`, `shared_access`, `shared_check` | the race it is there to show |
| `template/bloom.c`, `MurmurHash2.c` | vendored; every call is commented out | | |
| `submit.py`, `personal_tests.c`, `include/`, `cmake-build-debug/` | upload script, manual tests, declarations, generated files | | |

How they interact: `grading.cpp` loads a memory library, creates a `WorkloadBank`
over it and calls `measure`; its workers meet in `Sync` around every phase and
inside a phase run transactions through `transactional`, which calls the
library's `tm_*` functions; `WorkloadBank::check` also meets in a `Barrier`. The
only state shared by threads is the `Region`, the `Sync` and the `Barrier`.

What would make each part correct:

* memory: what a transaction reads, even one that will abort, is one state of
  the memory; a commit appears at once or not at all; no update is lost; no
  lock leaks; every call returns;
* segments: what is allocated can be found until it is freed, the list is never
  broken, nothing is used after it was freed;
* reference: as the memory, and serializable;
* barrier, Sync: nobody passes early, nobody is left behind, every phase has
  one verdict and it is the right one;
* workload: it must raise no alarm over a correct memory, and `check` must end in every worker
  over a broken one too;
* transactions and their retries: each transaction the library has opened is
  ended once, on every way out of a closure; a call takes effect once or not at
  all; what aborted attempts allocate and free leaves no trace;
* main and `bounded_run`: no library is unloaded under its users, a call that
  returns in time is not taken for an overrun, and main ends;
* examples: those that say they are correct are, and they end.

## 2. Modules

| module | models | used by |
|---|---|---|
| `TL2` | `tm_begin`, `tm_read`, `tm_write`, `tm_end` of `template/`, one segment | |
| `TL2Inv` | the inductive invariant of `TL2` | run `tl2_safety`, the proofs |
| `VersionedTM` | abstract specification of a memory with a version clock | `TL2Refines`, `ReferenceTM` |
| `TL2Refines` | the refinement mapping from `TL2` to `VersionedTM` | |
| `Segments` | `tm_alloc`, `tm_free`, `findSegment`, `tm_destroy` of `template/` | |
| `ReferenceTM` | all of `reference/` | |
| `BarrierSpec`, `Barrier` | abstract reusable barrier; `Barrier::sync` | |
| `Measure` | `Sync`, `Latch`, `Chrono`, `measure` | |
| `Bank` | `WorkloadBank::init`, `run`, the three transactions, `transactional` | |
| `CounterCheck` | `WorkloadBank::check`, with every step of `Barrier` inside | |
| `Closures` | `Transaction`, `Shared`, `transactional`, running `alloc_tx` | |
| `Grader` | `main`, `bounded_run`, construction and destruction of `TransactionalLibrary` and `TransactionalMemory` | |
| `ExampleThreads` | the threads of `sync-examples/` and its `lock.c` | the next three |
| `Counters`, `Elections` | `counter1.c` to `counter4.c` and `playground/`; `election1.c` to `election4.c` | `MCSyncExamples` |
| `BoundedQueue`, `ProducerConsumer` | abstract bounded queue; `procon1.c` to `procon4.c` | `MCSyncExamples` |
| `MC*` | the module as TLC runs it, with its symmetry sets | |
| `TL2Proofs`, `ReferenceTMProofs`, `SegmentsProofs`, `CounterCheckProofs`, `ClosuresProofs`, `BankProofs`, `SyncExamplesProofs` | theorems about the module of that name and those it extends (section 4) | |
| `GradingProofs` | theorems about `Measure` and `Grader`, the two that have `grading.cpp` | |

They compose by contract or by inclusion. `TL2` and `ReferenceTM` implement `VersionedTM`
(checked and proved for both); `Bank` and `CounterCheck` use what
`VersionedTM` promises and nothing else. `CounterCheck` extends `Barrier` and
runs its steps in place of each call of `sync`, so that run `check` has the
barrier under the use the program makes of it; there it implements
`BarrierSpec`, and the check phase of `Measure` uses what that promises.
`Closures` and `Grader` see a library from the two sides of its interface:
`Closures` the transactions, `Grader` its lifetime, with `measure` as one step of
which `Measure` has the detail. `MCSyncExamples` puts the example programs side by
side, one per behaviour.

### Conventions

* **Steps.** An action makes at most one access to memory that threads share.
  Local computation between two accesses belongs to the action before it.
  Memory is sequentially consistent: the shared fields are C11/C++11 atomics,
  most with the default order. The `relaxed` ones of the grader are modelled as
  sequentially consistent too, which is stronger than the code
  asks for; the words themselves and the links of the segment list are plain.
* **Data races.** A copy of a word that overlaps a write-back of it returns any
  value (`CopyOutcomes`). A step that touches a freed node ends the behaviour
  of `Segments` with `status = "stray"`.
* **`X_fault`** is X with a plausible bug. No specification uses it. The
  mutants of `PROJECT.json` put it in the place of X and then the property
  named with it must fail, so that we know the property is about the code.
* **History variables** (`hist`, `snap`, `commits`, `at`, `wrote`, `failed`,
  `strayed`, `returned`, `changed`, `calls`) record what has happened for the properties; no guard
  reads them, with exceptions that restrict clients only: `Segments`
  accesses addresses that were `returned`, a thread of `Closures` stops after `NbTx`
  `calls`, and in `VersionedTM` they are the state.
* **Deadlock** is not checked: clients stop when they want, when a bound is
  reached, or when the program has ended. What must not stop is stated as a liveness property.

### TL2

`version`, `mutex`, `holder` are the fields of a `lock_node`; `rv`, `readSet`,
`writeSet`, `writeSetSize` those of a `transaction`; `pc` is the place in the
code, and `k` and `n` the loop variables of `tm_end` and its helpers. A round of the
loop of `tm_read` is eight actions: the sample of the version, three tests, the
copy, the same three tests. `tm_end` is `GetLocks`, a compare-and-swap and a
holder store per lock, `Stamp` (the draw of the version), two loads per read
word for validation, two stores per written word, and three steps per lock to
release. Each way of failing leads through the loop the code has for it.

Faithful details that matter to the results:

* validation compares the version of a word before it asks for its lock
  (`tm.c:189`, `tm.c:196`) and is skipped when the version drawn is `rv + 1`;
* write-back stores the version of a word before the value;
* `lock_release` does nothing unless the holder is the transaction;
* locks are tried in write-set order, as the sorting is commented out;
* `tm_begin` leaves `writeSetSize` uninitialised: `Garbage` is the set of values
  it may have. `{0}` is the set in which the program survives a read-write
  transaction that writes nothing; with `{0, 1}` (`TL2_garbage.cfg`) it may not.

Left out: allocation failure, alignment tests, the second and later segments
(`Segments`), the bloom filter. A call on several words is several calls
on one word, as its loop makes them.

### VersionedTM

A word keeps all the values committed for it with their versions. `ABegin`
samples the clock, `ARead` returns the value as of that sample, `ACommit`
installs all writes in one step under a fresh version, provided that no word
both read and written has changed since the sample. This is snapshot isolation
with opacity of reads. It is what the code of `template/` provides; it is *not*
the serializability that Transactional Locking II provides (finding 1).
Under the mapping the commit happens at `Stamp` or `Validated`, when nothing can
fail any more, before the values reach memory: `Store` adds the versions still
to be written back to `hist`.

### Segments

A node of `Node` stands for a `segment_node` with its words and locks, which are
allocated and freed together. `state` says whether malloc has given it out;
a recycled node keeps its old fields until the code assigns them.
`Memalign` says what `posix_memalign` on an uninitialised pointer does; except
in the run about that bug it is `{"buffer"}`: the garbage happens to be harmless and
the segment is at the address it designates. Without that assumption no
allocation ever succeeds and there would be nothing to say of the rest. Every load and every
store of a link or of the region's `allocTail` is a step: `near` and `far` are the pointers a call has loaded
and not yet used. The fields of a fresh node, which no other thread can reach, are
assigned in one.

### ReferenceTM

A `pthread_rwlock` is two sets, and a blocked acquisition an action that is not
enabled; `tm_begin` returning `invalid_tx` leaves the memory as it is, a step in which nothing
changes. A word is written in two steps, so that a reader admitted too early
would see a torn value.

### Measure, Barrier, CounterCheck

`Measure` takes each access to `status`, `nbready`, `errmsg` as a step. The
clock is abstracted to *which phase* started the running segment (`local`) and
*which phases* have been added up (`total`). The work of a phase is one action
with an outcome of `Outcome`; in the check phase a worker that does not throw then
waits in the last barrier. The threads are created one after the other and run
from then on, while the master still creates; `Faults` says whether a time-out may
strike (`"timeout"`) and whether a thread may fail to start (`"nothread"`).

`CounterCheck` runs with a `library` that is correct (a commit fails if the counter
has changed) or broken (any read may return anything and a commit notices no change),
chosen at the start. Either may refuse a call without a conflict (`Refuse`), which calls the closure
again, and either may fail to begin a transaction, which throws (`Throw`): a worker
that has thrown is out of `check`, and the others wait for it in the next barrier there is. The worker that
sees the counter go up returns from its closure, so `~Transaction` still has to commit: over a
correct library `Commit` may find the value stale and start again even then.

### Bank

A closure runs on the memory as of its `Begin` (that is what the snapshot
property of the memory gives it), and `Commit` installs its writes if the words it depends on are
unchanged: all it read if `setup.serial`, those read and written otherwise. `setup`
is chosen at the start from `Setups`: in run `bank`, the configuration of
`grading.cpp` over what `template/` promises, and `alloc_tx` in addition over a
serializable memory. `Retry`
may happen to any closure, at any time and at any point of the walk over the segments; `short_tx`
keeps the ids that it has changed by then, the others start afresh. Random choices
are nondeterministic; the trigger of `alloc_tx` is the boolean `shrink`.

A word is a pair of a segment and an offset. `Chain(m)` is the walk that the loops of the
closures make in a memory `m`, chosen as the one sequence that begins at the first segment,
follows `next` and ends; `Upto(m, c, j)` is what `count` has reached after the `j`-th segment,
and `Locate` the account that `short_tx` finds with an id. `SumOver` counts units: those of the
words above zero less those of the words below (a parity can be negative).

### Closures

One closure, `alloc_tx` with two accounts per segment and the trigger at two, which
makes it allocate a second segment and free it again in turns: it is the only
closure of the program that makes all four kinds of calls. `copy` is the memory as
an open transaction sees it. The client's `aborted` and the library's `open` are
separate variables; that they agree is what `HandlesMatch` says and the code has
to see to. Any call may be refused, `tm_begin` may fail and `tm_alloc` may find no
memory. `leaving` says how the closure is left; `~Transaction` then decides by
`aborted`, whatever the exception. `Libraries` names the kinds of library:
`"locking"` is `reference/`, `"optimistic"` a library that takes all of an aborted
transaction back, `"eager"` one like `template/`, whose `tm_alloc` and `tm_free` act at
once and are not taken back.

### Grader

`place` follows main through its loop and the destructors; main holds the lock of
`bounded_run` in `"spawned"` and `"joining"`. `task` is what the runner does, or
`"abandoned"` after main has given up a creation. Code 1 (`failing`) is reached through
the destructors of `bank` and `tl`, code 2 (`quick_exit`) without them.

### ExampleThreads, Counters, Elections, ProducerConsumer

`program` names the source file. The mutex of `lock.c` is `owner`, its condition
variable the set `asleep`; `lock_wait` releases and sleeps in one step, and a wake-up
without a cause (`MaxSpurious`) is a step of its own. `counter++` is a load and a
store, as `sync-examples/Makefile` compiles without optimisation, and in the
playground `shared_access` is in another file than the loop that calls it. A text is
copied in two halves, so that a torn one could be seen. `procon1` is what nothing is
promised of: only its steps are there.

## 3. Runs

Each takes from seconds to two minutes with two workers. "v" marks a run
that must find its property violated; it backs a finding of section 5.

| run | question | instance |
|---|---|---|
| `tl2_safety` | locks exclusive and never leaked, reads are snapshots, no lost update, one write per version, versions grow, does the inductive invariant hold, does `TL2` implement `VersionedTM` | 2 threads, 2 words, 2 values, 2 transactions of 2 operations |
| `tl2_live` | do `tm_begin`, `tm_read` and `tm_end` return | the same with 1 value |
| `tl2_skew` v | are all reads current at commit | as `tl2_safety` |
| `segments_list` | list well linked and acyclic, `findSegment` returns | 1 thread, 4 nodes, 5 allocations |
| `segments_race` v | is what was allocated in the list | 2 threads, 2 allocations |
| `reference` | reads stay current; implements `VersionedTM`; the list holds the live segments, up to `tm_destroy` | 2 threads, 2 words, 3 segments, 2 commits, 3 operations |
| `measure_sync` | phases aligned, verdict right, `measure` ends | 3 workers, 3 phases, errors, time-outs, a thread that does not start |
| `bank` | does the bank keep its money, raise no alarm, leave no gap in its list | 2 workers, 3 segments of 2 accounts, 2 transactions each, two setups |
| `check` | no false alarm over a correct library; `check` ends over any, unless an exception leaves it; the barrier implements `BarrierSpec` | 3 workers, 2 decrements each, both libraries, 1 refusal without a conflict, 3 rounds of the barrier |
| `closures` | handles match, each call takes effect once, segments match pointers, retries end | 2 threads, 3 calls each, 3 segments, 2 refusals without a conflict, a locking and an optimistic library |
| `grader` | libraries stay loaded while in use, no wake-up lost, code 0 means all passed and nothing left, main ends | 4 libraries, any overrun or failure, 1 spurious wake-up |
| `sync_examples` | the programs marked correct are; the racing ones fail within bounds; all but `procon2` end | 3 threads, 3 rounds, buffer of 2, 1 spurious wake-up |

**Why the bounds are enough.** The conflicts of `TL2` involve a reader or a
validator and one or two commits, on one word or on two: two transactions on
two words show every pair; beyond that the theorems take over, which have no
bound but `MaxTx` and `MaxOps`, arbitrary numbers (`MaxTx` bounds the transactions that
begin, so that nobody is held up inside `tm_begin`; two commits racing with a
third transaction, the case these bounds leave out, is what `ReadInv` and
`ValidInv` of section 4 are about). `Segments` needs three nodes beside the first to free the
head, the middle and the tail of a list and one more allocation than nodes to
recycle one; the same three for `ReferenceTM`. In `Barrier` and `Measure` a fast, a slow and a middle thread are three,
and a third round meets state that two rounds left behind. A bank with two
accounts per segment has a segment that can be full, partly filled or emptied.
Three calls of `Closures` allocate, free and allocate again, with a conflict or a
refusal at any of them, and three segments leave one to recycle. After one spurious
wake-up `bounded_run` does not wait again, so one is enough. The examples have a
buffer smaller than the rounds, so that slots are reused, and three threads to race;
the bound of `SomeIncrementsSurvive`, two, is the same for every number of rounds
above one.
Every bound is a constant of the module (`MaxTx`, `MaxOps`, `MaxCalls`,
`MaxRounds`, `NbRepeats`, `NbTx`, `MaxRefusals`, `MaxSpurious`, `NbLibraries`, `RUNS`) or the size of a set. Symmetry is used only in runs without
liveness, over threads (and over the segments of `ReferenceTM`), which no
definition tells apart.

**Fairness.** `TL2`: weak fairness of the steps of a call that has
begun; the operating system runs every thread, and the code has no loop that waits
for another thread. Clients are under no obligation to call. `Segments`: the
same. `CounterCheck`, `Measure`: weak fairness of each thread, whose waiting
loops yield the processor (`short_pause`). `CounterCheck` assumes nothing of `Refuse` and `Throw`; refusals without a
conflict are finite, since a library that always refuses is retried for ever, and `ChecksEnd`
excuses an exception, after which the other workers do wait for ever (`Measure_refuted.cfg`).
In `Measure` the time-out is not fair, so
that `measure_sync` shows that `measure` ends without its help. `Closures`: weak
fairness of each thread, but not of a failing `tm_begin`, so that a thread that waits for
the lock of `reference/` is not saved by an error; refusals without a conflict
are finite (`MaxRefusals`), as nothing could end otherwise. `Grader`: main is scheduled, a
time limit it waits for passes, `measure` ends; nothing is assumed of `tm_create` and
`tm_destroy`, which may hang. Examples: weak fairness of each thread. A mutex need
not be fair, and without that `procon2` may not end; the other programs do.

## 4. Proofs

Everything here is proved for every value of the constants: any set of threads, words,
values, segments, workers or libraries, any number of rounds and retries. What is
assumed of them is only what the modules' named ASSUMEs say (sizes are positive, sets of
threads are finite and not empty, `Null` is no node), which TLC evaluates in
each run, and the three hypotheses that are spelled out in the table.

| theorem | module | says | checked by run |
|---|---|---|---|
| `TypeInvariant`, `TypeCorrect` | `TL2Proofs` | types, and every loop index of `tm_end` within its array | `tl2_safety` |
| `LocksAreExclusive` | `TL2Proofs` | `LocksExclusive`: one owner per lock, no leak on any path | `tl2_safety` |
| `NoUpdateIsLost` | `TL2Proofs` | `NoLostUpdate` | `tl2_safety` |
| `VersionsAreUnique` | `TL2Proofs` | `OneWritePerVersion` | `tl2_safety` |
| `VersionsNeverShrink` | `TL2Proofs` | `VersionsGrow`, an action property | `tl2_safety` |
| `ReadsAreSnapshots` | `TL2Proofs` | `SnapshotReads`: opacity of reads | `tl2_safety` |
| `Invariant` | `TL2Proofs` | the whole of `IInv` | `tl2_safety` |
| `Implements` | `TL2Proofs` | `TL2` implements `VersionedTM`, `ImplementsVersionedTM` | `tl2_safety` |
| `ReferenceCurrent` | `ReferenceTMProofs` | `ReadsStayCurrent`: serializability of `reference/` | `reference` |
| `ReferenceList` | `ReferenceTMProofs` | `ListIsLive` | `reference` |
| `ReferenceRefinement` | `ReferenceTMProofs` | `ReferenceTM` implements `VersionedTM` | `reference` |
| `SegmentsType` | `SegmentsProofs` | `TypeOK`, for threads that race | `segments_list` |
| `SegmentsSound` | `SegmentsProofs` | `ListSound`, assuming `Thread = {t}` | `segments_list` |
| `BarrierRefinement` | `CounterCheckProofs` | `Barrier` implements `BarrierSpec` for threads that only call `sync` | |
| `CheckBarrierRefinement` | `CounterCheckProofs` | `ImplementsBarrier`: the same inside `check` | `check` |
| `CheckNoFalseAlarm` | `CounterCheckProofs` | `NoFalseAlarm` of `check` | `check` |
| `MeasurePhases` | `GradingProofs` | `PhasesAligned` | `measure_sync` |
| `MeasureVerdict` | `GradingProofs` | `VerdictIsRight` | `measure_sync` |
| `ClosuresType` | `ClosuresProofs` | `TypeOK`, over any library | `closures` |
| `ClosuresHandles` | `ClosuresProofs` | `HandlesMatch`, over any library | `closures` |
| `ClosuresOnce` | `ClosuresProofs` | `EachCallOnce`, over any library | `closures` |
| `ClosuresSegments` | `ClosuresProofs` | `SegmentsMatchPointers`, assuming `"eager" \notin Libraries` | `closures` |
| `GraderSafe`, `GraderWakes`, `GraderExits` | `GradingProofs` | `LibraryInUse`, `NoWakeUpLost`, `CleanExit` | `grader` |
| `BankMoney` | `BankProofs` | `MoneyConserved`, assuming `Shielded` | `bank` |
| `BankNoAlarm` | `BankProofs` | `NoFalseAlarm` of `init` and `run`, assuming `Shielded` | `bank` |
| `BankPacked` | `BankProofs` | `SegmentsPacked`, assuming `Shielded` | `bank` |
| `CountersExact`, `CountersSurvive` | `SyncExamplesProofs` | `CountIsExact`, `SomeIncrementsSurvive` | `sync_examples` |
| `ElectionsUnique`, `ElectionsElect` | `SyncExamplesProofs` | `OneLeader`, `SomeLeader` | `sync_examples` |
| `SlotsApart`, `ProConRefinement` | `SyncExamplesProofs` | `SlotsNotShared`, `ImplementsQueue` | `sync_examples` |

The three hypotheses are where the property stops to hold of the code: with a second
thread `tm_alloc` and `tm_free` race (run `segments_race`), an eager library leaks
(`Closures_refuted.cfg`), and `alloc_tx` over a memory whose commits need only the words they
write to be current loses money (`Bank_refuted.cfg`). `Shielded` says that there is no
such setup: transfers and sums may run over what `VersionedTM` promises, `alloc_tx` only
over a memory that serializes. Both setups of run `bank` are of this kind. No property in the table is inductive as it stands; what follows is what had to be
added, by component. Each of these invariants was checked by TLC on the run's instance
before it was proved.

**TL2.** `IInv` has four layers, each preserved by every step given the layers
before it.

1. *Locks* (`TypeInv`, `LockInv`). `OwnedIdx(p)` reads off the place in the code
   which entries of its lock array a thread owns. Ownership is disjoint and
   agrees with the mutexes; the holder is the owner, but for the moments between the
   compare-and-swap and the holder store and between the two stores of a release. The last is what
   guarantees that the holder test of `lock_release` never skips a lock.
2. *Versions* (`VersionInv`). A commit that holds its locks found versions
   below the one it drew and leaves its own (`StampInv`); a word's lock version
   bounds the versions of the word, and memory holds the last of them, except
   while it is being copied (`HistInv`). `ValidInv` carries what validation has
   established: no version between the snapshot and the commit on a word that is
   also *written*, because the transaction's own lock protects that and only
   that. Lost updates are excluded by this.
3. *Readers* (`ReadInv`). `NoneOlder(p, w)`: once `p` has seen `w` unlocked, any
   commit that writes `w` drew or will draw a version after `p`'s snapshot. With
   this, the tests after the copy imply that the copy is the value at the
   snapshot, and it remains so while later commits are in progress.
4. *Lists* (`ListInv`). One write-set node per word, what was read is listed,
   and what was written back is in the history. The refinement needs it.

The refinement proof then takes each action: `Stamp` and `Validated` are
`ACommit` or `ATick`, `ReadMax2` is `ARead`, most others stutter.

**ReferenceTM.** `RefInv`: the lock's two sets are the threads that believe to hold
it (`LockHeld`), and memory is the latest version of every word but those the one
writer has written (`MemoryIsLatest`). That all open transactions began at the
present clock (`TxMatches`) makes the snapshot of `VersionedTM` the present state, so
the commit can never be refused. `ListInv` says that links lead from live nodes to live nodes and
back.

**Segments.** `Listed`, what `tm_destroy` would find, is the least set of nodes that holds the first
and is closed under `next`. It is defined by that and not by a
recursion, so that a step is dealt with by naming a closed set: nothing else is
listed. `SegInv` says which link may be wrong at each place of `tm_alloc` and `tm_free`
(`Coherent`), and that a node is no longer listed when it is freed (`Freeing`). It
needs nothing of `tail`, which is why `ListSound` holds although `TailIsLast` does not.

**Barrier, CounterCheck.** `BarrierInv`: `step` is the number of threads between their
`fetch_add` and their `fetch_sub`; the mode tells at which places threads can be; a
thread that is about to switch the mode is alone (`LastAlone`), and all have made the same
number of calls, those that are free to go included (`SameLap`). The threads of `check` do
the same steps (`CheckIsSync`), so the refinement is inherited. `CheckInv` adds that
the number of calls made tells the part of `check` a worker is in, and that the
counter is its first value less the set of decrements committed (`Decrements`, whose
cardinality is what is counted), so that it is zero behind the last barrier.

**Measure.** `MeasureInv`: between phases everything is at rest (`Before`, `AllOver`);
within one `status` tells where each worker may be (`PlacesOfStatus`), `nbready` is the number of those
ready, then of those through (`Counted`), the latest of either half is
alone (`LatestAlone`), and a failure is seen by the latest (`Failures`). It covers
time-outs, exceptions and a thread that does not start: when the master has left, the last
phase stays open and nothing is promised but the alignment.

**Closures.** `ClosuresInv` says in what state the transaction's view of the list is
before each call (`ViewAt`), and when the client's `aborted` and the library's `open` differ
(`HandleInv`). `OnceInv` is about the memory: unless another commit came in between,
a closure leaves the list with one segment more or one less than it found (`Toggles`), so a
commit that succeeds changes it.

**Grader.** `GraderInv` ties what is loaded and what exists to the place of main and
of the runner, and leaves out a creation that main has abandoned.

**Bank.** `BankInv`: before `run` there are two memories, the zeroed one and that with the
accounts opened (`Initialising`); in `run` (`InRun`) the committed memory is `Good`, that is
packed and with its money in order, and so is every snapshot (`Sees`), which differs from
memory at most in words that its transaction has listed as stale. For a commit, what it needs to be current is not stale,
so the memory it writes to agrees with its snapshot there. For a transfer these are
the two accounts (`ShortStays`), and the list must not have moved: without `alloc_tx` no word
of it is ever stale, and with it the memory serializes. For `alloc_tx` it is the counts and
links of the whole list (`AllocStays`), and the parity and account it folds. It remains that the
closures do to one memory what they should: `TransferGood`, `DeleteGood`, `CreateGood`.
These need three kinds of facts. A walk is determined by its memory (`WalksAgree`),
because two that differ differ first at some place; the place is the least element of a set
(`LeastOf`, from the well-foundedness of the naturals), which stands in for induction here and
in `LocateType`. Account ids are found where they should be because the list is packed
(`ListedIs`). A sum is two cardinalities, and changes by the difference when a word is added or
changed (`SumOfOneMore`, `SumOfOneChanged`).

**Examples.** Counting uses the set of pairs of a thread and a round (`Things`).
`CounterIsBounded` has the reason why the racing counters keep two: no thread's
register is zero after its first store. In `Elections`, who is through with a
round has seen a leader; in `ProducerConsumer`, who has passed the test may access
the slot whatever the other did since (`InStep`), and the mapping to the queue takes
`publish` for the enqueue and the dequeue.

**What the proofs changed in the models.** Two choices in `Measure` and `Bank` were
written as CASE with arms that overlap, where TLC takes the first and the provers
may take none: they are disjoint now. A step of `Segments` tested more
nodes for a stray access than the code touches, and `ListSound` had one of its two
conjuncts as a premise. `EachCallOnce` spoke of the sum over threads and says
now the same of each thread, which is stronger. `Bank` had its list and its sums as recursive
functions; it has them as a choice and as cardinalities now, which say the same and can be
reasoned about, and its words as pairs. That it has at least one worker had to be assumed
(`grading.cpp:271` has 16): with none, its `BeginRun` would run before `init`.

**Model-checked only.** Liveness (`CallsReturn`, `FindReturns`, `MeasureEnds`,
`ChecksEnd`, `CallsEnd`, `MainEnds`, `ProgramsEnd`) and anything with ENABLED, which the
prover cannot handle.

## 5. Findings

Each was met while modelling and contradicts a comment of the code.

1. `tl2_skew`: `tm_end` validates version first and lock second; a commit that
   ends in between is missed, and two transactions that each read what
   the other writes both commit. Words read *and* written are safe (proved).
2. `segments_race`: `tm_alloc` has a comment where its lock should be.

More properties that the models refute are kept in configurations outside the
list of runs; `tlc -config <cfg> <module>` prints the behaviour. Where a configuration
names several, TLC stops at the first it refutes: strike out the others to see one.

| configuration | module | property refuted | behind it |
|---|---|---|---|
| `Segments_refuted.cfg` | `MCSegments` | `TailIsLast` | `tm_free` never moves `allocTail`, the "last of the shared memory segments" (`tsm_types.h:86`), off a freed node |
| `Measure_refuted.cfg` | `MCMeasure` | `MeasureEnds` | an exception in `check` leaves the other workers in the barrier, and without a time limit the master waits for ever |
| `Closures_refuted.cfg` | `MCClosures` | `CallsEnd` | over a library that does not take back `tm_free` (`tm.c:399`) an aborted transaction leaves a pointer to a freed segment: every retry reads it, is refused, and starts again |
| `Closures_refuted.cfg` | `MCClosures` | `SegmentsMatchPointers` | over the same library an aborted transaction leaks what it allocated |
| `Closures_refuted.cfg` | `MCClosures` | `NeverTerminates` | `tm_alloc` finds no memory, `~Transaction` commits, the commit fails: a second exception during unwinding |
| `Grader_refuted.cfg` | `MCGrader` | `BoundedRunEnds` | `bounded_run`, "for some bounded time" (`common.hpp:265`), takes a spurious wake-up for the end of the function and joins the runner while holding the lock the runner needs: neither goes on |
| `Grader_refuted.cfg` | `MCGrader` | `NoRunnerCrashes` | an overrun of `tm_create` unloads the library the runner is in, although main knows that it "cannot unload library with running threads" (`grading.cpp:342`) |
| `Grader_refuted.cfg` | `MCGrader` | `FrameOutlives` | the detached runner notifies with the lock and the condition variable of a dead frame |
| `SyncExamples_starve.cfg` | `MCSyncExamples` | `PollingEnds` | `procon2` releases the mutex and takes it again; only a fair mutex would let the other thread in |
| `TL2_garbage.cfg` | `MCTL2` | `EmptySetsAtBegin` | `writeSetSize` is uninitialised in `tm_begin` |
| `Segments_refuted.cfg` | `MCSegments` | `AllocGetsMemory` | `tm_alloc` passes an uninitialised pointer to `posix_memalign` |
| `Segments_refuted.cfg` | `MCSegments` | `NoStrayAccess` | `tm_free` frees at once, while others use the segment |
| `Measure_refuted.cfg` | `MCMeasure` | `RuntimeOfPhase` | the clock is never reset; phase times are running totals |
| `Measure_refuted.cfg` | `MCMeasure` | `ClockStartedFirst` | the clock is started after the workers may go |
| `Bank_refuted.cfg` | `MCBank` | `MoneyConserved` | consequence of 1 for `alloc_tx`: a unit of money is lost |
| `Bank_refuted.cfg` | `MCBank` | `TransfersAsDrawn` | `short_tx` changes its captured ids, and a retry uses them |

The grader as configured does not meet the findings on segments, those over an eager
library and the loss of money, as `prob_alloc = 0` (`grading.cpp:277`).

On the other side: the order version-then-value of the write-back, unsorted
lock acquisition and the skipped validation look wrong and are not, for what
`VersionedTM` promises; `procon4` may send its wake-up after the release of the lock;
a round of an election is never without a leader, however racy; and the bank as shipped cannot detect finding 1
(`bank`), which is why grading does not.

## 6. Not modelled

Allocation failure inside `template/` (`Closures` has it from the caller's side);
weak memory: in `procon3` the producer reads `consumed_until` with a relaxed load, which
the model takes as sequentially consistent, so `SlotsNotShared` says nothing of
what a compiler may do with it; composition of `Segments` with `TL2` (what a free does to
a running transaction is undefined behaviour at the first access, where
`Segments` stops; `Closures` has the consequence for the callers); the arguments of
`main`, what it prints, and the values of its time limits; the tests under `assert_mode`,
which is `false` (`common.hpp:69`). `bloom.c` and `MurmurHash2.c` are vendored and not
called; `cmake-build-debug/` is generated; `submit.py` is network I/O;
`include/` has declarations; `personal_tests.c` is manual tests. `PROJECT.json`
lists them as not modelled.

## 7. Plan

The order in which the project is built; 1 to 10 are done.

1. `TL2`: safety, liveness; `TL2Inv` checked, then proved.
2. `VersionedTM`, `TL2Refines`: checked, then proved.
3. `Segments`.
4. `ReferenceTM`, against the same `VersionedTM`.
5. `BarrierSpec`, `Barrier`, `Measure`.
6. `Bank`, `CounterCheck` over the contracts of 2 and 5; `CounterCheck` over
   `Barrier` itself.
7. `ExampleThreads`, `Counters`, `Elections`, `ProducerConsumer` over `BoundedQueue`.
8. `Closures`.
9. `Grader`.
10. Proofs of all safety properties and of all refinements (section 4).
11. Next: a refinement from `Bank` to `VersionedTM`, which is a contract so far. `Bank` takes its
    steps in the order of versions, while `VersionedTM` lets a commit be installed after a
    transaction with a later snapshot has begun (`ACommit` takes any unused version up to
    the clock), so the mapping has to know commits in advance and needs a prophecy variable.
