-------------------------- MODULE SyncExamplesProofs --------------------------
(***************************************************************************)
(* Proofs about the programs of sync-examples and the playground, for any  *)
(* number of threads and of rounds, and any size of the buffer.            *)
(***************************************************************************)
EXTENDS Counters, Elections, ProducerConsumer, FiniteSetTheorems, SequenceTheorems, TLAPS

(* Counting what each thread has done: f[t] things numbered from 1.         *)

Things(f) == { d \in Thread \X (1 .. RUNS) : d[2] <= f[d[1]] }

LEMMA AllThings ==
    /\ IsFiniteSet(Thread \X (1 .. RUNS))
    /\ Cardinality(Thread \X (1 .. RUNS)) = Increments
    /\ Increments \in Nat
<1>1. IsFiniteSet(1 .. RUNS) /\ Cardinality(1 .. RUNS) = RUNS
  BY RunsAssumption, FS_Interval
<1>2. Cardinality(Thread) \in Nat
  BY ThreadsAssumption, FS_CardinalityType
<1>3. Cardinality(Thread) * RUNS = RUNS * Cardinality(Thread) /\ RUNS * Cardinality(Thread) \in Nat
  BY <1>2, RunsAssumption
<1>4. /\ IsFiniteSet(Thread \X (1 .. RUNS))
      /\ Cardinality(Thread \X (1 .. RUNS)) = Cardinality(Thread) * Cardinality(1 .. RUNS)
  BY <1>1, ThreadsAssumption, FS_Product
<1> QED BY <1>1, <1>3, <1>4 DEF Increments

LEMMA ThingsFinite ==
    ASSUME NEW f
    PROVE  IsFiniteSet(Things(f)) /\ Cardinality(Things(f)) \in 0 .. Increments
<1>1. Things(f) \in SUBSET (Thread \X (1 .. RUNS))
  BY DEF Things
<1> QED BY <1>1, AllThings, FS_Subset, FS_CardinalityType

LEMMA NoThings ==
    ASSUME NEW f, \A t \in Thread : f[t] = 0 PROVE Cardinality(Things(f)) = 0
<1>1. Things(f) = {}
  BY DEF Things
<1> QED BY <1>1, FS_EmptySet

LEMMA EveryThing ==
    ASSUME NEW f, \A t \in Thread : f[t] = RUNS PROVE Cardinality(Things(f)) = Increments
<1>1. Things(f) = Thread \X (1 .. RUNS)
  BY RunsAssumption DEF Things
<1> QED BY <1>1, AllThings

LEMMA OneThingMore ==
    ASSUME NEW f \in [Thread -> 0 .. RUNS], NEW t \in Thread, f[t] < RUNS
    PROVE  Cardinality(Things([f EXCEPT ![t] = @ + 1])) = Cardinality(Things(f)) + 1
<1> DEFINE d == <<t, f[t] + 1>>
           g == [f EXCEPT ![t] = @ + 1]
<1>1. d \in Thread \X (1 .. RUNS) /\ d \notin Things(f)
  BY RunsAssumption DEF Things
<1>2. ASSUME NEW e \in Thread \X (1 .. RUNS)
      PROVE  e[2] <= g[e[1]] <=> e[2] <= f[e[1]] \/ e = d
  BY RunsAssumption
<1>3. Things(g) = Things(f) \cup {d}
  BY <1>1, <1>2 DEF Things
<1>4. Cardinality(Things(g)) = Cardinality(Things(f)) + 1
  BY <1>1, <1>3, ThingsFinite, FS_AddElement
<1> QED BY <1>4
-----------------------------------------------------------------------------
(* Counters.                                                                *)

CounterLabel == {"acquire", "body", "store", "tally", "release", "done"}

CountersType ==
    /\ program \in CounterPrograms
    /\ pc \in [Thread -> CounterLabel]
    /\ round \in [Thread -> 0 .. RUNS]
    /\ owner \in Thread \cup {Nobody}
    /\ counter \in Nat /\ check_counter \in Nat
    /\ local \in [Thread -> Nat]

\* Where a thread may be, by its program and by how far it is.
PlacesOfProgram ==
    \A t \in Thread :
        /\ pc[t] \in {"acquire", "release"} => program = "counter2"
        /\ pc[t] = "store" => program # "counter4"
        /\ pc[t] = "tally" => program = "playground"
        /\ pc[t] = "done" <=> round[t] = RUNS

\* Stores of a thread: one a round, and that of the round it is finishing.
Stores == [t \in Thread |-> round[t] + IF pc[t] \in {"tally", "release"} THEN 1 ELSE 0]

\* counter2: the mutex covers the load and the store, so that what was loaded
\* still holds when it is stored.
MutexCovers ==
    program = "counter2" =>
        \A t \in Thread : /\ pc[t] \in {"body", "store", "release"} <=> owner = t
                          /\ pc[t] = "store" => local[t] = counter

CounterIsStores ==
    program \in {"counter2", "counter4"} => counter = Cardinality(Things(Stores))

\* The racing programs: no value in memory or in a register is above the number
\* of stores; none is below one after a first store, nor below two after a last.
CounterIsBounded ==
    /\ counter <= Cardinality(Things(Stores))
    /\ \A t \in Thread : /\ pc[t] = "store" => local[t] <= Cardinality(Things(Stores))
                         /\ Stores[t] > 0 => counter > 0
                         /\ pc[t] = "store" /\ round[t] > 0 => local[t] > 0
    /\ program # "counter4" /\ RUNS > 1 /\ (\A t \in Thread : Stores[t] = RUNS) => counter >= 2

TallyIsRounds ==
    program = "playground" => check_counter = Cardinality(Things(round))

CountersInv ==
    program \in CounterPrograms =>
        /\ CountersType /\ PlacesOfProgram /\ MutexCovers
        /\ CounterIsStores /\ CounterIsBounded /\ TallyIsRounds

LEMMA StoresType ==
    ASSUME CountersType, PlacesOfProgram PROVE Stores \in [Thread -> 0 .. RUNS]
  BY RunsAssumption DEF CountersType, PlacesOfProgram, Stores

\* The program does not change, so the invariant may be proved of one that runs.
LEMMA CountersInitInv == CInit => CountersInv
<1> SUFFICES ASSUME CInit PROVE CountersInv
  OBVIOUS
<1> USE DEF CInit, StartThreads
<1>1. CountersType /\ PlacesOfProgram /\ MutexCovers
  BY RunsAssumption, ThreadsAssumption
     DEF CountersType, PlacesOfProgram, MutexCovers, CounterLabel, Entry, Locked, Racing,
         CounterPrograms
<1>2. \A t \in Thread : Stores[t] = 0 /\ pc[t] # "store" /\ round[t] = 0
  BY DEF Stores, Entry
<1>3. Cardinality(Things(Stores)) = 0 /\ Cardinality(Things(round)) = 0
  BY <1>2, NoThings
<1>4. CounterIsStores /\ CounterIsBounded /\ TallyIsRounds
  BY <1>2, <1>3, RunsAssumption, ThreadsAssumption DEF CounterIsStores, CounterIsBounded, TallyIsRounds
<1> QED BY <1>1, <1>4 DEF CountersInv

\* A step that stores nothing.
LEMMA NoStore ==
    ASSUME CounterIsStores, CounterIsBounded, Stores' = Stores,
           UNCHANGED <<program, counter>>,
           \A t \in Thread : pc'[t] = "store" =>
               pc[t] = "store" /\ local'[t] = local[t] /\ round'[t] = round[t]
    PROVE  CounterIsStores' /\ CounterIsBounded'
  BY DEF CounterIsStores, CounterIsBounded

LEMMA LoadInv ==
    ASSUME CountersInv, program \in CounterPrograms, NEW t \in Thread, Load(t)
    PROVE  CountersInv'
<1> USE DEF Load, Loaded, At, Goto
<1>a. /\ CountersType /\ PlacesOfProgram /\ MutexCovers
      /\ CounterIsStores /\ CounterIsBounded /\ TallyIsRounds
  BY DEF CountersInv
<1>1. pc' = [pc EXCEPT ![t] = "store"] /\ local' = [local EXCEPT ![t] = counter]
  OBVIOUS
<1>2. CountersType' /\ PlacesOfProgram' /\ MutexCovers'
  BY <1>a, <1>1 DEF CountersType, PlacesOfProgram, MutexCovers, CounterLabel
<1>3. Stores' = Stores
  BY <1>a, <1>1 DEF Stores, CountersType
<1>4. CounterIsStores' /\ TallyIsRounds'
  BY <1>a, <1>3 DEF CounterIsStores, TallyIsRounds
<1>5. CounterIsBounded'
  <2>1. round[t] > 0 => Stores[t] > 0
    BY <1>a DEF Stores, CountersType
  <2> QED BY <2>1, <1>a, <1>1, <1>3 DEF CounterIsBounded, CountersType
<1> QED BY <1>2, <1>4, <1>5 DEF CountersInv

\* A store, by a load and a store or at once: the two ways to count.
LEMMA OneMoreStore ==
    ASSUME CountersType, PlacesOfProgram, NEW t \in Thread, round[t] < RUNS,
           pc[t] \notin {"tally", "release"},
           \A u \in Thread \ {t} : pc'[u] = pc[u] /\ round'[u] = round[u],
           round'[t] + (IF pc'[t] \in {"tally", "release"} THEN 1 ELSE 0) = round[t] + 1
    PROVE  /\ Stores' = [Stores EXCEPT ![t] = @ + 1]
           /\ Stores[t] = round[t]
           /\ Cardinality(Things(Stores')) = Cardinality(Things(Stores)) + 1
<1>1. Stores[t] = round[t] /\ Stores'[t] = round[t] + 1
  BY DEF Stores, CountersType
<1>2. \A u \in Thread \ {t} : Stores'[u] = Stores[u]
  BY DEF Stores
<1>3. Stores' = [Stores EXCEPT ![t] = @ + 1]
  <2>1. Stores' = [u \in Thread |-> Stores'[u]] /\ Stores = [u \in Thread |-> Stores[u]]
    BY DEF Stores
  <2> HIDE DEF Stores
  <2> QED BY <2>1, <1>1, <1>2
<1> QED BY <1>1, <1>3, StoresType, OneThingMore

LEMMA StoreInv ==
    ASSUME CountersInv, program \in CounterPrograms, NEW t \in Thread, Store(t)
    PROVE  CountersInv'
<1> USE DEF Store, At
<1>a. /\ CountersType /\ PlacesOfProgram /\ MutexCovers
      /\ CounterIsStores /\ CounterIsBounded /\ TallyIsRounds
  BY DEF CountersInv
<1> DEFINE next == IF program = "playground" THEN "tally"
                   ELSE IF program = "counter2" THEN "release"
                   ELSE IF round[t] + 1 = RUNS THEN "done" ELSE "body"
<1>b. program \in {"counter1", "counter2", "counter3", "playground"} /\ pc[t] = "store"
  BY <1>a DEF PlacesOfProgram, CounterPrograms, Racing
<1>1. /\ pc' = [pc EXCEPT ![t] = next]
      /\ round' = IF next \in {"tally", "release"} THEN round ELSE [round EXCEPT ![t] = @ + 1]
  BY <1>a, <1>b DEF Goto, Leave, EndRound, Locked, Entry
<1>2. round[t] < RUNS
  BY <1>a, <1>b, RunsAssumption DEF PlacesOfProgram, CountersType
<1>3. CountersType' /\ PlacesOfProgram'
  BY <1>a, <1>b, <1>1, <1>2, RunsAssumption DEF CountersType, PlacesOfProgram, CounterLabel
<1>4. MutexCovers'
  BY <1>a, <1>b, <1>1 DEF MutexCovers, CountersType
<1>5. /\ Stores' = [Stores EXCEPT ![t] = @ + 1] /\ Stores[t] = round[t]
      /\ Cardinality(Things(Stores')) = Cardinality(Things(Stores)) + 1
  BY <1>a, <1>b, <1>1, <1>2, OneMoreStore DEF CountersType
<1>6. CounterIsStores'
  BY <1>a, <1>b, <1>5 DEF CounterIsStores, MutexCovers, CountersType
<1>7. CounterIsBounded'
  <2>1. Cardinality(Things(Stores)) \in Nat /\ Stores \in [Thread -> 0 .. RUNS]
    BY <1>a, ThingsFinite, StoresType, AllThings
  <2>2. /\ counter' = local[t] + 1 /\ local[t] \in Nat
        /\ local[t] <= Cardinality(Things(Stores)) /\ (round[t] > 0 => local[t] > 0)
    BY <1>a, <1>b DEF CounterIsBounded, CountersType
  <2>3. counter' <= Cardinality(Things(Stores'))
    BY <2>1, <2>2, <1>5
  <2>4. \A u \in Thread : pc'[u] = "store" => pc[u] = "store" /\ round'[u] = round[u]
    BY <1>a, <1>b, <1>1 DEF CountersType
  <2>5. \A u \in Thread : /\ pc'[u] = "store" => local'[u] <= Cardinality(Things(Stores'))
                          /\ Stores'[u] > 0 => counter' > 0
                          /\ pc'[u] = "store" /\ round'[u] > 0 => local'[u] > 0
    BY <2>1, <2>2, <2>4, <1>a, <1>5 DEF CounterIsBounded, CountersType
  <2>6. RUNS > 1 /\ Stores'[t] = RUNS => counter' >= 2
    BY <2>1, <2>2, <1>5
  <2> QED BY <2>3, <2>5, <2>6 DEF CounterIsBounded
<1>8. TallyIsRounds'
  BY <1>a, <1>1 DEF TallyIsRounds
<1> QED BY <1>3, <1>4, <1>6, <1>7, <1>8 DEF CountersInv

LEMMA FetchAddInv ==
    ASSUME CountersInv, program \in CounterPrograms, NEW t \in Thread, FetchAdd(t)
    PROVE  CountersInv'
<1> USE DEF FetchAdd, At
<1>a. /\ CountersType /\ PlacesOfProgram /\ MutexCovers
      /\ CounterIsStores /\ CounterIsBounded /\ TallyIsRounds
  BY DEF CountersInv
<1>b. program = "counter4" /\ pc[t] = "body" /\ round[t] < RUNS
  BY <1>a, RunsAssumption DEF PlacesOfProgram, CountersType
<1>1. /\ pc' = [pc EXCEPT ![t] = IF round[t] + 1 = RUNS THEN "done" ELSE "body"]
      /\ round' = [round EXCEPT ![t] = @ + 1]
  BY <1>b DEF Goto, EndRound, Locked, Entry
<1>2. CountersType' /\ PlacesOfProgram' /\ MutexCovers'
  BY <1>a, <1>b, <1>1, RunsAssumption
     DEF CountersType, PlacesOfProgram, MutexCovers, CounterLabel
<1>3. Cardinality(Things(Stores')) = Cardinality(Things(Stores)) + 1
  BY <1>a, <1>b, <1>1, OneMoreStore DEF CountersType
<1>4. Cardinality(Things(Stores)) \in Nat
  BY ThingsFinite, AllThings
<1>5. CounterIsStores'
  BY <1>a, <1>b, <1>3 DEF CounterIsStores
<1>6. CounterIsBounded'
  BY <1>2, <1>a, <1>b, <1>1, <1>3, <1>4 DEF CounterIsBounded, PlacesOfProgram, CountersType
<1>7. TallyIsRounds'
  BY <1>b DEF TallyIsRounds
<1> QED BY <1>2, <1>5, <1>6, <1>7 DEF CountersInv

LEMMA TallyInv ==
    ASSUME CountersInv, program \in CounterPrograms, NEW t \in Thread, Tally(t)
    PROVE  CountersInv'
<1> USE DEF Tally, At
<1>a. /\ CountersType /\ PlacesOfProgram /\ MutexCovers
      /\ CounterIsStores /\ CounterIsBounded /\ TallyIsRounds
  BY DEF CountersInv
<1>b. program = "playground" /\ pc[t] = "tally" /\ round[t] < RUNS
  BY <1>a, RunsAssumption DEF PlacesOfProgram, CountersType
<1>1. /\ pc' = [pc EXCEPT ![t] = IF round[t] + 1 = RUNS THEN "done" ELSE "body"]
      /\ round' = [round EXCEPT ![t] = @ + 1]
  BY <1>b DEF Goto, EndRound, Locked, Entry
<1>2. CountersType' /\ PlacesOfProgram' /\ MutexCovers'
  BY <1>a, <1>b, <1>1, RunsAssumption
     DEF CountersType, PlacesOfProgram, MutexCovers, CounterLabel
<1>3. Stores' = Stores
  BY <1>a, <1>b, <1>1 DEF Stores, CountersType
<1>4. CounterIsStores' /\ CounterIsBounded'
  BY <1>a, <1>b, <1>1, <1>3, NoStore DEF CountersType
<1>5. TallyIsRounds'
  <2>1. round \in [Thread -> 0 .. RUNS]
    BY <1>a DEF CountersType
  <2>2. Cardinality(Things([round EXCEPT ![t] = @ + 1])) = Cardinality(Things(round)) + 1
    BY <2>1, <1>b, OneThingMore
  <2> QED BY <2>2, <1>1, <1>a, <1>b DEF TallyIsRounds
<1> QED BY <1>2, <1>4, <1>5 DEF CountersInv

LEMMA AcquireCountersInv ==
    ASSUME CountersInv, program \in CounterPrograms, NEW t \in Thread, Acquire(t),
           UNCHANGED counterVars
    PROVE  CountersInv'
<1> USE DEF Acquire, At, Goto, lock_acquire, counterVars
<1>a. /\ CountersType /\ PlacesOfProgram /\ MutexCovers
      /\ CounterIsStores /\ CounterIsBounded /\ TallyIsRounds
  BY DEF CountersInv
<1>1. CountersType' /\ PlacesOfProgram' /\ MutexCovers'
  BY <1>a, ThreadsAssumption DEF CountersType, PlacesOfProgram, MutexCovers, CounterLabel
<1>2. Stores' = Stores
  BY <1>a DEF Stores, CountersType
<1>3. CounterIsStores' /\ CounterIsBounded'
  BY <1>a, <1>2, NoStore DEF CountersType
<1>4. TallyIsRounds'
  BY <1>a DEF TallyIsRounds
<1> QED BY <1>1, <1>3, <1>4 DEF CountersInv

LEMMA ReleaseCountersInv ==
    ASSUME CountersInv, program \in CounterPrograms, NEW t \in Thread, Release(t),
           UNCHANGED counterVars
    PROVE  CountersInv'
<1> USE DEF Release, At, Goto, lock_release, counterVars
<1>a. /\ CountersType /\ PlacesOfProgram /\ MutexCovers
      /\ CounterIsStores /\ CounterIsBounded /\ TallyIsRounds
  BY DEF CountersInv
<1>b. program = "counter2" /\ pc[t] = "release" /\ round[t] < RUNS
  BY <1>a, RunsAssumption DEF PlacesOfProgram, CountersType
<1>1. /\ pc' = [pc EXCEPT ![t] = IF round[t] + 1 = RUNS THEN "done" ELSE "acquire"]
      /\ round' = [round EXCEPT ![t] = @ + 1]
  BY <1>b DEF EndRound, Locked, Entry
<1>2. CountersType' /\ PlacesOfProgram' /\ MutexCovers'
  BY <1>a, <1>b, <1>1, RunsAssumption, ThreadsAssumption
     DEF CountersType, PlacesOfProgram, MutexCovers, CounterLabel
<1>3. Stores' = Stores
  BY <1>a, <1>b, <1>1 DEF Stores, CountersType
<1>4. CounterIsStores' /\ CounterIsBounded'
  BY <1>a, <1>b, <1>1, <1>3, NoStore DEF CountersType
<1>5. TallyIsRounds'
  BY <1>b DEF TallyIsRounds
<1> QED BY <1>2, <1>4, <1>5 DEF CountersInv

LEMMA CountersNextInv ==
    CountersInv /\ [CNext]_<<threadVars, counterVars>> => CountersInv'
<1> SUFFICES ASSUME CountersInv, [CNext]_<<threadVars, counterVars>> PROVE CountersInv'
  OBVIOUS
<1>1. CASE CNext
  BY <1>1, LoadInv, StoreInv, TallyInv, FetchAddInv, AcquireCountersInv, ReleaseCountersInv
     DEF CNext, CStep
<1>2. CASE UNCHANGED <<threadVars, counterVars>>
  <2> USE <1>2 DEF threadVars, counterVars
  <2>1. Stores' = Stores
    BY DEF Stores
  <2> QED BY <2>1 DEF CountersInv, CountersType, PlacesOfProgram, MutexCovers, CounterIsStores,
                      CounterIsBounded, TallyIsRounds
<1> QED BY <1>1, <1>2

LEMMA CountersDone ==
    ASSUME CountersInv, program \in CounterPrograms, AllDone
    PROVE  /\ \A t \in Thread : Stores[t] = RUNS
           /\ Cardinality(Things(Stores)) = Increments /\ Cardinality(Things(round)) = Increments
<1>1. \A t \in Thread : pc[t] = "done" /\ round[t] = RUNS
  BY DEF CountersInv, PlacesOfProgram, AllDone
<1>2. \A t \in Thread : Stores[t] = RUNS
  BY <1>1, RunsAssumption DEF Stores
<1> QED BY <1>1, <1>2, EveryThing

\* counter2.c:22 and counter4.c:15, for any number of threads and rounds: a counter
\* behind a lock, or one that is fetched and added to at once, misses nothing.
THEOREM CountersExact == CSpec => []CountIsExact
<1>1. CountersInv => CountIsExact
  BY CountersDone DEF CountersInv, CounterIsStores, CountIsExact, CounterPrograms, Racing
<1> QED BY <1>1, CountersInitInv, CountersNextInv, PTL DEF CSpec

\* The programs without either lose increments, yet at least two survive when
\* every thread makes more than one; the playground's second counter shows how
\* many are lost.
THEOREM CountersSurvive == CSpec => []SomeIncrementsSurvive
<1>1. CountersInv => SomeIncrementsSurvive
  <2> SUFFICES ASSUME CountersInv, program \in Racing, AllDone
               PROVE  /\ counter \in (IF RUNS > 1 THEN 2 ELSE 1) .. Increments
                      /\ program = "playground" => check_counter = Increments
    BY DEF SomeIncrementsSurvive
  <2>1. program \in CounterPrograms /\ program # "counter4"
    BY DEF Racing, CounterPrograms
  <2>2. CountersType /\ CounterIsBounded /\ TallyIsRounds
    BY <2>1 DEF CountersInv
  <2>3. PICK t \in Thread : Stores[t] = RUNS
    BY <2>1, CountersDone, ThreadsAssumption
  <2> QED BY <2>1, <2>2, <2>3, CountersDone, AllThings, RunsAssumption
          DEF CounterIsBounded, TallyIsRounds, CountersType
<1> QED BY <1>1, CountersInitInv, CountersNextInv, PTL DEF CSpec
-----------------------------------------------------------------------------
(* Elections.                                                               *)

ElectionLabel == {"acquire", "body", "claim", "count", "release", "done"}

ElectionsType ==
    /\ program \in ElectionPrograms
    /\ pc \in [Thread -> ElectionLabel]
    /\ round \in [Thread -> 0 .. RUNS]
    /\ owner \in Thread \cup {Nobody}
    /\ leader \in [Round -> Thread \cup {Nobody}]
    /\ nb_leaders \in [Round -> Nat]

PlacesOfElection ==
    \A t \in Thread :
        /\ pc[t] \in {"acquire", "release"} => program = "election2"
        /\ pc[t] = "claim" => program # "election4"
        /\ pc[t] = "done" <=> round[t] = RUNS

\* The threads that lead a round and have not said so yet.
Counting(r) == { t \in Thread : pc[t] = "count" /\ round[t] = r }

\* Those that are through with a round but for the release.
Through(r) == { t \in Thread : round[t] > r \/ (round[t] = r /\ pc[t] = "release") }

\* Nobody leaves a round without a leader, and who leads is or will be counted.
RoundsAreLed ==
    \A r \in Round : /\ Counting(r) \cup Through(r) # {} => leader[r] # Nobody
                     /\ leader[r] # Nobody => nb_leaders[r] >= 1 \/ Counting(r) # {}
                     /\ nb_leaders[r] <= Cardinality(Through(r))

\* election2: what the thread saw under the lock holds until it claims.
MutexKeepsSight ==
    program = "election2" =>
        \A t \in Thread : /\ pc[t] \in {"body", "claim", "count", "release"} <=> owner = t
                          /\ pc[t] = "claim" => leader[round[t]] = Nobody

OneAtATime ==
    program \in {"election2", "election4"} =>
        \A r \in Round :
            /\ nb_leaders[r] <= 1
            /\ nb_leaders[r] = 1 => leader[r] # Nobody /\ Counting(r) = {}
            /\ \A t, u \in Counting(r) : t = u

ElectionsInv ==
    program \in ElectionPrograms =>
        ElectionsType /\ PlacesOfElection /\ RoundsAreLed /\ MutexKeepsSight /\ OneAtATime
LEMMA ThroughFinite ==
    ASSUME NEW r
    PROVE  IsFiniteSet(Through(r)) /\ Cardinality(Through(r)) \in 0 .. Cardinality(Thread)
<1>1. Through(r) \in SUBSET Thread
  BY DEF Through
<1> QED BY <1>1, ThreadsAssumption, FS_Subset, FS_CardinalityType

LEMMA ElectionsInitInv == EInit => ElectionsInv
<1> SUFFICES ASSUME EInit PROVE ElectionsInv
  OBVIOUS
<1> USE DEF EInit, StartThreads
<1>1. ElectionsType /\ PlacesOfElection /\ MutexKeepsSight
  BY RunsAssumption, ThreadsAssumption
     DEF ElectionsType, PlacesOfElection, MutexKeepsSight, ElectionLabel, Entry, Locked, Round,
         ElectionPrograms
<1>2. \A r \in Round : Counting(r) = {} /\ Through(r) = {}
  BY DEF Counting, Through, Round, Entry
<1>3. RoundsAreLed /\ OneAtATime
  BY <1>2, ThroughFinite DEF RoundsAreLed, OneAtATime
<1> QED BY <1>1, <1>3 DEF ElectionsInv

\* A thread that is in a round has one to be in.
LEMMA InRound ==
    ASSUME ElectionsType, PlacesOfElection, NEW t \in Thread, pc[t] # "done"
    PROVE  /\ round[t] \in Round /\ round[t] < RUNS
           /\ leader[round[t]] \in Thread \cup {Nobody} /\ nb_leaders[round[t]] \in Nat
  BY RunsAssumption DEF ElectionsType, PlacesOfElection, Round

\* What the end of a round does to the sets that are counted.
LEMMA Leaving ==
    ASSUME ElectionsType, PlacesOfElection, program \in ElectionPrograms,
           NEW t \in Thread, pc[t] \in {"body", "count"}, Leave(t) \/ (~ Locked /\ EndRound(t)),
           UNCHANGED <<program, owner>>
    PROVE  /\ \A r : Counting(r)' = Counting(r) \ {t}
           /\ \A r \in Round : Through(r)' = IF r = round[t] THEN Through(r) \cup {t}
                                             ELSE Through(r)
           /\ t \notin Through(round[t])
           /\ pc' \in [Thread -> ElectionLabel] /\ round' \in [Thread -> 0 .. RUNS]
           /\ \A u \in Thread \ {t} : pc'[u] = pc[u] /\ round'[u] = round[u]
           /\ pc'[t] # "claim" /\ (program = "election2" => pc'[t] = "release")
           /\ PlacesOfElection'
<1>1. round[t] \in Round /\ round[t] < RUNS
  BY InRound
<1>2. \/ program = "election2" /\ pc' = [pc EXCEPT ![t] = "release"] /\ round' = round
      \/ /\ program # "election2"
         /\ pc' = [pc EXCEPT ![t] = IF round[t] + 1 = RUNS THEN "done" ELSE "body"]
         /\ round' = [round EXCEPT ![t] = @ + 1]
  BY DEF Leave, EndRound, Goto, Locked, Entry, ElectionPrograms
<1>3. \A r : Counting(r)' = Counting(r) \ {t}
  BY <1>2 DEF Counting, ElectionsType
<1>4. \A r \in Round : Through(r)' = IF r = round[t] THEN Through(r) \cup {t} ELSE Through(r)
  BY <1>1, <1>2, RunsAssumption DEF Through, ElectionsType, Round
<1>5. t \notin Through(round[t])
  BY <1>1 DEF Through, Round
<1>6. /\ pc' \in [Thread -> ElectionLabel] /\ round' \in [Thread -> 0 .. RUNS]
      /\ \A u \in Thread \ {t} : pc'[u] = pc[u] /\ round'[u] = round[u]
  BY <1>1, <1>2, RunsAssumption DEF ElectionsType, ElectionLabel, Round
<1>8. pc'[t] # "claim" /\ (program = "election2" => pc'[t] = "release")
  BY <1>2 DEF ElectionsType
<1>7. PlacesOfElection'
  BY <1>1, <1>2, RunsAssumption DEF PlacesOfElection, ElectionsType, Round
<1> QED BY <1>3, <1>4, <1>5, <1>6, <1>7, <1>8

\* A step that touches no round.
LEMMA RoundsUntouched ==
    ASSUME RoundsAreLed, OneAtATime, UNCHANGED <<program, leader, nb_leaders>>,
           \A r \in Round : Counting(r)' = Counting(r) /\ Through(r)' = Through(r)
    PROVE  RoundsAreLed' /\ OneAtATime'
  BY DEF RoundsAreLed, OneAtATime

\* Leaving a round that has a leader, without counting oneself.
LEMMA LeaveLed ==
    ASSUME ElectionsInv, program \in ElectionPrograms, NEW t \in Thread, pc[t] = "body",
           leader[round[t]] # Nobody, Leave(t) \/ (~ Locked /\ EndRound(t)),
           UNCHANGED <<program, owner, leader, nb_leaders>>
    PROVE  ElectionsInv'
<1>a. ElectionsType /\ PlacesOfElection /\ RoundsAreLed /\ MutexKeepsSight /\ OneAtATime
  BY DEF ElectionsInv
<1>r. PICK r0 \in Round : r0 = round[t]
  BY <1>a, InRound
<1>1. /\ \A r \in Round : Counting(r)' = Counting(r)
      /\ \A r \in Round : Through(r)' = IF r = r0 THEN Through(r) \cup {t} ELSE Through(r)
      /\ t \notin Through(r0)
      /\ pc' \in [Thread -> ElectionLabel] /\ round' \in [Thread -> 0 .. RUNS]
      /\ \A u \in Thread \ {t} : pc'[u] = pc[u] /\ round'[u] = round[u]
      /\ pc'[t] # "claim" /\ (program = "election2" => pc'[t] = "release")
      /\ PlacesOfElection'
  <2>1. \A r : t \notin Counting(r)
    BY DEF Counting
  <2>2. \A r : Counting(r)' = Counting(r) \ {t}
    BY <1>a, Leaving
  <2>3. \A r \in Round : Counting(r)' = Counting(r)
    BY <2>1, <2>2
  <2> QED BY <2>3, <1>a, <1>r, Leaving
<1>3. ElectionsType'
  BY <1>a, <1>1 DEF ElectionsType
<1>4. MutexKeepsSight'
  BY <1>a, <1>1 DEF MutexKeepsSight
<1>5. Cardinality(Through(r0)') = Cardinality(Through(r0)) + 1
  BY <1>1, ThroughFinite, FS_AddElement
<1>6. RoundsAreLed'
  <2>1. \A r \in Round : nb_leaders[r] \in Nat /\ Cardinality(Through(r)) \in Nat
    BY <1>a, ThroughFinite DEF ElectionsType
  <2>2. \A r \in Round : nb_leaders[r] <= Cardinality(Through(r)')
    BY <1>a, <1>1, <1>5, <2>1 DEF RoundsAreLed
  <2>3. \A r \in Round : Counting(r)' \cup Through(r)' # {} => leader[r] # Nobody
    BY <1>a, <1>r, <1>1 DEF RoundsAreLed
  <2>4. \A r \in Round : leader[r] # Nobody => nb_leaders[r] >= 1 \/ Counting(r)' # {}
    BY <1>a, <1>r, <1>1 DEF RoundsAreLed
  <2> QED BY <2>2, <2>3, <2>4 DEF RoundsAreLed
<1>7. OneAtATime'
  BY <1>a, <1>1 DEF OneAtATime
<1> QED BY <1>1, <1>3, <1>4, <1>6, <1>7 DEF ElectionsInv

LEMMA LookInv ==
    ASSUME ElectionsInv, program \in ElectionPrograms, NEW t \in Thread, Look(t)
    PROVE  ElectionsInv'
<1>a. ElectionsType /\ PlacesOfElection /\ RoundsAreLed /\ MutexKeepsSight /\ OneAtATime
  BY DEF ElectionsInv
<1> USE DEF Look, At, electionVars
<1>1. CASE leader[round[t]] # Nobody
  BY <1>1, LeaveLed
<1>2. CASE leader[round[t]] = Nobody
  <2>1. pc' = [pc EXCEPT ![t] = "claim"] /\ round' = round
    BY <1>2 DEF Goto
  <2>2. ElectionsType' /\ PlacesOfElection'
    BY <1>a, <2>1 DEF ElectionsType, PlacesOfElection, ElectionLabel
  <2>3. MutexKeepsSight'
    BY <1>a, <1>2, <2>1 DEF MutexKeepsSight, ElectionsType
  <2>4. \A r \in Round : Counting(r)' = Counting(r) /\ Through(r)' = Through(r)
    BY <1>a, <2>1 DEF Counting, Through, ElectionsType
  <2> QED BY <1>a, <2>2, <2>3, <2>4, RoundsUntouched DEF ElectionsInv
<1> QED BY <1>1, <1>2

\* Taking a round, which in the two right programs nobody had taken.
LEMMA TakeLead ==
    ASSUME ElectionsInv, program \in ElectionPrograms, NEW t \in Thread,
           pc[t] \in {"body", "claim"},
           program \in {"election2", "election4"} => leader[round[t]] = Nobody,
           leader' = [leader EXCEPT ![round[t]] = t],
           pc' = [pc EXCEPT ![t] = "count"],
           UNCHANGED <<program, round, owner, nb_leaders>>
    PROVE  ElectionsInv'
<1>a. ElectionsType /\ PlacesOfElection /\ RoundsAreLed /\ MutexKeepsSight /\ OneAtATime
  BY DEF ElectionsInv
<1> DEFINE r0 == round[t]
<1>1. r0 \in Round /\ t # Nobody
  BY <1>a, InRound, ThreadsAssumption
<1>2. \A r \in Round : leader'[r] = IF r = r0 THEN t ELSE leader[r]
  BY <1>a, <1>1 DEF ElectionsType
<1>3. \A r \in Round : /\ Through(r)' = Through(r)
                       /\ Counting(r)' = IF r = r0 THEN Counting(r) \cup {t} ELSE Counting(r)
  BY <1>a DEF Counting, Through, ElectionsType
<1>4. ElectionsType' /\ PlacesOfElection'
  BY <1>a, <1>1 DEF ElectionsType, PlacesOfElection, ElectionLabel
<1>5. MutexKeepsSight'
  BY <1>a, <1>1, <1>2 DEF MutexKeepsSight, ElectionsType
<1>6. RoundsAreLed'
  BY <1>a, <1>1, <1>2, <1>3 DEF RoundsAreLed
<1>7. OneAtATime'
  <2> SUFFICES ASSUME program \in {"election2", "election4"} PROVE OneAtATime'
    BY DEF OneAtATime
  <2>1. nb_leaders[r0] \in Nat /\ nb_leaders[r0] # 1 /\ Counting(r0) = {}
    BY <1>a, <1>1 DEF RoundsAreLed, OneAtATime, ElectionsType
  <2> QED BY <2>1, <1>a, <1>1, <1>2, <1>3 DEF OneAtATime
<1> QED BY <1>4, <1>5, <1>6, <1>7 DEF ElectionsInv

LEMMA ClaimInv ==
    ASSUME ElectionsInv, program \in ElectionPrograms, NEW t \in Thread, Claim(t)
    PROVE  ElectionsInv'
<1>1. program \in {"election2", "election4"} => leader[round[t]] = Nobody
  BY DEF ElectionsInv, PlacesOfElection, MutexKeepsSight, Claim, At
<1> QED BY <1>1, TakeLead DEF Claim, At, Goto, Tid

LEMMA CompareExchangeInv ==
    ASSUME ElectionsInv, program \in ElectionPrograms, NEW t \in Thread, CompareExchange(t)
    PROVE  ElectionsInv'
<1>1. CASE Free(round[t])
  BY <1>1, TakeLead DEF CompareExchange, At, Goto, Free, Tid
<1>2. CASE ~ Free(round[t])
  BY <1>2, LeaveLed DEF CompareExchange, At, Free, Locked
<1> QED BY <1>1, <1>2

LEMMA CountLeaderInv ==
    ASSUME ElectionsInv, program \in ElectionPrograms, NEW t \in Thread, CountLeader(t)
    PROVE  ElectionsInv'
<1>a. ElectionsType /\ PlacesOfElection /\ RoundsAreLed /\ MutexKeepsSight /\ OneAtATime
  BY DEF ElectionsInv
<1>r. PICK r0 \in Round : r0 = round[t]
  BY <1>a, InRound DEF CountLeader, At
<1> USE DEF CountLeader, At
<1>1. /\ \A r : Counting(r)' = Counting(r) \ {t}
      /\ \A r \in Round : Through(r)' = IF r = r0 THEN Through(r) \cup {t} ELSE Through(r)
      /\ t \notin Through(r0)
      /\ pc' \in [Thread -> ElectionLabel] /\ round' \in [Thread -> 0 .. RUNS]
      /\ \A u \in Thread \ {t} : pc'[u] = pc[u] /\ round'[u] = round[u]
      /\ pc'[t] # "claim" /\ (program = "election2" => pc'[t] = "release")
      /\ PlacesOfElection'
  BY <1>a, <1>r, Leaving
<1>2. r0 \in Round /\ nb_leaders[r0] \in Nat /\ t \in Counting(r0)
  BY <1>a, <1>r, InRound DEF Counting
<1>3. \A r \in Round : nb_leaders'[r] = IF r = r0 THEN nb_leaders[r] + 1 ELSE nb_leaders[r]
  BY <1>a, <1>r, <1>2 DEF ElectionsType
<1>4. ElectionsType'
  BY <1>a, <1>1, <1>2, <1>r DEF ElectionsType
<1>5. MutexKeepsSight'
  BY <1>a, <1>1 DEF MutexKeepsSight
<1>6. Cardinality(Through(r0)') = Cardinality(Through(r0)) + 1
  BY <1>1, <1>2, ThroughFinite, FS_AddElement
<1>7. \A r \in Round \ {r0} : Counting(r)' = Counting(r)
  <2>1. \A r \in Round \ {r0} : t \notin Counting(r)
    BY <1>r DEF Counting
  <2> QED BY <2>1, <1>1
<1>8. RoundsAreLed'
  <2>1. \A r \in Round : nb_leaders[r] \in Nat /\ Cardinality(Through(r)) \in Nat
    BY <1>a, ThroughFinite DEF ElectionsType
  <2>2. \A r \in Round : nb_leaders'[r] <= Cardinality(Through(r)')
    BY <1>a, <1>1, <1>3, <1>6, <2>1 DEF RoundsAreLed
  <2>3. \A r \in Round : Counting(r)' \cup Through(r)' # {} => leader[r] # Nobody
    BY <1>a, <1>1, <1>2 DEF RoundsAreLed
  <2>4. \A r \in Round : leader[r] # Nobody => nb_leaders'[r] >= 1 \/ Counting(r)' # {}
    BY <1>a, <1>1, <1>2, <1>3, <1>7, <2>1 DEF RoundsAreLed
  <2> QED BY <2>2, <2>3, <2>4 DEF RoundsAreLed
<1>9. OneAtATime'
  <2> SUFFICES ASSUME program \in {"election2", "election4"} PROVE OneAtATime'
    BY DEF OneAtATime
  <2>1. nb_leaders[r0] = 0 /\ leader[r0] # Nobody
    BY <1>a, <1>2 DEF OneAtATime, RoundsAreLed
  <2>2. Counting(r0)' = {}
    <3>1. \A u \in Counting(r0) : u = t
      BY <1>a, <1>2 DEF OneAtATime
    <3> QED BY <3>1, <1>1
  <2> QED BY <2>1, <2>2, <1>a, <1>1, <1>2, <1>3, <1>7 DEF OneAtATime
<1> QED BY <1>1, <1>4, <1>5, <1>8, <1>9 DEF ElectionsInv

LEMMA AcquireElectionsInv ==
    ASSUME ElectionsInv, program \in ElectionPrograms, NEW t \in Thread, Acquire(t),
           UNCHANGED electionVars
    PROVE  ElectionsInv'
<1> USE DEF Acquire, At, Goto, lock_acquire, electionVars
<1>a. ElectionsType /\ PlacesOfElection /\ RoundsAreLed /\ MutexKeepsSight /\ OneAtATime
  BY DEF ElectionsInv
<1>1. ElectionsType' /\ PlacesOfElection'
  BY <1>a DEF ElectionsType, PlacesOfElection, ElectionLabel
<1>2. MutexKeepsSight'
  BY <1>a, ThreadsAssumption DEF MutexKeepsSight, ElectionsType
<1>3. \A r \in Round : Counting(r)' = Counting(r) /\ Through(r)' = Through(r)
  BY <1>a DEF Counting, Through, ElectionsType
<1> QED BY <1>a, <1>1, <1>2, <1>3, RoundsUntouched DEF ElectionsInv

LEMMA ReleaseElectionsInv ==
    ASSUME ElectionsInv, program \in ElectionPrograms, NEW t \in Thread, Release(t),
           UNCHANGED electionVars
    PROVE  ElectionsInv'
<1> USE DEF Release, At, Goto, lock_release, electionVars
<1>a. ElectionsType /\ PlacesOfElection /\ RoundsAreLed /\ MutexKeepsSight /\ OneAtATime
  BY DEF ElectionsInv
<1>b. program = "election2" /\ pc[t] = "release" /\ round[t] < RUNS
  BY <1>a, InRound DEF PlacesOfElection
<1>1. /\ pc' = [pc EXCEPT ![t] = IF round[t] + 1 = RUNS THEN "done" ELSE "acquire"]
      /\ round' = [round EXCEPT ![t] = @ + 1]
  BY <1>b DEF EndRound, Locked, Entry
<1>2. ElectionsType' /\ PlacesOfElection'
  BY <1>a, <1>b, <1>1, RunsAssumption DEF ElectionsType, PlacesOfElection, ElectionLabel
<1>3. MutexKeepsSight'
  BY <1>a, <1>b, <1>1, ThreadsAssumption DEF MutexKeepsSight, ElectionsType
<1>4. \A r \in Round : Counting(r)' = Counting(r) /\ Through(r)' = Through(r)
  BY <1>a, <1>b, <1>1 DEF Counting, Through, ElectionsType, Round
<1> QED BY <1>a, <1>2, <1>3, <1>4, RoundsUntouched DEF ElectionsInv

LEMMA ElectionsNextInv ==
    ElectionsInv /\ [ENext]_<<threadVars, electionVars>> => ElectionsInv'
<1> SUFFICES ASSUME ElectionsInv, [ENext]_<<threadVars, electionVars>> PROVE ElectionsInv'
  OBVIOUS
<1>1. CASE ENext
  BY <1>1, LookInv, ClaimInv, CompareExchangeInv, CountLeaderInv, AcquireElectionsInv,
     ReleaseElectionsInv DEF ENext, EStep
<1>2. CASE UNCHANGED <<threadVars, electionVars>>
  <2> USE <1>2 DEF threadVars, electionVars
  <2>1. \A r : Counting(r)' = Counting(r) /\ Through(r)' = Through(r)
    BY DEF Counting, Through
  <2> QED BY <2>1 DEF ElectionsInv, ElectionsType, PlacesOfElection, RoundsAreLed,
                      MutexKeepsSight, OneAtATime
<1> QED BY <1>1, <1>2

LEMMA ElectionsDone ==
    ASSUME ElectionsInv, program \in ElectionPrograms, AllDone, NEW r \in Round
    PROVE  leader[r] # Nobody /\ nb_leaders[r] \in 1 .. Cardinality(Thread)
<1>a. ElectionsType /\ PlacesOfElection /\ RoundsAreLed
  BY DEF ElectionsInv
<1>1. \A t \in Thread : pc[t] = "done" /\ round[t] = RUNS
  BY <1>a DEF PlacesOfElection, AllDone
<1>2. Counting(r) = {} /\ Through(r) # {}
  BY <1>1, RunsAssumption, ThreadsAssumption DEF Counting, Through, Round
<1>3. Cardinality(Through(r)) \in 0 .. Cardinality(Thread) /\ Cardinality(Thread) \in Nat
  BY ThroughFinite, ThreadsAssumption, FS_CardinalityType
<1> QED BY <1>a, <1>2, <1>3 DEF RoundsAreLed, ElectionsType

\* election2.c:26 and election4.c:20: at no time has a round two leaders, and in the
\* end it has one.
THEOREM ElectionsUnique == ESpec => []OneLeader
<1>1. ElectionsInv => OneLeader
  <2> SUFFICES ASSUME ElectionsInv, program \in {"election2", "election4"}, NEW r \in Round
               PROVE  nb_leaders[r] <= 1 /\ (AllDone => nb_leaders[r] = 1)
    BY DEF OneLeader
  <2>1. program \in ElectionPrograms
    BY DEF ElectionPrograms
  <2>2. nb_leaders[r] <= 1 /\ nb_leaders[r] \in Nat
    BY <2>1 DEF ElectionsInv, OneAtATime, ElectionsType
  <2>3. AllDone => nb_leaders[r] # 0
    BY <2>1, ElectionsDone
  <2> QED BY <2>2, <2>3
<1> QED BY <1>1, ElectionsInitInv, ElectionsNextInv, PTL DEF ESpec

\* Also the two elections that are wrong elect somebody in every round.
THEOREM ElectionsElect == ESpec => []SomeLeader
<1>1. ElectionsInv => SomeLeader
  BY ElectionsDone DEF SomeLeader
<1> QED BY <1>1, ElectionsInitInv, ElectionsNextInv, PTL DEF ESpec
-----------------------------------------------------------------------------
(* Producer and consumer.                                                   *)

Two == {Producer, Consumer}

ProConLabel == {"acquire", "body", "waiting", "front", "back", "publish",
                "release", "wakeup", "done"}

ProConType ==
    /\ program \in ProConPrograms
    /\ pc \in [Thread -> ProConLabel]
    /\ round \in [Thread -> 0 .. RUNS]
    /\ buffer \in [0 .. BUFFER_SIZE - 1 -> [Half -> Nat]]
    /\ until \in [Two -> Nat]
    /\ consumed \in [0 .. RUNS - 1 -> [Half -> Nat]]

PlacesOfProCon ==
    \A t \in Two :
        /\ pc[t] = "done" <=> round[t] = RUNS
        /\ pc[t] \in {"publish", "release", "wakeup"} => program # "procon1"
        /\ until[t] = IF program = "procon1" THEN 0
                      ELSE IF pc[t] \in {"release", "wakeup"} THEN round[t] + 1
                      ELSE round[t]

\* Who has passed the test may still access the slot, whatever the other did since.
InStep ==
    program # "procon1" =>
        /\ until[Consumer] <= until[Producer]
        /\ until[Producer] <= until[Consumer] + BUFFER_SIZE
        /\ pc[Producer] \in {"front", "back", "publish"} =>
               until[Producer] < until[Consumer] + BUFFER_SIZE
        /\ pc[Consumer] \in {"front", "back", "publish"} => until[Consumer] < until[Producer]

\* What was produced is in the buffer until it was consumed, and then with the consumer.
ItemsWait ==
    \A i \in 0 .. RUNS - 1 : until[Consumer] <= i /\ i < until[Producer] =>
                                 buffer[i % BUFFER_SIZE] = Produced(i)
ItemsTaken ==
    \A i \in 0 .. RUNS - 1 : i < until[Consumer] => consumed[i] = Produced(i)

\* The halves that a thread has copied of its item.
Copied(t) == IF pc[t] = "back" THEN {"front"} ELSE IF pc[t] = "publish" THEN Half ELSE {}

HalvesCopied ==
    /\ \A h \in Copied(Producer) : buffer[Slot(Producer)][h] = Produced(round[Producer])[h]
    /\ \A h \in Copied(Consumer) : consumed[round[Consumer]][h] = Produced(round[Consumer])[h]

ItemsArrive == program # "procon1" => ItemsWait /\ ItemsTaken /\ HalvesCopied

ProConInv ==
    program \in ProConPrograms => ProConType /\ PlacesOfProCon /\ InStep /\ ItemsArrive

LEMMA Times ==
    ASSUME NEW m \in Nat \ {0}, NEW d \in Int
    PROVE  (d >= 1 => m * d >= m) /\ (d <= 0 => m * d <= 0)
<1>1. CASE d >= 1
  <2>1. d - 1 \in Nat /\ m * (d - 1) = m * d - m /\ m * (d - 1) >= 0
    BY <1>1
  <2> QED BY <2>1, <1>1
<1>2. CASE d <= 0
  <2>1. -d \in Nat /\ m * (-d) = -(m * d) /\ m * (-d) >= 0
    BY <1>2
  <2> QED BY <2>1, <1>2
<1> QED BY <1>1, <1>2

LEMMA Divides ==
    ASSUME NEW i \in Nat, NEW m \in Nat \ {0}
    PROVE  i = m * (i \div m) + (i % m) /\ i \div m \in Int /\ i % m \in 0 .. m - 1
  BY SMT

\* A circular buffer of m slots holds m items in a row.
LEMMA SlotsDiffer ==
    ASSUME NEW m \in Nat \ {0}, NEW i \in Nat, NEW j \in Nat, i < j, j < i + m
    PROVE  i % m # j % m
<1> DEFINE d == (j \div m) - (i \div m)
<1> SUFFICES ASSUME i % m = j % m PROVE FALSE
  OBVIOUS
<1>1. d \in Int /\ m * d = m * (j \div m) - m * (i \div m)
  BY Divides
<1>2. m * d = j - i
  BY <1>1, Divides
<1> HIDE DEF d
<1> QED BY <1>1, <1>2, Times

LEMMA ProConInitInv == PInit => ProConInv
<1> SUFFICES ASSUME PInit PROVE ProConInv
  OBVIOUS
<1> USE DEF PInit, StartThreads
<1>1. \A t \in Two : t \in Thread /\ pc[t] = Entry /\ round[t] = 0 /\ until[t] = 0
  BY ProConAssumption DEF Two
<1>2. Entry \in {"acquire", "body"} /\ (program = "procon1" => Entry = "body")
  BY DEF Entry, Locked
<1>3. pc \in [Thread -> ProConLabel]
  BY <1>2 DEF ProConLabel
<1>4. ProConType
  BY <1>3, RunsAssumption, BufferAssumption DEF ProConType, Two, Blank
<1>5. PlacesOfProCon
  BY <1>1, <1>2, RunsAssumption DEF PlacesOfProCon
<1>6. InStep /\ ItemsArrive
  BY <1>1, <1>2, BufferAssumption
     DEF Two, InStep, ItemsArrive, ItemsWait, ItemsTaken, HalvesCopied, Copied
<1> QED BY <1>4, <1>5, <1>6 DEF ProConInv

LEMMA InProCon ==
    ASSUME ProConType, PlacesOfProCon, NEW t \in Two, pc[t] # "done"
    PROVE  /\ t \in Thread /\ round[t] \in 0 .. RUNS - 1 /\ round[t] < RUNS
           /\ Slot(t) \in 0 .. BUFFER_SIZE - 1
           /\ until[t] \in Nat
<1>1. t \in Thread /\ round[t] \in 0 .. RUNS - 1 /\ round[t] < RUNS /\ until[t] \in Nat
  BY RunsAssumption, ProConAssumption DEF ProConType, PlacesOfProCon, Two
<1>2. Slot(t) \in 0 .. BUFFER_SIZE - 1
  BY <1>1, BufferAssumption, Divides DEF Slot
<1> QED BY <1>1, <1>2

\* A step of one thread that copies and publishes nothing.
LEMMA Walk ==
    ASSUME ProConInv, program \in ProConPrograms, NEW t \in Two,
           NEW l, pc' = [pc EXCEPT ![t] = l],
           UNCHANGED <<program, round, buffer, until, consumed>>,
           \/ pc[t] \in {"acquire", "body", "waiting"} /\ l \in {"acquire", "body", "waiting"}
           \/ pc[t] = "body" /\ l = "front" /\ (program = "procon1" \/ MayGo(t))
           \/ pc[t] = "release" /\ l = "wakeup"
    PROVE  ProConInv'
<1>a. ProConType /\ PlacesOfProCon /\ InStep /\ ItemsArrive
  BY DEF ProConInv
<1>b. t \in Thread /\ round[t] < RUNS
  BY <1>a, InProCon
<1>c. \A u \in Two : pc'[u] = IF u = t THEN l ELSE pc[u]
  BY <1>a, <1>b, ProConAssumption DEF Two, ProConType
<1>1. ProConType'
  BY <1>a DEF ProConType, ProConLabel
<1>2. PlacesOfProCon'
  BY <1>a, <1>b, <1>c, RunsAssumption DEF PlacesOfProCon
<1>3. InStep'
  <2>1. CASE l = "front" /\ program # "procon1"
    <3>1. until[t] = round[t] /\ MayGo(t)
      BY <1>a, <2>1 DEF PlacesOfProCon
    <3>2. until[Producer] \in Nat /\ until[Consumer] \in Nat
      BY <1>a DEF ProConType, Two
    <3>3. CASE t = Producer
      BY <3>3, <1>a, <1>c, <2>1, <3>1, <3>2, ProConAssumption DEF InStep, MayGo, Two
    <3>4. CASE t = Consumer
      BY <3>4, <1>a, <1>c, <2>1, <3>1, <3>2, ProConAssumption DEF InStep, MayGo, Two
    <3> QED BY <3>3, <3>4 DEF Two
  <2>2. CASE ~ (l = "front" /\ program # "procon1")
    BY <1>a, <1>c, <2>2 DEF InStep, Two
  <2> QED BY <2>1, <2>2
<1>4. ItemsArrive'
  <2>1. Copied(Producer)' = Copied(Producer) /\ Copied(Consumer)' = Copied(Consumer)
    BY <1>c DEF Copied, Two
  <2> QED BY <1>a, <2>1 DEF ItemsArrive, ItemsWait, ItemsTaken, HalvesCopied, Slot
<1> QED BY <1>1, <1>2, <1>3, <1>4 DEF ProConInv

\* The end of a round whose item was published before.
LEMMA RoundOver ==
    ASSUME ProConInv, program \in ProConPrograms, NEW t \in Two,
           pc[t] \in {"release", "wakeup"}, EndRound(t),
           UNCHANGED <<program, buffer, until, consumed>>
    PROVE  ProConInv'
<1> DEFINE l == IF round[t] + 1 = RUNS THEN "done" ELSE Entry
<1>a. ProConType /\ PlacesOfProCon /\ InStep /\ ItemsArrive
  BY DEF ProConInv
<1>b. t \in Thread /\ round[t] \in 0 .. RUNS - 1 /\ round[t] < RUNS
  BY <1>a, InProCon
<1>c. \A u \in Two : /\ pc'[u] = IF u = t THEN l ELSE pc[u]
                     /\ round'[u] = IF u = t THEN round[u] + 1 ELSE round[u]
  BY <1>a, <1>b, ProConAssumption DEF Two, ProConType, EndRound, Goto
<1>d. Entry \in {"acquire", "body"}
  BY DEF Entry
<1>1. ProConType'
  BY <1>a, <1>b, <1>d, RunsAssumption DEF ProConType, ProConLabel, EndRound, Goto
<1>2. PlacesOfProCon'
  BY <1>a, <1>b, <1>c, <1>d, RunsAssumption DEF PlacesOfProCon
<1>3. InStep'
  BY <1>a, <1>c, <1>d DEF InStep, Two
<1>4. ItemsArrive'
  <2>1. \A u \in Two : Copied(u)' = Copied(u) /\ (Copied(u) # {} => round'[u] = round[u])
    BY <1>c, <1>d DEF Copied
  <2> QED BY <1>a, <2>1 DEF ItemsArrive, ItemsWait, ItemsTaken, HalvesCopied, Slot, Two
<1> QED BY <1>1, <1>2, <1>3, <1>4 DEF ProConInv

LEMMA CopyInv ==
    ASSUME ProConInv, program \in ProConPrograms, NEW t \in Two, NEW h \in Half, Copy(t, h)
    PROVE  ProConInv'
<1> USE DEF Copy, At
<1>a. ProConType /\ PlacesOfProCon /\ InStep /\ ItemsArrive
  BY DEF ProConInv
<1> DEFINE l == IF h = "front" THEN "back"
                ELSE IF program # "procon1" THEN "publish"
                ELSE IF round[t] + 1 = RUNS THEN "done" ELSE "body"
<1>b. /\ t \in Thread /\ round[t] \in 0 .. RUNS - 1 /\ round[t] < RUNS
      /\ Slot(t) \in 0 .. BUFFER_SIZE - 1
  BY <1>a, InProCon DEF Half
<1>1. /\ pc' = [pc EXCEPT ![t] = l]
      /\ round' = IF h = "back" /\ program = "procon1" THEN [round EXCEPT ![t] = @ + 1] ELSE round
  BY DEF EndRound, Goto, Entry, Locked, Half
<1>c. \A u \in Two : pc'[u] = IF u = t THEN l ELSE pc[u]
  BY <1>a, <1>b, <1>1, ProConAssumption DEF Two, ProConType
<1>2. buffer' \in [0 .. BUFFER_SIZE - 1 -> [Half -> Nat]] /\ consumed' \in [0 .. RUNS - 1 -> [Half -> Nat]]
  <2>1. Produced(round[t])[h] \in Nat
    BY <1>b DEF Produced
  <2>2. CASE t = Producer
    <3>1. [buffer[Slot(t)] EXCEPT ![h] = Produced(round[t])[h]] \in [Half -> Nat]
      BY <2>1, <1>a, <1>b DEF ProConType
    <3> QED BY <3>1, <2>2, <1>a, <1>b DEF ProConType
  <2>3. CASE t # Producer
    <3>1. [consumed[round[t]] EXCEPT ![h] = buffer[Slot(t)][h]] \in [Half -> Nat]
      BY <1>a, <1>b DEF ProConType
    <3> QED BY <3>1, <2>3, <1>a, <1>b DEF ProConType
  <2> QED BY <2>2, <2>3
<1>3. ProConType'
  <2>1. pc' \in [Thread -> ProConLabel]
    BY <1>a, <1>1 DEF ProConType, ProConLabel
  <2>2. round' \in [Thread -> 0 .. RUNS]
    BY <1>a, <1>b, <1>1, RunsAssumption DEF ProConType
  <2> QED BY <2>1, <2>2, <1>a, <1>2 DEF ProConType
<1>4. PlacesOfProCon'
  BY <1>a, <1>b, <1>1, <1>c, RunsAssumption, ProConAssumption
     DEF PlacesOfProCon, ProConType, Two, Half
<1>5. InStep'
  BY <1>a, <1>c DEF InStep, Two, Half
<1>6. ItemsArrive'
  <2> SUFFICES ASSUME program # "procon1" PROVE (ItemsWait /\ ItemsTaken /\ HalvesCopied)'
    BY DEF ItemsArrive
  <2>a. /\ ItemsWait /\ ItemsTaken /\ HalvesCopied
        /\ round' = round /\ Slot(Producer)' = Slot(Producer) /\ Slot(Consumer)' = Slot(Consumer)
    BY <1>a, <1>1 DEF ItemsArrive, Slot
  <2>b. Copied(t)' = Copied(t) \cup {h} /\ \A u \in Two \ {t} : Copied(u)' = Copied(u)
    BY <1>c DEF Copied, Half
  <2>1. CASE t = Producer
    <3>1. /\ consumed' = consumed
          /\ \A i \in 0 .. BUFFER_SIZE - 1 : i # Slot(t) => buffer'[i] = buffer[i]
          /\ \A k \in Half : buffer'[Slot(t)][k] = IF k = h THEN Produced(round[t])[h]
                                                            ELSE buffer[Slot(t)][k]
      BY <2>1, <1>a, <1>b DEF ProConType
    <3>2. \A i \in 0 .. RUNS - 1 : until[Consumer] <= i /\ i < until[Producer]
             => i % BUFFER_SIZE # Slot(t) /\ i % BUFFER_SIZE \in 0 .. BUFFER_SIZE - 1
      <4>1. /\ until[t] = round[t] /\ until[t] < until[Consumer] + BUFFER_SIZE
            /\ until[Consumer] \in Nat
        BY <2>1, <1>a DEF PlacesOfProCon, InStep, Half, ProConType, Two
      <4>2. ASSUME NEW i \in 0 .. RUNS - 1, until[Consumer] <= i, i < until[Producer]
            PROVE  /\ i \in Nat /\ round[t] \in Nat /\ BUFFER_SIZE \in Nat \ {0}
                   /\ i < round[t] /\ round[t] < i + BUFFER_SIZE
        BY <2>1, <4>1, <4>2, <1>b, BufferAssumption
      <4> QED BY <4>2, SlotsDiffer, Divides DEF Slot
    <3>3. ItemsWait'
      BY <2>a, <3>1, <3>2 DEF ItemsWait
    <3>4. ItemsTaken'
      BY <2>a, <3>1 DEF ItemsTaken
    <3>5. HalvesCopied'
      <4>1. Consumer \in Two \ {t} /\ Copied(Producer) \subseteq Half
        BY <2>1, ProConAssumption DEF Two, Copied, Half
      <4> QED BY <2>1, <4>1, <2>a, <2>b, <3>1 DEF HalvesCopied
    <3> QED BY <3>3, <3>4, <3>5
  <2>2. CASE t = Consumer
    <3>0. t # Producer
      BY <2>2, ProConAssumption
    <3>1. /\ buffer' = buffer
          /\ \A i \in 0 .. RUNS - 1 : i # round[t] => consumed'[i] = consumed[i]
          /\ \A k \in Half : consumed'[round[t]][k] = IF k = h THEN buffer[Slot(t)][h]
                                                               ELSE consumed[round[t]][k]
      BY <3>0, <1>a, <1>b DEF ProConType
    <3>2. until[t] = round[t] /\ until[t] < until[Producer]
      BY <2>2, <1>a DEF PlacesOfProCon, InStep, Half
    <3>3. ItemsWait'
      BY <2>a, <3>1 DEF ItemsWait
    <3>4. ItemsTaken'
      BY <2>2, <2>a, <3>1, <3>2 DEF ItemsTaken
    <3>5. buffer[Slot(t)] = Produced(round[t])
      BY <2>2, <2>a, <3>2, <1>b DEF ItemsWait, Slot
    <3>6. HalvesCopied'
      <4>1. Producer \in Two \ {t} /\ Copied(Consumer) \subseteq Half
        BY <3>0 DEF Two, Copied, Half
      <4> QED BY <2>2, <4>1, <2>a, <2>b, <3>1, <3>5 DEF HalvesCopied
    <3> QED BY <3>3, <3>4, <3>6
  <2> QED BY <2>1, <2>2 DEF Two
<1> QED BY <1>3, <1>4, <1>5, <1>6 DEF ProConInv

LEMMA PublishInv ==
    ASSUME ProConInv, program \in ProConPrograms, NEW t \in Two, Publish(t)
    PROVE  ProConInv'
<1> USE DEF Publish, At
<1>a. ProConType /\ PlacesOfProCon /\ InStep /\ ItemsArrive
  BY DEF ProConInv
<1> DEFINE l == IF Locked THEN "release" ELSE IF round[t] + 1 = RUNS THEN "done" ELSE "body"
<1>b. /\ t \in Thread /\ round[t] \in 0 .. RUNS - 1 /\ round[t] < RUNS
      /\ Slot(t) \in 0 .. BUFFER_SIZE - 1
  BY <1>a, InProCon
<1>p. program # "procon1" /\ (Locked <=> program # "procon3")
  BY <1>a DEF PlacesOfProCon, Locked, ProConPrograms
<1>1. /\ pc' = [pc EXCEPT ![t] = l]
      /\ round' = IF Locked THEN round ELSE [round EXCEPT ![t] = @ + 1]
  BY DEF Leave, EndRound, Goto, Entry
<1>c. \A u \in Two : pc'[u] = IF u = t THEN l ELSE pc[u]
  BY <1>a, <1>b, <1>1, ProConAssumption DEF Two, ProConType
<1>u. /\ \A u \in Two : until'[u] = IF u = t THEN until[u] + 1 ELSE until[u]
      /\ until[t] = round[t] /\ until[Producer] \in Nat /\ until[Consumer] \in Nat
  BY <1>a, <1>p DEF Two, ProConType, PlacesOfProCon
<1>3. ProConType'
  BY <1>a, <1>b, <1>1, RunsAssumption DEF ProConType, ProConLabel
<1>4. PlacesOfProCon'
  <2>1. \A u \in Two : round'[u] = IF u = t /\ ~ Locked THEN round[u] + 1 ELSE round[u]
    BY <1>a, <1>b, <1>1, ProConAssumption DEF ProConType, Two
  <2> QED BY <2>1, <1>a, <1>b, <1>c, <1>p, <1>u, RunsAssumption DEF PlacesOfProCon
<1>5. InStep'
  <2>1. l \notin {"front", "back", "publish"}
    OBVIOUS
  <2>2. CASE t = Producer
    BY <2>1, <2>2, <1>a, <1>c, <1>p, <1>u, ProConAssumption, BufferAssumption DEF InStep, Two
  <2>3. CASE t = Consumer
    BY <2>1, <2>3, <1>a, <1>c, <1>p, <1>u, ProConAssumption, BufferAssumption DEF InStep, Two
  <2> QED BY <2>2, <2>3 DEF Two
<1>6. ItemsArrive'
  <2>a. ItemsWait /\ ItemsTaken /\ HalvesCopied
    BY <1>a, <1>p DEF ItemsArrive
  <2>b. /\ Copied(t) = Half /\ Copied(t)' = {}
        /\ \A u \in Two \ {t} : Copied(u)' = Copied(u) /\ round'[u] = round[u]
    BY <1>a, <1>1, <1>c DEF Copied, ProConType, Two
  <2>1. HalvesCopied'
    BY <2>a, <2>b DEF HalvesCopied, Two, Slot
  <2>2. ItemsWait' /\ ItemsTaken'
    <3>1. CASE t = Producer
      <4>1. Consumer \in Two /\ Consumer # t
        BY <3>1, ProConAssumption DEF Two
      <4>2. buffer[Slot(t)] = Produced(round[t])
        BY <3>1, <2>a, <2>b, <1>a, <1>b DEF HalvesCopied, ProConType, Produced
      <4>3. \A i \in 0 .. RUNS - 1 : until[Consumer] <= i /\ i < until[t] + 1
               => buffer[i % BUFFER_SIZE] = Produced(i)
        BY <3>1, <4>2, <2>a, <1>u DEF ItemsWait, Slot
      <4> QED BY <3>1, <4>1, <4>3, <2>a, <1>u DEF ItemsWait, ItemsTaken
    <3>2. CASE t = Consumer
      <4>1. Producer \in Two /\ Producer # t
        BY <3>2, ProConAssumption DEF Two
      <4>2. consumed[round[t]] = Produced(round[t])
        BY <3>2, <2>a, <2>b, <1>a, <1>b DEF HalvesCopied, ProConType, Produced
      <4>3. \A i \in 0 .. RUNS - 1 : i < until[t] + 1 => consumed[i] = Produced(i)
        BY <3>2, <4>2, <2>a, <1>u DEF ItemsTaken
      <4> QED BY <3>2, <4>1, <4>3, <2>a, <1>u DEF ItemsWait, ItemsTaken
    <3> QED BY <3>1, <3>2 DEF Two
  <2> QED BY <2>1, <2>2 DEF ItemsArrive
<1> QED BY <1>3, <1>4, <1>5, <1>6 DEF ProConInv

LEMMA ProConNextInv ==
    ProConInv /\ [PNext]_<<threadVars, bufferVars>> => ProConInv'
<1> SUFFICES ASSUME ProConInv, [PNext]_<<threadVars, bufferVars>> PROVE ProConInv'
  OBVIOUS
<1>0. ASSUME UNCHANGED <<program, pc, round, buffer, until, consumed>> PROVE ProConInv'
  BY <1>0 DEF ProConInv, ProConType, PlacesOfProCon, InStep, ItemsArrive, ItemsWait, ItemsTaken,
              HalvesCopied, Copied, Slot
<1>1. ASSUME program \in ProConPrograms, NEW t \in Two, PStep(t) PROVE ProConInv'
  <2>1. CASE Go(t)
    BY <1>1, <2>1, Walk DEF Go, At, Goto, bufferVars
  <2>2. CASE GiveUp(t)
    BY <1>1, <2>2, Walk DEF GiveUp, At, Goto, bufferVars
  <2>3. CASE Wait(t)
    BY <1>1, <2>3, Walk DEF Wait, At, Goto, bufferVars
  <2>4. CASE Resume(t)
    BY <1>1, <2>4, Walk DEF Resume, At, Goto, bufferVars
  <2>5. CASE Unlock(t)
    BY <1>1, <2>5, Walk DEF Unlock, At, Goto, bufferVars
  <2>6. CASE Acquire(t) /\ UNCHANGED bufferVars
    BY <1>1, <2>6, Walk DEF Acquire, At, Goto, bufferVars
  <2>7. CASE WakeUp(t)
    BY <1>1, <2>7, RoundOver DEF WakeUp, At, bufferVars
  <2>8. CASE Release(t) /\ UNCHANGED bufferVars
    BY <1>1, <2>8, RoundOver DEF Release, At, bufferVars
  <2>9. CASE \E h \in Half : Copy(t, h)
    BY <1>1, <2>9, CopyInv
  <2>10. CASE Publish(t)
    BY <1>1, <2>10, PublishInv
  <2> QED BY <1>1, <2>1, <2>2, <2>3, <2>4, <2>5, <2>6, <2>7, <2>8, <2>9, <2>10 DEF PStep
<1>2. ASSUME NEW t \in Two, SpuriousWakeUp(t) PROVE ProConInv'
  BY <1>0, <1>2 DEF SpuriousWakeUp
<1>3. CASE UNCHANGED <<threadVars, bufferVars>>
  BY <1>0, <1>3 DEF threadVars, bufferVars
<1> QED BY <1>1, <1>2, <1>3 DEF PNext, Two

\* procon2, procon3 and procon4 access no slot at the same time from both sides,
\* with or without a lock: the two counters alone keep the threads apart.
THEOREM SlotsApart == PSpec => []SlotsNotShared
<1>1. ProConInv => SlotsNotShared
  <2> SUFFICES ASSUME ProConInv, program \in ProConPrograms, program # "procon1",
                      pc[Producer] \in Half, pc[Consumer] \in Half
               PROVE  Slot(Producer) # Slot(Consumer)
    BY DEF SlotsNotShared, Two
  <2>1. ProConType /\ PlacesOfProCon /\ InStep
    BY DEF ProConInv
  <2>2. /\ until[Producer] = round[Producer] /\ until[Consumer] = round[Consumer]
        /\ until[Producer] \in Nat /\ until[Consumer] \in Nat
    BY <2>1 DEF PlacesOfProCon, ProConType, Two, Half
  <2>3. until[Consumer] < until[Producer] /\ until[Producer] < until[Consumer] + BUFFER_SIZE
    BY <2>1 DEF InStep, Half
  <2> QED BY <2>2, <2>3, SlotsDiffer, BufferAssumption DEF Slot
<1> QED BY <1>1, ProConInitInv, ProConNextInv, PTL DEF PSpec

\* What the queue has seen of a sequence that is written round by round.
LEMMA OneItemMore ==
    ASSUME NEW S, NEW n \in Nat, NEW f, NEW g, NEW x \in S,
           \A i \in 1 .. n : f[i - 1] \in S /\ g[i - 1] = f[i - 1], g[n] = x
    PROVE  [i \in 1 .. n + 1 |-> g[i - 1]] = Append([i \in 1 .. n |-> f[i - 1]], x)
<1> DEFINE s == [i \in 1 .. n |-> f[i - 1]]
<1>1. s \in Seq(S) /\ Len(s) = n
  OBVIOUS
<1> QED BY <1>1

Item == { Produced(r) : r \in 0 .. RUNS - 1 }
ThePut   == [i \in 1 .. until[Producer] |-> Produced(i - 1)]
TheTaken == [i \in 1 .. until[Consumer] |-> consumed[i - 1]]

LEMMA ProConQInit == PInit => Q!QInit
<1> SUFFICES ASSUME PInit PROVE Q!QInit
  OBVIOUS
<1>1. until[Producer] = 0 /\ until[Consumer] = 0
  BY DEF PInit
<1> QED BY <1>1 DEF Q!QInit

\* A step that publishes nothing is none of the queue's, although it may copy.
LEMMA QueueStutters ==
    ASSUME ProConInv, program \in ProConPrograms, until' = until,
           \A i \in 0 .. RUNS - 1 : i < until[Consumer] => consumed'[i] = consumed[i]
    PROVE  UNCHANGED Q!queueVars
<1>1. until[Consumer] \in Nat /\ until[Consumer] <= RUNS
  <2>1. ProConType /\ PlacesOfProCon
    BY DEF ProConInv
  <2>2. Consumer \in Two /\ Consumer \in Thread
    BY ProConAssumption DEF Two
  <2>3. /\ until[Consumer] \in Nat /\ round[Consumer] \in 0 .. RUNS
        /\ pc[Consumer] = "done" <=> round[Consumer] = RUNS
        /\ \/ until[Consumer] = 0 \/ until[Consumer] = round[Consumer]
           \/ until[Consumer] = round[Consumer] + 1 /\ pc[Consumer] # "done"
    BY <2>1, <2>2 DEF ProConType, PlacesOfProCon
  <2> QED BY <2>3, RunsAssumption
<1>2. \A i \in 1 .. until[Consumer] : consumed'[i - 1] = consumed[i - 1]
  BY <1>1, RunsAssumption
<1>3. TheTaken' = TheTaken
  BY <1>2 DEF TheTaken
<1>4. ThePut' = ThePut
  BY DEF ThePut
<1> QED BY <1>3, <1>4 DEF Q!queueVars, ThePut, TheTaken

LEMMA PublishIsQueue ==
    ASSUME ProConInv, program \in ProConPrograms, NEW t \in Two, Publish(t)
    PROVE  Q!QNext
<1>a. ProConType /\ PlacesOfProCon /\ InStep /\ ItemsArrive
  BY DEF ProConInv
<1>b. pc[t] = "publish" /\ program # "procon1" /\ UNCHANGED <<buffer, consumed>>
  BY <1>a DEF Publish, At, PlacesOfProCon
<1>c. /\ until[Producer] \in Nat /\ until[Consumer] \in Nat
      /\ \A u \in Two : until'[u] = IF u = t THEN until[u] + 1 ELSE until[u]
      /\ until[t] = round[t] /\ round[t] \in 0 .. RUNS - 1
  BY <1>a, <1>b, InProCon DEF Two, ProConType, PlacesOfProCon, Publish
<1>d. Len(ThePut) = until[Producer] /\ Len(TheTaken) = until[Consumer]
  BY <1>c DEF ThePut, TheTaken
<1>1. CASE t = Producer
  <2>1. until'[Producer] = until[Producer] + 1 /\ until'[Consumer] = until[Consumer]
    BY <1>1, <1>c, ProConAssumption DEF Two
  <2>2. TheTaken' = TheTaken
    BY <1>b, <2>1 DEF TheTaken
  <2>3. Produced(until[Producer]) \in Item
    BY <1>1, <1>c DEF Item
  <2>4. ThePut' = Append(ThePut, Produced(until[Producer]))
    <3> DEFINE S == { Produced(r) : r \in Nat }
               f == [r \in Nat |-> Produced(r)]
    <3>1. Produced(until[Producer]) \in S /\ \A i \in 1 .. until[Producer] : f[i - 1] \in S
      BY <1>c
    <3>2. f[until[Producer]] = Produced(until[Producer])
      BY <1>c
    <3> HIDE DEF S, f
    <3>3. [i \in 1 .. until[Producer] + 1 |-> f[i - 1]] =
             Append([i \in 1 .. until[Producer] |-> f[i - 1]], Produced(until[Producer]))
      BY <1>c, <3>1, <3>2, OneItemMore
    <3>4. /\ ThePut' = [i \in 1 .. until[Producer] + 1 |-> f[i - 1]]
          /\ ThePut = [i \in 1 .. until[Producer] |-> f[i - 1]]
      BY <1>c, <2>1 DEF ThePut, f
    <3> QED BY <3>3, <3>4
  <2>5. Len(ThePut) < Len(TheTaken) + BUFFER_SIZE
    BY <1>1, <1>a, <1>b, <1>d DEF InStep
  <2>6. Q!Put(Produced(until[Producer]))
    BY <2>2, <2>4, <2>5 DEF Q!Put, ThePut, TheTaken
  <2> QED BY <2>3, <2>6 DEF Q!QNext, Item
<1>2. CASE t = Consumer
  <2>1. until'[Producer] = until[Producer] /\ until'[Consumer] = until[Consumer] + 1
    BY <1>2, <1>c, ProConAssumption DEF Two
  <2>2. ThePut' = ThePut
    BY <2>1 DEF ThePut
  <2>3. until[Consumer] < until[Producer]
    BY <1>2, <1>a, <1>b DEF InStep
  <2>4. ThePut[Len(TheTaken) + 1] = Produced(until[Consumer])
    BY <1>c, <1>d, <2>3 DEF ThePut
  <2>5. \A i \in 0 .. until[Consumer] : consumed[i] = Produced(i) /\ i \in 0 .. RUNS - 1
    <3>1. ItemsTaken /\ HalvesCopied
      BY <1>a, <1>b DEF ItemsArrive
    <3>2. consumed[round[t]] = Produced(round[t])
      BY <1>2, <1>a, <1>b, <1>c, <3>1 DEF HalvesCopied, Copied, ProConType, Produced
    <3>3. \A i \in 0 .. until[Consumer] :
             i \in 0 .. RUNS - 1 /\ (i = round[t] \/ i < until[Consumer])
      BY <1>2, <1>c, RunsAssumption
    <3> QED BY <3>1, <3>2, <3>3 DEF ItemsTaken
  <2>6. TheTaken' = Append(TheTaken, Produced(until[Consumer]))
    <3>1. /\ consumed[until[Consumer]] = Produced(until[Consumer])
          /\ \A i \in 1 .. until[Consumer] : consumed[i - 1] = Produced(i - 1)
      BY <1>c, <2>5
    <3> DEFINE S == { Produced(r) : r \in Nat }
    <3>2. Produced(until[Consumer]) \in S /\ \A i \in 1 .. until[Consumer] : consumed[i - 1] \in S
      BY <1>c, <3>1
    <3> HIDE DEF S
    <3>3. [i \in 1 .. until[Consumer] + 1 |-> consumed[i - 1]] =
             Append([i \in 1 .. until[Consumer] |-> consumed[i - 1]], Produced(until[Consumer]))
      BY <1>c, <3>1, <3>2, OneItemMore
    <3> QED BY <3>3, <2>1, <1>b DEF TheTaken
  <2>7. Len(TheTaken) < Len(ThePut)
    BY <1>d, <2>3
  <2>8. Q!Take
    BY <2>2, <2>4, <2>6, <2>7 DEF Q!Take, ThePut, TheTaken
  <2> QED BY <2>8 DEF Q!QNext
<1> QED BY <1>1, <1>2 DEF Two

LEMMA ProConIsQueue ==
    ProConInv /\ [PNext]_<<threadVars, bufferVars>> => [Q!QNext]_(Q!queueVars)
<1> SUFFICES ASSUME ProConInv, [PNext]_<<threadVars, bufferVars>>
             PROVE  [Q!QNext]_(Q!queueVars)
  OBVIOUS
<1>0. ASSUME UNCHANGED <<until, consumed>> PROVE [Q!QNext]_(Q!queueVars)
  BY <1>0 DEF Q!queueVars
<1>1. ASSUME program \in ProConPrograms, NEW t \in Two, PStep(t) PROVE [Q!QNext]_(Q!queueVars)
  <2>1. CASE Publish(t)
    BY <1>1, <2>1, PublishIsQueue
  <2>2. CASE \E h \in Half : Copy(t, h)
    <3>1. PICK h \in Half : Copy(t, h)
      BY <2>2
    <3>2. \A i \in 0 .. RUNS - 1 : i < until[Consumer] => consumed'[i] = consumed[i]
      <4>a. ProConType /\ PlacesOfProCon
        BY <1>1 DEF ProConInv
      <4>1. CASE t = Producer
        BY <3>1, <4>1 DEF Copy
      <4>2. CASE t = Consumer
        <5>1. until[Consumer] = IF program = "procon1" THEN 0 ELSE round[Consumer]
          BY <3>1, <4>2, <4>a DEF Copy, At, Half, PlacesOfProCon, Two
        <5>2. round[Consumer] \in 0 .. RUNS - 1
          BY <3>1, <4>2, <4>a, InProCon DEF Copy, At, Half
        <5>3. consumed' = [consumed EXCEPT ![round[Consumer]][h] = buffer[Slot(Consumer)][h]]
          BY <3>1, <4>2, ProConAssumption DEF Copy
        <5> QED BY <5>1, <5>2, <5>3, <4>a DEF ProConType
      <4> QED BY <4>1, <4>2 DEF Two
    <3> QED BY <1>1, <3>1, <3>2, QueueStutters DEF Copy
  <2>3. CASE ~ (Publish(t) \/ \E h \in Half : Copy(t, h))
    BY <1>0, <1>1, <2>3 DEF PStep, Go, GiveUp, Wait, Resume, Unlock, WakeUp, Acquire, Release, bufferVars
  <2> QED BY <2>1, <2>2, <2>3
<1>2. ASSUME NEW t \in Two, SpuriousWakeUp(t) PROVE [Q!QNext]_(Q!queueVars)
  BY <1>0, <1>2 DEF SpuriousWakeUp
<1>3. CASE UNCHANGED <<threadVars, bufferVars>>
  BY <1>0, <1>3 DEF bufferVars
<1> QED BY <1>1, <1>2, <1>3 DEF PNext, Two

\* procon2, procon3 and procon4 pass the items on as a queue of BUFFER_SIZE places
\* does: in order, whole, each once.  (procon1, which publishes nothing, stutters.)
THEOREM ProConRefinement == PSpec => ImplementsQueue
<1> QED BY ProConInitInv, ProConNextInv, ProConQInit, ProConIsQueue, PTL
        DEF PSpec, ImplementsQueue, Q!QSpec
=============================================================================
