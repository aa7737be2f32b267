-------------------------- MODULE CounterCheckProofs --------------------------
(***************************************************************************)
(* Proofs about Barrier and CounterCheck, for any number of threads: the   *)
(* counter and the mode of Barrier implement BarrierSpec, for threads that *)
(* do nothing but call sync and for those of WorkloadBank::check; and      *)
(* check raises no alarm over a correct library.                           *)
(***************************************************************************)
EXTENDS CounterCheck, FiniteSetTheorems, TLAPS

(* The inductive invariant of Barrier.                                      *)

Place == {"out", "setLeave", "waitLeave", "leave", "setEnter", "waitEnter"}

BarrierType ==
    /\ step \in Nat
    /\ mode \in {"enter", "leave"}
    /\ place \in [Thread -> Place]
    /\ round \in [Thread -> Nat]

\* The threads that step counts: from their fetch_add to their fetch_sub.
Counted == { p \in Thread : place[p] \in {"setLeave", "waitLeave", "leave"} }

StepCounts == step = Cardinality(Counted)

\* Which places go with which mode.
PlacesOfMode ==
    \A p \in Thread :
        place[p] \in IF mode = "enter" THEN {"out", "setLeave", "waitLeave", "waitEnter"}
                                       ELSE {"waitLeave", "leave", "setEnter", "waitEnter"}

\* A thread that is about to switch the mode is the last one: all the others
\* wait for it.
LastAlone ==
    \A p, q \in Thread : p # q =>
        /\ place[p] = "setLeave" => place[q] = "waitLeave"
        /\ place[p] = "setEnter" => place[q] = "waitEnter"

\* The calls a thread has made, one that it is free to come out of included.
Lap(p) == round[p] + IF mode = "enter" /\ place[p] = "waitEnter" THEN 1 ELSE 0

SameLap == \A p, q \in Thread : Lap(p) = Lap(q)

BarrierInv == BarrierType /\ StepCounts /\ PlacesOfMode /\ LastAlone /\ SameLap
-----------------------------------------------------------------------------
(* Counting.                                                                *)

LEMMA CountedFinite ==
    /\ IsFiniteSet(Counted) /\ Cardinality(Counted) \in Nat
    /\ cardinal \in Nat /\ Cardinality(Counted) <= cardinal
    /\ Cardinality(Counted) = cardinal => Counted = Thread
    /\ Cardinality(Counted) = 0 <=> Counted = {}
<1>1. Counted \in SUBSET Thread /\ IsFiniteSet(Thread)
  BY ThreadAssumption DEF Counted
<1> QED BY <1>1, FS_Subset, FS_CardinalityType, FS_EmptySet DEF cardinal

\* A thread that joins or leaves those counted changes their number by one.
LEMMA CountOneMore ==
    ASSUME NEW p \in Thread, p \notin Counted, Counted' = Counted \cup {p}
    PROVE  Cardinality(Counted)' = Cardinality(Counted) + 1
  BY CountedFinite, FS_AddElement

LEMMA CountOneLess ==
    ASSUME NEW p \in Thread, p \in Counted, Counted' = Counted \ {p}
    PROVE  Cardinality(Counted)' = Cardinality(Counted) - 1
  BY CountedFinite, FS_RemoveElement

LEMMA AllCounted ==
    ASSUME StepCounts, NEW p \in Thread, p \notin Counted, step + 1 = cardinal
    PROVE  \A q \in Thread \ {p} : q \in Counted
<1>1. IsFiniteSet(Counted \cup {p}) /\ Cardinality(Counted \cup {p}) = cardinal
  BY CountedFinite, FS_AddElement DEF StepCounts
<1>2. Counted \cup {p} \in SUBSET Thread /\ IsFiniteSet(Thread)
  BY ThreadAssumption DEF Counted
<1>3. Counted \cup {p} = Thread
  BY <1>1, <1>2, FS_Subset DEF cardinal
<1> QED BY <1>3

LEMMA NoneCounted ==
    ASSUME StepCounts, NEW p \in Thread, p \in Counted, step - 1 = 0
    PROVE  \A q \in Thread \ {p} : q \notin Counted
<1>1. IsFiniteSet(Counted \ {p}) /\ Cardinality(Counted \ {p}) = 0
  BY CountedFinite, FS_RemoveElement DEF StepCounts
<1> QED BY <1>1, FS_EmptySet
-----------------------------------------------------------------------------
(* Barrier: the invariant is inductive.                                     *)

LEMMA BarrierInitInv == BarrierInit => BarrierInv
<1> SUFFICES ASSUME BarrierInit PROVE BarrierInv
  OBVIOUS
<1>1. Counted = {}
  BY DEF BarrierInit, Counted
<1>2. StepCounts
  BY <1>1, FS_EmptySet DEF StepCounts, BarrierInit
<1> QED BY <1>2 DEF BarrierInit, BarrierInv, BarrierType, Place, PlacesOfMode, LastAlone,
                    SameLap, Lap

LEMMA EnterInv ==
    ASSUME BarrierInv, NEW p \in Thread, Enter(p) PROVE BarrierInv'
<1> USE DEF BarrierInv, Enter, Move
<1>1. BarrierType'
  BY DEF BarrierType, Place
<1>2. p \notin Counted /\ Counted' = Counted \cup {p}
  BY DEF BarrierType, Counted
<1>3. StepCounts'
  BY <1>2, CountOneMore, CountedFinite DEF StepCounts
<1>4. mode = "enter" /\ PlacesOfMode'
  BY DEF BarrierType, PlacesOfMode
<1>5. place'[p] = "setLeave" => \A q \in Thread \ {p} : place[q] = "waitLeave"
  <2> SUFFICES ASSUME place'[p] = "setLeave", NEW q \in Thread, q # p
               PROVE  place[q] = "waitLeave"
    OBVIOUS
  <2>1. step + 1 = cardinal
    BY DEF BarrierType
  <2>2. q \in Counted
    BY <2>1, <1>2, AllCounted
  <2>3. place[q] # "setLeave" /\ place[q] # "leave"
    BY <1>4 DEF LastAlone, PlacesOfMode, BarrierType
  <2> QED BY <2>2, <2>3 DEF Counted
<1>6. \A q \in Thread \ {p} : place[q] # "setLeave" /\ place[q] # "setEnter"
  BY <1>4 DEF LastAlone, PlacesOfMode
<1>7. LastAlone'
  BY <1>5, <1>6 DEF LastAlone, BarrierType
<1>8. SameLap'
  BY <1>4 DEF SameLap, Lap, BarrierType
<1> QED BY <1>1, <1>3, <1>4, <1>7, <1>8

LEMMA SetLeaveInv ==
    ASSUME BarrierInv, NEW p \in Thread, SetLeave(p) PROVE BarrierInv'
<1> USE DEF BarrierInv, SetLeave, Move
<1>1. BarrierType'
  BY DEF BarrierType, Place
<1>2. Counted' = Counted
  BY DEF BarrierType, Counted
<1>3. StepCounts'
  BY <1>2 DEF StepCounts
<1>4. \A q \in Thread \ {p} : place[q] = "waitLeave"
  BY DEF LastAlone
<1>5. PlacesOfMode' /\ LastAlone' /\ SameLap'
  BY <1>4 DEF PlacesOfMode, LastAlone, SameLap, Lap, BarrierType
<1> QED BY <1>1, <1>3, <1>5

LEMMA WaitLeaveInv ==
    ASSUME BarrierInv, NEW p \in Thread, WaitLeave(p) PROVE BarrierInv'
<1> USE DEF BarrierInv, WaitLeave, Move
<1>1. BarrierType'
  BY DEF BarrierType, Place
<1>2. Counted' = Counted
  BY DEF BarrierType, Counted
<1>3. StepCounts'
  BY <1>2 DEF StepCounts
<1>4. PlacesOfMode' /\ LastAlone' /\ SameLap'
  BY DEF PlacesOfMode, LastAlone, SameLap, Lap, BarrierType
<1> QED BY <1>1, <1>3, <1>4

LEMMA LeaveInv ==
    ASSUME BarrierInv, NEW p \in Thread, Leave(p) PROVE BarrierInv'
<1> USE DEF BarrierInv, Leave, Move, LastOut
<1>1. p \in Counted /\ Counted' = Counted \ {p}
  BY DEF BarrierType, Counted
<1>2. BarrierType' /\ StepCounts'
  <2>1. Counted # {}
    BY <1>1
  <2>2. step - 1 \in Nat
    BY <2>1, CountedFinite DEF StepCounts, BarrierType
  <2> QED BY <1>1, <2>2, CountOneLess, CountedFinite DEF StepCounts, BarrierType, Place
<1>3. mode = "leave" /\ PlacesOfMode'
  BY DEF BarrierType, PlacesOfMode
<1>4. place'[p] = "setEnter" => \A q \in Thread \ {p} : place[q] = "waitEnter"
  <2> SUFFICES ASSUME place'[p] = "setEnter", NEW q \in Thread, q # p
               PROVE  place[q] = "waitEnter"
    OBVIOUS
  <2>1. step - 1 = 0
    BY DEF BarrierType
  <2>2. q \notin Counted
    BY <2>1, <1>1, NoneCounted
  <2>3. place[q] # "setEnter"
    BY DEF LastAlone, BarrierType
  <2> QED BY <2>2, <2>3, <1>3 DEF Counted, PlacesOfMode
<1>5. \A q \in Thread \ {p} : place[q] # "setLeave" /\ place[q] # "setEnter"
  BY <1>3 DEF LastAlone, PlacesOfMode
<1>6. LastAlone'
  BY <1>4, <1>5 DEF LastAlone, BarrierType
<1>7. SameLap'
  BY <1>3 DEF SameLap, Lap, BarrierType
<1> QED BY <1>2, <1>3, <1>6, <1>7

LEMMA SetEnterInv ==
    ASSUME BarrierInv, NEW p \in Thread, SetEnter(p) PROVE BarrierInv'
<1> USE DEF BarrierInv, SetEnter, Move
<1>1. BarrierType'
  BY DEF BarrierType, Place
<1>2. Counted' = Counted
  BY DEF BarrierType, Counted
<1>3. StepCounts'
  BY <1>2 DEF StepCounts
<1>4. mode = "leave" /\ \A q \in Thread \ {p} : place[q] = "waitEnter"
  BY DEF LastAlone, PlacesOfMode, BarrierType
<1>5. PlacesOfMode' /\ LastAlone'
  BY <1>4 DEF PlacesOfMode, LastAlone, BarrierType
<1>6. \A q \in Thread : Lap(q)' = Lap(q) + 1
  BY <1>4 DEF Lap, BarrierType
<1>7. SameLap'
  BY <1>6 DEF SameLap
<1> QED BY <1>1, <1>3, <1>5, <1>7

LEMMA WaitEnterInv ==
    ASSUME BarrierInv, NEW p \in Thread, WaitEnter(p) PROVE BarrierInv'
<1> USE DEF BarrierInv, WaitEnter, Move, CanGo
<1>1. BarrierType'
  BY DEF BarrierType, Place
<1>2. Counted' = Counted
  BY DEF BarrierType, Counted
<1>3. StepCounts'
  BY <1>2 DEF StepCounts
<1>4. PlacesOfMode' /\ LastAlone'
  BY DEF PlacesOfMode, LastAlone, BarrierType
<1>5. \A q \in Thread : Lap(q)' = Lap(q)
  BY DEF Lap, BarrierType
<1>6. SameLap'
  BY <1>5 DEF SameLap
<1> QED BY <1>1, <1>3, <1>4, <1>6

LEMMA BarrierStepInv ==
    ASSUME BarrierInv, NEW p \in Thread, BarrierStep(p) PROVE BarrierInv'
  BY EnterInv, SetLeaveInv, WaitLeaveInv, LeaveInv, SetEnterInv, WaitEnterInv DEF BarrierStep

LEMMA BarrierStutterInv ==
    ASSUME BarrierInv, UNCHANGED barrierVars PROVE BarrierInv'
<1>1. Counted' = Counted
  BY DEF barrierVars, Counted
<1> QED BY <1>1 DEF barrierVars, BarrierInv, BarrierType, StepCounts, PlacesOfMode, LastAlone,
                    SameLap, Lap

\* Any program whose threads do nothing to the barrier but call sync keeps
\* the invariant of grading/common.hpp:290: the counter is the number of
\* threads in the half that is under way, the last of a half is alone, and no
\* thread is a call ahead of another.
THEOREM BarrierInvariant == SyncSpec => []BarrierInv
<1>1. BarrierInv /\ [BarrierNext]_barrierVars => BarrierInv'
  BY BarrierStepInv, BarrierStutterInv DEF BarrierNext
<1> QED BY <1>1, BarrierInitInv, PTL DEF SyncSpec
-----------------------------------------------------------------------------
(* Barrier implements BarrierSpec.  A thread arrives with its fetch_add and *)
(* departs with the last access of the call; the rest are stutters.         *)

Inside == { p \in Thread : place[p] # "out" }

LEMMA ArriveRefines ==
    ASSUME BarrierInv, NEW p \in Thread, Enter(p) PROVE Promise!Arrive(p)
<1> USE DEF BarrierInv, BarrierType, Enter, Move
<1>1. p \notin Inside /\ Inside' = Inside \cup {p}
  BY DEF Inside
<1> QED BY <1>1 DEF Promise!Arrive, Inside

LEMMA InsideStutters ==
    ASSUME BarrierInv, NEW p \in Thread,
           SetLeave(p) \/ WaitLeave(p) \/ Leave(p)
    PROVE  UNCHANGED Promise!bvars
<1> USE DEF BarrierInv, BarrierType, SetLeave, WaitLeave, Leave, Move
<1>1. Inside' = Inside /\ round' = round
  BY DEF Inside
<1> QED BY <1>1 DEF Promise!bvars, Inside

\* Everybody is in the call that the last access lets a thread out of: when the
\* mode is switched back all the others stand behind it; later each of them is
\* still there or a call further.
LEMMA AllArrived ==
    ASSUME BarrierInv, NEW p \in Thread, SetEnter(p) \/ WaitEnter(p), NEW q \in Thread
    PROVE  Promise!Arrived(q, p)
<1> USE DEF BarrierInv, BarrierType, SetEnter, WaitEnter, CanGo, Move
<1>1. Lap(p) = Lap(q)
  BY DEF SameLap
<1>2. CASE SetEnter(p)
  <2>1. mode = "leave" /\ place[q] # "out"
    BY <1>2 DEF LastAlone, PlacesOfMode
  <2>2. round[q] = round[p]
    BY <1>1, <2>1 DEF Lap
  <2> QED BY <2>1, <2>2 DEF Promise!Arrived
<1>3. CASE WaitEnter(p)
  <2>1. round[p] + 1 = round[q] + IF place[q] = "waitEnter" THEN 1 ELSE 0
    BY <1>1, <1>3 DEF Lap
  <2> QED BY <2>1 DEF Promise!Arrived
<1> QED BY <1>2, <1>3

LEMMA DepartRefines ==
    ASSUME BarrierInv, NEW p \in Thread, SetEnter(p) \/ WaitEnter(p)
    PROVE  Promise!Depart(p)
<1> USE DEF BarrierInv, BarrierType, SetEnter, WaitEnter, CanGo, Move
<1>1. p \in Inside /\ Inside' = Inside \ {p}
  BY DEF Inside
<1>2. round' = [round EXCEPT ![p] = @ + 1]
  OBVIOUS
<1>3. \A q \in Thread : Promise!Arrived(q, p)
  BY AllArrived
<1> QED BY <1>1, <1>2, <1>3 DEF Promise!Depart, Inside

LEMMA BarrierStepRefines ==
    ASSUME BarrierInv, NEW p \in Thread, BarrierStep(p)
    PROVE  Promise!BNext \/ UNCHANGED Promise!bvars
<1>1. CASE Enter(p)
  BY <1>1, ArriveRefines DEF Promise!BNext
<1>2. CASE SetLeave(p) \/ WaitLeave(p) \/ Leave(p)
  BY <1>2, InsideStutters
<1>3. CASE SetEnter(p) \/ WaitEnter(p)
  BY <1>3, DepartRefines DEF Promise!BNext
<1> QED BY <1>1, <1>2, <1>3 DEF BarrierStep

\* common.hpp:290, for any finite number of threads and any number of calls: no
\* call of sync returns before every thread is in the call of that round.
THEOREM BarrierRefinement == SyncSpec => ImplementsBarrier
<1>1. BarrierInit => Promise!BInit
  BY DEF BarrierInit, Promise!BInit
<1>2. BarrierInv /\ [BarrierNext]_barrierVars => [Promise!BNext]_Promise!bvars
  <2> SUFFICES ASSUME BarrierInv, [BarrierNext]_barrierVars
               PROVE  Promise!BNext \/ UNCHANGED Promise!bvars
    OBVIOUS
  <2>1. CASE UNCHANGED barrierVars
    BY <2>1 DEF barrierVars, Promise!bvars
  <2>2. CASE BarrierNext
    BY <2>2, BarrierStepRefines DEF BarrierNext
  <2> QED BY <2>1, <2>2
<1> QED BY <1>1, <1>2, BarrierInvariant, PTL DEF SyncSpec, ImplementsBarrier, Promise!BSpec
-----------------------------------------------------------------------------
(* CounterCheck: what its threads do to the barrier is what Barrier allows. *)

LEMMA StepSyncs ==
    ASSUME NEW w \in Thread, Step(w) \/ Refuse(w) \/ Throw(w)
    PROVE  [BarrierStep(w)]_barrierVars
<1>1. CASE Sync(w) \/ Synced(w)
  BY <1>1 DEF Sync, Synced, BarrierStep
<1>2. CASE InitWrite(w) \/ InitRead(w) \/ Fetch(w)
  BY <1>2 DEF InitWrite, InitRead, Fetch
<1>3. CASE Begin(w) \/ Commit(w) \/ FinalRead(w)
  BY <1>3 DEF Begin, Commit, FinalRead
<1>4. CASE Refuse(w) \/ Throw(w)
  BY <1>4 DEF Refuse, Throw
<1> QED BY <1>1, <1>2, <1>3, <1>4 DEF Step

LEMMA CheckIsSync == Spec => SyncSpec
<1>1. Init => BarrierInit
  BY DEF Init
<1>2. [Next]_vars => [BarrierNext]_barrierVars
  BY StepSyncs DEF Next, BarrierNext, vars
<1> QED BY <1>1, <1>2, PTL DEF Spec, SyncSpec

\* The barrier of WorkloadBank::check, with the code of workload.hpp between its
\* calls and the early returns of a broken library, keeps its promise.
THEOREM CheckBarrierRefinement == Spec => ImplementsBarrier
  BY CheckIsSync, BarrierRefinement

(* The inductive invariant of CounterCheck over a correct library.          *)

Label == {"arrive", "init", "initcheck", "fetch", "begin", "commit", "final", "correct", "error",
          "thrown"}

CheckType ==
    /\ library \in Libraries
    /\ counter \in Nat
    /\ pc \in [Thread -> Label]
    /\ more \in [Thread -> Int]
    /\ done \in [Thread -> 0 .. NbTx]
    /\ last \in [Thread -> Nat] /\ value \in [Thread -> Nat]

\* The decrements that have been committed, each worker's numbered from 1.
Decrements == { d \in Thread \X (1 .. NbTx) : d[2] <= done[d[1]] }

\* A worker is inside sync only while check calls it, and the part of check it
\* is in goes with the number of its calls.
PartOfRound ==
    \A w \in Thread :
        /\ place[w] # "out" => pc[w] = "arrive"
        /\ pc[w] = "arrive" => round[w] <= 2
        /\ pc[w] \in {"init", "initcheck"} => w = First /\ round[w] = 1
        /\ pc[w] \in {"fetch", "begin", "commit"} => round[w] = 2
        /\ pc[w] = "final" => w = First
        /\ pc[w] \in {"final", "correct"} => round[w] = 3
        /\ done[w] > 0 => round[w] >= 2
        /\ round[w] = 2 /\ pc[w] = "arrive" => done[w] = NbTx
        /\ round[w] = 3 => done[w] = NbTx
        /\ pc[w] \in {"begin", "commit"} => done[w] < NbTx

\* The first worker has stored the initial value.
Initialized == \/ round[First] >= 2
               \/ round[First] = 1 /\ pc[First] \in {"initcheck", "arrive"}

\* From then on the counter is what the decrements have left of it.
CounterIsLeft == Initialized => counter = InitCounter - Cardinality(Decrements)

\* What a worker remembers is at least what the counter holds.
RemembersMore ==
    \A w \in Thread :
        /\ pc[w] \in {"begin", "commit"} => counter <= last[w]
        /\ pc[w] = "commit" => value[w] <= last[w]

CheckInv ==
    library = "correct" =>
        CheckType /\ NoFalseAlarm /\ PartOfRound /\ CounterIsLeft /\ RemembersMore
-----------------------------------------------------------------------------
(* Counting the decrements.                                                 *)

LEMMA InitCounterType == InitCounter \in Nat /\ IsFiniteSet(Thread)
  BY ThreadAssumption, NbTxAssumption, FS_CardinalityType DEF InitCounter

LEMMA AllDecrements ==
    /\ IsFiniteSet(Thread \X (1 .. NbTx))
    /\ Cardinality(Thread \X (1 .. NbTx)) = InitCounter
<1>1. IsFiniteSet(1 .. NbTx) /\ Cardinality(1 .. NbTx) = NbTx
  BY NbTxAssumption, FS_Interval
<1>2. Cardinality(Thread) \in Nat
  BY ThreadAssumption, FS_CardinalityType
<1>3. Cardinality(Thread) * NbTx = NbTx * Cardinality(Thread)
  BY <1>2, NbTxAssumption
<1>4. /\ IsFiniteSet(Thread \X (1 .. NbTx))
      /\ Cardinality(Thread \X (1 .. NbTx)) = Cardinality(Thread) * Cardinality(1 .. NbTx)
  BY <1>1, ThreadAssumption, FS_Product
<1> QED BY <1>1, <1>3, <1>4 DEF InitCounter

LEMMA DecrementsFinite ==
    /\ IsFiniteSet(Decrements) /\ Cardinality(Decrements) \in Nat
    /\ Cardinality(Decrements) <= InitCounter
    /\ Cardinality(Decrements) = InitCounter => Decrements = Thread \X (1 .. NbTx)
<1>1. Decrements \in SUBSET (Thread \X (1 .. NbTx))
  BY DEF Decrements
<1> QED BY <1>1, AllDecrements, FS_Subset, FS_CardinalityType

LEMMA NoDecrements ==
    ASSUME CheckType, \A w \in Thread : done[w] = 0 PROVE Cardinality(Decrements) = 0
<1>1. Decrements = {}
  BY DEF Decrements
<1> QED BY <1>1, FS_EmptySet

LEMMA EveryDecrement ==
    ASSUME CheckType, \A w \in Thread : done[w] = NbTx
    PROVE  Cardinality(Decrements) = InitCounter
<1>1. Decrements = Thread \X (1 .. NbTx)
  BY NbTxAssumption DEF Decrements
<1> QED BY <1>1, AllDecrements

LEMMA SomeDecrementLeft ==
    ASSUME CheckType, NEW w \in Thread, done[w] < NbTx
    PROVE  Cardinality(Decrements) < InitCounter
<1>1. <<w, NbTx>> \in Thread \X (1 .. NbTx) /\ <<w, NbTx>> \notin Decrements
  BY NbTxAssumption DEF CheckType, Decrements
<1> QED BY <1>1, DecrementsFinite, InitCounterType

LEMMA OneDecrementMore ==
    ASSUME CheckType, NEW w \in Thread, done[w] < NbTx, done' = [done EXCEPT ![w] = @ + 1]
    PROVE  Cardinality(Decrements)' = Cardinality(Decrements) + 1
<1> DEFINE d == <<w, done[w] + 1>>
<1>1. d \in Thread \X (1 .. NbTx) /\ d \notin Decrements
  BY NbTxAssumption DEF CheckType, Decrements
<1>2. ASSUME NEW e \in Thread \X (1 .. NbTx)
      PROVE  e[2] <= done'[e[1]] <=> e[2] <= done[e[1]] \/ e = d
  BY NbTxAssumption DEF CheckType
<1>3. Decrements' = Decrements \cup {d}
  BY <1>1, <1>2 DEF Decrements
<1> QED BY <1>1, <1>3, DecrementsFinite, FS_AddElement
-----------------------------------------------------------------------------
(* CounterCheck: the invariant is inductive.                                *)

\* While a worker is outside sync every other one is in the same part of check,
\* or still on its way out of the barrier before it.
LEMMA RoundsClose ==
    ASSUME BarrierInv, NEW p \in Thread, NEW q \in Thread, place[p] = "out"
    PROVE  round[q] = round[p] \/ (round[q] = round[p] - 1 /\ place[q] # "out")
<1>1. Lap(p) = Lap(q) /\ Lap(p) = round[p]
  BY DEF BarrierInv, SameLap, BarrierType, Lap
<1> QED BY <1>1 DEF BarrierInv, BarrierType, Lap

LEMMA CheckInitInv == Init => CheckInv
<1> SUFFICES ASSUME Init PROVE CheckInv
  OBVIOUS
<1> USE DEF Init, BarrierInit
<1>1. CheckType
  BY LibraryAssumption, NbTxAssumption DEF CheckType, Label, Good
<1>2. NoFalseAlarm /\ PartOfRound /\ RemembersMore
  BY DEF NoFalseAlarm, PartOfRound, RemembersMore
<1>3. CounterIsLeft
  BY FirstAssumption DEF CounterIsLeft, Initialized
<1> QED BY <1>1, <1>2, <1>3 DEF CheckInv

\* The parts of the invariant that a step of sync can disturb.
LEMMA SyncCheckInv ==
    ASSUME BarrierInv, CheckInv, NEW w \in Thread, Sync(w) PROVE CheckInv'
<1> SUFFICES ASSUME library = "correct" PROVE CheckInv'
  BY DEF CheckInv, Sync
<1> USE DEF Sync
<1>1. pc[w] = "arrive" /\ round' = round /\ \A q \in Thread \ {w} : place'[q] = place[q]
  BY DEF At, Enter, SetLeave, WaitLeave, Leave, Move, BarrierInv, BarrierType
<1>2. CheckType' /\ NoFalseAlarm' /\ RemembersMore'
  BY DEF CheckInv, CheckType, NoFalseAlarm, RemembersMore
<1>3. PartOfRound'
  BY <1>1 DEF CheckInv, PartOfRound
<1>4. Decrements' = Decrements
  BY DEF Decrements
<1>5. CounterIsLeft'
  BY <1>1, <1>4 DEF CheckInv, CounterIsLeft, Initialized, InitCounter
<1> QED BY <1>2, <1>3, <1>5 DEF CheckInv

LEMMA SyncedCheckInv ==
    ASSUME BarrierInv, CheckInv, NEW w \in Thread, Synced(w) PROVE CheckInv'
<1> SUFFICES ASSUME library = "correct" PROVE CheckInv'
  BY DEF CheckInv, Synced
<1> USE DEF Synced
<1>a. CheckType /\ NoFalseAlarm /\ PartOfRound /\ CounterIsLeft /\ RemembersMore /\ BarrierType
  BY DEF CheckInv, BarrierInv
<1>1. /\ place[w] \in {"setEnter", "waitEnter"} /\ place' = [place EXCEPT ![w] = "out"]
      /\ round' = [round EXCEPT ![w] = @ + 1]
  BY DEF SetEnter, WaitEnter, Move
<1>2. pc[w] = "arrive" /\ round[w] \in 0 .. 2 /\ more[w] = Good
  BY <1>1, <1>a DEF PartOfRound, NoFalseAlarm, BarrierType
<1>3. more' = more
  BY <1>2, <1>a DEF Good, CheckType
<1>4. pc' = [pc EXCEPT ![w] =
                 IF w = First THEN (IF round[w] = 0 THEN "init"
                                    ELSE IF round[w] = 1 THEN "fetch" ELSE "final")
                 ELSE (IF round[w] = 0 THEN "arrive"
                       ELSE IF round[w] = 1 THEN "fetch" ELSE "correct")]
  <2>1. CASE round[w] = 0
    BY <2>1, <1>2 DEF Goto, Continue, Good
  <2>2. CASE round[w] = 1
    BY <2>2, <1>2 DEF Goto, Continue, Good
  <2>3. CASE round[w] = 2
    BY <2>3, <1>2 DEF Goto, Continue, Good
  <2> QED BY <2>1, <2>2, <2>3, <1>2
<1>5. CheckType' /\ NoFalseAlarm'
  BY <1>a, <1>3, <1>4 DEF CheckType, NoFalseAlarm, Label
<1>6. PartOfRound'
  BY <1>a, <1>1, <1>2, <1>4 DEF PartOfRound, CheckType, BarrierType
<1>7. RemembersMore'
  BY <1>a, <1>4 DEF RemembersMore, CheckType
<1>8. Decrements' = Decrements
  BY DEF Decrements
<1>9. Initialized' => Initialized
  BY <1>a, <1>1, <1>2, <1>4, FirstAssumption DEF Initialized, CheckType, BarrierType
<1>10. CounterIsLeft'
  BY <1>a, <1>8, <1>9 DEF CounterIsLeft, InitCounter
<1> QED BY <1>5, <1>6, <1>7, <1>10 DEF CheckInv

LEMMA InitWriteCheckInv ==
    ASSUME BarrierInv, CheckInv, NEW w \in Thread, InitWrite(w) PROVE CheckInv'
<1> SUFFICES ASSUME library = "correct" PROVE CheckInv'
  BY DEF CheckInv, InitWrite
<1> USE DEF InitWrite, barrierVars
<1>a. CheckType /\ NoFalseAlarm /\ PartOfRound /\ CounterIsLeft /\ RemembersMore /\ BarrierType
  BY DEF CheckInv, BarrierInv
<1>1. w = First /\ round[w] = 1 /\ pc[w] = "init" /\ place[w] = "out"
  BY <1>a DEF PartOfRound, At, BarrierType
<1>2. \A q \in Thread : round[q] <= 1
  BY <1>1, RoundsClose, <1>a DEF BarrierType
<1>3. \A q \in Thread : done[q] = 0 /\ pc[q] \notin {"begin", "commit"}
  BY <1>2, <1>a DEF PartOfRound, CheckType, BarrierType
<1>4. CheckType' /\ NoFalseAlarm'
  BY <1>a, InitCounterType DEF CheckType, NoFalseAlarm, Label, Goto
<1>5. PartOfRound' /\ RemembersMore'
  BY <1>a, <1>1, <1>3 DEF PartOfRound, RemembersMore, CheckType, Goto
<1>6. CounterIsLeft'
  <2>1. Cardinality(Decrements) = 0 /\ Decrements' = Decrements
    BY <1>3, <1>a, NoDecrements DEF Decrements
  <2> QED BY <2>1, InitCounterType DEF CounterIsLeft, InitCounter
<1> QED BY <1>4, <1>5, <1>6 DEF CheckInv

LEMMA InitReadCheckInv ==
    ASSUME BarrierInv, CheckInv, NEW w \in Thread, InitRead(w) PROVE CheckInv'
<1> SUFFICES ASSUME library = "correct" PROVE CheckInv'
  BY DEF CheckInv, InitRead
<1> USE DEF InitRead, barrierVars
<1>a. CheckType /\ NoFalseAlarm /\ PartOfRound /\ CounterIsLeft /\ RemembersMore /\ BarrierType
  BY DEF CheckInv, BarrierInv
<1>1. w = First /\ round[w] = 1 /\ pc[w] = "initcheck" /\ place[w] = "out"
  BY <1>a DEF PartOfRound, At, BarrierType
<1>2. \A q \in Thread : round[q] <= 1
  BY <1>1, RoundsClose, <1>a DEF BarrierType
<1>3. \A q \in Thread : done[q] = 0
  BY <1>2, <1>a DEF PartOfRound, CheckType, BarrierType
<1>4. counter = InitCounter
  BY <1>1, <1>3, <1>a, NoDecrements, InitCounterType DEF CounterIsLeft, Initialized
<1>5. pc' = [pc EXCEPT ![w] = "arrive"] /\ more' = more
  BY <1>4 DEF Seen, Goto
<1>6. CheckType' /\ NoFalseAlarm'
  BY <1>a, <1>5 DEF CheckType, NoFalseAlarm, Label
<1>7. PartOfRound' /\ RemembersMore'
  BY <1>a, <1>1, <1>5 DEF PartOfRound, RemembersMore, CheckType
<1>8. Decrements' = Decrements
  BY DEF Decrements
<1>9. CounterIsLeft'
  BY <1>a, <1>1, <1>5, <1>8 DEF CounterIsLeft, Initialized, InitCounter
<1> QED BY <1>6, <1>7, <1>9 DEF CheckInv

\* Steps between two calls of sync that leave the counter alone.
LEMMA SameCounter ==
    ASSUME CounterIsLeft, NEW w \in Thread, CheckType,
           round[w] >= 2 \/ pc'[w] = pc[w] \/ pc'[w] = "thrown",
           \A q \in Thread \ {w} : pc'[q] = pc[q],
           UNCHANGED <<counter, round, done>>
    PROVE  CounterIsLeft'
<1>1. Decrements' = Decrements
  BY DEF Decrements
<1>2. Initialized' => Initialized
  BY FirstAssumption DEF Initialized
<1> QED BY <1>1, <1>2 DEF CounterIsLeft, InitCounter

LEMMA FetchCheckInv ==
    ASSUME BarrierInv, CheckInv, NEW w \in Thread, Fetch(w) PROVE CheckInv'
<1> SUFFICES ASSUME library = "correct" PROVE CheckInv'
  BY DEF CheckInv, Fetch
<1> USE DEF Fetch, At, Goto, barrierVars
<1>a. CheckType /\ NoFalseAlarm /\ PartOfRound /\ CounterIsLeft /\ RemembersMore /\ BarrierType
  BY DEF CheckInv, BarrierInv
<1>1. pc[w] = "fetch" /\ round[w] = 2 /\ place[w] = "out"
  BY <1>a DEF PartOfRound, BarrierType
<1>2. \/ done[w] = NbTx /\ pc' = [pc EXCEPT ![w] = "arrive"] /\ last' = last
      \/ /\ done[w] < NbTx /\ pc' = [pc EXCEPT ![w] = "begin"]
         /\ last' = [last EXCEPT ![w] = counter]
  BY <1>a, NbTxAssumption DEF Seen, CheckType
<1>3. CheckType' /\ NoFalseAlarm'
  BY <1>a, <1>2 DEF CheckType, NoFalseAlarm, Label
<1>4. PartOfRound' /\ RemembersMore'
  BY <1>a, <1>1, <1>2 DEF PartOfRound, RemembersMore, CheckType, BarrierType
<1>5. CounterIsLeft'
  BY <1>a, <1>1, <1>2, SameCounter DEF CheckType
<1> QED BY <1>3, <1>4, <1>5 DEF CheckInv

LEMMA BeginCheckInv ==
    ASSUME BarrierInv, CheckInv, NEW w \in Thread, Begin(w) PROVE CheckInv'
<1> SUFFICES ASSUME library = "correct" PROVE CheckInv'
  BY DEF CheckInv, Begin
<1> USE DEF Begin, At, Goto, barrierVars
<1>a. CheckType /\ NoFalseAlarm /\ PartOfRound /\ CounterIsLeft /\ RemembersMore /\ BarrierType
  BY DEF CheckInv, BarrierInv
<1>1. value' = [value EXCEPT ![w] = counter]
  BY DEF Seen
<1>2. CheckType' /\ NoFalseAlarm'
  BY <1>a, <1>1 DEF CheckType, NoFalseAlarm, Label
<1>3. PartOfRound' /\ RemembersMore'
  BY <1>a, <1>1 DEF PartOfRound, RemembersMore, CheckType, BarrierType
<1>4. round[w] = 2
  BY <1>a DEF PartOfRound
<1>5. CounterIsLeft'
  BY <1>a, <1>4, SameCounter DEF CheckType
<1> QED BY <1>2, <1>3, <1>5 DEF CheckInv

LEMMA CommitCheckInv ==
    ASSUME BarrierInv, CheckInv, NEW w \in Thread, Commit(w) PROVE CheckInv'
<1> SUFFICES ASSUME library = "correct" PROVE CheckInv'
  BY DEF CheckInv, Commit
<1> USE DEF At, Goto, barrierVars
<1>a. CheckType /\ NoFalseAlarm /\ PartOfRound /\ CounterIsLeft /\ RemembersMore /\ BarrierType
  BY DEF CheckInv, BarrierInv
<1>1. /\ pc[w] = "commit" /\ round[w] = 2 /\ place[w] = "out" /\ done[w] < NbTx
      /\ value[w] <= last[w] /\ counter <= last[w]
  BY <1>a DEF PartOfRound, RemembersMore, BarrierType, Commit
<1>2. UNCHANGED <<library, step, mode, place, round, more, last, value>>
  BY <1>1, <1>a DEF Commit, CheckType
<1>3. CASE Stale(w)
  <2>1. pc' = [pc EXCEPT ![w] = "begin"] /\ UNCHANGED <<counter, done>>
    BY <1>1, <1>3, <1>a DEF Commit, CheckType
  <2>2. CheckType' /\ NoFalseAlarm'
    BY <1>a, <1>2, <2>1 DEF CheckType, NoFalseAlarm, Label
  <2>3. PartOfRound' /\ RemembersMore'
    BY <1>a, <1>1, <1>2, <2>1 DEF PartOfRound, RemembersMore, CheckType, BarrierType
  <2>4. CounterIsLeft'
    BY <1>a, <1>1, <1>2, <2>1, SameCounter DEF CheckType
  <2> QED BY <2>2, <2>3, <2>4 DEF CheckInv
<1>4. CASE ~ Stale(w)
  <2>1. /\ pc' = [pc EXCEPT ![w] = "fetch"] /\ counter' = Less(value[w])
        /\ done' = [done EXCEPT ![w] = @ + 1]
    BY <1>1, <1>4, <1>a DEF Commit, CheckType
  <2>2. counter = value[w]
    BY <1>4 DEF Stale
  <2>3. Initialized /\ Initialized'
    <3>1. round[First] = 2 \/ (round[First] = 1 /\ place[First] # "out")
      BY <1>1, RoundsClose, FirstAssumption
    <3>2. Initialized
      BY <3>1, <1>a, FirstAssumption DEF Initialized, PartOfRound
    <3> QED BY <3>2, <1>1, <1>2, <2>1, FirstAssumption, <1>a DEF Initialized, CheckType
  <2>4. counter = InitCounter - Cardinality(Decrements) /\ Cardinality(Decrements) < InitCounter
    BY <2>3, <1>a, <1>1, SomeDecrementLeft DEF CounterIsLeft
  <2>5. counter' = counter - 1 /\ counter' \in Nat
    BY <2>1, <2>2, <2>4, <1>a, InitCounterType, DecrementsFinite DEF Less, CheckType
  <2>6. CheckType' /\ NoFalseAlarm'
    BY <1>a, <1>1, <1>2, <2>1, <2>5, NbTxAssumption DEF CheckType, NoFalseAlarm, Label
  <2>7. PartOfRound'
    BY <1>a, <1>1, <1>2, <2>1, NbTxAssumption DEF PartOfRound, CheckType, BarrierType
  <2>8. RemembersMore'
    BY <1>a, <1>2, <2>1, <2>5 DEF RemembersMore, CheckType
  <2>9. CounterIsLeft'
    <3>1. Cardinality(Decrements)' = Cardinality(Decrements) + 1
      BY <1>a, <1>1, <2>1, OneDecrementMore
    <3> QED BY <3>1, <2>4, <2>5, InitCounterType, DecrementsFinite DEF CounterIsLeft, InitCounter
  <2> QED BY <2>6, <2>7, <2>8, <2>9 DEF CheckInv
<1> QED BY <1>3, <1>4

LEMMA FinalReadCheckInv ==
    ASSUME BarrierInv, CheckInv, NEW w \in Thread, FinalRead(w) PROVE CheckInv'
<1> SUFFICES ASSUME library = "correct" PROVE CheckInv'
  BY DEF CheckInv, FinalRead
<1> USE DEF FinalRead, At, Goto, barrierVars
<1>a. CheckType /\ NoFalseAlarm /\ PartOfRound /\ CounterIsLeft /\ RemembersMore /\ BarrierType
  BY DEF CheckInv, BarrierInv
<1>1. w = First /\ round[w] = 3 /\ place[w] = "out" /\ pc[w] = "final"
  BY <1>a DEF PartOfRound, BarrierType
<1>2. \A q \in Thread : done[q] = NbTx
  BY <1>1, RoundsClose, <1>a DEF PartOfRound, BarrierType
<1>3. counter = 0
  BY <1>1, <1>2, <1>a, EveryDecrement, InitCounterType DEF CounterIsLeft, Initialized
<1>4. pc' = [pc EXCEPT ![w] = "correct"]
  BY <1>3 DEF Seen
<1>5. CheckType' /\ NoFalseAlarm'
  BY <1>a, <1>4 DEF CheckType, NoFalseAlarm, Label
<1>6. PartOfRound' /\ RemembersMore'
  BY <1>a, <1>1, <1>4 DEF PartOfRound, RemembersMore, CheckType, BarrierType
<1>7. CounterIsLeft'
  BY <1>a, <1>1, <1>4, SameCounter DEF CheckType
<1> QED BY <1>5, <1>6, <1>7 DEF CheckInv

LEMMA RefuseCheckInv ==
    ASSUME BarrierInv, CheckInv, NEW w \in Thread, Refuse(w) PROVE CheckInv'
<1> SUFFICES ASSUME library = "correct" PROVE CheckInv'
  BY DEF CheckInv, Refuse
<1> USE DEF Refuse, At, Goto, barrierVars
<1>a. CheckType /\ NoFalseAlarm /\ PartOfRound /\ CounterIsLeft /\ RemembersMore /\ BarrierType
  BY DEF CheckInv, BarrierInv
<1>1. pc' = pc \/ (pc[w] = "commit" /\ round[w] = 2 /\ pc' = [pc EXCEPT ![w] = "begin"])
  BY <1>a DEF PartOfRound
<1>2. CheckType' /\ NoFalseAlarm'
  BY <1>a, <1>1 DEF CheckType, NoFalseAlarm, Label
<1>3. PartOfRound' /\ RemembersMore'
  BY <1>a, <1>1 DEF PartOfRound, RemembersMore, CheckType, BarrierType
<1>4. CounterIsLeft'
  BY <1>a, <1>1, SameCounter DEF CheckType
<1> QED BY <1>2, <1>3, <1>4 DEF CheckInv

LEMMA ThrowCheckInv ==
    ASSUME BarrierInv, CheckInv, NEW w \in Thread, Throw(w) PROVE CheckInv'
<1> SUFFICES ASSUME library = "correct" PROVE CheckInv'
  BY DEF CheckInv, Throw
<1> USE DEF Throw, Goto, barrierVars
<1>a. CheckType /\ NoFalseAlarm /\ PartOfRound /\ CounterIsLeft /\ RemembersMore /\ BarrierType
  BY DEF CheckInv, BarrierInv
<1>1. pc[w] # "arrive" /\ place[w] = "out"
  BY <1>a DEF PartOfRound, Transacts, At, BarrierType
<1>2. CheckType' /\ NoFalseAlarm'
  BY <1>a DEF CheckType, NoFalseAlarm, Label
<1>3. PartOfRound' /\ RemembersMore'
  BY <1>a, <1>1 DEF PartOfRound, RemembersMore, CheckType, BarrierType
<1>4. CounterIsLeft'
  BY <1>a, SameCounter DEF CheckType
<1> QED BY <1>2, <1>3, <1>4 DEF CheckInv

LEMMA StutterCheckInv == ASSUME CheckInv, UNCHANGED vars PROVE CheckInv'
<1> USE DEF vars, barrierVars
<1>1. Decrements' = Decrements
  BY DEF Decrements
<1>2. CounterIsLeft => CounterIsLeft'
  BY <1>1 DEF CounterIsLeft, Initialized, InitCounter
<1> QED BY <1>2 DEF CheckInv, CheckType, NoFalseAlarm, PartOfRound, RemembersMore

LEMMA NextCheckInv == BarrierInv /\ CheckInv /\ [Next]_vars => CheckInv'
  BY SyncCheckInv, SyncedCheckInv, InitWriteCheckInv, InitReadCheckInv, FetchCheckInv,
     BeginCheckInv, CommitCheckInv, FinalReadCheckInv, RefuseCheckInv, ThrowCheckInv,
     StutterCheckInv DEF Next, Step

\* WorkloadBank::check (workload.hpp:318), for any number of workers and of
\* decrements: over a correct library no worker sees the counter go up, the
\* final value is zero and no error is returned.
THEOREM CheckNoFalseAlarm == Spec => []NoFalseAlarm
<1>1. Spec => []BarrierInv
  BY CheckIsSync, BarrierInvariant, PTL
<1>2. CheckInv => NoFalseAlarm
  BY DEF CheckInv, NoFalseAlarm
<1> QED BY <1>1, <1>2, CheckInitInv, NextCheckInv, PTL DEF Spec
=============================================================================
