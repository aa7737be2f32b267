----------------------------- MODULE GradingProofs -----------------------------
(***************************************************************************)
(* Proofs about grading/grading.cpp.  Measure: the phases of Sync, for any *)
(* number of workers and of repetitions, any outcome of a phase and any    *)
(* fault.  Grader: main and bounded_run, for any number of libraries, of   *)
(* timeouts and of wake-ups that nobody asked for.                         *)
(***************************************************************************)
EXTENDS Measure, Grader, FiniteSetTheorems, TLAPS
-----------------------------------------------------------------------------
(* Measure                                                                  *)

Place == {"none", "poll", "gone", "ready", "reset", "release", "spin", "work", "barrier",
          "errmsg", "abort", "count", "reset2", "verdict", "stop", "raise"}

MeasureType ==
    /\ nbready \in Nat /\ status \in {"Done", "Wait", "Run", "Abort", "Fail", "Quit"}
    /\ phase \in 1 .. Phases
    /\ pc \in [Worker -> Place] /\ turn \in [Worker -> Nat] /\ threw \in [Worker -> BOOLEAN]
    /\ failed \subseteq Worker
    /\ mpc \in {"create", "notify", "start", "wait", "result", "join", "joining", "done", "left"}

\* A worker that is through with the phase, and one that has not begun it.
Over(w)  == turn[w] = phase + 1 /\ pc[w] = Resume(w)
Ahead(w) == turn[w] = phase /\ ~ threw[w]

\* Between two phases.
Before ==
    mpc \in {"create", "notify"} =>
        /\ status = "Done" /\ nbready = 0 /\ ~ raised
        /\ \A w \in Worker : Ahead(w) /\ pc[w] \in IF mpc = "create" THEN {"none", "poll"} ELSE {"poll"}

\* In a phase the status says where the workers are.
PlacesOfStatus ==
    \A w \in Worker :
        \/ /\ status = "Wait" /\ Ahead(w)
           /\ pc[w] \in {"poll", "ready", "spin", "reset", "release"}
        \/ /\ status \in {"Run", "Abort"} /\ turn[w] = phase
           /\ pc[w] \in {"work", "barrier", "errmsg", "abort", "count", "reset2", "verdict"}
        \/ status \in {"Run", "Abort"} /\ Ahead(w) /\ pc[w] = "spin"
        \/ status \in {"Done", "Fail"} /\ turn[w] = phase /\ pc[w] \in {"stop", "raise"}
        \/ status \in {"Run", "Abort", "Done", "Fail"} /\ Over(w)

\* The latest worker of either half is the last one: the others wait for it.
LatestAlone ==
    \A v, w \in Worker : v # w =>
        /\ pc[w] \in {"reset", "release"} => pc[v] = "spin"
        /\ pc[w] \in {"reset2", "verdict", "stop", "raise"} => Over(v)

\* Whom nbready counts: those ready for the phase, then those through with it,
\* until the latest has reset it.
Counted ==
    IF status = "Wait" /\ \A w \in Worker : pc[w] # "release"
    THEN { w \in Worker : pc[w] \in {"spin", "reset"} }
    ELSE IF status \in {"Run", "Abort"} /\ \A w \in Worker : pc[w] # "verdict"
    THEN { w \in Worker : Over(w) \/ pc[w] = "reset2" }
    ELSE {}

\* What is known of a failure: whose it is, and that the others will see it.
Failures ==
    /\ status = "Wait" => failed = {}
    /\ status \in {"Abort", "Fail"} => failed # {} /\ errmsg
    /\ \A w \in Worker : /\ pc[w] \in {"errmsg", "abort"} \/ threw[w] => w \in failed
                         /\ pc[w] = "abort" => errmsg
                         /\ w \in failed /\ status \notin {"Abort", "Fail"}
                               => pc[w] \in {"barrier", "errmsg", "abort"}

InPhase ==
    /\ PlacesOfStatus /\ LatestAlone /\ Failures
    /\ nbready = Cardinality(Counted)
    /\ raised => \A w \in Worker : Over(w) /\ status \in {"Done", "Fail"}

During == mpc \in {"start", "wait"} => InPhase

AllOver ==
    mpc \in {"result", "join"} =>
        /\ status = (IF failed = {} THEN "Done" ELSE "Fail") /\ (failed # {} => errmsg)
        /\ nbready = 0 /\ ~ raised
        /\ \A w \in Worker : Over(w) /\ (threw[w] => w \in failed)

Quitting ==
    mpc \in {"joining", "done"} =>
        status = "Quit" /\ \A w \in Worker : pc[w] \in {"poll", "gone"}

\* A master that has left says nothing more, but the workers stand where they stood.
MeasureInv ==
    PhasesAligned /\ MeasureType /\ Before /\ During /\ AllOver /\ Quitting
-----------------------------------------------------------------------------
(* What the invariant says of a worker that takes a step.                   *)

LEMMA OthersNeverLatest ==
    ASSUME MeasureType, InPhase, NEW w \in Worker, ~ Over(w), pc[w] # "spin",
           pc[w] \notin {"reset", "release", "reset2", "verdict", "stop", "raise"}
    PROVE  \A v \in Worker : pc[v] \notin {"reset", "release", "reset2", "verdict", "stop", "raise"}
  BY DEF InPhase, LatestAlone

\* Over needs the phase to be one behind.
LEMMA AheadIsNotOver ==
    ASSUME MeasureType, NEW w \in Worker, turn[w] = phase PROVE ~ Over(w)
  BY DEF MeasureType, Over, Phases

LEMMA PlaceOfOver == ASSUME NEW w, Over(w) PROVE pc[w] \in {"poll", "gone"}
  BY DEF Over, Resume

\* Outside "start" and "wait" the workers can at most see the status Quit.
LEMMA WorkersInPhase ==
    ASSUME MeasureInv, NEW w \in Worker, WorkerStep(w)
    PROVE  \/ mpc \in {"start", "wait"} /\ InPhase
           \/ mpc \in {"joining", "done"} /\ Poll(w)
<1>1. mpc \in {"create", "notify"} => pc[w] \in {"none", "poll"} /\ status = "Done"
  BY DEF MeasureInv, Before
<1>2. mpc \in {"result", "join"} => pc[w] \in {"poll", "gone"} /\ status \in {"Done", "Fail"}
  BY PlaceOfOver DEF MeasureInv, AllOver
<1>3. mpc \in {"joining", "done"} => pc[w] \in {"poll", "gone"} /\ status = "Quit"
  BY DEF MeasureInv, Quitting
<1>4. mpc # "left" /\ pc[w] \notin {"none", "gone"} /\ (pc[w] = "poll" => Poll(w))
  BY DEF WorkerStep, Notifying, At, Poll, Ready, ResetReady, Release, Spin, Work, LeaveBarrier,
         SetMessage, SetAbort, Count, ResetCount, Verdict, StopClock, Raise
<1>5. Poll(w) => status \in {"Wait", "Quit"}
  BY DEF Poll
<1> QED BY <1>1, <1>2, <1>3, <1>4, <1>5 DEF MeasureInv, MeasureType, During

\* In a phase the alignment follows from the places.
LEMMA Aligned ==
    ASSUME MeasureType', InPhase', mpc' \in {"start", "wait", "left"} PROVE PhasesAligned'
  BY DEF MeasureType, InPhase, PlacesOfStatus, PhasesAligned, Working, Over, Ahead, Resume

LEMMA Within ==
    ASSUME mpc \in {"start", "wait"}, mpc' = mpc, MeasureType', InPhase'
    PROVE  MeasureInv'
<1>1. PhasesAligned'
  BY Aligned
<1> QED BY <1>1 DEF MeasureInv, Before, During, AllOver, Quitting
-----------------------------------------------------------------------------
(* Counting.                                                                *)

LEMMA CountedFinite ==
    /\ IsFiniteSet(Counted) /\ Cardinality(Counted) \in Nat /\ n \in Nat
<1>1. Counted \in SUBSET Worker /\ IsFiniteSet(Worker)
  BY WorkerAssumption DEF Counted
<1> QED BY <1>1, FS_Subset, FS_CardinalityType DEF n

LEMMA CountOneMore ==
    ASSUME NEW w \in Worker, w \notin Counted, Counted' = Counted \cup {w}
    PROVE  Cardinality(Counted)' = Cardinality(Counted) + 1
  BY CountedFinite, FS_AddElement

LEMMA CountedAll ==
    ASSUME NEW w \in Worker, w \notin Counted, Cardinality(Counted) + 1 = n
    PROVE  \A v \in Worker \ {w} : v \in Counted
<1>1. IsFiniteSet(Counted \cup {w}) /\ Cardinality(Counted \cup {w}) = n
  BY CountedFinite, FS_AddElement
<1>2. Counted \cup {w} \in SUBSET Worker /\ IsFiniteSet(Worker)
  BY WorkerAssumption DEF Counted
<1>3. Counted \cup {w} = Worker
  BY <1>1, <1>2, FS_Subset DEF n
<1> QED BY <1>3

LEMMA NoneCounted == ASSUME Counted = {} PROVE Cardinality(Counted) = 0
  BY FS_EmptySet
-----------------------------------------------------------------------------
(* worker_wait.                                                             *)

LEMMA PollInv ==
    ASSUME MeasureType, InPhase, mpc \in {"start", "wait"}, NEW w \in Worker, Poll(w)
    PROVE  MeasureInv'
<1> USE DEF syncVars, masterVars
<1>1. status = "Wait" /\ pc[w] = "poll" /\ Ahead(w)
  BY DEF Poll, At, InPhase, PlacesOfStatus, MeasureType
<1>2. pc' = [pc EXCEPT ![w] = "ready"] /\ UNCHANGED <<syncVars, turn, threw, failed, phase, mpc, raised>>
  BY <1>1 DEF Poll, Goto
<1>3. MeasureType'
  BY <1>2 DEF MeasureType, Place
<1>4. Counted' = Counted
  BY <1>1, <1>2 DEF Counted, MeasureType, Over, Resume
<1>5. \A v \in Worker : pc[v] \notin {"reset", "release", "reset2", "verdict", "stop", "raise"}
  BY <1>1, OthersNeverLatest, AheadIsNotOver DEF Ahead
<1>6. InPhase'
  BY <1>1, <1>2, <1>4, <1>5, AheadIsNotOver
     DEF InPhase, PlacesOfStatus, LatestAlone, Failures, MeasureType, Ahead, Over, Resume
<1> QED BY <1>2, <1>3, <1>6, Within

LEMMA ReadyInv ==
    ASSUME MeasureType, InPhase, mpc \in {"start", "wait"}, NEW w \in Worker, Ready(w)
    PROVE  MeasureInv'
<1> USE DEF syncVars, masterVars
<1>1. status = "Wait" /\ pc[w] = "ready" /\ Ahead(w)
  BY PlaceOfOver DEF Ready, At, InPhase, PlacesOfStatus, MeasureType
<1>2. /\ pc' = [pc EXCEPT ![w] = IF nbready + 1 = n THEN "reset" ELSE "spin"]
      /\ nbready' = nbready + 1
      /\ UNCHANGED <<status, errmsg, turn, threw, failed, phase, mpc, raised>>
  BY <1>1 DEF Ready, Goto
<1>3. MeasureType'
  BY <1>2 DEF MeasureType, Place
<1>4. \A v \in Worker : pc[v] \notin {"reset", "release", "reset2", "verdict", "stop", "raise"}
  BY <1>1, OthersNeverLatest, AheadIsNotOver DEF Ahead
<1>5. w \notin Counted /\ Counted' = Counted \cup {w}
  BY <1>1, <1>2, <1>4 DEF Counted, MeasureType
<1>6. nbready' = Cardinality(Counted)'
  BY <1>2, <1>5, CountOneMore DEF InPhase
<1>7. pc'[w] = "reset" => \A v \in Worker : v # w => pc[v] = "spin"
  <2> SUFFICES ASSUME pc'[w] = "reset", NEW v \in Worker, v # w PROVE pc[v] = "spin"
    OBVIOUS
  <2>1. nbready + 1 = n
    BY <1>2 DEF MeasureType
  <2>2. v \in Counted
    BY <2>1, <1>5, CountedAll DEF InPhase
  <2> QED BY <2>2, <1>1, <1>4 DEF Counted
<1>8. PlacesOfStatus' /\ LatestAlone' /\ Failures'
  BY <1>1, <1>2, <1>4, <1>7, AheadIsNotOver
     DEF InPhase, PlacesOfStatus, LatestAlone, Failures, MeasureType, Ahead, Over, Resume
<1>9. InPhase'
  BY <1>1, <1>2, <1>6, <1>8, AheadIsNotOver DEF InPhase, Ahead
<1> QED BY <1>2, <1>3, <1>9, Within

LEMMA ResetReadyInv ==
    ASSUME MeasureType, InPhase, mpc \in {"start", "wait"}, NEW w \in Worker, ResetReady(w)
    PROVE  MeasureInv'
<1> USE DEF syncVars, masterVars
<1>1. status = "Wait" /\ pc[w] = "reset" /\ Ahead(w)
  BY PlaceOfOver DEF ResetReady, At, InPhase, PlacesOfStatus, MeasureType
<1>2. /\ pc' = [pc EXCEPT ![w] = "release"] /\ nbready' = 0
      /\ UNCHANGED <<status, errmsg, turn, threw, failed, phase, mpc, raised>>
  BY <1>1 DEF ResetReady, Goto, Reset
<1>3. MeasureType'
  BY <1>2 DEF MeasureType, Place
<1>4. Counted' = {}
  BY <1>1, <1>2 DEF Counted, MeasureType
<1>5. nbready' = Cardinality(Counted)'
  BY <1>2, <1>4, FS_EmptySet
<1>6. PlacesOfStatus' /\ LatestAlone' /\ Failures'
  BY <1>1, <1>2, AheadIsNotOver
     DEF InPhase, PlacesOfStatus, LatestAlone, Failures, MeasureType, Ahead, Over, Resume
<1>7. InPhase'
  BY <1>1, <1>2, <1>5, <1>6, AheadIsNotOver DEF InPhase, Ahead
<1> QED BY <1>2, <1>3, <1>7, Within

LEMMA ReleaseInv ==
    ASSUME MeasureType, InPhase, mpc \in {"start", "wait"}, NEW w \in Worker, Release(w)
    PROVE  MeasureInv'
<1> USE DEF syncVars, masterVars
<1>1. status = "Wait" /\ pc[w] = "release" /\ Ahead(w)
  BY PlaceOfOver DEF Release, At, InPhase, PlacesOfStatus, MeasureType
<1>2. /\ pc' = [pc EXCEPT ![w] = "work"] /\ status' = "Run"
      /\ UNCHANGED <<nbready, errmsg, turn, threw, failed, phase, mpc, raised>>
  BY <1>1 DEF Release, Goto
<1>3. MeasureType'
  BY <1>2 DEF MeasureType, Place
<1>4. \A v \in Worker : turn[v] = phase /\ ~ Over(v) /\ ~ Over(v)' /\ (v # w => pc[v] = "spin")
  BY <1>1, <1>2, AheadIsNotOver
     DEF InPhase, PlacesOfStatus, LatestAlone, Ahead, Over, MeasureType, Phases
<1>5. Counted = {} /\ Counted' = {}
  BY <1>1, <1>2, <1>4 DEF Counted, MeasureType
<1>6. nbready' = Cardinality(Counted)'
  BY <1>2, <1>5 DEF InPhase
<1>7. PlacesOfStatus' /\ LatestAlone' /\ Failures'
  BY <1>1, <1>2, <1>4
     DEF InPhase, PlacesOfStatus, LatestAlone, Failures, MeasureType, Ahead, Over, Resume
<1>8. InPhase'
  BY <1>1, <1>2, <1>6, <1>7, AheadIsNotOver DEF InPhase, Ahead
<1> QED BY <1>2, <1>3, <1>8, Within

LEMMA SpinInv ==
    ASSUME MeasureType, InPhase, mpc \in {"start", "wait"}, NEW w \in Worker, Spin(w)
    PROVE  MeasureInv'
<1> USE DEF syncVars, masterVars
<1>1. status \in {"Run", "Abort"} /\ pc[w] = "spin" /\ Ahead(w)
  BY PlaceOfOver DEF Spin, At, InPhase, PlacesOfStatus, MeasureType
<1>2. /\ pc' = [pc EXCEPT ![w] = "work"]
      /\ UNCHANGED <<nbready, status, errmsg, turn, threw, failed, phase, mpc, raised>>
  BY <1>1 DEF Spin, Goto
<1>3. MeasureType'
  BY <1>2 DEF MeasureType, Place
<1>4. /\ \A v \in Worker : pc[v] \notin {"reset", "release", "reset2", "verdict", "stop", "raise"}
      /\ ~ Over(w) /\ ~ Over(w)'
  BY <1>1, <1>2, AheadIsNotOver, PlaceOfOver
     DEF InPhase, PlacesOfStatus, LatestAlone, Ahead, Over, Resume, MeasureType
<1>5. Counted' = Counted
  BY <1>1, <1>2, <1>4 DEF Counted, MeasureType, Over, Resume
<1>6. PlacesOfStatus' /\ LatestAlone' /\ Failures'
  BY <1>1, <1>2, <1>4
     DEF InPhase, PlacesOfStatus, LatestAlone, Failures, MeasureType, Ahead, Over, Resume
<1>7. InPhase'
  BY <1>1, <1>2, <1>4, <1>5, <1>6 DEF InPhase
<1> QED BY <1>2, <1>3, <1>7, Within
-----------------------------------------------------------------------------
(* The work of a phase, and worker_notify.                                  *)

\* A worker at work: nobody is the latest one yet, and nbready is left alone.
LEMMA AtWork ==
    ASSUME MeasureType, InPhase, NEW w \in Worker,
           pc[w] \in {"work", "barrier", "errmsg", "abort", "count"}
    PROVE  /\ status \in {"Run", "Abort"} /\ turn[w] = phase /\ ~ Over(w) /\ ~ raised
           /\ \A v \in Worker : pc[v] \notin {"reset", "release", "reset2", "verdict", "stop", "raise"}
<1>1. status \in {"Run", "Abort"} /\ turn[w] = phase
  BY PlaceOfOver DEF InPhase, PlacesOfStatus
<1> QED BY <1>1, AheadIsNotOver, OthersNeverLatest DEF InPhase

\* It goes from one place to the next, all but worker_notify's count.
LEMMA WorkingInv ==
    ASSUME MeasureType, InPhase, mpc \in {"start", "wait"}, mpc' = mpc, NEW w \in Worker,
           pc[w] \in {"work", "barrier", "errmsg", "abort"},
           NEW l \in {"barrier", "errmsg", "abort", "count"}, pc' = [pc EXCEPT ![w] = l],
           UNCHANGED <<nbready, turn, phase, raised>>,
           status' \in {status, "Abort"}, MeasureType', Failures',
           \A v \in Worker \ {w} : threw'[v] = threw[v]
    PROVE  MeasureInv'
<1>1. /\ status \in {"Run", "Abort"} /\ turn[w] = phase /\ ~ Over(w) /\ ~ raised
      /\ \A v \in Worker : pc[v] \notin {"reset", "release", "reset2", "verdict", "stop", "raise"}
  BY AtWork
<1>2. \A v \in Worker \ {w} : Over(v)' = Over(v) /\ pc'[v] = pc[v] /\ Ahead(v)' = Ahead(v)
  BY DEF Over, Ahead, Resume, MeasureType
<1>3. turn'[w] = phase' /\ ~ Over(w)' /\ pc'[w] = l
  BY <1>1 DEF Over, MeasureType, Phases
<1>4. Counted' = Counted
  BY <1>1, <1>2, <1>3 DEF Counted
<1>5. PlacesOfStatus' /\ LatestAlone'
  BY <1>1, <1>2, <1>3 DEF InPhase, PlacesOfStatus, LatestAlone, MeasureType
<1>6. InPhase'
  BY <1>1, <1>4, <1>5 DEF InPhase
<1> QED BY <1>6, Within

LEMMA WorkInv ==
    ASSUME MeasureType, InPhase, mpc \in {"start", "wait"}, NEW w \in Worker, NEW outcome,
           Work(w, outcome)
    PROVE  MeasureInv'
<1> USE DEF syncVars, masterVars
<1>1. /\ pc[w] = "work" /\ UNCHANGED <<nbready, status, errmsg, turn, phase, raised, mpc>>
      /\ threw' = [threw EXCEPT ![w] = outcome = "throw"]
      /\ failed' = IF outcome = "ok" THEN failed ELSE failed \cup {w}
  BY DEF Work, At
<1>2. PICK l \in {"barrier", "errmsg", "count"} :
           /\ pc' = [pc EXCEPT ![w] = l]
           /\ l = "count" => outcome = "ok"
           /\ l = "errmsg" => outcome # "ok"
           /\ outcome = "throw" => l = "errmsg"
  BY DEF Work, Goto
<1>3. MeasureType'
  BY <1>1, <1>2 DEF MeasureType, Place
<1>4. status \in {"Run", "Abort"} /\ (w \in failed => status = "Abort")
  BY <1>1, AtWork DEF InPhase, Failures
<1>5. Failures'
  BY <1>1, <1>2, <1>4 DEF InPhase, Failures, MeasureType
<1>6. \A v \in Worker \ {w} : threw'[v] = threw[v]
  BY <1>1 DEF MeasureType
<1> QED BY <1>1, <1>2, <1>3, <1>5, <1>6, WorkingInv

LEMMA LeaveBarrierInv ==
    ASSUME MeasureType, InPhase, mpc \in {"start", "wait"}, NEW w \in Worker, LeaveBarrier(w)
    PROVE  MeasureInv'
<1> USE DEF syncVars, masterVars
<1>1. pc[w] = "barrier" /\ UNCHANGED <<syncVars, turn, phase, raised, mpc, threw, failed>>
  BY DEF LeaveBarrier, At
<1>2. PICK l \in {"errmsg", "count"} : pc' = [pc EXCEPT ![w] = l] /\ (l = "errmsg" <=> w \in failed)
  BY DEF LeaveBarrier, Goto
<1>3. MeasureType'
  BY <1>1, <1>2 DEF MeasureType, Place
<1>4. Failures'
  BY <1>1, <1>2 DEF InPhase, Failures, MeasureType
<1> QED BY <1>1, <1>2, <1>3, <1>4, WorkingInv

LEMMA SetMessageInv ==
    ASSUME MeasureType, InPhase, mpc \in {"start", "wait"}, NEW w \in Worker, SetMessage(w)
    PROVE  MeasureInv'
<1> USE DEF syncVars, masterVars
<1>1. /\ pc[w] = "errmsg" /\ pc' = [pc EXCEPT ![w] = "abort"] /\ errmsg' = TRUE
      /\ UNCHANGED <<nbready, status, turn, phase, raised, mpc, threw, failed>>
  BY DEF SetMessage, At, Goto
<1>2. MeasureType' /\ Failures'
  BY <1>1 DEF MeasureType, Place, InPhase, Failures
<1> QED BY <1>1, <1>2, WorkingInv

LEMMA SetAbortInv ==
    ASSUME MeasureType, InPhase, mpc \in {"start", "wait"}, NEW w \in Worker, SetAbort(w)
    PROVE  MeasureInv'
<1> USE DEF syncVars, masterVars
<1>1. /\ pc[w] = "abort" /\ pc' = [pc EXCEPT ![w] = "count"] /\ status' = "Abort"
      /\ UNCHANGED <<nbready, errmsg, turn, phase, raised, mpc, threw, failed>>
  BY DEF SetAbort, At, Goto
<1>2. MeasureType' /\ Failures'
  BY <1>1 DEF MeasureType, Place, InPhase, Failures
<1> QED BY <1>1, <1>2, WorkingInv

LEMMA CountInv ==
    ASSUME MeasureType, InPhase, mpc \in {"start", "wait"}, NEW w \in Worker, Count(w)
    PROVE  MeasureInv'
<1> USE DEF syncVars, masterVars
<1>1. pc[w] = "count" /\ nbready' = nbready + 1
      /\ UNCHANGED <<status, errmsg, phase, raised, mpc, threw, failed>>
  BY DEF Count, At
<1>2. /\ status \in {"Run", "Abort"} /\ turn[w] = phase /\ ~ Over(w) /\ ~ raised
      /\ \A v \in Worker : pc[v] \notin {"reset", "release", "reset2", "verdict", "stop", "raise"}
  BY <1>1, AtWork
<1>3. w \in failed => status = "Abort"
  BY <1>1, <1>2 DEF InPhase, Failures
<1>4. w \notin Counted
  BY <1>1, <1>2 DEF Counted
<1>5. \A v \in Worker : v # w => pc'[v] = pc[v] /\ turn'[v] = turn[v]
  BY DEF Count, Goto, MeasureType
<1>6. \A v \in Worker : v # w => Over(v)' = Over(v) /\ Ahead(v)' = Ahead(v)
  BY <1>1, <1>5 DEF Over, Ahead, Resume
<1>7. CASE nbready + 1 = n
  <2>1. pc' = [pc EXCEPT ![w] = "reset2"] /\ turn' = turn /\ pc'[w] = "reset2" /\ ~ Over(w)'
    BY <1>1, <1>2, <1>7 DEF Count, Goto, MeasureType, Over, Phases
  <2>2. MeasureType'
    BY <1>1, <2>1 DEF MeasureType, Place
  <2>3. Counted' = Counted \cup {w}
    BY <1>1, <1>2, <1>5, <1>6, <2>1 DEF Counted
  <2>4. nbready' = Cardinality(Counted)'
    BY <1>1, <1>4, <2>3, CountOneMore DEF InPhase
  <2>5. \A v \in Worker : v # w => Over(v)
    BY <1>2, <1>4, <1>7, CountedAll DEF InPhase, Counted
  <2>6. PlacesOfStatus' /\ LatestAlone' /\ Failures'
    BY <1>1, <1>2, <1>3, <1>5, <1>6, <2>1, <2>5
       DEF InPhase, PlacesOfStatus, LatestAlone, Failures
  <2>7. InPhase'
    BY <1>1, <1>2, <2>4, <2>6 DEF InPhase
  <2> QED BY <1>1, <2>2, <2>7, Within
<1>8. CASE nbready + 1 # n
  <2>1. /\ pc' = [pc EXCEPT ![w] = Resume(w)] /\ turn' = [turn EXCEPT ![w] = @ + 1]
        /\ pc'[w] = Resume(w)' /\ Over(w)' /\ pc'[w] \in {"poll", "gone"}
    BY <1>1, <1>2, <1>8 DEF Count, Goto, MeasureType, Over, Resume
  <2>2. MeasureType'
    BY <1>1, <2>1 DEF MeasureType, Place, Resume
  <2>3. Counted' = Counted \cup {w}
    BY <1>1, <1>2, <1>5, <1>6, <2>1 DEF Counted
  <2>4. nbready' = Cardinality(Counted)'
    BY <1>1, <1>4, <2>3, CountOneMore DEF InPhase
  <2>5. PlacesOfStatus' /\ LatestAlone' /\ Failures'
    BY <1>1, <1>2, <1>3, <1>5, <1>6, <2>1 DEF InPhase, PlacesOfStatus, LatestAlone, Failures
  <2>6. InPhase'
    BY <1>1, <1>2, <2>4, <2>5 DEF InPhase
  <2> QED BY <1>1, <2>2, <2>6, Within
<1> QED BY <1>7, <1>8

\* The latest worker, once it is: the others are through, and the result is theirs.
LEMMA Latest ==
    ASSUME MeasureType, InPhase, NEW w \in Worker, pc[w] \in {"reset2", "verdict", "stop", "raise"}
    PROVE  /\ turn[w] = phase /\ ~ Over(w) /\ ~ raised
           /\ \A v \in Worker : v # w => Over(v) /\ pc[v] \in {"poll", "gone"}
           /\ status \in IF pc[w] \in {"reset2", "verdict"} THEN {"Run", "Abort"} ELSE {"Done", "Fail"}
           /\ failed # {} <=> status \in {"Abort", "Fail"}
<1>1. turn[w] = phase
      /\ status \in IF pc[w] \in {"reset2", "verdict"} THEN {"Run", "Abort"} ELSE {"Done", "Fail"}
  BY PlaceOfOver DEF InPhase, PlacesOfStatus
<1>2. \A v \in Worker : v # w => Over(v) /\ pc[v] \in {"poll", "gone"}
  BY PlaceOfOver DEF InPhase, LatestAlone
<1>3. failed # {} <=> status \in {"Abort", "Fail"}
  BY <1>1, <1>2 DEF InPhase, Failures, MeasureType
<1> QED BY <1>1, <1>2, <1>3, AheadIsNotOver DEF InPhase

LEMMA LatestInv ==
    ASSUME MeasureType, InPhase, mpc \in {"start", "wait"}, NEW w \in Worker,
           ResetCount(w) \/ Verdict(w) \/ StopClock(w)
    PROVE  MeasureInv'
<1> USE DEF syncVars, masterVars
<1>1. PICK l \in {"verdict", "stop", "raise"} :
           /\ pc' = [pc EXCEPT ![w] = l]
           /\ nbready' = IF l = "verdict" THEN 0 ELSE nbready
           /\ l = "stop" => status' = IF status = "Abort" THEN "Fail" ELSE "Done"
           /\ l # "stop" => status' = status
           /\ pc[w] = CASE l = "verdict" -> "reset2" [] l = "stop" -> "verdict" [] l = "raise" -> "stop"
           /\ UNCHANGED <<errmsg, turn, phase, raised, mpc, threw, failed>>
  BY DEF ResetCount, Verdict, StopClock, At, Goto, Reset, Failure
<1>2. /\ turn[w] = phase /\ ~ Over(w) /\ ~ raised
      /\ \A v \in Worker : v # w => Over(v) /\ pc[v] \in {"poll", "gone"}
      /\ status \in IF pc[w] \in {"reset2", "verdict"} THEN {"Run", "Abort"} ELSE {"Done", "Fail"}
      /\ failed # {} <=> status \in {"Abort", "Fail"}
  BY <1>1, Latest
<1>3. MeasureType' /\ pc'[w] = l /\ \A v \in Worker : v # w => Over(v)' /\ pc'[v] = pc[v]
  BY <1>1, <1>2 DEF MeasureType, Place, Over, Resume
<1>4. status' \in (IF l = "verdict" THEN {"Run", "Abort"} ELSE {"Done", "Fail"})
      /\ (status' \in {"Abort", "Fail"} <=> status \in {"Abort", "Fail"})
  BY <1>1, <1>2
<1>5. Counted' = {}
  BY <1>3, <1>4 DEF Counted
<1>6. nbready' = 0
  <2>1. l # "verdict" => Counted = {}
    BY <1>1, <1>2 DEF Counted
  <2> QED BY <2>1, <1>1, NoneCounted DEF InPhase
<1>7. nbready' = Cardinality(Counted)'
  BY <1>5, <1>6, FS_EmptySet
<1>8. PlacesOfStatus'
  BY <1>1, <1>2, <1>3, <1>4 DEF PlacesOfStatus
<1>9. LatestAlone' /\ Failures'
  BY <1>1, <1>2, <1>3, <1>4 DEF InPhase, LatestAlone, Failures
<1>10. InPhase'
  BY <1>1, <1>2, <1>7, <1>8, <1>9 DEF InPhase
<1> QED BY <1>1, <1>3, <1>10, Within

LEMMA RaiseInv ==
    ASSUME MeasureType, InPhase, mpc \in {"start", "wait"}, NEW w \in Worker, Raise(w)
    PROVE  MeasureInv'
<1> USE DEF syncVars, masterVars
<1>1. /\ pc[w] = "raise" /\ pc' = [pc EXCEPT ![w] = Resume(w)] /\ turn' = [turn EXCEPT ![w] = @ + 1]
      /\ UNCHANGED <<nbready, status, errmsg, phase, mpc, threw, failed>>
  BY DEF Raise, At, Goto
<1>2. /\ turn[w] = phase
      /\ \A v \in Worker : v # w => Over(v) /\ pc[v] \in {"poll", "gone"}
      /\ status \in {"Done", "Fail"} /\ (failed # {} <=> status \in {"Abort", "Fail"})
  BY <1>1, Latest
<1>3. MeasureType' /\ \A v \in Worker : Over(v)' /\ pc'[v] \in {"poll", "gone"}
  BY <1>1, <1>2 DEF MeasureType, Place, Over, Resume
<1>4. Counted = {} /\ Counted' = {}
  BY <1>1, <1>2 DEF Counted
<1>5. nbready' = Cardinality(Counted)'
  BY <1>1, <1>4 DEF InPhase
<1>6. PlacesOfStatus' /\ LatestAlone' /\ Failures'
  BY <1>1, <1>2, <1>3 DEF InPhase, PlacesOfStatus, LatestAlone, Failures
<1>7. InPhase'
  BY <1>1, <1>2, <1>3, <1>5, <1>6 DEF InPhase
<1> QED BY <1>1, <1>3, <1>7, Within
-----------------------------------------------------------------------------
(* The master.                                                              *)

LEMMA MeasureInit == Init => MeasureInv
<1> SUFFICES ASSUME Init PROVE MeasureInv
  OBVIOUS
<1>1. phase = 1 /\ 1 \in 1 .. Phases
  BY PhaseAssumption DEF Init, Phases
<1> QED BY <1>1 DEF Init, MeasureInv, MeasureType, Place, PhasesAligned, Working, Before, Ahead,
                    During, AllOver, Quitting

LEMMA CreateInv == ASSUME MeasureInv, NEW w \in Worker, Create(w) PROVE MeasureInv'
<1> USE DEF syncVars
<1>1. /\ mpc = "create" /\ mpc' \in {"create", "notify"} /\ pc' = [pc EXCEPT ![w] = "poll"]
      /\ UNCHANGED <<syncVars, raised, phase, turn, threw, failed>>
      /\ mpc' = "notify" => \A v \in Worker \ {w} : pc[v] # "none"
  BY DEF Create, Goto
<1>2. MeasureType'
  BY <1>1 DEF MeasureInv, MeasureType, Place
<1>3. Before'
  BY <1>1 DEF MeasureInv, MeasureType, Before, Ahead
<1> QED BY <1>1, <1>2, <1>3 DEF MeasureInv, Before, PhasesAligned, Working, During, AllOver, Quitting

LEMMA LeftInv == ASSUME MeasureInv, CreateFails \/ TimeOut PROVE MeasureInv'
<1> USE DEF syncVars, workerVars
<1>1. /\ mpc \in {"create", "wait"} /\ mpc' = "left"
      /\ UNCHANGED <<syncVars, raised, phase, pc, turn, threw, failed>>
  BY DEF CreateFails, TimeOut
<1>2. MeasureType'
  BY <1>1 DEF MeasureInv, MeasureType
<1>3. PhasesAligned'
  BY <1>1 DEF MeasureInv, PhasesAligned, Working
<1> QED BY <1>1, <1>2, <1>3 DEF MeasureInv, Before, During, AllOver, Quitting

LEMMA NotifyInv == ASSUME MeasureInv, Notify PROVE MeasureInv'
<1> USE DEF syncVars, workerVars
<1>1. /\ mpc = "notify" /\ mpc' = "start" /\ status' = "Wait" /\ failed' = {}
      /\ UNCHANGED <<nbready, errmsg, raised, phase, pc, turn, threw>>
  BY DEF Notify
<1>2. MeasureType'
  BY <1>1 DEF MeasureInv, MeasureType
<1>3. nbready = 0 /\ ~ raised /\ \A w \in Worker : Ahead(w) /\ pc[w] = "poll"
  BY <1>1 DEF MeasureInv, Before
<1>4. Counted' = {}
  BY <1>1, <1>3 DEF Counted
<1>5. nbready' = Cardinality(Counted)'
  BY <1>1, <1>3, <1>4, FS_EmptySet
<1>6. InPhase'
  BY <1>1, <1>3, <1>5 DEF InPhase, PlacesOfStatus, LatestAlone, Failures, Ahead
<1>7. PhasesAligned'
  BY <1>1, <1>2, <1>6, Aligned
<1> QED BY <1>1, <1>2, <1>6, <1>7 DEF MeasureInv, Before, During, AllOver, Quitting

LEMMA StartClockInv == ASSUME MeasureInv, StartClock PROVE MeasureInv'
<1> USE DEF syncVars, workerVars
<1>1. /\ mpc = "start" /\ mpc' = "wait"
      /\ UNCHANGED <<syncVars, raised, phase, pc, turn, threw, failed>>
  BY DEF StartClock
<1>2. MeasureType'
  BY <1>1 DEF MeasureInv, MeasureType
<1>3. PhasesAligned'
  BY <1>1 DEF MeasureInv, PhasesAligned, Working
<1>4. Counted' = Counted
  BY <1>1 DEF Counted, Over, Resume
<1>5. InPhase'
  BY <1>1, <1>4 DEF MeasureInv, During, InPhase, PlacesOfStatus, LatestAlone, Failures, Ahead, Over,
                    Resume
<1> QED BY <1>1, <1>2, <1>3, <1>5 DEF MeasureInv, Before, During, AllOver, Quitting

\* donelatch.wait: the master finds all workers through with the phase.
LEMMA WokenInv == ASSUME MeasureInv, Woken PROVE MeasureInv'
<1> USE DEF syncVars, workerVars
<1>1. /\ mpc = "wait" /\ raised /\ mpc' = "result" /\ raised' = FALSE
      /\ UNCHANGED <<syncVars, phase, pc, turn, threw, failed>>
  BY DEF Woken, Lowered
<1>2. MeasureType' /\ InPhase
  BY <1>1 DEF MeasureInv, MeasureType, During
<1>3. /\ \A w \in Worker : Over(w) /\ pc[w] \in {"poll", "gone"}
      /\ status \in {"Done", "Fail"}
  BY <1>1, <1>2, PlaceOfOver, WorkerAssumption DEF InPhase
<1>4. Counted = {} /\ nbready = 0
  BY <1>2, <1>3, NoneCounted DEF Counted, InPhase
<1>5. status = (IF failed = {} THEN "Done" ELSE "Fail") /\ (failed # {} => errmsg)
  BY <1>2, <1>3 DEF InPhase, Failures, MeasureInv, MeasureType
<1>6. AllOver'
  BY <1>1, <1>2, <1>3, <1>4, <1>5 DEF InPhase, Failures, AllOver, Over, Resume
<1>7. PhasesAligned'
  BY <1>1, <1>3 DEF PhasesAligned, Working
<1> QED BY <1>1, <1>2, <1>6, <1>7 DEF MeasureInv, Before, During, Quitting

LEMMA ResultInv == ASSUME MeasureInv, Result PROVE MeasureInv'
<1> USE DEF syncVars, workerVars
<1>1. mpc = "result" /\ UNCHANGED <<syncVars, raised, pc, turn, threw, failed>>
  BY DEF Result
<1>2. AllOver /\ MeasureType /\ \A w \in Worker : pc[w] \in {"poll", "gone"}
  BY <1>1, PlaceOfOver DEF MeasureInv, AllOver
<1>3. PhasesAligned'
  BY <1>1, <1>2 DEF PhasesAligned, Working
<1>4. CASE mpc' = "notify" /\ status = "Done" /\ phase < Phases /\ phase' = phase + 1
  <2>1. MeasureType'
    BY <1>1, <1>2, <1>4, PhaseAssumption DEF MeasureType, Phases
  <2>2. \A w \in Worker : pc[w] = "poll" /\ ~ threw[w] /\ turn[w] = phase'
    BY <1>1, <1>2, <1>4 DEF AllOver, Over, Resume
  <2>3. Before'
    BY <1>1, <1>2, <1>4, <2>2 DEF AllOver, Before, Ahead
  <2> QED BY <1>3, <1>4, <2>1, <2>3 DEF MeasureInv, During, AllOver, Quitting
<1>5. CASE mpc' = "join" /\ phase' = phase
  <2>1. MeasureType' /\ AllOver'
    BY <1>1, <1>2, <1>5 DEF MeasureType, AllOver, Over, Resume
  <2> QED BY <1>3, <1>5, <2>1 DEF MeasureInv, Before, During, Quitting
<1> QED BY <1>1, <1>2, <1>4, <1>5 DEF Result, AllOver, MeasureType

LEMMA JoinInv == ASSUME MeasureInv, MasterJoin \/ Joined PROVE MeasureInv'
<1> USE DEF syncVars, workerVars
<1>1. /\ mpc \in {"join", "joining"} /\ mpc' \in {"joining", "done"} /\ status' = "Quit"
      /\ UNCHANGED <<nbready, errmsg, raised, phase, pc, turn, threw, failed>>
  BY DEF MasterJoin, Joined, MeasureInv, Quitting
<1>2. MeasureType' /\ \A w \in Worker : pc[w] \in {"poll", "gone"}
  BY <1>1, PlaceOfOver DEF MeasureInv, MeasureType, AllOver, Quitting
<1> QED BY <1>1, <1>2 DEF MeasureInv, PhasesAligned, Working, Before, During, AllOver, Quitting
-----------------------------------------------------------------------------
(* The theorems.                                                            *)

LEMMA GoneInv ==
    ASSUME MeasureInv, NEW w \in Worker, Poll(w), mpc \in {"joining", "done"}
    PROVE  MeasureInv'
<1> USE DEF syncVars, masterVars
<1>1. /\ status = "Quit" /\ pc' = [pc EXCEPT ![w] = "gone"]
      /\ UNCHANGED <<syncVars, raised, phase, mpc, turn, threw, failed>>
  BY DEF Poll, Goto, MeasureInv, Quitting
<1>2. MeasureType'
  BY <1>1 DEF MeasureInv, MeasureType, Place
<1>3. Quitting'
  BY <1>1 DEF MeasureInv, MeasureType, Quitting
<1> QED BY <1>1, <1>2, <1>3 DEF MeasureInv, Quitting, PhasesAligned, Working, Before, During, AllOver

LEMMA MeasureNext == MeasureInv /\ [Next]_vars => MeasureInv'
<1> SUFFICES ASSUME MeasureInv, [Next]_vars PROVE MeasureInv'
  OBVIOUS
<1>1. CASE Master
  BY <1>1, CreateInv, NotifyInv, StartClockInv, WokenInv, ResultInv, JoinInv DEF Master
<1>2. CASE CreateFails \/ TimeOut
  BY <1>2, LeftInv
<1>3. ASSUME NEW w \in Worker, WorkerStep(w) PROVE MeasureInv'
  <2>1. CASE mpc \in {"joining", "done"} /\ Poll(w)
    BY <2>1, GoneInv
  <2>2. CASE mpc \in {"start", "wait"} /\ InPhase
    <3>1. MeasureType
      BY DEF MeasureInv
    <3> QED BY <1>3, <2>2, <3>1, PollInv, ReadyInv, ResetReadyInv, ReleaseInv, SpinInv, WorkInv,
               LeaveBarrierInv, SetMessageInv, SetAbortInv, CountInv, LatestInv, RaiseInv
            DEF WorkerStep, Notifying
  <2> QED BY <1>3, <2>1, <2>2, WorkersInPhase
<1>4. CASE UNCHANGED vars
  <2> USE DEF vars, syncVars, masterVars, workerVars
  <2>1. Counted' = Counted
    BY <1>4 DEF Counted, Over, Resume
  <2> QED BY <1>4, <2>1
          DEF MeasureInv, MeasureType, PhasesAligned, Working, Before, Ahead, During, InPhase,
              PlacesOfStatus, LatestAlone, Failures, Over, Resume, AllOver, Quitting
<1> QED BY <1>1, <1>2, <1>3, <1>4 DEF Next

THEOREM MeasureInvariant == Spec => []MeasureInv
  BY MeasureInit, MeasureNext, PTL DEF Spec

\* grading.cpp, Sync: for any number of workers and repetitions, whatever a phase ends
\* with and whichever thread is not created or wait times out, a worker is at work in
\* the phase the master waits for, and in no other.
THEOREM MeasurePhases == Spec => []PhasesAligned
<1>1. MeasureInv => PhasesAligned
  BY DEF MeasureInv
<1> QED BY <1>1, MeasureInvariant, PTL

\* grading.cpp, master_wait: an error of any worker reaches the master, with a message,
\* none is reported without one, and by then every worker is through with the phase.
THEOREM MeasureVerdict == Spec => []VerdictIsRight
<1>1. MeasureInv => VerdictIsRight
  BY PlaceOfOver DEF MeasureInv, AllOver, VerdictIsRight
<1> QED BY <1>1, MeasureInvariant, PTL
-----------------------------------------------------------------------------
(* Grader                                                                   *)

Places == {"load", "spawn", "spawned", "waiting", "joining", "measure", "measuring",
           "unload", "return"}

GraderType ==
    /\ place \in Places /\ lib \in Library
    /\ failing \in BOOLEAN /\ workers \in BOOLEAN /\ notified \in BOOLEAN
    /\ exit \in {"none", "0", "1", "2", "terminated", "crashed"}
    /\ task \in {"create", "destroy", "abandoned"}
    /\ runner \in {"none", "func", "notify", "ended"}

Bounded == place \in {"spawn", "spawned", "waiting", "joining"}
Called  == place \in {"spawned", "waiting", "joining"}

\* Only the library of this turn is loaded, and only while main is in its block.
OneLibrary == mapped = IF place \in {"load", "return"} THEN {} ELSE {lib}

\* A creation that was given up is the last thing that main tries.
TaskMatches ==
    /\ Bounded => task \in {"create", "destroy"}
    /\ place \in {"measure", "measuring"} => task = "create"
    /\ task = "abandoned" => failing /\ place \in {"unload", "return"}
    /\ place = "unload" => task # "create"
    /\ failing => task = "abandoned" \/ (Bounded /\ task = "destroy") \/ place \in {"unload", "return"}

\* Whether the memory exists, by what bounded_run was told to do and has done.
MemoryMatches ==
    /\ place = "spawned" => runner \in {"func", "notify"}
    /\ Called => runner # "none"
    /\ ~ Called /\ task # "abandoned" => runner \in {"none", "ended"}
    /\ Bounded => memory = IF (task = "create") <=> Called /\ runner \in {"notify", "ended"}
                           THEN {lib} ELSE {}
    /\ place \in {"measure", "measuring"} => memory = {lib}
    /\ place \in {"load", "unload", "return"} /\ task # "abandoned" => memory = {}

PassedSoFar ==
    /\ workers => place = "measuring"
    /\ place = "return" => failing \/ lib = NbLibraries
    /\ ~ failing => passed = IF place \in {"unload", "return"} \/ (Bounded /\ task = "destroy")
                             THEN 1 .. lib ELSE 1 .. lib - 1

\* What main has to keep in mind while it runs; after its end nothing moves.
MainInv == exit = "none" => OneLibrary /\ TaskMatches /\ MemoryMatches /\ PassedSoFar

GraderInv == GraderType /\ MainInv /\ LibraryInUse /\ NoWakeUpLost /\ CleanExit
-----------------------------------------------------------------------------
LEMMA GraderInitInv == MainInit => GraderInv
<1> SUFFICES ASSUME MainInit PROVE GraderInv
  OBVIOUS
<1> USE GraderAssumption DEF MainInit
<1>1. GraderType
  <2>1. lib \in Library
    BY DEF Library
  <2>2. failing \in BOOLEAN /\ workers \in BOOLEAN /\ notified \in BOOLEAN
    BY Zenon
  <2> QED BY <2>1, <2>2 DEF GraderType, Places
<1>2. passed = 1 .. lib - 1
  OBVIOUS
<1>3. MainInv
  BY <1>2 DEF MainInv, OneLibrary, TaskMatches, MemoryMatches, PassedSoFar, Bounded, Called
<1>4. LibraryInUse /\ NoWakeUpLost /\ CleanExit
  BY DEF LibraryInUse, NoWakeUpLost, CleanExit, MainAt
<1> QED BY <1>1, <1>3, <1>4 DEF GraderInv

\* One case for each action of main, of the runner and of nobody.
LEMMA GraderNextInv == GraderInv /\ [MainNext]_graderVars => GraderInv'
<1> SUFFICES ASSUME GraderInv, [MainNext]_graderVars PROVE GraderInv'
  OBVIOUS
<1> USE GraderAssumption
    DEF GraderInv, GraderType, MainInv, OneLibrary, TaskMatches, MemoryMatches, PassedSoFar,
             LibraryInUse, NoWakeUpLost, CleanExit, Places, Bounded, Called, Library, MainAt, MainGoto, End,
             mainVars, objectVars, runVars
<1>1. CASE Load
  BY <1>1 DEF Load
<1>2. CASE LoadFails
  BY <1>2 DEF LoadFails
<1>3. CASE Unload
  BY <1>3 DEF Unload
<1>4. CASE Return
  BY <1>4 DEF Return
<1>5. CASE Spawn
  BY <1>5 DEF Spawn
<1>6. CASE SpawnFails
  BY <1>6 DEF SpawnFails, Throw
<1>7. CASE Wait
  BY <1>7 DEF Wait
<1>8. CASE Notified
  BY <1>8 DEF Notified
<1>9. CASE WaitTimeOut
  BY <1>9 DEF WaitTimeOut, Throw, Detached
<1>10. CASE Join
  BY <1>10 DEF Join
<1>11. CASE StartMeasure
  BY <1>11 DEF StartMeasure
<1>12. CASE MeasureThrows
  BY <1>12 DEF MeasureThrows, OnException
<1>13. CASE Func
  BY <1>13 DEF Func
<1>14. CASE FuncThrows
  BY <1>14 DEF FuncThrows
<1>15. CASE FuncCrashes
  BY <1>15 DEF FuncCrashes
<1>16. CASE RunnerNotify
  BY <1>16 DEF RunnerNotify, LockFree
<1>17. CASE WokenUp
  BY <1>17 DEF WokenUp
<1>18. ASSUME NEW violated \in BOOLEAN, Measured(violated) PROVE GraderInv'
  <2>1. (1 .. lib - 1) \cup {lib} = 1 .. lib
    OBVIOUS
  <2>2. place = "measuring" /\ place' = "spawn" /\ ~ failing
    BY <1>18 DEF Measured, FirstDestroyed
  <2>3. ~ violated => passed' = 1 .. lib
    BY <1>18, <2>1, <2>2 DEF Measured
  <2> QED BY <1>18, <2>2, <2>3 DEF Measured, FirstDestroyed
<1>19. CASE UNCHANGED graderVars
  BY <1>19 DEF graderVars
<1> QED BY <1>1, <1>2, <1>3, <1>4, <1>5, <1>6, <1>7, <1>8, <1>9, <1>10, <1>11, <1>12, <1>13, <1>14, <1>15, <1>16, <1>17, <1>18, <1>19
        DEF MainNext, Main, Runner

\* grading.cpp:342: no library is unloaded under its memory or under the workers,
\* and no memory is destroyed under the workers, on any way out of main's loop.
THEOREM GraderSafe == MainSpec => []LibraryInUse
<1>1. GraderInv => LibraryInUse
  BY DEF GraderInv
<1> QED BY <1>1, GraderInitInv, GraderNextInv, PTL DEF MainSpec

\* common.hpp, bounded_run: although the condition variable has no predicate, a
\* runner cannot notify before main waits, as main holds the mutex until then.
THEOREM GraderWakes == MainSpec => []NoWakeUpLost
<1>1. GraderInv => NoWakeUpLost
  BY DEF GraderInv
<1> QED BY <1>1, GraderInitInv, GraderNextInv, PTL DEF MainSpec

\* Code 0 means that every library passed; the memories are destroyed and the
\* libraries unloaded by then.
THEOREM GraderExits == MainSpec => []CleanExit
<1>1. GraderInv => CleanExit
  BY DEF GraderInv
<1> QED BY <1>1, GraderInitInv, GraderNextInv, PTL DEF MainSpec
=============================================================================
