--------------------------- MODULE ClosuresProofs ---------------------------
(***************************************************************************)
(* Proofs about Closures, for any number of threads, segments and calls.   *)
(***************************************************************************)
EXTENDS Closures, TLAPS

\* The calls of the closure that are about the second segment.
NeedsSegment == {"count", "link", "fill", "free"}

\* What the types rest on: a thread that is not done has calls left to make, and a
\* closure that is about to use a segment has one.
Pending ==
    /\ tx \in [Thread -> [open : BOOLEAN, seen : Nat, copy : Memory]] /\ version \in Nat
    /\ calls \in [Thread -> 0 .. NbTx] /\ terminated \in BOOLEAN
    /\ \A t \in Thread : /\ pc[t] # "done" => calls[t] < NbTx
                         /\ pc[t] \in NeedsSegment => segment[t] # Null

TypeInv == TypeOK /\ Pending

\* The transaction that a closure runs in is open until a call aborts it or it ends.
HandleInv == \A t \in Thread : /\ pc[t] \in Callable => ~ aborted[t] /\ tx[t].open
                               /\ At(t, "leave") /\ ~ terminated => (~ aborted[t] <=> tx[t].open)
                               /\ pc[t] \in {"begin", "failed", "done"} => ~ tx[t].open

\* The list of a memory is whole: the linked segment, and no other, is there, with
\* its account.
Whole(m) == m.live = {m.next} \ {Null} /\ (m.next # Null => m.next \in m.filled)

\* The closure's view at each of its calls.
ViewAt(t) ==
    /\ pc[t] \in {"look", "alloc", "count", "free", "fold", "leave"} => Whole(View(t))
    /\ At(t, "alloc") => View(t).next = Null
    /\ pc[t] \in {"count", "free"} => View(t).next = segment[t]
    /\ At(t, "link") => View(t).next = Null
    /\ At(t, "fill") => View(t).next = segment[t]
    /\ pc[t] \in {"link", "fill"} => View(t).live = {segment[t]}
    /\ At(t, "unlink") => View(t).live = {}

\* The list goes from one segment to two or back, once the closure has run: unless
\* another commit came in between, memory is still what the transaction began with.
Toggles(t) ==
    /\ pc[t] \in {"look", "alloc", "count", "link", "free", "unlink"} => View(t).next = memory.next
    /\ pc[t] \in {"alloc", "link", "fill"} => memory.next = Null
    /\ pc[t] \in {"count", "free", "unlink", "fold"} => memory.next # Null
    /\ At(t, "fill") => View(t).next # Null
    /\ At(t, "fold") => View(t).next = Null
    /\ pc[t] \in Callable => leaving[t] = "value"
    /\ At(t, "leave") => (leaving[t] = "value" <=> View(t).next # memory.next)

OnceInv ==
    /\ changed = calls
    /\ \A t \in Thread : tx[t].open => tx[t].seen <= version /\ (Conflict(t) \/ Toggles(t))

ListInv ==
    library # "eager" =>
        /\ Whole(memory) /\ allocated = memory.live
        /\ \A t \in Thread : tx[t].open => ViewAt(t)

ClosuresInv == TypeInv /\ HandleInv /\ ListInv
-----------------------------------------------------------------------------
(* What a step of one thread leaves alone.                                  *)

Label == Callable \cup {"begin", "leave", "failed", "done"}

\* A call that goes through.
LEMMA ThroughType ==
    ASSUME TypeInv, NEW t \in Thread, pc[t] \in Callable, NEW c \in Memory,
           NEW l \in Callable \cup {"leave"}, Through(t, c, l),
           segment' \in [Thread -> Segment \cup {Null}], allocated' \subseteq Segment,
           \A u \in Thread : u # t => segment'[u] = segment[u],
           l \in NeedsSegment => segment'[t] # Null
    PROVE  /\ TypeInv'
           /\ tx'[t].open = tx[t].open /\ View(t)' = c /\ pc'[t] = l
           /\ \A u \in Thread : u # t => tx'[u] = tx[u] /\ pc'[u] = pc[u]
<1> USE DEF Through, View
<1>1. pc' = [pc EXCEPT ![t] = l] /\ pc' \in [Thread -> Label]
  BY DEF TypeInv, TypeOK, Label
<1>2. tx' \in [Thread -> [open : BOOLEAN, seen : Nat, copy : Memory]]
      /\ tx'[t].open = tx[t].open /\ tx'[t].copy = c
      /\ \A u \in Thread : u # t => tx'[u] = tx[u]
  BY DEF TypeInv, Pending
<1>3. Pending'
  BY <1>1, <1>2 DEF TypeInv, Pending, TypeOK, Callable, NeedsSegment
<1>4. TypeOK'
  BY <1>1, <1>2, <1>3 DEF TypeInv, TypeOK, Pending, Label
<1> QED BY <1>1, <1>2, <1>3, <1>4 DEF TypeInv, TypeOK

LEMMA ThroughInv ==
    ASSUME ClosuresInv, NEW t \in Thread, pc[t] \in Callable, NEW c \in Memory,
           NEW l \in Callable \cup {"leave"}, Through(t, c, l),
           segment' \in [Thread -> Segment \cup {Null}], allocated' \subseteq Segment,
           \A u \in Thread : u # t => segment'[u] = segment[u],
           l \in NeedsSegment => segment'[t] # Null,
           library # "eager" => allocated' = allocated /\ ViewAt(t)'
    PROVE  ClosuresInv'
<1>1. /\ TypeInv' /\ tx'[t].open = tx[t].open /\ View(t)' = c /\ pc'[t] = l
      /\ \A u \in Thread : u # t => tx'[u] = tx[u] /\ pc'[u] = pc[u]
  BY ThroughType DEF ClosuresInv
<1>2. HandleInv'
  BY <1>1 DEF ClosuresInv, HandleInv, Through, At, Callable
<1>3. \A u \in Thread : u # t => ViewAt(u)' = ViewAt(u)
  BY <1>1 DEF ViewAt, View, At
<1>4. ListInv'
  BY <1>1, <1>3 DEF ClosuresInv, ListInv, Through
<1> QED BY <1>1, <1>2, <1>4 DEF ClosuresInv

\* The library drops the transaction, or has committed it, and the thread is elsewhere.
LEMMA ClosedType == Closed \in [open : BOOLEAN, seen : Nat, copy : Memory] /\ ~ Closed.open
  BY DEF Closed, Memory, Empty

LEMMA ClosedInv ==
    ASSUME ClosuresInv, NEW t \in Thread, tx' = [tx EXCEPT ![t] = Closed],
           NEW l \in {"begin", "leave", "failed", "done"}, pc' = [pc EXCEPT ![t] = l],
           aborted' \in [Thread -> BOOLEAN], leaving' \in [Thread -> {"value", "Retry", "Alloc"}],
           \A u \in Thread : u # t => aborted'[u] = aborted[u],
           terminated' \in BOOLEAN, terminated => terminated',
           l = "leave" => aborted'[t] \/ terminated',
           calls' \in [Thread -> 0 .. NbTx], version' \in Nat,
           l # "done" => calls'[t] < NbTx, \A u \in Thread : u # t => calls'[u] = calls[u],
           UNCHANGED <<segment, library>>, memory' \in Memory, allocated' \subseteq Segment,
           library # "eager" => Whole(memory') /\ allocated' = memory'.live
    PROVE  ClosuresInv'
<1>1. /\ pc' \in [Thread -> Label] /\ pc'[t] = l /\ ~ tx'[t].open
      /\ tx' \in [Thread -> [open : BOOLEAN, seen : Nat, copy : Memory]]
      /\ \A u \in Thread : u # t => tx'[u] = tx[u] /\ pc'[u] = pc[u]
  BY ClosedType DEF ClosuresInv, TypeInv, TypeOK, Pending, Label
<1>2. TypeInv'
  BY <1>1 DEF ClosuresInv, TypeInv, TypeOK, Pending, View, Label, NeedsSegment
<1>3. HandleInv'
  BY <1>1 DEF ClosuresInv, HandleInv, At, Callable
<1>4. \A u \in Thread : u # t => ViewAt(u)' = ViewAt(u)
  BY <1>1 DEF ViewAt, View, At
<1>5. ListInv'
  BY <1>1, <1>4 DEF ClosuresInv, ListInv, Whole
<1> QED BY <1>2, <1>3, <1>5 DEF ClosuresInv

LEMMA ClosuresInit == Init => ClosuresInv
<1> SUFFICES ASSUME Init PROVE ClosuresInv
  OBVIOUS
<1>1. TypeInv
  <2>1. Empty \in Memory /\ Closed.copy = Empty
    BY DEF Empty, Memory, Closed
  <2>2. TypeOK
    BY <2>1, ClosuresAssumption DEF Init, TypeOK, View, Callable
  <2>3. Pending
    <3>1. tx \in [Thread -> [open : BOOLEAN, seen : Nat, copy : Memory]]
      BY ClosedType DEF Init
    <3>2. calls \in [Thread -> 0 .. NbTx] /\ \A t \in Thread : calls[t] < NbTx
      BY ClosuresAssumption DEF Init
    <3> QED BY <3>1, <3>2 DEF Init, Pending, NeedsSegment
  <2> QED BY <2>2, <2>3 DEF TypeInv
<1>2. HandleInv /\ ListInv
  BY <1>1, ClosedType DEF Init, HandleInv, ListInv, At, Callable, Whole, Empty
<1> QED BY <1>1, <1>2 DEF ClosuresInv
-----------------------------------------------------------------------------
(* transactional and Transaction.                                           *)

\* What the invariant says of the list in front of a call.
LEMMA ViewNow ==
    ASSUME ClosuresInv, NEW t \in Thread, pc[t] \in Callable \cup {"leave"}, tx[t].open
    PROVE  /\ View(t) \in Memory /\ segment[t] \in Segment \cup {Null}
           /\ pc[t] \in NeedsSegment => segment[t] \in Segment
           /\ library # "eager" => ViewAt(t)
  BY DEF ClosuresInv, TypeInv, TypeOK, Pending, ListInv

LEMMA BeginInv == ASSUME ClosuresInv, NEW t \in Thread, Begin(t) PROVE ClosuresInv'
<1> DEFINE new == [open |-> TRUE, seen |-> version, copy |-> memory]
<1>1. /\ pc[t] = "begin" /\ tx' = [tx EXCEPT ![t] = new] /\ pc' = [pc EXCEPT ![t] = "look"]
      /\ aborted' = [aborted EXCEPT ![t] = FALSE] /\ leaving' = [leaving EXCEPT ![t] = "value"]
      /\ UNCHANGED <<segment, calls, terminated, library, memory, allocated, version>>
  BY DEF Begin, At
<1>2. new \in [open : BOOLEAN, seen : Nat, copy : Memory] /\ new.open /\ new.copy = memory
  BY DEF ClosuresInv, TypeInv, TypeOK, Pending
<1> HIDE DEF new
<1>3. /\ pc' \in [Thread -> Label] /\ pc'[t] = "look" /\ tx'[t] = new
      /\ tx' \in [Thread -> [open : BOOLEAN, seen : Nat, copy : Memory]]
      /\ aborted' \in [Thread -> BOOLEAN] /\ ~ aborted'[t]
      /\ leaving' \in [Thread -> {"value", "Retry", "Alloc"}]
      /\ \A u \in Thread : u # t => tx'[u] = tx[u] /\ pc'[u] = pc[u] /\ aborted'[u] = aborted[u]
  BY <1>1, <1>2 DEF ClosuresInv, TypeInv, TypeOK, Pending, Label, Callable
<1>4. TypeInv'
  BY <1>1, <1>3 DEF ClosuresInv, TypeInv, TypeOK, Pending, View, Label, NeedsSegment
<1>5. HandleInv'
  BY <1>1, <1>2, <1>3 DEF ClosuresInv, HandleInv, At, Callable
<1>6. \A u \in Thread : u # t => ViewAt(u)' = ViewAt(u)
  BY <1>1, <1>3 DEF ViewAt, View, At
<1>7. library # "eager" => ViewAt(t)'
  BY <1>1, <1>2, <1>3 DEF ClosuresInv, ListInv, ViewAt, View, At, Whole
<1>8. ListInv'
  BY <1>1, <1>6, <1>7 DEF ClosuresInv, ListInv, Whole
<1> QED BY <1>4, <1>5, <1>8 DEF ClosuresInv

\* A step that changes where the thread is and how it left, and nothing of the library.
LEMMA LeaveInv ==
    ASSUME ClosuresInv, NEW t \in Thread, NEW l \in {"begin", "leave", "failed"},
           pc' = [pc EXCEPT ![t] = l], pc[t] # "done",
           leaving' \in [Thread -> {"value", "Retry", "Alloc"}],
           UNCHANGED <<segment, aborted, calls, terminated, library, memory, allocated, version, tx>>,
           tx[t].open <=> l = "leave", l = "leave" => ~ aborted[t] /\ (library = "eager" \/ Whole(View(t)))
    PROVE  ClosuresInv'
<1>1. /\ pc' \in [Thread -> Label] /\ pc'[t] = l
      /\ \A u \in Thread : u # t => pc'[u] = pc[u]
  BY DEF ClosuresInv, TypeInv, TypeOK, Label
<1>2. TypeInv'
  BY <1>1 DEF ClosuresInv, TypeInv, TypeOK, Pending, View, Label, NeedsSegment
<1>3. HandleInv'
  BY <1>1 DEF ClosuresInv, HandleInv, At, Callable
<1>4. \A u \in Thread : u # t => ViewAt(u)' = ViewAt(u)
  BY <1>1 DEF ViewAt, View, At
<1>5. library # "eager" /\ tx[t].open => ViewAt(t)'
  BY <1>1 DEF ViewAt, View, At, Whole
<1>6. ListInv'
  BY <1>1, <1>4, <1>5 DEF ClosuresInv, ListInv, Whole
<1> QED BY <1>2, <1>3, <1>6 DEF ClosuresInv

LEMMA BeginFailsInv == ASSUME ClosuresInv, NEW t \in Thread, BeginFails(t) PROVE ClosuresInv'
<1>1. pc[t] = "begin" /\ ~ tx[t].open
  BY DEF BeginFails, At, ClosuresInv, HandleInv
<1> QED BY <1>1, LeaveInv DEF BeginFails, ClosuresInv, TypeInv, TypeOK

LEMMA RefusedInv == ASSUME ClosuresInv, NEW t \in Thread, Refused(t) PROVE ClosuresInv'
<1>1. /\ tx' = [tx EXCEPT ![t] = Closed] /\ pc' = [pc EXCEPT ![t] = "leave"]
      /\ aborted' = [aborted EXCEPT ![t] = TRUE] /\ leaving' = [leaving EXCEPT ![t] = "Retry"]
      /\ UNCHANGED <<segment, calls, terminated, library, memory, allocated, version>>
      /\ pc[t] # "done"
  BY DEF Refused, Drop, LeaveWith, Callable
<1>2. /\ aborted' \in [Thread -> BOOLEAN] /\ aborted'[t]
      /\ \A u \in Thread : u # t => aborted'[u] = aborted[u]
      /\ leaving' \in [Thread -> {"value", "Retry", "Alloc"}]
  BY <1>1 DEF ClosuresInv, TypeInv, TypeOK
<1> QED BY <1>1, <1>2, ClosedInv DEF ClosuresInv, TypeInv, TypeOK, Pending, ListInv

\* Where the end of a transaction leads to, whatever tm_end answers.
LEMMA AfterStep ==
    ASSUME ClosuresInv, NEW t \in Thread, pc[t] = "leave", NEW ok \in BOOLEAN, After(t, ok)
    PROVE  /\ calls' \in [Thread -> 0 .. NbTx] /\ terminated' \in BOOLEAN
           /\ terminated => terminated'
           /\ \A u \in Thread : u # t => calls'[u] = calls[u]
           /\ \E l \in {"begin", "leave", "failed", "done"} :
                 /\ pc' = [pc EXCEPT ![t] = l] /\ (l = "leave" => terminated')
                 /\ l # "done" => calls'[t] < NbTx
<1>1. /\ calls[t] \in Nat /\ calls[t] < NbTx /\ NbTx \in Nat /\ terminated \in BOOLEAN
      /\ calls \in [Thread -> 0 .. NbTx] /\ pc \in [Thread -> Label]
  BY ClosuresAssumption DEF ClosuresInv, TypeInv, TypeOK, Pending, Label
<1>2. CASE leaving[t] = "value" /\ ok
  <2>1. /\ calls' = [calls EXCEPT ![t] = @ + 1] /\ UNCHANGED terminated
        /\ pc' = [pc EXCEPT ![t] = IF LastCall(t) THEN "done" ELSE "begin"]
    BY <1>2 DEF After
  <2>2. calls'[t] = calls[t] + 1 /\ calls' \in [Thread -> 0 .. NbTx]
    BY <1>1, <2>1
  <2>3. CASE LastCall(t)
    BY <1>1, <2>1, <2>2, <2>3
  <2>4. CASE ~ LastCall(t)
    <3>1. calls'[t] < NbTx
      BY <1>1, <2>2, <2>4 DEF LastCall
    <3> QED BY <1>1, <2>1, <2>2, <2>4, <3>1
  <2> QED BY <2>3, <2>4
<1>3. CASE leaving[t] = "Alloc" /\ ~ ok
  <2>1. pc' = [pc EXCEPT ![t] = "leave"] /\ terminated' /\ UNCHANGED calls
    BY <1>1, <1>3 DEF After
  <2> QED BY <1>1, <2>1 DEF After
<1>4. CASE ~ (leaving[t] = "value" /\ ok) /\ ~ (leaving[t] = "Alloc" /\ ~ ok)
  <2>1. /\ \E l \in {"begin", "failed"} : pc' = [pc EXCEPT ![t] = l]
        /\ UNCHANGED <<calls, terminated>>
    BY <1>4 DEF After
  <2> QED BY <1>1, <2>1
<1> QED BY <1>2, <1>3, <1>4

LEMMA EndInv == ASSUME ClosuresInv, NEW t \in Thread, ~ terminated, End(t) PROVE ClosuresInv'
<1>1. pc[t] = "leave" /\ ~ aborted[t] /\ UNCHANGED <<segment, aborted, leaving>>
  BY DEF End, At, MustEnd
<1>2. tx[t].open
  BY <1>1 DEF ClosuresInv, HandleInv, At
<1>3. View(t) \in Memory /\ (library # "eager" => Whole(View(t)))
  BY <1>1, <1>2, ViewNow DEF ViewAt
<1>4. /\ tx' = [tx EXCEPT ![t] = Closed] /\ UNCHANGED library
      /\ memory' \in Memory /\ allocated' \subseteq Segment /\ version' \in Nat
      /\ library # "eager" => Whole(memory') /\ allocated' = memory'.live
  <2>1. CASE Commit(t)
    BY <1>3, <2>1 DEF Commit, Eager, ClosuresInv, TypeInv, TypeOK, Pending, Memory
  <2>2. CASE Drop(t)
    BY <2>2 DEF Drop, ClosuresInv, TypeInv, TypeOK, Pending, ListInv
  <2> QED BY <2>1, <2>2 DEF End
<1>5. PICK ok \in BOOLEAN : After(t, ok)
  BY DEF End, EndResult
<1>6. PICK l \in {"begin", "leave", "failed", "done"} :
          /\ pc' = [pc EXCEPT ![t] = l] /\ (l = "leave" => terminated')
          /\ l # "done" => calls'[t] < NbTx
          /\ calls' \in [Thread -> 0 .. NbTx] /\ terminated' \in BOOLEAN
          /\ terminated => terminated'
          /\ \A u \in Thread : u # t => calls'[u] = calls[u]
  BY <1>1, <1>5, AfterStep
<1> QED BY <1>1, <1>4, <1>6, ClosedInv DEF ClosuresInv, TypeInv, TypeOK

LEMMA UnwoundInv == ASSUME ClosuresInv, NEW t \in Thread, ~ terminated, Unwound(t) PROVE ClosuresInv'
<1>1. /\ pc[t] = "leave" /\ aborted[t]
      /\ UNCHANGED <<segment, aborted, leaving, calls, terminated, libraryVars>>
  BY DEF Unwound, At, MustEnd
<1>2. PICK l \in {"begin", "failed"} : pc' = [pc EXCEPT ![t] = l]
  BY DEF Unwound
<1>3. ~ tx[t].open
  BY <1>1 DEF ClosuresInv, HandleInv, At
<1> QED BY <1>1, <1>2, <1>3, LeaveInv DEF libraryVars, ClosuresInv, TypeInv, TypeOK

LEMMA AllocFailsInv == ASSUME ClosuresInv, NEW t \in Thread, AllocFails(t) PROVE ClosuresInv'
<1>1. /\ pc[t] = "alloc" /\ pc' = [pc EXCEPT ![t] = "leave"]
      /\ leaving' = [leaving EXCEPT ![t] = "Alloc"]
      /\ UNCHANGED <<segment, aborted, calls, terminated, libraryVars>>
  BY DEF AllocFails, At, LeaveWith
<1>2. tx[t].open /\ ~ aborted[t]
  BY <1>1 DEF ClosuresInv, HandleInv, Callable
<1>3. library # "eager" => Whole(View(t))
  BY <1>1, <1>2, ViewNow DEF ViewAt, Callable
<1> QED BY <1>1, <1>2, <1>3, LeaveInv DEF libraryVars, ClosuresInv, TypeInv, TypeOK
-----------------------------------------------------------------------------
(* The calls of the closure.                                                *)

\* A call that changes nothing in the closure's view, but the place it goes on at.
LEMMA ReadingInv ==
    ASSUME ClosuresInv, NEW t \in Thread,
           Look(t) \/ ReadSegment(t) \/ Fold(t)
    PROVE  ClosuresInv'
<1>1. PICK l \in {"alloc", "count", "free", "leave"} :
          /\ Through(t, View(t), l) /\ allocated' = allocated
          /\ segment' = IF pc[t] = "look" THEN [segment EXCEPT ![t] = View(t).next] ELSE segment
          /\ CASE l = "alloc" -> pc[t] = "look" /\ View(t).next = Null
               [] l = "count" -> pc[t] = "look" /\ View(t).next # Null
               [] l = "free"  -> pc[t] = "count"
               [] l = "leave" -> pc[t] = "fold"
  BY DEF Look, ReadSegment, Fold, At
<1>2. pc[t] \in Callable /\ tx[t].open
  BY <1>1 DEF Callable, ClosuresInv, HandleInv
<1>3. View(t) \in Memory /\ View(t).next \in Segment \cup {Null} /\ (library # "eager" => ViewAt(t))
  BY <1>2, ViewNow DEF Memory
<1>4. /\ segment' \in [Thread -> Segment \cup {Null}] /\ allocated' \subseteq Segment
      /\ \A u \in Thread : u # t => segment'[u] = segment[u]
      /\ segment'[t] = IF pc[t] = "look" THEN View(t).next ELSE segment[t]
  BY <1>1, <1>3 DEF ClosuresInv, TypeInv, TypeOK
<1>5. PICK c \in Memory : c = View(t)
  BY <1>3
<1>6. l \in NeedsSegment => segment'[t] # Null
  BY <1>1, <1>2, <1>4, ViewNow, ClosuresAssumption DEF NeedsSegment, Callable
<1>7. View(t)' = c /\ pc'[t] = l
  BY <1>1, <1>2, <1>4, <1>5, <1>6, ThroughType DEF ClosuresInv, Callable
<1>8. library # "eager" => ViewAt(t)'
  BY <1>1, <1>3, <1>4, <1>5, <1>7 DEF ViewAt, At, Whole
<1> QED BY <1>1, <1>2, <1>4, <1>5, <1>6, <1>8, ThroughInv DEF Callable

\* A call that changes the view: what is left to show is what holds at the next call.
LEMMA WritingInv ==
    ASSUME ClosuresInv, NEW t \in Thread, pc[t] \in {"alloc", "link", "fill", "free", "unlink"},
           NEW c \in Memory, NEW l \in {"link", "fill", "leave", "unlink", "fold"},
           Through(t, c, l), segment' \in [Thread -> Segment \cup {Null}], allocated' \subseteq Segment,
           \A u \in Thread : u # t => segment'[u] = segment[u],
           l \in NeedsSegment => segment'[t] # Null,
           library # "eager" =>
               /\ allocated' = allocated
               /\ l \in {"fold", "leave"} => Whole(c)
               /\ l = "link" => c.next = Null
               /\ l = "fill" => c.next = segment'[t]
               /\ l \in {"link", "fill"} => c.live = {segment'[t]}
               /\ l = "unlink" => c.live = {}
    PROVE  ClosuresInv'
<1>1. View(t)' = c /\ pc'[t] = l
  BY ThroughType DEF ClosuresInv, Callable
<1>2. library # "eager" => ViewAt(t)'
  BY <1>1 DEF ViewAt, At
<1> QED BY <1>2, ThroughInv DEF Callable

LEMMA AllocInv == ASSUME ClosuresInv, NEW t \in Thread, Alloc(t) PROVE ClosuresInv'
<1> DEFINE c(s) == [View(t) EXCEPT !.live = @ \cup {s}, !.filled = @ \ {s}]
<1>1. pc[t] = "alloc" /\ tx[t].open
  BY DEF Alloc, At, Callable, ClosuresInv, HandleInv
<1>2. View(t) \in Memory /\ (library # "eager" => Whole(View(t)) /\ View(t).next = Null)
  BY <1>1, ViewNow DEF ViewAt, At, Callable
<1>3. PICK s \in Segment : /\ segment' = [segment EXCEPT ![t] = s] /\ Through(t, c(s), "link")
                           /\ allocated' = IF Eager THEN allocated \cup {s} ELSE allocated
  BY DEF Alloc
<1>4. c(s) \in Memory /\ c(s).next = View(t).next /\ c(s).live = View(t).live \cup {s}
  BY <1>2 DEF Memory
<1> HIDE DEF c
<1>5. /\ segment' \in [Thread -> Segment \cup {Null}] /\ allocated' \subseteq Segment
      /\ segment'[t] = s /\ s # Null /\ \A u \in Thread : u # t => segment'[u] = segment[u]
  BY <1>3, ClosuresAssumption DEF ClosuresInv, TypeInv, TypeOK
<1>6. library # "eager" => /\ allocated' = allocated
                           /\ c(s).next = Null /\ c(s).live = {segment'[t]}
  BY <1>2, <1>3, <1>4, <1>5 DEF Whole, Eager
<1> QED BY <1>1, <1>3, <1>4, <1>5, <1>6, WritingInv

LEMMA LinkInv == ASSUME ClosuresInv, NEW t \in Thread, Link(t) PROVE ClosuresInv'
<1> DEFINE c == [View(t) EXCEPT !.next = segment[t]]
<1>1. /\ pc[t] = "link" /\ tx[t].open /\ UNCHANGED <<segment, allocated>> /\ Through(t, c, "fill")
  BY DEF Link, At, Callable, ClosuresInv, HandleInv
<1>2. /\ View(t) \in Memory /\ segment[t] \in Segment /\ segment[t] # Null
      /\ library # "eager" => View(t).live = {segment[t]}
  BY <1>1, ViewNow, ClosuresAssumption DEF ViewAt, At, Callable, NeedsSegment
<1>3. c \in Memory /\ c.next = segment[t] /\ c.live = View(t).live
  BY <1>2 DEF Memory
<1> HIDE DEF c
<1> QED BY <1>1, <1>2, <1>3, WritingInv DEF ClosuresInv, TypeInv, TypeOK

LEMMA FillInv == ASSUME ClosuresInv, NEW t \in Thread, Fill(t) PROVE ClosuresInv'
<1> DEFINE c == [View(t) EXCEPT !.filled = @ \cup {segment[t]}]
<1>1. /\ pc[t] = "fill" /\ tx[t].open /\ UNCHANGED <<segment, allocated>> /\ Through(t, c, "leave")
  BY DEF Fill, At, Callable, ClosuresInv, HandleInv
<1>2. /\ View(t) \in Memory /\ segment[t] \in Segment /\ segment[t] # Null
      /\ library # "eager" => View(t).live = {segment[t]} /\ View(t).next = segment[t]
  BY <1>1, ViewNow, ClosuresAssumption DEF ViewAt, At, Callable, NeedsSegment
<1>3. c \in Memory /\ c.next = View(t).next /\ c.live = View(t).live
      /\ c.filled = View(t).filled \cup {segment[t]}
  BY <1>2 DEF Memory
<1> HIDE DEF c
<1>4. library # "eager" => Whole(c)
  BY <1>2, <1>3 DEF Whole
<1> QED BY <1>1, <1>3, <1>4, WritingInv DEF ClosuresInv, TypeInv, TypeOK, NeedsSegment

LEMMA FreeInv == ASSUME ClosuresInv, NEW t \in Thread, Free(t) PROVE ClosuresInv'
<1> DEFINE c == [View(t) EXCEPT !.live = @ \ {segment[t]}, !.filled = @ \ {segment[t]}]
<1>1. /\ pc[t] = "free" /\ tx[t].open /\ UNCHANGED segment /\ Through(t, c, "unlink")
      /\ allocated' = IF Eager THEN allocated \ {segment[t]} ELSE allocated
  BY DEF Free, At, Callable, ClosuresInv, HandleInv
<1>2. /\ View(t) \in Memory
      /\ library # "eager" => Whole(View(t)) /\ View(t).next = segment[t]
  BY <1>1, ViewNow DEF ViewAt, At, Callable
<1>3. c \in Memory /\ c.live = View(t).live \ {segment[t]}
  BY <1>2 DEF Memory
<1> HIDE DEF c
<1>4. library # "eager" => c.live = {} /\ allocated' = allocated
  BY <1>1, <1>2, <1>3 DEF Whole, Eager
<1>5. allocated' \subseteq Segment /\ segment' \in [Thread -> Segment \cup {Null}]
  BY <1>1 DEF ClosuresInv, TypeInv, TypeOK
<1> QED BY <1>1, <1>3, <1>4, <1>5, WritingInv DEF NeedsSegment

LEMMA UnlinkInv == ASSUME ClosuresInv, NEW t \in Thread, Unlink(t) PROVE ClosuresInv'
<1> DEFINE c == [View(t) EXCEPT !.next = Null]
<1>1. /\ pc[t] = "unlink" /\ tx[t].open /\ UNCHANGED <<segment, allocated>> /\ Through(t, c, "fold")
  BY DEF Unlink, Cleared, At, Callable, ClosuresInv, HandleInv
<1>2. View(t) \in Memory /\ (library # "eager" => View(t).live = {})
  BY <1>1, ViewNow DEF ViewAt, At, Callable
<1>3. c \in Memory /\ c.next = Null /\ c.live = View(t).live
  BY <1>2 DEF Memory
<1> HIDE DEF c
<1>4. library # "eager" => Whole(c)
  BY <1>2, <1>3 DEF Whole
<1> QED BY <1>1, <1>3, <1>4, WritingInv DEF ClosuresInv, TypeInv, TypeOK, NeedsSegment
-----------------------------------------------------------------------------
(* The theorems.                                                            *)

LEMMA ClosuresNext == ClosuresInv /\ [Next]_vars => ClosuresInv'
<1> SUFFICES ASSUME ClosuresInv, [Next]_vars PROVE ClosuresInv'
  OBVIOUS
<1>1. ASSUME NEW t \in Thread, Step(t) PROVE ClosuresInv'
  BY <1>1, BeginInv, RefusedInv, EndInv, UnwoundInv, ReadingInv, AllocInv, AllocFailsInv, LinkInv,
     FillInv, FreeInv, UnlinkInv DEF Step
<1>2. CASE UNCHANGED vars
  BY <1>2 DEF vars, clientVars, libraryVars, ClosuresInv, TypeInv, TypeOK, Pending, HandleInv,
              ListInv, ViewAt, View, At, Whole
<1> QED BY <1>1, <1>2, BeginFailsInv DEF Next

THEOREM ClosuresInvariant == Spec => []ClosuresInv
  BY ClosuresInit, ClosuresNext, PTL DEF Spec

\* transactional.hpp: handles, results and counters have their types, for any library.
THEOREM ClosuresType == Spec => []TypeOK
<1>1. ClosuresInv => TypeOK
  BY DEF ClosuresInv, TypeInv
<1> QED BY <1>1, ClosuresInvariant, PTL

\* What a step that does not commit has to show: that its own transaction still toggles.
LEMMA OnceFrame ==
    ASSUME TypeInv, OnceInv, NEW t \in Thread, TypeInv', UNCHANGED <<memory, version, changed, calls>>,
           \A u \in Thread : u # t => /\ tx'[u] = tx[u] /\ pc'[u] = pc[u]
                                      /\ leaving'[u] = leaving[u],
           tx'[t].open => tx'[t].seen <= version /\ (tx'[t].seen # version \/ Toggles(t)')
    PROVE  OnceInv'
<1>1. ASSUME NEW u \in Thread, u # t PROVE Toggles(u)' = Toggles(u) /\ Conflict(u)' = Conflict(u)
  BY <1>1 DEF Toggles, View, Conflict, At
<1> QED BY <1>1 DEF OnceInv, Conflict

\* A call of the closure: c is the view after it, of which only next matters.
LEMMA OnceThrough ==
    ASSUME ClosuresInv, OnceInv, ClosuresInv', NEW t \in Thread, pc[t] \in Callable,
           NEW c, NEW l, Through(t, c, l),
           Toggles(t) /\ View(t)' = c /\ pc'[t] = l /\ UNCHANGED <<memory, leaving>> => Toggles(t)'
    PROVE  OnceInv'
<1>1. /\ UNCHANGED <<memory, version, changed, calls, leaving>>
      /\ tx' = [tx EXCEPT ![t].copy = c] /\ pc' = [pc EXCEPT ![t] = l]
  BY DEF Through
<1>2. /\ tx'[t].open = tx[t].open /\ tx'[t].seen = tx[t].seen /\ View(t)' = c /\ pc'[t] = l
      /\ \A u \in Thread : u # t => tx'[u] = tx[u] /\ pc'[u] = pc[u]
  BY <1>1 DEF ClosuresInv, TypeInv, TypeOK, Pending, View
<1>3. tx[t].open /\ tx[t].seen <= version /\ (tx[t].seen # version \/ Toggles(t))
  BY DEF OnceInv, Conflict, ClosuresInv, HandleInv
<1> QED BY <1>1, <1>2, <1>3, OnceFrame DEF ClosuresInv

LEMMA OnceCalls ==
    ASSUME ClosuresInv, OnceInv, ClosuresInv', NEW t \in Thread,
           Look(t) \/ ReadSegment(t) \/ Alloc(t) \/ Link(t) \/ Fill(t) \/ Free(t) \/ Unlink(t) \/ Fold(t)
    PROVE  OnceInv'
<1>1. View(t) \in Memory /\ (pc[t] \in NeedsSegment => segment[t] # Null)
  BY DEF ClosuresInv, TypeInv, TypeOK, Pending
<1> USE DEF At, Callable
<1>2. CASE Look(t)
  <2>1. pc[t] = "look" /\ Through(t, View(t), IF View(t).next = Null THEN "alloc" ELSE "count")
    BY <1>2 DEF Look
  <2> QED BY <2>1, OnceThrough DEF Toggles
<1>3. CASE ReadSegment(t)
  <2>1. pc[t] = "count" /\ Through(t, View(t), "free")
    BY <1>3 DEF ReadSegment
  <2> QED BY <2>1, OnceThrough DEF Toggles
<1>4. CASE Fold(t)
  <2>1. pc[t] = "fold" /\ Through(t, View(t), "leave")
    BY <1>4 DEF Fold
  <2> QED BY <2>1, OnceThrough DEF Toggles
<1>5. CASE Alloc(t)
  <2> DEFINE c(s) == [View(t) EXCEPT !.live = @ \cup {s}, !.filled = @ \ {s}]
  <2>1. PICK s \in Segment : pc[t] = "alloc" /\ Through(t, c(s), "link")
    BY <1>5 DEF Alloc
  <2>2. c(s).next = View(t).next
    BY <1>1 DEF Memory
  <2> HIDE DEF c
  <2> QED BY <2>1, <2>2, OnceThrough DEF Toggles
<1>6. CASE Link(t)
  <2>1. PICK c : /\ pc[t] = "link" /\ Through(t, c, "fill")
                 /\ c.next = segment[t] /\ segment[t] # Null
    BY <1>1, <1>6 DEF Link, Memory, NeedsSegment
  <2> QED BY <2>1, OnceThrough DEF Toggles
<1>7. CASE Fill(t)
  <2>1. PICK c : pc[t] = "fill" /\ Through(t, c, "leave") /\ c.next = View(t).next
    BY <1>1, <1>7 DEF Fill, Memory
  <2> QED BY <2>1, OnceThrough DEF Toggles
<1>8. CASE Free(t)
  <2> DEFINE c == [View(t) EXCEPT !.live = @ \ {segment[t]}, !.filled = @ \ {segment[t]}]
  <2>1. pc[t] = "free" /\ Through(t, c, "unlink")
    BY <1>8 DEF Free
  <2>2. c.next = View(t).next
    BY <1>1 DEF Memory
  <2> HIDE DEF c
  <2> QED BY <2>1, <2>2, OnceThrough DEF Toggles
<1>9. CASE Unlink(t)
  <2>1. PICK c : pc[t] = "unlink" /\ Through(t, c, "fold") /\ c.next = Null
    BY <1>1, <1>9 DEF Unlink, Cleared, Memory
  <2> QED BY <2>1, OnceThrough DEF Toggles
<1> QED BY <1>2, <1>3, <1>4, <1>5, <1>6, <1>7, <1>8, <1>9

LEMMA OnceEnd ==
    ASSUME ClosuresInv, OnceInv, ClosuresInv', NEW t \in Thread, ~ terminated, End(t)
    PROVE  OnceInv'
<1>1. pc[t] = "leave" /\ tx[t].open /\ UNCHANGED leaving
  BY DEF End, At, MustEnd, ClosuresInv, HandleInv
<1>2. \A u \in Thread : u # t => pc'[u] = pc[u]
  BY DEF End, After, ClosuresInv, TypeInv, TypeOK
<1>3. CASE Drop(t) /\ After(t, FALSE)
  <2>1. UNCHANGED <<memory, version, changed, calls>>
    BY <1>3 DEF Drop, After
  <2>2. ~ tx'[t].open /\ \A u \in Thread : u # t => tx'[u] = tx[u]
    BY <1>3, ClosedType DEF Drop, ClosuresInv, TypeInv, Pending
  <2> QED BY <1>1, <1>2, <2>1, <2>2, OnceFrame DEF ClosuresInv
<1>4. CASE ~ Conflict(t) /\ Commit(t) /\ After(t, TRUE)
  <2>1. leaving[t] = "value" <=> View(t).next # memory.next
    BY <1>1, <1>4 DEF OnceInv, Toggles, At
  <2>2. changed' = calls'
    BY <1>1, <1>4, <2>1 DEF Commit, After, OnceInv
  <2>3. version' = version + 1 /\ version \in Nat /\ ~ tx'[t].open
        /\ \A u \in Thread : u # t => tx'[u] = tx[u] /\ tx[u].seen \in Nat
    BY <1>4, ClosedType DEF Commit, ClosuresInv, TypeInv, Pending
  <2>4. ASSUME NEW u \in Thread, tx'[u].open PROVE tx'[u].seen <= version' /\ Conflict(u)'
    BY <2>3, <2>4 DEF OnceInv, Conflict
  <2> QED BY <2>2, <2>4 DEF OnceInv
<1> QED BY <1>3, <1>4 DEF End, EndResult

LEMMA OnceNext == ClosuresInv /\ OnceInv /\ [Next]_vars => OnceInv'
<1> SUFFICES ASSUME ClosuresInv, OnceInv, [Next]_vars PROVE OnceInv'
  OBVIOUS
<1>1. ClosuresInv'
  BY ClosuresNext
<1>2. ASSUME NEW t \in Thread, ~ terminated, Step(t) \/ BeginFails(t) PROVE OnceInv'
  <2>1. CASE Begin(t)
    <3> DEFINE new == [open |-> TRUE, seen |-> version, copy |-> memory]
    <3>1. new.seen = version /\ new.copy = memory
      OBVIOUS
    <3> HIDE DEF new
    <3>2. /\ UNCHANGED <<memory, version, changed, calls>> /\ tx'[t] = new /\ pc'[t] = "look"
          /\ leaving'[t] = "value"
          /\ \A u \in Thread : u # t => tx'[u] = tx[u] /\ pc'[u] = pc[u] /\ leaving'[u] = leaving[u]
      BY <2>1 DEF Begin, ClosuresInv, TypeInv, TypeOK, Pending, new
    <3>3. Toggles(t)' /\ tx'[t].seen <= version
      BY <3>1, <3>2 DEF Toggles, At, View, ClosuresInv, TypeInv, Pending
    <3> QED BY <1>1, <3>2, <3>3, OnceFrame DEF ClosuresInv
  <2>2. CASE Refused(t)
    <3>1. /\ UNCHANGED <<memory, version, changed, calls>> /\ ~ tx'[t].open
          /\ \A u \in Thread : u # t => tx'[u] = tx[u] /\ pc'[u] = pc[u] /\ leaving'[u] = leaving[u]
      BY <2>2, ClosedType DEF Refused, Drop, LeaveWith, ClosuresInv, TypeInv, TypeOK, Pending
    <3> QED BY <1>1, <3>1, OnceFrame DEF ClosuresInv
  <2>3. CASE Unwound(t) \/ BeginFails(t)
    <3>1. UNCHANGED <<memory, version, changed, calls, tx, leaving>>
          /\ \A u \in Thread : u # t => pc'[u] = pc[u]
      BY <2>3 DEF Unwound, BeginFails, libraryVars, ClosuresInv, TypeInv, TypeOK
    <3>2. ~ tx[t].open
      BY <1>2, <2>3 DEF Unwound, BeginFails, MustEnd, At, ClosuresInv, HandleInv
    <3> QED BY <1>1, <3>1, <3>2, OnceFrame DEF ClosuresInv
  <2>4. CASE AllocFails(t)
    <3>1. /\ UNCHANGED <<memory, version, changed, calls, tx>> /\ pc[t] = "alloc" /\ pc'[t] = "leave"
          /\ leaving'[t] = "Alloc"
          /\ \A u \in Thread : u # t => pc'[u] = pc[u] /\ leaving'[u] = leaving[u]
      BY <2>4 DEF AllocFails, LeaveWith, At, libraryVars, ClosuresInv, TypeInv, TypeOK
    <3>2. Toggles(t) => Toggles(t)'
      BY <3>1 DEF Toggles, At, View, Callable
    <3> QED BY <1>1, <3>1, <3>2, OnceFrame DEF ClosuresInv, OnceInv, Conflict
  <2> QED BY <1>1, <1>2, <2>1, <2>2, <2>3, <2>4, OnceCalls, OnceEnd DEF Step
<1>3. CASE UNCHANGED vars
  BY <1>3 DEF vars, clientVars, libraryVars, OnceInv, Toggles, Conflict, View, At
<1> QED BY <1>2, <1>3 DEF Next, Step

\* transactional: for any library, eager ones included, any threads and calls, what a
\* thread was told of its calls is what it did to the list: every call that returned
\* has changed it exactly once, and a retry or a failure not at all.
THEOREM ClosuresOnce == Spec => []EachCallOnce
<1>1. Init => OnceInv
  BY ClosedType DEF Init, OnceInv
<1>2. OnceInv => EachCallOnce
  BY DEF OnceInv, EachCallOnce
<1> QED BY <1>1, <1>2, OnceNext, ClosuresInvariant, PTL DEF Spec

\* ~Transaction: for any threads, segments and calls, and whatever the library refuses,
\* a transaction is ended exactly once and no call is made on one that is over.
THEOREM ClosuresHandles == Spec => []HandlesMatch
<1>1. ClosuresInv => HandlesMatch
  BY DEF ClosuresInv, HandleInv, HandlesMatch, MustEnd
<1> QED BY <1>1, ClosuresInvariant, PTL

\* Shared::alloc and Shared::free: over libraries that take back what an aborted
\* transaction did, no segment leaks, dangles or is half built, whatever was retried.
THEOREM ClosuresSegments ==
    ASSUME "eager" \notin Libraries PROVE Spec => []SegmentsMatchPointers
<1> DEFINE I == ClosuresInv /\ library # "eager"
<1>1. Init => I
  BY ClosuresInit DEF Init
<1>2. I /\ [Next]_vars => I'
  <2> SUFFICES ASSUME I, [Next]_vars PROVE library' = library
    BY ClosuresNext
  <2> QED BY DEF Next, Step, vars, libraryVars, Begin, BeginFails, Refused, Drop, End, Commit,
             Unwound, Look, ReadSegment, Alloc, AllocFails, Link, Fill, Free, Unlink, Fold, Through
<1>3. I => SegmentsMatchPointers
  BY DEF ClosuresInv, ListInv, Whole, SegmentsMatchPointers
<1> QED BY <1>1, <1>2, <1>3, PTL DEF Spec
=============================================================================
