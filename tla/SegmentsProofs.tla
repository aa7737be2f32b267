---------------------------- MODULE SegmentsProofs ----------------------------
(***************************************************************************)
(* Proofs about the list of segments of template/: its types for any number*)
(* of threads, its soundness for one thread, any number of nodes and calls.*)
(***************************************************************************)
EXTENDS Segments, TLAPS

\* Whoever is in a call has a node in hand.
TypeInv ==
    /\ TypeOK
    /\ \A t \in Thread : /\ pc[t] # "client" => cur[t] \in Node
                         /\ pc[t] \in {"id", "link", "skip", "unprev", "back", "unnext"} => near[t] \in Node

\* A listed node is live and is where its successor's prev leads, but for the
\* nodes in raw and open, which a call is about to link or has half unlinked.
Coherent(raw, open) ==
    \A s \in Listed : /\ s \notin raw => state[s] = "live"
                      /\ s \notin open /\ next[s] # Null => prev[next[s]] = s
                      /\ next[s] # First
                      /\ s = First => id[s] = 0

\* Where tm_alloc is: the new node is not listed before it is linked.
Allocating(t) ==
    /\ pc[t] \in {"prev", "idTail", "id", "linkTail", "link", "tail"} =>
          state[cur[t]] = "raw" /\ cur[t] # First
    /\ pc[t] \in {"idTail", "id", "linkTail", "link"} => next[cur[t]] = Null /\ prev[cur[t]] = tail
    /\ pc[t] \in {"id", "link"} => near[t] = tail

\* Where tm_free is: the node is not listed any more once its prev skips it, and
\* what has been loaded of it is still so.
Freeing(t) ==
    /\ pc[t] \in {"find", "access", "free", "before", "skip", "unprev"} => cur[t] \in Listed
    /\ pc[t] \in {"before", "skip", "unprev"} => cur[t] # First
    /\ pc[t] \in {"skip", "unprev"} => near[t] = prev[cur[t]]
    /\ pc[t] = "unprev" => far[t] = next[cur[t]]
    /\ pc[t] \in {"after", "back", "unnext", "free!"} => cur[t] \notin Listed
    /\ pc[t] \in {"after", "back", "unnext"} =>
          /\ prev[cur[t]] \in Node => next[prev[cur[t]]] = next[cur[t]]
          /\ next[cur[t]] # Null => prev[next[cur[t]]] = cur[t]
    /\ pc[t] \in {"back", "unnext"} => near[t] = next[cur[t]]
    /\ pc[t] = "unnext" => far[t] = prev[cur[t]]

ListOK(t) ==
    /\ Coherent(IF pc[t] = "tail" THEN {cur[t]} ELSE {},
                IF pc[t] \in {"after", "back", "unnext"} THEN {prev[cur[t]]} ELSE {})
    /\ Allocating(t) /\ Freeing(t)

SegInv(t) == TypeInv /\ (status = "ok" => ListOK(t))
-----------------------------------------------------------------------------
(* Types.                                                                   *)

LEMMA TypeInit == Init => TypeInv
<1> SUFFICES ASSUME Init PROVE TypeInv
  OBVIOUS
<1> QED BY FirstAssumption DEF Init, TypeInv, TypeOK, Pointer

\* The end of a call, or an access that ends the run: no value of another type.
LEMMA ReturnType ==
    ASSUME TypeInv, NEW t \in Thread, Return(t), UNCHANGED <<tail, fields, calls>>,
           state' \in [Node -> {"free", "raw", "live"}], status' = status,
           First \in returned', returned' \subseteq Node
    PROVE  TypeInv'
  BY DEF TypeInv, TypeOK, Return, Goto, Pointer, fields

LEMMA StrayType ==
    ASSUME TypeInv, UNCHANGED <<tail, fields, state, locals, returned, calls>>,
           status' \in {"ok", "segv", "stray", "destroyed"}
    PROVE  TypeInv'
  BY DEF TypeInv, TypeOK, fields, locals

LEMMA TypeNext == TypeInv /\ [Next]_vars => TypeInv'
<1> SUFFICES ASSUME TypeInv, [Next]_vars PROVE TypeInv'
  OBVIOUS
<1>0. ASSUME UNCHANGED <<tail, fields, locals, returned, calls>>,
             state' \in [Node -> {"free", "raw", "live"}],
             status' \in {"ok", "segv", "stray", "destroyed"}
      PROVE  TypeInv'
  BY <1>0 DEF TypeInv, TypeOK, fields, locals
<1>d. CASE Destroy
  BY <1>d, <1>0 DEF Destroy, TypeInv, TypeOK
<1>s. CASE UNCHANGED vars
  BY <1>s, <1>0 DEF vars, TypeInv, TypeOK
<1>t. ASSUME NEW t \in Thread, Call(t) \/ InCall(t) PROVE TypeInv'
  <2> USE DEF At, Goto
  <2>1. CASE AllocNode(t)
    BY <2>1 DEF AllocNode, TypeInv, TypeOK, Pointer, fields
  <2>2. ASSUME NEW a \in returned, NEW what \in {"access", "free"}, Lookup(t, a, what)
        PROVE  TypeInv'
    BY <2>2, FirstAssumption DEF Lookup, TypeInv, TypeOK, Pointer, fields
  <2>3. CASE AllocPrev(t)
    BY <2>3 DEF AllocPrev, ResetNext, TypeInv, TypeOK, Pointer
  <2>13. ASSUME NEW here, NEW there \in {"id", "link"}, LoadTail(t, here, there), here # "client"
         PROVE  TypeInv'
    BY <2>13 DEF LoadTail, TypeInv, TypeOK, Pointer, fields
  <2>14. CASE LoadPrev(t)
    <3>1. cur[t] \in Node /\ prev[cur[t]] \in Pointer /\ next[cur[t]] \in Pointer
      BY <2>14 DEF LoadPrev, LoadNear, LoadFar, TypeInv, TypeOK
    <3> QED BY <3>1, <2>14, StrayType
            DEF LoadPrev, LoadNear, LoadFar, Deref, TypeInv, TypeOK, Pointer, fields
  <2>15. CASE LoadNext(t)
    <3>1. cur[t] \in Node /\ prev[cur[t]] \in Pointer /\ next[cur[t]] \in Pointer
      BY <2>15 DEF LoadNext, LoadNear, LoadFar, TypeInv, TypeOK
    <3> QED BY <3>1, <2>15, StrayType
            DEF LoadNext, LoadNear, LoadFar, Deref, TypeInv, TypeOK, Pointer, fields
  <2>4. CASE AllocId(t)
    BY <2>4, StrayType DEF AllocId, NextId, Deref, TypeInv, TypeOK, Pointer
  <2>5. CASE AllocLink(t)
    BY <2>5, StrayType DEF AllocLink, Deref, TypeInv, TypeOK, Pointer
  <2>6. CASE AllocTail(t)
    BY <2>6 DEF AllocTail, Return, TypeInv, TypeOK, Pointer, fields
  <2>7. CASE Find(t)
    <3>1. cur[t] \in Node /\ next[cur[t]] \in Pointer
      BY <2>7 DEF Find, TypeInv, TypeOK
    <3> QED BY <3>1, <2>7, StrayType, ReturnType
            DEF Find, Deref, TypeInv, TypeOK, Pointer, fields, locals
  <2>8. CASE Access(t)
    BY <2>8, StrayType, ReturnType DEF Access, Deref, TypeInv, TypeOK
  <2>9. CASE FreeTest(t)
    BY <2>9, StrayType, ReturnType DEF FreeTest, Deref, TypeInv, TypeOK, fields, Pointer
  <2>10. CASE FreePrev(t)
    BY <2>10, StrayType DEF FreePrev, Deref, TypeInv, TypeOK, Pointer
  <2>11. CASE FreeNext(t)
    BY <2>11, StrayType DEF FreeNext, BackLink, Deref, TypeInv, TypeOK, Pointer
  <2>12. CASE FreeNode(t)
    BY <2>12, StrayType, ReturnType DEF FreeNode, Deref, TypeInv, TypeOK
  <2> QED BY <1>t, <2>1, <2>2, <2>3, <2>4, <2>5, <2>6, <2>7, <2>8, <2>9, <2>10, <2>11, <2>12,
             <2>13, <2>14, <2>15
          DEF Call, InCall
<1> QED BY <1>d, <1>s, <1>t DEF Next

\* template/tm.c: no pointer that the list operations follow is null or wild, whatever
\* the threads do to each other; only freed nodes are followed.
THEOREM SegmentsType == Spec => []TypeOK
<1>1. TypeInv => TypeOK
  BY DEF TypeInv
<1> QED BY <1>1, TypeInit, TypeNext, PTL DEF Spec
-----------------------------------------------------------------------------
(* The listed nodes.                                                        *)

\* They are the least set that has First and is closed under next.
LEMMA ListedIsClosed ==
    ASSUME TypeOK
    PROVE  /\ First \in Listed /\ Closed(Listed) /\ Listed \subseteq Node
           /\ \A S \in SUBSET Node : First \in S /\ Closed(S) => Listed \subseteq S
<1>1. First \in Listed /\ Listed \subseteq Node
  BY FirstAssumption DEF Listed
<1>2. Closed(Listed)
  BY DEF Closed, Listed, TypeOK, Pointer
<1> QED BY <1>1, <1>2 DEF Listed

\* A change of next elsewhere lists nothing else.
LEMMA ListedStays ==
    ASSUME TypeOK, TypeOK', \A s \in Listed : next'[s] = next[s]
    PROVE  Listed' = Listed
<1>0. PICK L \in SUBSET Node : L = Listed
  BY ListedIsClosed
<1>1. First \in L /\ Closed(L)'
  BY <1>0, ListedIsClosed DEF Closed
<1>2. Listed' \subseteq L
  BY <1>1 DEF Listed
<1>3. ASSUME NEW S \in SUBSET Node, First \in S, Closed(S)' PROVE L \subseteq S
  <2> DEFINE T == S \cap L
  <2>1. T \in SUBSET Node /\ First \in T /\ Closed(T)
    BY <1>0, <1>3, ListedIsClosed DEF Closed
  <2> QED BY <2>1, <1>0, ListedIsClosed
<1>4. L \subseteq Listed'
  BY <1>3 DEF Listed
<1> QED BY <1>0, <1>2, <1>4

\* A change of next may list at most what a set has that is closed under it.
LEMMA ListedWithin ==
    ASSUME NEW S \in SUBSET Node, First \in S, Closed(S)'
    PROVE  Listed' \subseteq S
  BY DEF Listed

\* Fewer nodes listed, none of them changed, nor the prev of what follows it.
LEMMA CoherentStays ==
    ASSUME NEW raw, NEW open, NEW raw2, NEW open2, raw \subseteq raw2, open \subseteq open2,
           Coherent(raw, open), Listed' \subseteq Listed,
           \A s \in Listed : /\ state'[s] = state[s] /\ next'[s] = next[s] /\ id'[s] = id[s]
                             /\ next[s] # Null => prev'[next[s]] = prev[next[s]]
    PROVE  Coherent(raw2, open2)'
<1> SUFFICES ASSUME NEW s \in Node, s \in Listed'
             PROVE  /\ s \notin raw2 => state'[s] = "live"
                    /\ s \notin open2 /\ next'[s] # Null => prev'[next'[s]] = s
                    /\ next'[s] # First
                    /\ s = First => id'[s] = 0
  BY DEF Coherent, Listed
<1> QED BY DEF Coherent

\* A node of a coherent list has one predecessor there, which is not itself.
LEMMA OnePredecessor ==
    ASSUME TypeOK, Coherent({}, {}), NEW s \in Listed, s # First
    PROVE  /\ prev[s] \in Listed /\ prev[s] # s /\ next[prev[s]] = s
           /\ \A x \in Listed : next[x] = s => x = prev[s]
<1>1. \A x \in Listed : next[x] = s => x = prev[s]
  BY ListedIsClosed, FirstAssumption DEF Coherent
<1>2. PICK x \in Listed : x # s /\ next[x] = s
  <2> SUFFICES ASSUME \A x \in Listed : x # s => next[x] # s PROVE FALSE
    OBVIOUS
  <2> DEFINE S == Listed \ {s}
  <2>1. S \in SUBSET Node /\ First \in S /\ Closed(S)
    BY ListedIsClosed DEF Closed
  <2> QED BY <2>1, ListedIsClosed
<1> QED BY <1>1, <1>2
-----------------------------------------------------------------------------
(* One thread.                                                              *)

LEMMA SegInitInv == ASSUME NEW t, Thread = {t}, Init PROVE SegInv(t)
<1>1. TypeInv /\ pc[t] = "client"
  BY TypeInit DEF Init
<1>2. Listed = {First}
  <2>1. Closed({First}) /\ {First} \in SUBSET Node
    BY FirstAssumption DEF Init, Closed
  <2> QED BY <1>1, <2>1, ListedIsClosed DEF TypeInv
<1>3. Coherent({}, {})
  BY <1>2, FirstAssumption DEF Init, Coherent
<1> QED BY <1>1, <1>3 DEF SegInv, ListOK, Allocating, Freeing

\* A step that moves no pointer of the list, and after which the thread has a
\* listed node in hand, or none.
LEMMA WalkInv ==
    ASSUME NEW t, Thread = {t}, SegInv(t), status = "ok", TypeInv', UNCHANGED <<fields, state>>,
           pc[t] \in {"client", "find", "access", "free"},
           \/ pc'[t] = "client"
           \/ pc'[t] \in {"find", "access", "free"} /\ cur'[t] \in Listed
           \/ pc'[t] = "before" /\ cur'[t] \in Listed /\ cur'[t] # First
    PROVE  SegInv(t)'
<1>1. TypeOK /\ TypeOK' /\ Coherent({}, {})
  BY DEF SegInv, ListOK, TypeInv
<1>2. Listed' = Listed
  BY <1>1, ListedStays DEF fields
<1>3. Coherent({}, {})'
  BY <1>1, <1>2, CoherentStays DEF fields
<1>4. Allocating(t)' /\ Freeing(t)'
  BY <1>2 DEF Allocating, Freeing
<1> QED BY <1>3, <1>4 DEF SegInv, ListOK

\* A step that leaves the listed nodes and their links alone.
LEMMA AsideInv ==
    ASSUME NEW t, Thread = {t}, SegInv(t), status = "ok", TypeInv', Coherent({}, {}),
           \A s \in Listed : next'[s] = next[s] /\ prev'[s] = prev[s] /\ id'[s] = id[s]
                             /\ state'[s] = state[s]
    PROVE  Listed' = Listed /\ \A raw, open : Coherent(raw, open)'
<1>1. TypeOK /\ TypeOK'
  BY DEF SegInv, TypeInv
<1>2. Listed' = Listed
  BY <1>1, ListedStays
<1>3. \A s \in Listed : next[s] # Null => next[s] \in Listed
  BY <1>1, ListedIsClosed DEF Closed
<1>4. ASSUME NEW raw, NEW open PROVE Coherent(raw, open)'
  BY <1>2, <1>3, CoherentStays
<1> QED BY <1>2, <1>4

\* The node malloc returns is in no list.
LEMMA AllocNodeInv ==
    ASSUME NEW t, Thread = {t}, SegInv(t), TypeInv', AllocNode(t)
    PROVE  SegInv(t)'
<1>1. t \in Thread /\ status = "ok" /\ pc[t] = "client" /\ TypeOK /\ TypeOK'
  BY DEF AllocNode, At, SegInv, TypeInv
<1>2. Coherent({}, {})
  BY <1>1 DEF SegInv, ListOK
<1>3. CASE status' = "ok"
  <2>1. PICK s \in Node : /\ state[s] = "free" /\ state' = [state EXCEPT ![s] = "raw"]
                          /\ cur' = [cur EXCEPT ![t] = s] /\ Goto(t, "prev")
    BY <1>1, <1>3 DEF AllocNode
  <2>2. s \notin Listed /\ s # First
    BY <1>1, <1>2, <2>1, ListedIsClosed DEF Coherent
  <2>3. Listed' = Listed /\ Coherent({}, {})'
    BY <1>1, <1>2, <2>1, <2>2, AsideInv, ListedIsClosed DEF AllocNode, fields, TypeOK
  <2>4. pc'[t] = "prev" /\ cur'[t] = s /\ state'[s] = "raw"
    BY <1>1, <2>1 DEF Goto, TypeOK
  <2>5. Allocating(t)' /\ Freeing(t)'
    BY <2>2, <2>4 DEF Allocating, Freeing
  <2> QED BY <2>3, <2>4, <2>5 DEF SegInv, ListOK
<1> QED BY <1>3 DEF SegInv

\* What the steps of tm_alloc know before the new node is linked.
LEMMA InAlloc ==
    ASSUME NEW t, Thread = {t}, SegInv(t), status = "ok",
           pc[t] \in {"prev", "idTail", "id", "linkTail", "link"}
    PROVE  /\ t \in Thread /\ TypeOK /\ Coherent({}, {})
           /\ cur[t] \in Node /\ cur[t] \notin Listed /\ cur[t] # First /\ state[cur[t]] = "raw"
  BY ListedIsClosed DEF SegInv, ListOK, Allocating, TypeInv, Coherent

LEMMA AllocPrevInv ==
    ASSUME NEW t, Thread = {t}, SegInv(t), TypeInv', AllocPrev(t)
    PROVE  SegInv(t)'
<1>1. status = "ok" /\ pc[t] = "prev"
  BY DEF AllocPrev, At
<1>2. PICK s \in Node : s = cur[t]
  BY <1>1, InAlloc
<1>3. t \in Thread /\ TypeOK /\ TypeOK' /\ Coherent({}, {}) /\ s \notin Listed /\ s # First
      /\ state[s] = "raw"
  BY <1>1, <1>2, InAlloc DEF TypeInv
<1>4. /\ prev' = [prev EXCEPT ![s] = tail] /\ next' = [next EXCEPT ![s] = Null]
      /\ pc'[t] = "idTail" /\ UNCHANGED <<tail, id, state, cur>>
  BY <1>2, <1>3 DEF AllocPrev, ResetNext, Goto, TypeOK
<1>5. Listed' = Listed /\ Coherent({}, {})'
  BY <1>1, <1>3, <1>4, AsideInv, ListedIsClosed DEF TypeOK
<1>6. Allocating(t)' /\ Freeing(t)'
  BY <1>2, <1>3, <1>4 DEF Allocating, Freeing, TypeOK
<1> QED BY <1>4, <1>5, <1>6 DEF SegInv, ListOK

\* A load changes no node: what is listed stays as it is.
LEMMA LoadInv ==
    ASSUME NEW t, Thread = {t}, SegInv(t), status = "ok", TypeInv', UNCHANGED <<tail, fields, state, cur>>,
           NEW raw, NEW open, Coherent(raw, open)
    PROVE  /\ Listed' = Listed /\ Coherent(raw, open)'
<1>1. TypeOK /\ TypeOK'
  BY DEF SegInv, TypeInv
<1>2. Listed' = Listed
  BY <1>1, ListedStays DEF fields
<1> QED BY <1>2, CoherentStays DEF fields

LEMMA LoadTailInv ==
    ASSUME NEW t, Thread = {t}, SegInv(t), TypeInv',
           LoadTail(t, "idTail", "id") \/ LoadTail(t, "linkTail", "link")
    PROVE  SegInv(t)'
<1>1. /\ status = "ok" /\ pc[t] \in {"idTail", "linkTail"} /\ t \in Thread /\ TypeOK
      /\ UNCHANGED <<tail, fields, state, cur, status>>
  BY DEF LoadTail, At, SegInv, TypeInv
<1>2. pc'[t] \in {"id", "link"} /\ near'[t] = tail
  BY <1>1 DEF LoadTail, Goto, TypeOK
<1>3. Coherent({}, {})
  BY <1>1 DEF SegInv, ListOK
<1>4. Coherent({}, {})'
  BY <1>1, <1>3, LoadInv
<1>5. Allocating(t)
  BY <1>1 DEF SegInv, ListOK
<1>6. Allocating(t)' /\ Freeing(t)'
  BY <1>1, <1>2, <1>5 DEF Allocating, Freeing, fields
<1> QED BY <1>2, <1>4, <1>6 DEF SegInv, ListOK

\* The loads of tm_free: the node has a predecessor, and whoever has no
\* successor has nothing left to unlink.
LEMMA LoadPrevInv ==
    ASSUME NEW t, Thread = {t}, SegInv(t), TypeInv', LoadPrev(t)
    PROVE  SegInv(t)'
<1>1. status = "ok" /\ pc[t] \in {"before", "skip"} /\ t \in Thread /\ TypeOK
  BY DEF LoadPrev, LoadNear, LoadFar, At, SegInv, TypeInv
<1>2. PICK s \in Node : s = cur[t]
  BY <1>1 DEF SegInv, TypeInv
<1>3. Coherent({}, {}) /\ s \in Listed /\ s # First
  BY <1>1, <1>2 DEF SegInv, ListOK, Freeing
<1>4. prev[s] \in Node
  BY <1>1, <1>3, OnePredecessor, ListedIsClosed
<1>5. CASE status' = "ok"
  <2>1. UNCHANGED <<tail, fields, state, cur>>
    BY <1>1, <1>5 DEF LoadPrev, LoadNear, LoadFar, Deref
  <2>2. Listed' = Listed /\ Coherent({}, {})'
    BY <1>1, <1>3, <2>1, LoadInv
  <2>3. \/ pc'[t] = "skip" /\ near'[t] = prev[s]
        \/ pc[t] = "skip" /\ pc'[t] = "unprev" /\ near' = near /\ far'[t] = next[s]
    BY <1>1, <1>2, <1>4, <1>5, FirstAssumption
       DEF LoadPrev, LoadNear, LoadFar, Deref, At, Goto, TypeOK
  <2>4. pc[t] = "skip" => near[t] = prev[s]
    BY <1>1, <1>2 DEF SegInv, ListOK, Freeing
  <2>5. Allocating(t)' /\ Freeing(t)'
    BY <1>2, <1>3, <2>1, <2>2, <2>3, <2>4 DEF Allocating, Freeing, fields
  <2> QED BY <2>2, <2>3, <2>5 DEF SegInv, ListOK
<1> QED BY <1>5 DEF SegInv

LEMMA LoadNextInv ==
    ASSUME NEW t, Thread = {t}, SegInv(t), TypeInv', LoadNext(t)
    PROVE  SegInv(t)'
<1>1. status = "ok" /\ pc[t] \in {"after", "back"} /\ t \in Thread /\ TypeOK
  BY DEF LoadNext, LoadNear, LoadFar, At, SegInv, TypeInv
<1>2. PICK s \in Node : s = cur[t]
  BY <1>1 DEF SegInv, TypeInv
<1>3. /\ Coherent({}, {prev[s]}) /\ s \notin Listed
      /\ prev[s] \in Node => next[prev[s]] = next[s]
      /\ next[s] # Null => prev[next[s]] = s
  BY <1>1, <1>2 DEF SegInv, ListOK, Freeing
<1>4. CASE status' = "ok"
  <2>1. UNCHANGED <<tail, fields, state, cur>>
    BY <1>1, <1>4 DEF LoadNext, LoadNear, LoadFar, Deref
  <2>0. PICK p \in Pointer : p = prev[s] /\ p = prev'[s]
    BY <1>1, <2>1 DEF TypeOK, fields
  <2>2. Listed' = Listed /\ Coherent({}, {p})'
    BY <1>1, <1>3, <2>0, <2>1, LoadInv
  <2>3. \/ pc'[t] = "free!" /\ next[s] = Null
        \/ pc'[t] = "back" /\ near'[t] = next[s]
        \/ pc[t] = "back" /\ pc'[t] = "unnext" /\ near' = near /\ far'[t] = prev[s]
    BY <1>1, <1>2, <1>4 DEF LoadNext, LoadNear, LoadFar, Deref, At, Goto, TypeOK
  <2>4. pc[t] = "back" => near[t] = next[s]
    BY <1>1, <1>2 DEF SegInv, ListOK, Freeing
  <2>5. Allocating(t)' /\ Freeing(t)'
    BY <1>2, <1>3, <2>1, <2>2, <2>3, <2>4 DEF Allocating, Freeing, fields
  <2>6. CASE pc'[t] = "free!"
    <3>1. Coherent({}, {})'
      BY <1>1, <1>3, <2>0, <2>1, <2>2, <2>3, <2>6, ListedIsClosed DEF Coherent, fields, TypeOK
    <3> QED BY <2>5, <2>6, <3>1 DEF SegInv, ListOK
  <2>7. CASE pc'[t] \in {"back", "unnext"}
    BY <1>2, <2>0, <2>1, <2>2, <2>5, <2>7 DEF SegInv, ListOK, fields
  <2> QED BY <2>3, <2>6, <2>7
<1> QED BY <1>4 DEF SegInv

LEMMA AllocIdInv ==
    ASSUME NEW t, Thread = {t}, SegInv(t), TypeInv', AllocId(t)
    PROVE  SegInv(t)'
<1>1. status = "ok" /\ pc[t] = "id"
  BY DEF AllocId, At
<1>2. PICK s \in Node : s = cur[t]
  BY <1>1, InAlloc
<1>3. t \in Thread /\ TypeOK /\ TypeOK' /\ Coherent({}, {}) /\ s \notin Listed /\ s # First
      /\ state[s] = "raw" /\ next[s] = Null /\ prev[s] = tail /\ near[t] = tail
  BY <1>1, <1>2, InAlloc DEF TypeInv, SegInv, ListOK, Allocating
<1>4. CASE status' = "ok"
  <2>1. /\ id' = [id EXCEPT ![s] = id[tail] + 1]
        /\ pc'[t] = "linkTail" /\ UNCHANGED <<tail, prev, next, state, cur>>
    BY <1>2, <1>3, <1>4 DEF AllocId, Deref, NextId, Goto, TypeOK
  <2>2. Listed' = Listed /\ Coherent({}, {})'
    BY <1>1, <1>3, <2>1, AsideInv, ListedIsClosed DEF TypeOK
  <2>3. Allocating(t)' /\ Freeing(t)'
    BY <1>2, <1>3, <2>1 DEF Allocating, Freeing
  <2> QED BY <2>1, <2>2, <2>3 DEF SegInv, ListOK
<1> QED BY <1>4 DEF SegInv

\* allocTail may have been freed and be this very node: then nothing is linked.
LEMMA AllocLinkInv ==
    ASSUME NEW t, Thread = {t}, SegInv(t), TypeInv', AllocLink(t)
    PROVE  SegInv(t)'
<1>1. status = "ok" /\ pc[t] = "link"
  BY DEF AllocLink, At
<1>2. PICK s \in Node : s = cur[t]
  BY <1>1, InAlloc
<1>3. t \in Thread /\ TypeOK /\ TypeOK' /\ Coherent({}, {}) /\ s \notin Listed /\ s # First
      /\ state[s] = "raw" /\ next[s] = Null /\ prev[s] = tail /\ near[t] = tail
  BY <1>1, <1>2, InAlloc DEF TypeInv, SegInv, ListOK, Allocating
<1>4. CASE status' = "ok"
  <2>1. /\ next' = [next EXCEPT ![tail] = s]
        /\ pc'[t] = "tail" /\ UNCHANGED <<tail, prev, id, state, cur>>
    BY <1>2, <1>3, <1>4 DEF AllocLink, Deref, Goto, TypeOK
  <2>2. Coherent({s}, {})'
    <3>1. CASE tail \in Listed
      <4>1. PICK M \in SUBSET Node : M = Listed \cup {s}
        BY <1>3, ListedIsClosed
      <4>2. First \in M /\ Closed(M)'
        BY <1>3, <2>1, <3>1, <4>1, ListedIsClosed DEF Closed, TypeOK
      <4>3. Listed' \subseteq M
        BY <4>2, ListedWithin
      <4>4. ASSUME NEW x \in Listed'
            PROVE  /\ x \notin {s} => state'[x] = "live"
                   /\ next'[x] # Null => prev'[next'[x]] = x
                   /\ next'[x] # First
                   /\ x = First => id'[x] = 0
        <5>1. CASE x = s
          BY <1>3, <2>1, <3>1, <5>1, FirstAssumption DEF TypeOK
        <5>2. CASE x = tail
          BY <1>3, <2>1, <3>1, <5>2, FirstAssumption DEF TypeOK, Coherent
        <5>3. CASE x # s /\ x # tail
          BY <1>3, <2>1, <4>1, <4>3, <4>4, <5>3 DEF TypeOK, Coherent
        <5> QED BY <5>1, <5>2, <5>3
      <4> QED BY <4>4 DEF Coherent
    <3>2. CASE tail \notin Listed
      BY <1>1, <1>3, <2>1, <3>2, AsideInv, ListedIsClosed DEF TypeOK
    <3> QED BY <3>1, <3>2
  <2>3. Allocating(t)' /\ Freeing(t)'
    BY <1>2, <1>3, <2>1 DEF Allocating, Freeing
  <2>4. cur'[t] = s
    BY <1>2, <2>1
  <2> QED BY <2>1, <2>2, <2>3, <2>4 DEF SegInv, ListOK
<1> QED BY <1>4 DEF SegInv

LEMMA AllocTailInv ==
    ASSUME NEW t, Thread = {t}, SegInv(t), TypeInv', AllocTail(t)
    PROVE  SegInv(t)'
<1>1. status = "ok" /\ pc[t] = "tail" /\ t \in Thread /\ TypeOK /\ TypeOK'
  BY DEF AllocTail, At, SegInv, TypeInv
<1>2. PICK s \in Node : s = cur[t]
  BY <1>1 DEF SegInv, TypeInv
<1>3. Coherent({s}, {})
  BY <1>1, <1>2 DEF SegInv, ListOK
<1>4. state' = [state EXCEPT ![s] = "live"] /\ UNCHANGED fields /\ pc'[t] = "client"
  BY <1>1, <1>2 DEF AllocTail, Return, Goto, TypeOK
<1>5. Listed' = Listed
  BY <1>1, <1>4, ListedStays DEF fields
<1>6. Coherent({}, {})'
  BY <1>1, <1>3, <1>4, <1>5, ListedIsClosed DEF Coherent, fields, TypeOK
<1>7. Allocating(t)' /\ Freeing(t)'
  BY <1>4 DEF Allocating, Freeing
<1> QED BY <1>4, <1>6, <1>7 DEF SegInv, ListOK

\* The walk, and what is done with the node it finds.
LEMMA FindInv ==
    ASSUME NEW t, Thread = {t}, SegInv(t), TypeInv',
           \/ Find(t) \/ Access(t) \/ FreeTest(t)
           \/ \E a \in returned, what \in {"access", "free"} : Lookup(t, a, what)
    PROVE  SegInv(t)'
<1>1. /\ status = "ok" /\ pc[t] \in {"client", "find", "access", "free"}
      /\ t \in Thread /\ TypeOK
  BY DEF Find, Access, FreeTest, Lookup, At, SegInv, TypeInv
<1>2. Coherent({}, {}) /\ (pc[t] # "client" => cur[t] \in Listed)
  BY <1>1 DEF SegInv, ListOK, Freeing
<1>3. CASE status' = "ok"
  <2>1. CASE Find(t)
    <3>1. next[cur[t]] # Null => next[cur[t]] \in Listed
      BY <1>1, <1>2, <2>1, ListedIsClosed DEF Find, At, Closed
    <3>2. UNCHANGED <<fields, state>> /\ pc[t] = "find"
      BY <1>3, <2>1 DEF Find, Deref, At
    <3>3. \/ pc'[t] = "client"
          \/ pc'[t] \in {"find", "access", "free"} /\ cur'[t] \in Listed
      BY <1>1, <1>2, <1>3, <2>1, <3>1, <3>2 DEF Find, Deref, Return, Goto, TypeOK
    <3> QED BY <1>1, <3>2, <3>3, WalkInv
  <2>2. CASE Access(t)
    <3>1. UNCHANGED <<fields, state>> /\ pc'[t] = "client"
      BY <1>1, <1>3, <2>2 DEF Access, Deref, Return, Goto, TypeOK
    <3> QED BY <1>1, <3>1, WalkInv
  <2>3. CASE FreeTest(t)
    <3>1. UNCHANGED <<fields, state>> /\ pc[t] = "free"
      BY <1>3, <2>3 DEF FreeTest, Deref, At
    <3>2. CASE IsFirst(cur[t])
      <4>1. pc'[t] = "client"
        BY <1>1, <1>3, <2>3, <3>2 DEF FreeTest, Deref, Return, Goto, TypeOK
      <4> QED BY <1>1, <3>1, <4>1, WalkInv
    <3>3. CASE ~ IsFirst(cur[t])
      <4>1. pc'[t] = "before" /\ cur'[t] = cur[t] /\ id[cur[t]] # 0
        BY <1>1, <1>3, <2>3, <3>3 DEF FreeTest, Deref, Goto, TypeOK, IsFirst
      <4>2. cur[t] # First
        BY <1>2, <3>1, <4>1 DEF Coherent
      <4> QED BY <1>1, <1>2, <3>1, <4>1, <4>2, WalkInv
    <3> QED BY <3>2, <3>3
  <2>4. ASSUME NEW a \in returned, NEW what \in {"access", "free"}, Lookup(t, a, what)
        PROVE  SegInv(t)'
    <3>1. UNCHANGED <<fields, state>> /\ pc'[t] = "find" /\ cur'[t] \in Listed /\ pc[t] = "client"
      BY <1>1, <2>4, ListedIsClosed DEF Lookup, Goto, TypeOK, At
    <3> QED BY <1>1, <3>1, WalkInv
  <2> QED BY <2>1, <2>2, <2>3, <2>4
<1> QED BY <1>3 DEF SegInv

\* The node before the freed one skips it: it is not listed any more.
LEMMA FreePrevInv ==
    ASSUME NEW t, Thread = {t}, SegInv(t), TypeInv', FreePrev(t)
    PROVE  SegInv(t)'
<1>1. status = "ok" /\ pc[t] = "unprev" /\ t \in Thread /\ TypeOK /\ TypeOK'
  BY DEF FreePrev, At, SegInv, TypeInv
<1>2. PICK s \in Node : s = cur[t]
  BY <1>1 DEF SegInv, TypeInv
<1>3. Coherent({}, {}) /\ s \in Listed /\ s # First /\ near[t] = prev[s] /\ far[t] = next[s]
  BY <1>1, <1>2 DEF SegInv, ListOK, Freeing
<1>4. PICK p \in Node : p = prev[s]
  BY <1>1, <1>3, OnePredecessor, ListedIsClosed
<1>5. p \in Listed /\ p # s /\ next[p] = s /\ \A x \in Listed : next[x] = s => x = p
  BY <1>1, <1>3, <1>4, OnePredecessor
<1>6. CASE status' = "ok"
  <2>1. /\ next' = [next EXCEPT ![p] = next[s]]
        /\ pc'[t] = "after" /\ UNCHANGED <<prev, id, state, cur>>
    BY <1>1, <1>2, <1>3, <1>4, <1>6, FirstAssumption DEF FreePrev, Deref, Goto, TypeOK
  <2>2. PICK M \in SUBSET Node : M = Listed \ {s}
    BY <1>1, ListedIsClosed
  <2>3. First \in M /\ Closed(M)'
    BY <1>1, <1>3, <1>5, <2>1, <2>2, ListedIsClosed DEF Closed, TypeOK
  <2>4. Listed' \subseteq M
    BY <2>3, ListedWithin
  <2>5. Coherent({}, {p})'
    BY <1>1, <1>3, <1>5, <2>1, <2>2, <2>4 DEF Coherent, TypeOK
  <2>6. next[s] # Null => prev[next[s]] = s
    BY <1>3 DEF Coherent
  <2>7. pc'[t] = "after" /\ cur'[t] = s /\ prev'[s] = p /\ s \notin Listed'
        /\ next'[p] = next'[s] /\ (next'[s] # Null => prev'[next'[s]] = s)
    BY <1>1, <1>2, <1>4, <1>5, <2>1, <2>2, <2>4, <2>6 DEF TypeOK
  <2>8. Allocating(t)' /\ Freeing(t)'
    BY <2>7 DEF Allocating, Freeing
  <2> QED BY <2>5, <2>7, <2>8 DEF SegInv, ListOK
<1> QED BY <1>6 DEF SegInv

LEMMA FreeNextInv ==
    ASSUME NEW t, Thread = {t}, SegInv(t), TypeInv', FreeNext(t)
    PROVE  SegInv(t)'
<1>1. status = "ok" /\ pc[t] = "unnext" /\ t \in Thread /\ TypeOK /\ TypeOK'
  BY DEF FreeNext, At, SegInv, TypeInv
<1>2. PICK s \in Node : s = cur[t]
  BY <1>1 DEF SegInv, TypeInv
<1>3. /\ Coherent({}, {prev[s]}) /\ s \notin Listed
      /\ prev[s] \in Node => next[prev[s]] = next[s]
      /\ next[s] # Null => prev[next[s]] = s
      /\ near[t] = next[s] /\ near[t] \in Node /\ far[t] = prev[s]
  BY <1>1, <1>2 DEF SegInv, TypeInv, ListOK, Freeing
<1>4. CASE status' = "ok"
  <2>1. /\ prev' = [prev EXCEPT ![next[s]] = prev[s]]
        /\ pc'[t] = "free!" /\ UNCHANGED <<next, id, state, cur>>
    BY <1>1, <1>2, <1>3, <1>4 DEF FreeNext, Deref, BackLink, Goto, TypeOK
  <2>2. Listed' = Listed
    BY <1>1, <2>1, ListedStays
  <2>3. ASSUME NEW x \in Listed, next[x] # Null PROVE prev'[next[x]] = x
    BY <1>1, <1>3, <2>1, <2>3, ListedIsClosed DEF Coherent, Closed, TypeOK, Pointer
  <2>4. Coherent({}, {})'
    BY <1>3, <2>1, <2>2, <2>3 DEF Coherent
  <2>5. Allocating(t)' /\ Freeing(t)'
    BY <1>2, <1>3, <2>1, <2>2 DEF Allocating, Freeing
  <2> QED BY <2>1, <2>4, <2>5 DEF SegInv, ListOK
<1> QED BY <1>4 DEF SegInv

LEMMA FreeNodeInv ==
    ASSUME NEW t, Thread = {t}, SegInv(t), TypeInv', FreeNode(t)
    PROVE  SegInv(t)'
<1>1. status = "ok" /\ pc[t] = "free!" /\ t \in Thread /\ TypeOK /\ TypeOK'
  BY DEF FreeNode, At, SegInv, TypeInv
<1>2. PICK s \in Node : s = cur[t]
  BY <1>1 DEF SegInv, TypeInv
<1>3. Coherent({}, {}) /\ s \notin Listed
  BY <1>1, <1>2 DEF SegInv, ListOK, Freeing
<1>4. CASE status' = "ok"
  <2>1. state' = [state EXCEPT ![s] = "free"] /\ pc'[t] = "client" /\ UNCHANGED fields
    BY <1>1, <1>2, <1>4 DEF FreeNode, Deref, Return, Goto, TypeOK
  <2>2. Coherent({}, {})'
    BY <1>1, <1>3, <2>1, AsideInv, ListedIsClosed DEF fields, TypeOK
  <2>3. Allocating(t)' /\ Freeing(t)'
    BY <2>1 DEF Allocating, Freeing
  <2> QED BY <2>1, <2>2, <2>3 DEF SegInv, ListOK
<1> QED BY <1>4 DEF SegInv

LEMMA SegNextInv ==
    ASSUME NEW t, Thread = {t}, SegInv(t), [Next]_vars
    PROVE  SegInv(t)'
<1>1. TypeInv'
  BY TypeNext DEF SegInv
<1>2. CASE Destroy
  BY <1>1, <1>2 DEF Destroy, SegInv
<1>3. CASE UNCHANGED vars
  <2>1. Listed' = Listed
    BY <1>3 DEF vars, fields, Listed, Closed
  <2> QED BY <1>1, <1>3, <2>1 DEF vars, fields, locals, SegInv, ListOK, Coherent, Allocating, Freeing
<1>4. CASE Call(t) \/ InCall(t)
  BY <1>1, <1>4, AllocNodeInv, AllocPrevInv, AllocIdInv, AllocLinkInv, AllocTailInv, FindInv,
     LoadTailInv, LoadPrevInv, LoadNextInv, FreePrevInv, FreeNextInv, FreeNodeInv DEF Call, InCall
<1> QED BY <1>2, <1>3, <1>4 DEF Next

\* template/tm.c, tm_alloc and tm_free: as long as one thread at a time calls them, the
\* list is doubly linked between the calls and has no freed node, for any number of
\* segments and calls and whatever malloc hands out again.
THEOREM SegmentsSound == ASSUME NEW t, Thread = {t} PROVE Spec => []ListSound
<1>1. Init => SegInv(t)
  BY SegInitInv
<1>2. SegInv(t) /\ [Next]_vars => SegInv(t)'
  BY SegNextInv
<1>3. SegInv(t) => ListSound
  BY DEF SegInv, ListOK, ListSound, Idle, Coherent
<1> QED BY <1>1, <1>2, <1>3, PTL DEF Spec
=============================================================================
