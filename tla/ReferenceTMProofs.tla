--------------------------- MODULE ReferenceTMProofs ---------------------------
(***************************************************************************)
(* Proofs about the transactional memory of reference/, for any number of  *)
(* threads, words, values and segments, and any lengths of transactions.   *)
(***************************************************************************)
EXTENDS ReferenceTM, TLAPS

Label == {"idle", "ro", "rw", "copy", "unlock", "gone"}
Write == [word : Word, val : Value]

TypeOK ==
    /\ readers \subseteq Thread /\ writer \subseteq Thread
    /\ mem \in [Word -> Value]
    /\ pc \in [Thread -> Label]
    /\ clock \in Nat
    /\ hist \in [Word -> SUBSET [ver : Nat, val : Value]]
    /\ at \in [Thread -> Nat]
    /\ snap \in [Thread -> SUBSET Write] /\ wrote \in [Thread -> SUBSET Write]
    /\ word \in [Thread -> Word \cup {0}] /\ val \in [Thread -> Value]
    /\ ops \in [Thread -> Nat]

\* The lock is held by whom the code believes to hold it, and it excludes.
LockHeld ==
    /\ \A p \in Thread : /\ p \in readers <=> pc[p] = "ro"
                         /\ p \in writer <=> pc[p] \in {"rw", "copy", "unlock"}
    /\ \A p, q \in writer : p = q
    /\ writer # {} => readers = {}

\* What a transaction has, by where it is.
TxMatches ==
    \A p \in Thread :
        /\ pc[p] \in {"idle", "gone"} => at[p] = 0 /\ snap[p] = {}
        /\ pc[p] \in {"idle", "gone", "ro"} => wrote[p] = {}
        /\ pc[p] \in {"ro", "rw", "copy"} => at[p] = clock
        /\ pc[p] = "copy" => word[p] \in Word
        /\ at[p] <= clock
        /\ \A x \in wrote[p] : \A y \in wrote[p] : x.word = y.word => x = y

\* v is the latest committed value of w.
Latest(w, v) == \E r \in hist[w] : r.val = v /\ \A q \in hist[w] : q.ver <= r.ver

\* The memory is the latest version, but for what the one writer has written.
Writing(p) == pc[p] \in {"rw", "copy"}

MemoryIsLatest ==
    /\ \A w \in Word : \A r \in hist[w] : r.ver <= clock
    /\ \A p \in Thread : Writing(p) => \A x \in wrote[p] : mem[x.word] = x.val
    /\ \A w \in Word :
          (\A p \in Thread : Writing(p) => \A x \in wrote[p] : x.word # w) => Latest(w, mem[w])

RefInv == TypeOK /\ LockHeld /\ TxMatches /\ MemoryIsLatest /\ ReadsStayCurrent

\* The list of segments: live nodes lead to live nodes, and back.
LinksMatch ==
    /\ live \subseteq Segment /\ allocs \in Segment \cup {Null}
    /\ next \in [Segment -> Segment \cup {Null}] /\ prev \in [Segment -> Segment \cup {Null}]
    /\ allocs # Null => allocs \in live /\ prev[allocs] = Null
    /\ \A s \in live : /\ next[s] # Null => next[s] \in live /\ prev[next[s]] = s
                       /\ IF prev[s] = Null THEN s = allocs
                                            ELSE prev[s] \in live /\ next[prev[s]] = s

ListInv == LinksMatch /\ Listed = live
-----------------------------------------------------------------------------
LEMMA RefInitInv == Init => RefInv
<1> SUFFICES ASSUME Init PROVE RefInv
  OBVIOUS
<1> USE ZeroAssumption DEF Init
<1>1. TypeOK
  BY DEF TypeOK, Label, Write
<1>2. LockHeld /\ TxMatches /\ ReadsStayCurrent
  BY DEF LockHeld, TxMatches, ReadsStayCurrent, At
<1>3. MemoryIsLatest
  <2>1. ASSUME NEW w \in Word PROVE hist[w] = {[ver |-> 0, val |-> Zero]} /\ mem[w] = Zero
    OBVIOUS
  <2>2. ASSUME NEW w \in Word PROVE Latest(w, mem[w])
    <3> DEFINE r == [ver |-> 0, val |-> Zero]
    <3>1. r \in hist[w] /\ r.val = mem[w] /\ \A q \in hist[w] : q.ver <= r.ver
      BY <2>1
    <3> QED BY <3>1 DEF Latest
  <2> QED BY <2>1, <2>2 DEF MemoryIsLatest, Writing
<1> QED BY <1>1, <1>2, <1>3 DEF RefInv

\* A step that neither writes nor commits: the memory stays the latest version.
LEMMA MemoryStays ==
    ASSUME MemoryIsLatest, UNCHANGED <<mem, clock, hist, wrote>>,
           \A p \in Thread : Writing(p)' <=> Writing(p)
    PROVE  MemoryIsLatest'
  BY DEF MemoryIsLatest, Latest

LEMMA BeginReadOnlyInv ==
    ASSUME RefInv, NEW p \in Thread, BeginReadOnly(p) PROVE RefInv'
<1> USE DEF BeginReadOnly, At, Goto, listVars
<1>a. TypeOK /\ LockHeld /\ TxMatches /\ MemoryIsLatest /\ ReadsStayCurrent
  BY DEF RefInv
<1>1. TypeOK'
  BY <1>a DEF TypeOK, Label
<1>2. LockHeld'
  BY <1>a DEF LockHeld, TypeOK
<1>3. TxMatches'
  BY <1>a DEF TxMatches, TypeOK
<1>4. MemoryIsLatest'
  BY <1>a, MemoryStays DEF Writing, TypeOK
<1>5. ReadsStayCurrent'
  BY <1>a DEF ReadsStayCurrent, TypeOK
<1> QED BY <1>1, <1>2, <1>3, <1>4, <1>5 DEF RefInv

\* A writer begins: nobody has written before it since the latest commit.
LEMMA BeginReadWriteInv ==
    ASSUME RefInv, NEW p \in Thread, BeginReadWrite(p) PROVE RefInv'
<1> USE DEF BeginReadWrite, Exclusive, At, Goto, listVars
<1>a. TypeOK /\ LockHeld /\ TxMatches /\ MemoryIsLatest /\ ReadsStayCurrent
  BY DEF RefInv
<1>1. TypeOK'
  BY <1>a DEF TypeOK, Label
<1>2. LockHeld'
  BY <1>a DEF LockHeld, TypeOK
<1>3. TxMatches'
  BY <1>a DEF TxMatches, TypeOK
<1>4. MemoryIsLatest'
  <2>1. \A q \in Thread : (Writing(q)' <=> Writing(q) \/ q = p) /\ wrote[p] = {}
    BY <1>a DEF Writing, TypeOK, TxMatches
  <2> QED BY <1>a, <2>1 DEF MemoryIsLatest, Latest
<1>5. ReadsStayCurrent'
  BY <1>a DEF ReadsStayCurrent, TypeOK
<1> QED BY <1>1, <1>2, <1>3, <1>4, <1>5 DEF RefInv

\* The commit publishes, under the next version, what is in the memory already.
LEMMA EndReadWriteInv ==
    ASSUME RefInv, NEW p \in Thread, EndReadWrite(p) PROVE RefInv'
<1> USE DEF EndReadWrite, At, Goto, listVars, lockVars, txVars
<1>a. TypeOK /\ LockHeld /\ TxMatches /\ MemoryIsLatest /\ ReadsStayCurrent
  BY DEF RefInv
<1>w. \A q \in Thread : ~ Writing(q)' /\ (Writing(q) => q = p)
  BY <1>a DEF Writing, TypeOK, LockHeld
<1>h. \A w \in Word : hist'[w] = IF \E x \in wrote[p] : x.word = w
                                 THEN hist[w] \cup {[ver |-> clock + 1, val |-> mem[w]]}
                                 ELSE hist[w]
  OBVIOUS
<1>1. TypeOK'
  <2>1. hist' \in [Word -> SUBSET [ver : Nat, val : Value]]
    BY <1>a DEF TypeOK
  <2> QED BY <2>1, <1>a DEF TypeOK, Label
<1>2. LockHeld'
  BY <1>a DEF LockHeld, TypeOK
<1>3. TxMatches'
  <2>1. \A q \in Thread : q # p => pc[q] \in {"idle", "unlock", "gone"}
    BY <1>a DEF LockHeld, TypeOK, Label
  <2> QED BY <2>1, <1>a DEF TxMatches, TypeOK
<1>4. MemoryIsLatest'
  <2>1. \A w \in Word : \A r \in hist'[w] : r.ver <= clock'
    BY <1>a, <1>h DEF MemoryIsLatest, TypeOK
  <2>2. ASSUME NEW w \in Word PROVE Latest(w, mem[w])'
    <3>1. CASE \E x \in wrote[p] : x.word = w
      <4> DEFINE r == [ver |-> clock + 1, val |-> mem[w]]
      <4>1. r \in hist'[w] /\ r.val = mem'[w]
        BY <3>1, <1>h
      <4>2. \A q \in hist'[w] : q.ver <= r.ver
        BY <2>1
      <4> QED BY <4>1, <4>2 DEF Latest
    <3>2. CASE ~ \E x \in wrote[p] : x.word = w
      BY <3>2, <1>a, <1>h, <1>w DEF MemoryIsLatest, Latest
    <3> QED BY <3>1, <3>2
  <2> QED BY <2>1, <2>2, <1>w DEF MemoryIsLatest
<1>5. ReadsStayCurrent'
  BY <1>a DEF ReadsStayCurrent, TypeOK
<1> QED BY <1>1, <1>2, <1>3, <1>4, <1>5 DEF RefInv

LEMMA UnlockInv ==
    ASSUME RefInv, NEW p \in Thread, Unlock(p) PROVE RefInv'
<1> USE DEF Unlock, Forget, At, Goto, listVars
<1>a. TypeOK /\ LockHeld /\ TxMatches /\ MemoryIsLatest /\ ReadsStayCurrent
  BY DEF RefInv
<1>1. TypeOK'
  BY <1>a DEF TypeOK, Label
<1>2. LockHeld'
  BY <1>a DEF LockHeld, TypeOK
<1>3. TxMatches'
  BY <1>a DEF TxMatches, TypeOK
<1>4. MemoryIsLatest'
  <2>1. \A q \in Thread : /\ Writing(q)' <=> Writing(q)
                          /\ Writing(q) => wrote'[q] = wrote[q]
    BY <1>a DEF Writing, TypeOK
  <2> QED BY <1>a, <2>1 DEF MemoryIsLatest, Latest
<1>5. ReadsStayCurrent'
  BY <1>a DEF ReadsStayCurrent, TypeOK
<1> QED BY <1>1, <1>2, <1>3, <1>4, <1>5 DEF RefInv

\* Nobody copies to the memory while a transaction reads it.
LEMMA NoRace ==
    ASSUME RefInv, NEW p \in Thread, InTx(p), NEW w
    PROVE  CopyOutcomes(w) = {mem[w]}
  BY DEF RefInv, LockHeld, CopyOutcomes, InTx, At

LEMMA ReadInv ==
    ASSUME RefInv, NEW p \in Thread, NEW w \in Word, Read(p, w) PROVE RefInv'
<1> USE DEF Read, Count, listVars, lockVars
<1>a. TypeOK /\ LockHeld /\ TxMatches /\ MemoryIsLatest /\ ReadsStayCurrent
  BY DEF RefInv
<1> DEFINE x == [word |-> w, val |-> mem[w]]
<1>b. \/ snap' = snap
      \/ /\ snap' = [snap EXCEPT ![p] = @ \cup {x}]
         /\ x \in Write /\ pc[p] \in {"ro", "rw"}
  <2>1. CopyOutcomes(w) = {mem[w]} /\ pc[p] \in {"ro", "rw"}
    BY NoRace DEF InTx, At
  <2>2. x \in Write
    BY <1>a DEF Write, TypeOK
  <2> QED BY <2>1, <2>2
<1>1. TypeOK'
  BY <1>a, <1>b DEF TypeOK
<1>2. LockHeld'
  BY <1>a DEF LockHeld
<1>3. TxMatches'
  BY <1>a, <1>b DEF TxMatches, TypeOK
<1>4. MemoryIsLatest'
  BY <1>a, MemoryStays DEF Writing
<1>5. ReadsStayCurrent'
  BY <1>a, <1>b DEF ReadsStayCurrent, TypeOK, At
<1> QED BY <1>1, <1>2, <1>3, <1>4, <1>5 DEF RefInv

LEMMA WriteStartInv ==
    ASSUME RefInv, NEW p \in Thread, NEW w \in Word, NEW v \in Value, WriteStart(p, w, v)
    PROVE  RefInv'
<1> USE DEF WriteStart, Count, At, Goto, listVars, lockVars, txVars
<1>a. TypeOK /\ LockHeld /\ TxMatches /\ MemoryIsLatest /\ ReadsStayCurrent
  BY DEF RefInv
<1>1. TypeOK'
  BY <1>a DEF TypeOK, Label
<1>2. LockHeld'
  BY <1>a DEF LockHeld, TypeOK
<1>3. TxMatches'
  BY <1>a DEF TxMatches, TypeOK
<1>4. MemoryIsLatest'
  BY <1>a, MemoryStays DEF Writing, TypeOK
<1>5. ReadsStayCurrent'
  BY <1>a DEF ReadsStayCurrent, TypeOK
<1> QED BY <1>1, <1>2, <1>3, <1>4, <1>5 DEF RefInv

\* The write goes to the memory: no other transaction has read anything from it,
\* and the own one counts the word among those it has written.
LEMMA WriteFinishInv ==
    ASSUME RefInv, NEW p \in Thread, WriteFinish(p) PROVE RefInv'
<1> USE DEF WriteFinish, At, Goto, listVars, lockVars
<1>a. TypeOK /\ LockHeld /\ TxMatches /\ MemoryIsLatest /\ ReadsStayCurrent
  BY DEF RefInv
<1> DEFINE x == [word |-> word[p], val |-> val[p]]
<1>b. word[p] \in Word /\ x \in Write
  BY <1>a DEF TxMatches, TypeOK, Write
<1>c. /\ \A w \in Word : mem'[w] = IF w = word[p] THEN val[p] ELSE mem[w]
      /\ wrote'[p] = {y \in wrote[p] : y.word # word[p]} \cup {x}
      /\ \A q \in Thread : q # p => wrote'[q] = wrote[q]
  BY <1>a DEF TypeOK
<1>d. \A q \in Thread : q # p => pc[q] \in {"idle", "gone"}
  BY <1>a DEF LockHeld, TypeOK, Label
<1>e. \A w : (\A y \in wrote'[p] : y.word # w)
           => w # word[p] /\ \A y \in wrote[p] : y.word # w
  <2>1. x.word = word[p]
    OBVIOUS
  <2> HIDE DEF x
  <2> QED BY <2>1, <1>c
<1>1. TypeOK'
  <2>1. wrote' \in [Thread -> SUBSET Write]
    BY <1>a, <1>b DEF TypeOK
  <2> QED BY <2>1, <1>a, <1>b, ZeroAssumption DEF TypeOK, Label
<1>2. LockHeld'
  BY <1>a DEF LockHeld, TypeOK
<1>3. TxMatches'
  <2>1. \A y \in wrote'[p] : \A z \in wrote'[p] : y.word = z.word => y = z
    BY <1>a, <1>c DEF TxMatches
  <2> QED BY <2>1, <1>a, <1>c DEF TxMatches, TypeOK
<1>4. MemoryIsLatest'
  <2>1. \A q \in Thread : Writing(q)' <=> q = p
    BY <1>a, <1>d DEF Writing, TypeOK
  <2>2. \A q \in Thread : Writing(q) <=> q = p
    BY <1>d DEF Writing
  <2>3. \A y \in wrote'[p] : mem'[y.word] = y.val
    BY <1>a, <1>b, <1>c, <2>2 DEF MemoryIsLatest, TypeOK, Write
  <2>4. ASSUME NEW w \in Word, \A y \in wrote'[p] : y.word # w PROVE Latest(w, mem[w])'
    <3>1. w # word[p] /\ \A y \in wrote[p] : y.word # w
      BY <1>e, <2>4
    <3>2. Latest(w, mem[w]) /\ mem'[w] = mem[w]
      BY <1>a, <1>c, <2>2, <3>1 DEF MemoryIsLatest
    <3> QED BY <3>2 DEF Latest
  <2>5. \A w \in Word : \A r \in hist'[w] : r.ver <= clock'
    BY <1>a DEF MemoryIsLatest
  <2> QED BY <2>1, <2>3, <2>4, <2>5 DEF MemoryIsLatest
<1>5. ReadsStayCurrent'
  <2> SUFFICES ASSUME NEW q \in Thread, NEW y \in snap'[q],
                      (\A z \in wrote'[q] : z.word # y.word)
               PROVE  mem'[y.word] = y.val
    BY DEF ReadsStayCurrent
  <2>1. q = p /\ y \in snap[p] /\ y \in Write
    BY <1>a, <1>d DEF TxMatches, TypeOK
  <2>2. y.word # word[p] /\ \A z \in wrote[p] : z.word # y.word
    BY <1>e, <2>1
  <2> QED BY <2>1, <2>2, <1>a, <1>c DEF ReadsStayCurrent, Write
<1> QED BY <1>1, <1>2, <1>3, <1>4, <1>5 DEF RefInv

\* The steps that are none of a transaction on words.
LEMMA OtherInv ==
    ASSUME RefInv,
           \/ Destroy
           \/ \E p \in Thread, s \in Segment : Alloc(p, s) \/ Free(p, s)
           \/ UNCHANGED vars
    PROVE  RefInv'
<1>a. TypeOK /\ LockHeld /\ TxMatches /\ MemoryIsLatest /\ ReadsStayCurrent
  BY DEF RefInv
<1>1. CASE Destroy
  <2> USE <1>1 DEF Destroy, At, lockVars, txVars
  <2>1. TypeOK' /\ LockHeld' /\ TxMatches' /\ ReadsStayCurrent'
    BY <1>a DEF TypeOK, LockHeld, TxMatches, ReadsStayCurrent, Label
  <2>2. MemoryIsLatest'
    BY <1>a, MemoryStays DEF Writing
  <2> QED BY <2>1, <2>2 DEF RefInv
<1>2. CASE UNCHANGED vars \/ \E p \in Thread, s \in Segment : Alloc(p, s) \/ Free(p, s)
  <2>1. UNCHANGED <<lockVars, mem, pc, word, val, clock, hist, txVars>> /\ ops' \in [Thread -> Nat]
    BY <1>2, <1>a DEF Alloc, Free, Count, vars, TypeOK
  <2> USE <2>1 DEF lockVars, txVars
  <2>2. TypeOK' /\ LockHeld' /\ TxMatches' /\ ReadsStayCurrent'
    BY <1>a DEF TypeOK, LockHeld, TxMatches, ReadsStayCurrent, At
  <2>3. MemoryIsLatest'
    BY <1>a, MemoryStays DEF Writing
  <2> QED BY <2>2, <2>3 DEF RefInv
<1> QED BY <1>1, <1>2

LEMMA RefNextInv == RefInv /\ [Next]_vars => RefInv'
  BY BeginReadOnlyInv, BeginReadWriteInv, EndReadWriteInv, UnlockInv, ReadInv, WriteStartInv,
     WriteFinishInv, OtherInv DEF Next

\* reference/tm.c: what a transaction has read is what the memory holds until it
\* ends, as the lock keeps every writer out that could change it.
THEOREM ReferenceCurrent == Spec => []ReadsStayCurrent
<1>1. RefInv => ReadsStayCurrent
  BY DEF RefInv
<1> QED BY <1>1, RefInitInv, RefNextInv, PTL DEF Spec
-----------------------------------------------------------------------------
(* The list of segments.                                                    *)

Starts(S) == allocs # Null => allocs \in S

\* The set of listed nodes is itself closed, and the least one that is.
LEMMA ListedIsClosed ==
    ASSUME LinksMatch
    PROVE  /\ Listed \subseteq live
           /\ Starts(Listed) /\ Closed(Listed)
           /\ \A S \in SUBSET Segment : Starts(S) /\ Closed(S) => Listed \subseteq S
<1>1. \A S \in SUBSET Segment : Starts(S) /\ Closed(S) => Listed \subseteq S
  BY DEF Listed, Starts
<1>2. Starts(live) /\ Closed(live) /\ live \in SUBSET Segment
  BY DEF LinksMatch, Starts, Closed
<1>3. Starts(Listed)
  BY DEF Starts, Listed, LinksMatch
<1>4. Closed(Listed)
  BY DEF Closed, Listed, LinksMatch
<1> QED BY <1>1, <1>2, <1>3, <1>4

\* A node of the list is not its own successor: then it would be in no list.
LEMMA NoLoop ==
    ASSUME ListInv, NEW s \in live PROVE prev[s] # s /\ next[s] # s
<1>1. LinksMatch /\ Listed = live
  BY DEF ListInv
<1>2. prev[s] # s
  <2> SUFFICES ASSUME prev[s] = s PROVE FALSE
    OBVIOUS
  <2> DEFINE S == live \ {s}
  <2>1. S \in SUBSET Segment /\ s \in Segment /\ s # Null
    BY <1>1, NullAssumption DEF LinksMatch
  <2>2. Starts(S)
    BY <1>1, <2>1 DEF Starts, LinksMatch
  <2>3. Closed(S)
    BY <1>1, <2>1 DEF Closed, LinksMatch
  <2> QED BY <1>1, <2>1, <2>2, <2>3, ListedIsClosed
<1> QED BY <1>1, <1>2, NullAssumption DEF LinksMatch

LEMMA AllocListInv ==
    ASSUME ListInv, NEW p \in Thread, NEW s \in Segment, Alloc(p, s) PROVE ListInv'
<1> USE DEF Alloc
<1>a. LinksMatch /\ Listed = live /\ s # Null /\ s \notin live
  BY NullAssumption DEF ListInv
<1>1. /\ live' = live \cup {s} /\ allocs' = s
      /\ \A x \in Segment : next'[x] = IF x = s THEN allocs ELSE next[x]
      /\ \A x \in Segment : prev'[x] = IF x = s THEN Null ELSE IF x = allocs THEN s ELSE prev[x]
  BY <1>a DEF LinksMatch
<1>2. LinksMatch'
  <2>1. next' \in [Segment -> Segment \cup {Null}] /\ prev' \in [Segment -> Segment \cup {Null}]
    BY <1>a DEF LinksMatch
  <2>2. live' \subseteq Segment /\ allocs' \in live' /\ prev'[allocs'] = Null
    BY <1>a, <1>1 DEF LinksMatch
  <2>3. ASSUME NEW x \in live', next'[x] # Null PROVE next'[x] \in live' /\ prev'[next'[x]] = x
    BY <2>3, <1>a, <1>1, NullAssumption DEF LinksMatch
  <2>4. ASSUME NEW x \in live'
        PROVE  IF prev'[x] = Null THEN x = allocs' ELSE prev'[x] \in live' /\ next'[prev'[x]] = x
    BY <2>4, <1>a, <1>1, NullAssumption DEF LinksMatch
  <2> QED BY <2>1, <2>2, <2>3, <2>4 DEF LinksMatch
<1>3. ASSUME NEW S \in SUBSET Segment, s \in S, Closed(S)' PROVE live' \subseteq S
  <2> DEFINE T == S \cap live
  <2>1. Starts(T)
    BY <1>3, <1>a, <1>1 DEF Starts, Closed, LinksMatch
  <2>2. Closed(T)
    BY <1>3, <1>a, <1>1 DEF Closed, LinksMatch
  <2> QED BY <1>3, <2>1, <2>2, <1>a, <1>1, ListedIsClosed
<1>4. Listed' = live'
  <2>1. live' \subseteq Listed'
    BY <1>2, <1>3, <1>1, <1>a DEF Listed, LinksMatch
  <2>2. Listed' \subseteq live'
    <3>1. live' \in SUBSET Segment /\ Closed(live)' /\ allocs' \in live'
      BY <1>2, <1>1 DEF LinksMatch, Closed
    <3> QED BY <3>1 DEF Listed
  <2> QED BY <2>1, <2>2
<1> QED BY <1>2, <1>4 DEF ListInv

LEMMA FreeListInv ==
    ASSUME ListInv, NEW p \in Thread, NEW s \in Segment, Free(p, s) PROVE ListInv'
<1> USE DEF Free, HeadAfter
<1>a. LinksMatch /\ Listed = live /\ s # Null /\ s \in live /\ prev[s] # s /\ next[s] # s
  BY NoLoop, NullAssumption DEF ListInv
<1>1. /\ live' = live \ {s} /\ allocs' = IF prev[s] = Null THEN next[s] ELSE allocs
      /\ \A x \in Segment : next'[x] = IF x = prev[s] THEN next[s] ELSE next[x]
      /\ \A x \in Segment : prev'[x] = IF x = next[s] THEN prev[s] ELSE prev[x]
  BY <1>a DEF LinksMatch
<1>2. LinksMatch'
  <2>1. next' \in [Segment -> Segment \cup {Null}] /\ prev' \in [Segment -> Segment \cup {Null}]
    BY <1>a DEF LinksMatch
  <2>2. live' \subseteq Segment /\ allocs' \in Segment \cup {Null}
    BY <1>a, <1>1 DEF LinksMatch
  <2>3. allocs' # Null => allocs' \in live' /\ prev'[allocs'] = Null
    BY <1>a, <1>1, NullAssumption DEF LinksMatch
  <2>4. ASSUME NEW x \in live', next'[x] # Null PROVE next'[x] \in live' /\ prev'[next'[x]] = x
    BY <2>4, <1>a, <1>1, NullAssumption DEF LinksMatch
  <2>5. ASSUME NEW x \in live'
        PROVE  IF prev'[x] = Null THEN x = allocs' ELSE prev'[x] \in live' /\ next'[prev'[x]] = x
    BY <2>5, <1>a, <1>1, NullAssumption DEF LinksMatch
  <2> QED BY <2>1, <2>2, <2>3, <2>4, <2>5 DEF LinksMatch
<1>3. ASSUME NEW S \in SUBSET Segment, Starts(S)', Closed(S)' PROVE live' \subseteq S
  <2>1. CASE prev[s] = Null \/ prev[s] \in S
    <3> DEFINE T == S \cup {s}
    <3>1. Starts(T)
      BY <2>1, <1>3, <1>a, <1>1 DEF Starts, LinksMatch
    <3>2. next[s] # Null => next[s] \in S
      BY <2>1, <1>3, <1>a, <1>1 DEF Starts, Closed, LinksMatch
    <3>3. Closed(T)
      <4> SUFFICES ASSUME NEW x \in S, x # s, next[x] # Null PROVE next[x] \in T
        BY <3>2 DEF Closed
      <4>1. CASE x = prev[s]
        BY <4>1, <1>a, NullAssumption DEF LinksMatch
      <4>2. CASE x # prev[s]
        BY <4>2, <1>3, <1>1 DEF Closed
      <4> QED BY <4>1, <4>2
    <3> QED BY <3>1, <3>3, <1>a, <1>1, ListedIsClosed
  <2>2. CASE prev[s] # Null /\ prev[s] \notin S
    <3>1. Starts(S) /\ Closed(S)
      BY <2>2, <1>3, <1>a, <1>1 DEF Starts, Closed, LinksMatch
    <3> QED BY <3>1, <1>a, <1>1, ListedIsClosed
  <2> QED BY <2>1, <2>2
<1>4. Listed' = live'
  <2>1. live' \subseteq Listed'
    BY <1>2, <1>3, <1>1, <1>a DEF Listed, LinksMatch, Starts
  <2>2. Listed' \subseteq live'
    <3>1. live' \in SUBSET Segment /\ Closed(live)' /\ Starts(live)'
      BY <1>2, <1>1 DEF LinksMatch, Closed, Starts
    <3> QED BY <3>1 DEF Listed, Starts
  <2> QED BY <2>1, <2>2
<1> QED BY <1>2, <1>4 DEF ListInv

LEMMA ListInitInv == Init => ListInv
<1> SUFFICES ASSUME Init PROVE ListInv
  OBVIOUS
<1>1. LinksMatch
  BY DEF Init, LinksMatch
<1>2. Listed = {}
  <2>1. Closed({}) /\ allocs = Null
    BY DEF Init, Closed
  <2> QED BY <2>1 DEF Listed
<1> QED BY <1>1, <1>2 DEF ListInv, Init

LEMMA ListNextInv == ListInv /\ [Next]_vars => ListInv'
<1> SUFFICES ASSUME ListInv, [Next]_vars PROVE ListInv'
  OBVIOUS
<1>1. CASE Destroy
  <2>1. live' = {} /\ allocs' = Null /\ UNCHANGED <<next, prev>>
    BY <1>1 DEF Destroy, ListInv
  <2>2. LinksMatch'
    BY <2>1 DEF ListInv, LinksMatch
  <2>3. Closed({})' /\ {} \in SUBSET Segment
    BY DEF Closed
  <2>4. Listed' = {}
    BY <2>1, <2>3 DEF Listed
  <2> QED BY <2>1, <2>2, <2>4 DEF ListInv
<1>2. ASSUME UNCHANGED listVars PROVE ListInv'
  BY <1>2 DEF listVars, ListInv, LinksMatch, Listed, Closed
<1>3. ASSUME NEW p \in Thread, NEW w \in Word, Read(p, w) \/ \E v \in Value : WriteStart(p, w, v)
      PROVE  ListInv'
  BY <1>2, <1>3 DEF Read, WriteStart
<1>4. ASSUME NEW p \in Thread,
             \/ BeginReadOnly(p) \/ BeginReadWrite(p) \/ EndReadWrite(p) \/ Unlock(p)
             \/ WriteFinish(p)
      PROVE  ListInv'
  BY <1>2, <1>4 DEF BeginReadOnly, BeginReadWrite, EndReadWrite, Unlock, WriteFinish
<1>5. CASE UNCHANGED vars
  BY <1>2, <1>5 DEF vars
<1> QED BY <1>1, <1>3, <1>4, <1>5, AllocListInv, FreeListInv DEF Next

\* reference/tm.c: what tm_alloc has appended and tm_free has not taken out is in
\* the list, so that tm_destroy frees it, and nothing else is.
THEOREM ReferenceList == Spec => []ListIsLive
<1>1. ListInv => ListIsLive
  BY DEF ListInv, LinksMatch, ListIsLive
<1> QED BY <1>1, ListInitInv, ListNextInv, PTL DEF Spec
-----------------------------------------------------------------------------
(* The abstract memory.                                                     *)

Status == [p \in Thread |-> StatusOf(p)]

LEMMA RefAbstractInit == Init => Abstract!AInit
  BY DEF Init, Abstract!AInit, StatusOf

\* A step that the abstract memory does not see.
LEMMA RefStutter ==
    ASSUME UNCHANGED <<clock, hist, at, snap, wrote>>,
           \A p \in Thread : StatusOf(p)' = StatusOf(p)
    PROVE  UNCHANGED Abstract!avars
  BY DEF Abstract!avars

LEMMA RefStatus ==
    ASSUME TypeOK, NEW p \in Thread, NEW l \in Label, pc' = [pc EXCEPT ![p] = l]
    PROVE  \A q \in Thread : StatusOf(q)' = IF q = p
              THEN IF l \in {"idle", "gone"} THEN "out"
                   ELSE IF l = "unlock" THEN "committed" ELSE "in"
              ELSE StatusOf(q)
  BY DEF TypeOK, StatusOf, At

LEMMA BeginIsABegin ==
    ASSUME RefInv, NEW p \in Thread, BeginReadOnly(p) \/ BeginReadWrite(p)
    PROVE  Abstract!ABegin(p)
<1> USE DEF BeginReadOnly, BeginReadWrite, At, Goto
<1>1. TypeOK /\ StatusOf(p) = "out"
  BY DEF RefInv, StatusOf
<1>2. \A q \in Thread : StatusOf(q)' = IF q = p THEN "in" ELSE StatusOf(q)
  BY <1>1, RefStatus DEF Label
<1>3. Status' = [Status EXCEPT ![p] = "in"]
  BY <1>2 DEF Status
<1> QED BY <1>1, <1>3 DEF Abstract!ABegin, Status

LEMMA ReadIsARead ==
    ASSUME RefInv, NEW p \in Thread, NEW w \in Word, Read(p, w)
    PROVE  [Abstract!ANext]_(Abstract!avars)
<1>1. CopyOutcomes(w) = {mem[w]} /\ UNCHANGED <<pc, hist, clock, at, wrote>>
  BY NoRace DEF Read
<1>2. Status' = Status
  BY <1>1 DEF Status, StatusOf, At
<1>3. CASE \E x \in wrote[p] : x.word = w
  BY <1>1, <1>2, <1>3 DEF Read, Abstract!avars, Status
<1>4. CASE ~ \E x \in wrote[p] : x.word = w
  <2>a. TypeOK /\ LockHeld /\ TxMatches /\ MemoryIsLatest /\ pc[p] \in {"ro", "rw"}
    BY DEF RefInv, Read, InTx, At
  <2>1. StatusOf(p) = "in" /\ at[p] = clock
    BY <2>a DEF StatusOf, At, TxMatches
  <2>2. \A q \in Thread : Writing(q) => \A x \in wrote[q] : x.word # w
    BY <1>4, <2>a DEF Writing, LockHeld
  <2>3. Latest(w, mem[w]) /\ mem[w] \in Value
    BY <2>a, <2>2 DEF MemoryIsLatest, TypeOK
  <2>4. Abstract!Current(w, at[p], mem[w])
    BY <2>1, <2>3, <2>a DEF Latest, MemoryIsLatest, Abstract!Current
  <2>5. Abstract!ARead(p, w, mem[w])
    BY <1>1, <1>2, <1>4, <2>1, <2>4 DEF Read, Abstract!ARead, Status
  <2> QED BY <2>3, <2>5 DEF Abstract!ANext
<1> QED BY <1>3, <1>4

LEMMA FinishIsAWrite ==
    ASSUME RefInv, NEW p \in Thread, WriteFinish(p)
    PROVE  Abstract!ANext
<1> USE DEF WriteFinish, At, Goto
<1>1. TypeOK /\ word[p] \in Word /\ val[p] \in Value /\ StatusOf(p) = "in"
  BY DEF RefInv, TxMatches, TypeOK, StatusOf
<1>2. \A q \in Thread : StatusOf(q)' = StatusOf(q)
  BY <1>1, RefStatus DEF Label
<1>3. Status' = Status
  BY <1>2 DEF Status
<1>4. Abstract!AWrite(p, word[p], val[p])
  BY <1>1, <1>3 DEF Abstract!AWrite, Status
<1> QED BY <1>1, <1>4 DEF Abstract!ANext

LEMMA EndIsACommit ==
    ASSUME RefInv, NEW p \in Thread, EndReadWrite(p)
    PROVE  Abstract!ACommit(p)
<1> USE DEF EndReadWrite, At, Goto, txVars
<1>a. TypeOK /\ TxMatches /\ MemoryIsLatest /\ Writing(p)
  BY DEF RefInv, Writing
<1>1. StatusOf(p) = "in" /\ at[p] = clock /\ clock \in Nat /\ clock' = clock + 1
  BY <1>a DEF StatusOf, TxMatches, TypeOK
<1>2. \A q \in Thread : StatusOf(q)' = IF q = p THEN "committed" ELSE StatusOf(q)
  BY <1>a, RefStatus DEF Label
<1>3. Status' = [Status EXCEPT ![p] = "committed"]
  BY <1>2 DEF Status
<1> DEFINE t == clock + 1
           New(a) == { [ver |-> t, val |-> x.val] : x \in {y \in wrote[p] : y.word = a} }
<1>4. \A x \in wrote[p] : x.word \in Word /\ mem[x.word] = x.val
  BY <1>a DEF MemoryIsLatest, TypeOK, Write
<1>5. \A a \in Word : \A r \in hist[a] : r.ver \in Nat /\ r.ver <= clock
  BY <1>a DEF MemoryIsLatest, TypeOK
<1>6. hist' = [a \in Word |-> hist[a] \cup New(a)]
  <2>1. ASSUME NEW a \in Word
        PROVE  New(a) = IF \E x \in wrote[p] : x.word = a
                        THEN {[ver |-> clock + 1, val |-> mem[a]]} ELSE {}
    BY <1>4
  <2> QED BY <2>1
<1>7. \A d \in Thread : at[d] \in Nat /\ at[d] < t
  BY <1>a, <1>1 DEF TxMatches, TypeOK
<1>8. t \in 1 .. clock' /\ clock' \in {clock, clock + 1}
  BY <1>1
<1>9. /\ \A x \in wrote[p] : \A r \in hist[x.word] : r.ver < t
      /\ \A x \in wrote[p] : \A d \in Thread : \A s \in snap[d] : s.word = x.word => at[d] < t
      /\ \A x \in wrote[p] : \A s \in snap[p] :
            s.word = x.word => \A r \in hist[x.word] : r.ver <= at[p]
  BY <1>1, <1>4, <1>5, <1>7
<1> HIDE DEF t
<1> QED BY <1>1, <1>3, <1>6, <1>7, <1>8, <1>9 DEF Abstract!ACommit, Status

LEMMA UnlockIsAEnd ==
    ASSUME RefInv, NEW p \in Thread, Unlock(p)
    PROVE  Abstract!AEnd(p)
<1> USE DEF Unlock, Forget, At, Goto
<1>1. TypeOK /\ StatusOf(p) \in {"in", "committed"}
  BY DEF RefInv, StatusOf
<1>2. \A q \in Thread : StatusOf(q)' = IF q = p THEN "out" ELSE StatusOf(q)
  BY <1>1, RefStatus DEF Label
<1>3. Status' = [Status EXCEPT ![p] = "out"]
  BY <1>2 DEF Status
<1> QED BY <1>1, <1>3 DEF Abstract!AEnd, Status

LEMMA RefIsAbstract ==
    RefInv /\ [Next]_vars => [Abstract!ANext]_(Abstract!avars)
<1> SUFFICES ASSUME RefInv, [Next]_vars PROVE [Abstract!ANext]_(Abstract!avars)
  OBVIOUS
<1>1. ASSUME NEW p \in Thread,
             \/ BeginReadOnly(p) \/ BeginReadWrite(p) \/ EndReadWrite(p) \/ Unlock(p)
             \/ WriteFinish(p)
      PROVE  Abstract!ANext
  BY <1>1, BeginIsABegin, EndIsACommit, UnlockIsAEnd, FinishIsAWrite DEF Abstract!ANext
<1>2. ASSUME NEW p \in Thread, NEW w \in Word, NEW v \in Value, WriteStart(p, w, v)
      PROVE  UNCHANGED Abstract!avars
  <2>1. TypeOK /\ StatusOf(p) = "in" /\ pc' = [pc EXCEPT ![p] = "copy"]
    BY <1>2 DEF RefInv, WriteStart, At, Goto, StatusOf
  <2> QED BY <1>2, <2>1, RefStatus, RefStutter DEF WriteStart, txVars, Label
<1>3. ASSUME NEW p \in Thread, NEW s \in Segment, Alloc(p, s) \/ Free(p, s)
      PROVE  UNCHANGED Abstract!avars
  BY <1>3, RefStutter DEF Alloc, Free, txVars, StatusOf, At
<1>4. CASE Destroy
  BY <1>4, RefStutter DEF Destroy, txVars, StatusOf, At
<1>5. CASE UNCHANGED vars
  BY <1>5, RefStutter DEF vars, txVars, StatusOf, At
<1> QED BY <1>1, <1>2, <1>3, <1>4, <1>5, ReadIsARead DEF Next

\* The reference implements the same abstract memory as template/tm.c does.
THEOREM ReferenceRefinement == Spec => ImplementsVersionedTM
<1> QED BY RefInitInv, RefNextInv, RefAbstractInit, RefIsAbstract, PTL
        DEF Spec, ImplementsVersionedTM, Abstract!ASpec
=============================================================================
