----------------------------- MODULE TL2Proofs -----------------------------
(***************************************************************************)
(* Proofs about TL2, for any threads, words, values and bounds, in three   *)
(* parts: the types and the locks of a commit; the versions it installs    *)
(* and what readers see of them (SnapshotReads, NoLostUpdate,              *)
(* OneWritePerVersion, VersionsGrow); the lists of a transaction and that  *)
(* TL2 implements VersionedTM, one lemma per kind of step.                 *)
(***************************************************************************)
EXTENDS TL2Inv, TL2Refines, SequenceTheorems, TLAPS

\* Division into blocks of d: the last block of n words may be short.
LEMMA BlockOfWord ==
    ASSUME NEW m \in Nat \ {0}, NEW d \in Nat \ {0}, NEW w \in 0 .. m - 1
    PROVE  w \div d \in 0 .. ((m \div d) + IF m % d = 0 THEN 0 ELSE 1) - 1
<1>1. PICK q \in Nat, r \in 0 .. d - 1 : w = q * d + r /\ q = w \div d
  BY SMTT(30)
<1>2. PICK b \in Nat, c \in 0 .. d - 1 : m = b * d + c /\ b = m \div d /\ c = m % d
  BY SMTT(30)
<1>3. q * d + r < b * d + c
  BY <1>1, <1>2
<1>4. q <= b
  <2> SUFFICES ASSUME q >= b + 1 PROVE FALSE
    BY <1>1, <1>2
  <2>1. q * d >= b * d + d
    BY <1>1, <1>2
  <2> QED BY <2>1, <1>1, <1>2, <1>3
<1>5. CASE c = 0
  <2> SUFFICES ASSUME q = b PROVE FALSE
    BY <1>1, <1>2, <1>4, <1>5
  <2> QED BY <1>1, <1>2, <1>3, <1>5
<1>6. CASE c # 0
  BY <1>1, <1>2, <1>4, <1>6
<1> QED BY <1>5, <1>6

\* getLock stays inside the lock array, for every number of words and of
\* words per lock: lock_size rounds up.
LEMMA LockOfWord == \A w \in Word : LockOf(w) \in Lock
  BY BlockOfWord, SizeAssumption DEF LockOf, Lock, LockSize, Word

LEMMA ZeroWord == 0 \in Word
  BY SizeAssumption DEF Word

\* checkWriteSet returns a node of the list.
LEMMA NodeOfIndex ==
    \A p \in Thread, w \in Word : Buffers(p, w) =>
        NodeOf(p, w) \in 1 .. Len(writeSet[p]) /\ writeSet[p][NodeOf(p, w)].word = w
  BY DEF Buffers, NodeOf

\* The element a valid index selects.
LEMMA NodeType ==
    ASSUME TxType, NEW p \in Thread, NEW j \in 1 .. NLocks(p)
    PROVE  /\ writeSet[p][j].word \in Word /\ writeSet[p][j].val \in Value
           /\ LockAt(p, j) \in Lock
<1>1. writeSet[p] \in Seq(WriteNode)
  BY DEF TxType
<1>2. writeSet[p][j] \in WriteNode
  BY <1>1, ElementOfSeq DEF NLocks
<1> QED BY <1>2, LockOfWord DEF WriteNode, LockAt

LEMMA ListLengths ==
    ASSUME TxType, NEW p \in Thread PROVE NLocks(p) \in Nat /\ Len(readSet[p]) \in Nat
  BY LenProperties DEF TxType, NLocks

LEMMA ReadSetType ==
    ASSUME TxType, NEW p \in Thread, NEW j \in 1 .. Len(readSet[p])
    PROVE  readSet[p][j] \in Word /\ LockOf(readSet[p][j]) \in Lock
  BY LockOfWord DEF TxType

-----------------------------------------------------------------------------
(* Types.  Each group of variables that an action leaves alone keeps its    *)
(* type by one of these lemmas.                                             *)

LEMMA RegionFrame == RegionType /\ UNCHANGED <<globalVersion, latestTransactionId, locks, mem>>
                        => RegionType'
  BY DEF RegionType, locks
LEMMA TxFrame == TxType /\ UNCHANGED <<pc, tx>> => TxType'
  BY DEF TxType, tx
LEMMA ReadFrame == ReadType /\ UNCHANGED rdVars => ReadType'
  BY DEF ReadType, rdVars
LEMMA EndFrame == EndType /\ UNCHANGED endVars => EndType'
  BY DEF EndType, endVars
LEMMA HistFrame == HistType /\ UNCHANGED <<hist, snap, commits>> => HistType'
  BY DEF HistType

LEMMA TypeInit == Init => TypeOK
  BY ZeroAssumption, ZeroWord
     DEF Init, TypeOK, RegionType, TxType, ReadType, EndType, HistType, PC, WriteNode, Stored,
         Commit

LEMMA ClearSetsType ==
    ASSUME TxType, HistType, NEW p \in Thread, ClearSets(p)
    PROVE  TxType' /\ (UNCHANGED <<hist, commits>> => HistType')
  BY DEF TxType, HistType, ClearSets, Goto, PC

LEMMA ForgetReadType == ASSUME ReadType, NEW p \in Thread, ForgetRead(p) PROVE ReadType'
  BY ZeroWord, ZeroAssumption DEF ReadType, ForgetRead

LEMMA StartReleaseType ==
    ASSUME TxType, EndType, NEW p \in Thread, NEW r \in BOOLEAN, StartRelease(p, r),
           UNCHANGED newVersion
    PROVE  EndType'
  BY ListLengths DEF StartRelease, EndType

LEMMA TypeNext == TypeInv /\ [Next]_vars => TypeOK'
<1> SUFFICES ASSUME TypeInv, [Next]_vars PROVE TypeOK'
  OBVIOUS
<1> USE DEF Goto, locks, tx, rdVars, endVars
<1>a. RegionType /\ TxType /\ ReadType /\ EndType /\ HistType
  BY DEF TypeInv, TypeOK
<1>b. \A p \in Thread : IndexAt(p)
  BY DEF TypeInv
<1>1. ASSUME NEW p \in Thread, NEW ro \in BOOLEAN, BeginVersion(p, ro) PROVE TypeOK'
  <2>1. TxType'
    BY <1>1, <1>a DEF BeginVersion, RegionType, TxType, PC
  <2> QED BY <2>1, <1>1, <1>a, RegionFrame, ReadFrame, EndFrame, HistFrame
     DEF BeginVersion, TypeOK
<1>2. ASSUME NEW p \in Thread, NEW w \in Word, ReadSample(p, w) PROVE TypeOK'
  <2>1. TxType'
    BY <1>2, <1>a DEF ReadSample, TxType, PC
  <2>2. ReadType'
    BY <1>2, <1>a, LockOfWord DEF ReadSample, RegionType, ReadType
  <2> QED BY <2>1, <2>2, <1>2, <1>a, RegionFrame, EndFrame, HistFrame DEF ReadSample, TypeOK
<1>3. ASSUME NEW p \in Thread, NEW w \in Word, NEW v \in Value, Write(p, w, v) PROVE
   TypeOK'
  <2>1. TxType'
    <3>1. writeSet[p] \in Seq(WriteNode) /\ [word |-> w, val |-> v] \in WriteNode
      BY <1>a DEF TxType, WriteNode
    <3>2. writeSet'[p] \in Seq(WriteNode)
      <4>1. CASE Buffers(p, w)
        <5>1. NodeOf(p, w) \in 1 .. Len(writeSet[p])
          BY <4>1, NodeOfIndex
        <5>2. writeSet'[p] = [writeSet[p] EXCEPT ![NodeOf(p, w)] = [word |-> w, val |-> v]]
          BY <1>3, <1>a, <4>1 DEF Write, addWriteSet, TxType
        <5> QED BY <3>1, <5>1, <5>2, ExceptSeq
      <4>2. CASE ~ Buffers(p, w)
        <5>1. writeSet'[p] = Append(writeSet[p], [word |-> w, val |-> v])
          BY <1>3, <1>a, <4>2 DEF Write, addWriteSet, TxType
        <5> QED BY <3>1, <5>1, AppendProperties
      <4> QED BY <4>1, <4>2
    <3>3. writeSet' = [writeSet EXCEPT ![p] = writeSet'[p]]
      BY <1>3, <1>a DEF Write, addWriteSet, TxType
    <3>4. writeSet' \in [Thread -> Seq(WriteNode)]
      BY <3>2, <3>3, <1>a DEF TxType
    <3>5. writeSetSize' \in [Thread -> Int]
      BY <1>3, <1>a DEF Write, addWriteSet, TxType
    <3> QED BY <1>3, <1>a, <3>4, <3>5 DEF Write, addWriteSet, TxType
  <2> QED BY <2>1, <1>3, <1>a, RegionFrame, ReadFrame, EndFrame, HistFrame DEF Write, addWriteSet, TypeOK
<1>4. ASSUME NEW p \in Thread, EndReadOnly(p) PROVE TypeOK'
  <2>1. TxType'
    BY <1>4, <1>a, ClearSetsType DEF EndReadOnly
  <2>2. HistType'
    BY <1>4, <1>a, ClearSetsType DEF EndReadOnly
  <2> QED BY <2>1, <2>2, <1>4, <1>a, RegionFrame, ReadFrame, EndFrame DEF EndReadOnly, TypeOK
<1>5. ASSUME NEW p \in Thread, GetLocks(p) PROVE TypeOK'
  <2>1. TxType'
    BY <1>5, <1>a DEF GetLocks, TxType, PC
  <2>2. EndType'
    BY <1>5, <1>a DEF GetLocks, EndType
  <2> QED BY <2>1, <2>2, <1>5, <1>a, RegionFrame, ReadFrame, HistFrame DEF GetLocks, TypeOK
<1>6. ASSUME NEW p \in Thread, BeginId(p) PROVE TypeOK'
  <2>1. RegionType'
    BY <1>6, <1>a DEF BeginId, RegionType
  <2>2. TxType'
    BY <1>6, <1>a, GarbageAssumption DEF BeginId, RegionType, TxType, PC
  <2> QED BY <2>1, <2>2, <1>6, <1>a, ReadFrame, EndFrame, HistFrame DEF BeginId, TypeOK
<1>7. ASSUME NEW p \in Thread, NEW here, NEW passed, NEW next \in PC, ReadTest(p, here,
   passed, next) PROVE TypeOK'
  <2>1. TxType'
    BY <1>7, <1>a, ClearSetsType DEF ReadTest, TxType
  <2>2. ReadType'
    BY <1>7, <1>a, ForgetReadType, ReadFrame DEF ReadTest
  <2>3. HistType'
    BY <1>7, <1>a, ClearSetsType, HistFrame DEF ReadTest
  <2> QED BY <2>1, <2>2, <2>3, <1>7, <1>a, RegionFrame, EndFrame DEF ReadTest, TypeOK
<1>8. ASSUME NEW p \in Thread, ReadCopy(p) PROVE TypeOK'
  <2>1. TxType'
    BY <1>8, <1>a DEF ReadCopy, TxType, PC
  <2>2. ReadType'
    <3>1. \A w \in Word : CopyOutcomes(w) \subseteq Value
      BY <1>a DEF CopyOutcomes, RegionType
    <3>2. FromWriteSet(p) => BufferedValue(p, word[p]) \in Value
      BY <1>a, NodeOfIndex, NodeType DEF FromWriteSet, BufferedValue, ReadType, NLocks
    <3> QED BY <1>8, <1>a, <3>1, <3>2 DEF ReadCopy, ReadType
  <2> QED BY <2>1, <2>2, <1>8, <1>a, RegionFrame, EndFrame, HistFrame DEF ReadCopy, TypeOK
<1>9. ASSUME NEW p \in Thread, ReadMax2(p) PROVE TypeOK'
  <2>1. TxType'
    <3>1. CASE NotNewer(p)
      <4>1. Append(readSet[p], word[p]) \in Seq(Word)
        BY <1>a, AppendProperties DEF TxType, ReadType
      <4>2. readSet' \in [Thread -> Seq(Word)]
        BY <1>9, <1>a, <3>1, <4>1 DEF ReadMax2, addReadSet, TxType
      <4>3. pc' \in [Thread -> PC]
        BY <1>9, <1>a, <3>1 DEF ReadMax2, addReadSet, TxType, PC
      <4> QED BY <1>9, <1>a, <3>1, <4>2, <4>3 DEF ReadMax2, addReadSet, TxType
    <3>2. CASE ~ NotNewer(p)
      BY <1>9, <1>a, <3>2, ClearSetsType DEF ReadMax2, addReadSet
    <3> QED BY <3>1, <3>2
  <2>2. ReadType'
    BY <1>9, <1>a, ForgetReadType DEF ReadMax2, addReadSet
  <2>3. HistType'
    BY <1>9, <1>a, ClearSetsType DEF ReadMax2, addReadSet, ReadType, HistType, WriteNode
  <2> QED BY <2>1, <2>2, <2>3, <1>9, <1>a, RegionFrame, EndFrame DEF ReadMax2, addReadSet, TypeOK
<1>10. ASSUME NEW p \in Thread, Acquire(p) PROVE TypeOK'
  <2>1. RegionType'
    BY <1>10, <1>a DEF Acquire, RegionType
  <2>2. TxType'
    BY <1>10, <1>a DEF Acquire, TxType, PC
  <2>3. EndType'
    <3>1. k[p] \in Nat /\ k[p] >= 1
      BY <1>10, <1>a, <1>b, ListLengths DEF Acquire, IndexAt, EndType
    <3>2. CASE mutex[LockAt(p, k[p])]
      <4>1. /\ n' = [n EXCEPT ![p] = k[p] - 1] /\ k' = [k EXCEPT ![p] = 1]
            /\ ok' = [ok EXCEPT ![p] = FALSE] /\ UNCHANGED newVersion
        BY <1>10, <3>2 DEF Acquire, UndoCount
      <4> QED BY <1>a, <3>1, <4>1 DEF EndType
    <3>3. CASE ~ mutex[LockAt(p, k[p])]
      BY <1>10, <1>a, <3>3, EndFrame DEF Acquire
    <3> QED BY <3>2, <3>3
  <2> QED BY <2>1, <2>2, <2>3, <1>10, <1>a, ReadFrame, HistFrame DEF Acquire, TypeOK
<1>11. ASSUME NEW p \in Thread, SetHolder(p) PROVE TypeOK'
  <2>1. RegionType'
    BY <1>11, <1>a DEF SetHolder, RegionType, TxType
  <2>2. TxType'
    BY <1>11, <1>a DEF SetHolder, TxType, PC
  <2>3. EndType'
    BY <1>11, <1>a DEF SetHolder, EndType
  <2> QED BY <2>1, <2>2, <2>3, <1>11, <1>a, ReadFrame, HistFrame DEF SetHolder, TypeOK
<1>12. ASSUME NEW p \in Thread, Stamp(p) PROVE TypeOK'
  <2>1. RegionType'
    BY <1>12, <1>a DEF Stamp, RegionType
  <2>2. TxType'
    BY <1>12, <1>a DEF Stamp, TxType, PC
  <2>3. EndType'
    BY <1>12, <1>a DEF Stamp, DrawnVersion, RegionType, EndType
  <2> QED BY <2>1, <2>2, <2>3, <1>12, <1>a, ReadFrame, HistFrame DEF Stamp, TypeOK
<1>13. ASSUME NEW p \in Thread, ValidateVer(p) PROVE TypeOK'
  <2>1. TxType'
    BY <1>13, <1>a DEF ValidateVer, StartRelease, TxType, PC
  <2>2. EndType'
    BY <1>13, <1>a, StartReleaseType, EndFrame DEF ValidateVer
  <2> QED BY <2>1, <2>2, <1>13, <1>a, RegionFrame, ReadFrame, HistFrame DEF ValidateVer, TypeOK
<1>14. ASSUME NEW p \in Thread, ValidateLock(p) PROVE TypeOK'
  <2>1. TxType'
    BY <1>14, <1>a DEF ValidateLock, StartRelease, TxType, PC
  <2>2. EndType'
    <3>1. CASE StartRelease(p, FALSE)
      BY <1>14, <1>a, <3>1, StartReleaseType DEF ValidateLock
    <3>2. CASE k' = [k EXCEPT ![p] = @ + 1] /\ UNCHANGED <<n, ok>>
      BY <1>14, <1>a, <3>2 DEF ValidateLock, EndType
    <3> QED BY <1>14, <3>1, <3>2 DEF ValidateLock
  <2> QED BY <2>1, <2>2, <1>14, <1>a, RegionFrame, ReadFrame, HistFrame DEF ValidateLock, TypeOK
<1>15. ASSUME NEW p \in Thread, Validated(p) PROVE TypeOK'
  <2>1. TxType'
    BY <1>15, <1>a DEF Validated, TxType, PC
  <2>2. EndType'
    BY <1>15, <1>a DEF Validated, EndType
  <2> QED BY <2>1, <2>2, <1>15, <1>a, RegionFrame, ReadFrame, HistFrame DEF Validated, TypeOK
<1>16. ASSUME NEW p \in Thread, WriteBackVer(p) PROVE TypeOK'
  <2>1. RegionType'
    BY <1>16, <1>a DEF WriteBackVer, InstalledVersion, RegionType, EndType
  <2>2. TxType'
    BY <1>16, <1>a DEF WriteBackVer, TxType, PC
  <2>3. HistType'
    <3>1. k[p] \in 1 .. NLocks(p)
      BY <1>16, <1>a, <1>b DEF WriteBackVer, IndexAt, EndType, NLocks, TxType
    <3> QED BY <1>16, <1>a, <3>1, NodeType
            DEF WriteBackVer, InstalledVersion, EndType, HistType, Stored
  <2> QED BY <2>1, <2>2, <2>3, <1>16, <1>a, ReadFrame, EndFrame DEF WriteBackVer, TypeOK
<1>17. ASSUME NEW p \in Thread, WriteBackCopy(p) PROVE TypeOK'
  <2>1. RegionType'
    <3>1. k[p] \in 1 .. NLocks(p)
      BY <1>17, <1>b DEF WriteBackCopy, IndexAt
    <3> QED BY <1>17, <1>a, <3>1, NodeType DEF WriteBackCopy, RegionType
  <2>2. TxType'
    BY <1>17, <1>a DEF WriteBackCopy, TxType, PC
  <2>3. EndType'
    BY <1>17, <1>a DEF WriteBackCopy, EndType
  <2> QED BY <2>1, <2>2, <2>3, <1>17, <1>a, ReadFrame, HistFrame DEF WriteBackCopy, TypeOK
<1>18. ASSUME NEW p \in Thread, WrittenBack(p) PROVE TypeOK'
  <2>1. TxType'
    BY <1>18, <1>a DEF WrittenBack, StartRelease, TxType, PC
  <2>2. EndType'
    BY <1>18, <1>a, StartReleaseType DEF WrittenBack
  <2>3. HistType'
    <3>1. { readSet[p][j] : j \in 1 .. Len(readSet[p]) } \in SUBSET Word
      BY <1>a, ReadSetType
    <3>2. { writeSet[p][j].word : j \in 1 .. NLocks(p) } \in SUBSET Word
      BY <1>a, NodeType
    <3>3. rv[p] \in Nat /\ newVersion[p] \in Nat
      BY <1>a DEF TxType, EndType
    <3> QED BY <1>18, <1>a, <3>1, <3>2, <3>3 DEF WrittenBack, HistType, Commit
  <2> QED BY <2>1, <2>2, <2>3, <1>18, <1>a, RegionFrame, ReadFrame DEF WrittenBack, TypeOK
<1>19. ASSUME NEW p \in Thread, ReleaseTest(p) PROVE TypeOK'
  <2>1. TxType'
    BY <1>19, <1>a DEF ReleaseTest, TxType, PC
  <2>2. EndType'
    BY <1>19, <1>a DEF ReleaseTest, EndType
  <2> QED BY <2>1, <2>2, <1>19, <1>a, RegionFrame, ReadFrame, HistFrame DEF ReleaseTest, TypeOK
<1>20. ASSUME NEW p \in Thread, ReleaseHolder(p) PROVE TypeOK'
  <2>1. RegionType'
    BY <1>20, <1>a DEF ReleaseHolder, RegionType
  <2>2. TxType'
    BY <1>20, <1>a DEF ReleaseHolder, TxType, PC
  <2> QED BY <2>1, <2>2, <1>20, <1>a, ReadFrame, EndFrame, HistFrame DEF ReleaseHolder, TypeOK
<1>21. ASSUME NEW p \in Thread, ReleaseMutex(p) PROVE TypeOK'
  <2>1. RegionType'
    BY <1>21, <1>a DEF ReleaseMutex, RegionType
  <2>2. TxType'
    BY <1>21, <1>a DEF ReleaseMutex, TxType, PC
  <2>3. EndType'
    BY <1>21, <1>a DEF ReleaseMutex, EndType
  <2> QED BY <2>1, <2>2, <2>3, <1>21, <1>a, ReadFrame, HistFrame DEF ReleaseMutex, TypeOK
<1>22. ASSUME NEW p \in Thread, EndReturn(p) PROVE TypeOK'
  <2>1. TxType'
    BY <1>22, <1>a, ClearSetsType DEF EndReturn
  <2>2. EndType'
    BY <1>22, <1>a DEF EndReturn, ForgetEnd, EndType
  <2>3. HistType'
    BY <1>22, <1>a, ClearSetsType DEF EndReturn
  <2> QED BY <2>1, <2>2, <2>3, <1>22, <1>a, RegionFrame, ReadFrame DEF EndReturn, TypeOK
<1>23. CASE UNCHANGED vars
  BY <1>23, <1>a, RegionFrame, TxFrame, ReadFrame, EndFrame, HistFrame DEF vars, TypeOK
<1> QED
  BY <1>1, <1>2, <1>3, <1>4, <1>5, <1>6, <1>7, <1>8, <1>9, <1>10, <1>11, <1>12, <1>13,
     <1>14, <1>15, <1>16, <1>17, <1>18, <1>19, <1>20, <1>21, <1>22, <1>23 DEF Next,
     Call, InCall, ReadVer, ReadLock, ReadMax, ReadVer2, ReadLock2, PC
-----------------------------------------------------------------------------
(* A step of one thread leaves the transaction and the locals of another    *)
(* as they are.                                                             *)

Same(q) ==
    /\ pc'[q] = pc[q] /\ id'[q] = id[q] /\ rv'[q] = rv[q] /\ isReadOnly'[q] = isReadOnly[q]
    /\ readSet'[q] = readSet[q] /\ writeSet'[q] = writeSet[q] /\ snap'[q] = snap[q]
    /\ word'[q] = word[q] /\ sampled'[q] = sampled[q] /\ buf'[q] = buf[q]
    /\ k'[q] = k[q] /\ n'[q] = n[q] /\ newVersion'[q] = newVersion[q] /\ ok'[q] = ok[q]

Step(p) == Call(p) \/ InCall(p)

LEMMA OthersSame ==
    ASSUME TypeOK, NEW p \in Thread, NEW q \in Thread, p # q, Step(p)
    PROVE  Same(q)
<1> USE DEF Goto, locks, tx, rdVars, endVars, Same
<1>a. TxType /\ ReadType /\ EndType /\ HistType
  BY DEF TypeOK
<1>1. ASSUME NEW ro \in BOOLEAN, BeginVersion(p, ro) PROVE Same(q)
  BY <1>1, <1>a DEF BeginVersion, TxType, ReadType, EndType, HistType
<1>2. ASSUME NEW w \in Word, ReadSample(p, w) PROVE Same(q)
  BY <1>2, <1>a DEF ReadSample, TxType, ReadType, EndType, HistType
<1>3. ASSUME NEW w \in Word, NEW v \in Value, Write(p, w, v) PROVE Same(q)
  BY <1>3, <1>a DEF Write, addWriteSet, TxType, ReadType, EndType, HistType
<1>4. CASE EndReadOnly(p)
  BY <1>4, <1>a DEF EndReadOnly, ClearSets, TxType, ReadType, EndType, HistType
<1>5. CASE GetLocks(p)
  BY <1>5, <1>a DEF GetLocks, TxType, ReadType, EndType, HistType
<1>6. CASE BeginId(p)
  BY <1>6, <1>a DEF BeginId, TxType, ReadType, EndType, HistType
<1>7. ASSUME NEW here, NEW passed, NEW next \in PC, ReadTest(p, here, passed, next) PROVE Same(q)
  <2>1. CASE passed
    BY <1>7, <1>a, <2>1 DEF ReadTest, ClearSets, ForgetRead, TxType, ReadType, EndType, HistType
  <2>2. CASE ~ (passed)
    BY <1>7, <1>a, <2>2 DEF ReadTest, ClearSets, ForgetRead, TxType, ReadType, EndType, HistType
  <2> QED BY <2>1, <2>2
<1>8. CASE ReadCopy(p)
  BY <1>8, <1>a DEF ReadCopy, TxType, ReadType, EndType, HistType
<1>9. CASE ReadMax2(p)
  <2>a. UNCHANGED endVars /\ word'[q] = word[q] /\ sampled'[q] = sampled[q] /\ buf'[q] = buf[q]
    BY <1>9, <1>a DEF ReadMax2, addReadSet, ForgetRead, ReadType
  <2>1. CASE NotNewer(p)
    <3>1. UNCHANGED <<id, rv, isReadOnly, writeSet, writeSetSize, ops>> /\ pc'[q] = pc[q]
      BY <1>9, <1>a, <2>1 DEF ReadMax2, addReadSet, TxType
    <3>2. readSet'[q] = readSet[q] /\ snap'[q] = snap[q]
      BY <1>9, <1>a, <2>1 DEF ReadMax2, addReadSet, TxType, HistType
    <3> QED BY <2>a, <3>1, <3>2
  <2>2. CASE ~ NotNewer(p)
    <3>1. ClearSets(p)
      BY <1>9, <2>2 DEF ReadMax2, addReadSet
    <3> QED BY <2>a, <3>1, <1>a DEF ClearSets, TxType, HistType
  <2> QED BY <2>1, <2>2
<1>10. CASE Acquire(p)
  <2>1. CASE mutex[LockAt(p, k[p])]
    BY <1>10, <1>a, <2>1 DEF Acquire, TxType, ReadType, EndType, HistType
  <2>2. CASE ~ (mutex[LockAt(p, k[p])])
    BY <1>10, <1>a, <2>2 DEF Acquire, TxType, ReadType, EndType, HistType
  <2> QED BY <2>1, <2>2
<1>11. CASE SetHolder(p)
  BY <1>11, <1>a DEF SetHolder, TxType, ReadType, EndType, HistType
<1>12. CASE Stamp(p)
  BY <1>12, <1>a DEF Stamp, TxType, ReadType, EndType, HistType
<1>13. CASE ValidateVer(p)
  <2>1. CASE version[LockOf(readSet[p][k[p]])] > rv[p]
    BY <1>13, <1>a, <2>1 DEF ValidateVer, StartRelease, TxType, ReadType, EndType, HistType
  <2>2. CASE ~ (version[LockOf(readSet[p][k[p]])] > rv[p])
    BY <1>13, <1>a, <2>2 DEF ValidateVer, StartRelease, TxType, ReadType, EndType, HistType
  <2> QED BY <2>1, <2>2
<1>14. CASE ValidateLock(p)
  <2>1. CASE mutex[LockOf(readSet[p][k[p]])] /\ ~ OwnLock(p, LockOf(readSet[p][k[p]]))
    BY <1>14, <1>a, <2>1 DEF ValidateLock, StartRelease, TxType, ReadType, EndType, HistType
  <2>2. CASE ~ (mutex[LockOf(readSet[p][k[p]])] /\ ~ OwnLock(p, LockOf(readSet[p][k[p]])))
    BY <1>14, <1>a, <2>2 DEF ValidateLock, StartRelease, TxType, ReadType, EndType, HistType
  <2> QED BY <2>1, <2>2
<1>15. CASE Validated(p)
  BY <1>15, <1>a DEF Validated, TxType, ReadType, EndType, HistType
<1>16. CASE WriteBackVer(p)
  BY <1>16, <1>a DEF WriteBackVer, TxType, ReadType, EndType, HistType
<1>17. CASE WriteBackCopy(p)
  BY <1>17, <1>a DEF WriteBackCopy, TxType, ReadType, EndType, HistType
<1>18. CASE WrittenBack(p)
  BY <1>18, <1>a DEF WrittenBack, StartRelease, TxType, ReadType, EndType, HistType
<1>19. CASE ReleaseTest(p)
  BY <1>19, <1>a DEF ReleaseTest, TxType, ReadType, EndType, HistType
<1>20. CASE ReleaseHolder(p)
  BY <1>20, <1>a DEF ReleaseHolder, TxType, ReadType, EndType, HistType
<1>21. CASE ReleaseMutex(p)
  BY <1>21, <1>a DEF ReleaseMutex, TxType, ReadType, EndType, HistType
<1>22. CASE EndReturn(p)
  BY <1>22, <1>a DEF EndReturn, ClearSets, ForgetEnd, TxType, ReadType, EndType, HistType
<1> QED
  BY <1>1, <1>2, <1>3, <1>4, <1>5, <1>6, <1>7, <1>8, <1>9, <1>10, <1>11, <1>12, <1>13, <1>14, <1>15, <1>16, <1>17, <1>18, <1>19, <1>20, <1>21, <1>22
     DEF Step, Call, InCall, ReadVer, ReadLock, ReadMax, ReadVer2, ReadLock2, PC
-----------------------------------------------------------------------------
(* Loop indices.                                                            *)

Outside == {"idle", "beginId", "run", "rdVer", "rdLock", "rdMax", "rdCopy", "rdVer2",
            "rdLock2", "rdMax2", "segv"}

\* The steps outside the commit protocol, the first and the last of tm_end too.
OutsideStep(p) ==
    \/ Call(p) \/ BeginId(p) \/ ReadVer(p) \/ ReadLock(p) \/ ReadMax(p) \/ ReadCopy(p)
    \/ ReadVer2(p) \/ ReadLock2(p) \/ ReadMax2(p) \/ EndReturn(p)

LEMMA OutsidePC ==
    ASSUME TypeOK, NEW p \in Thread, OutsideStep(p)
    PROVE  /\ pc'[p] \in Outside \/ (GetLocks(p) /\ pc'[p] = "acquire" /\ k'[p] = 1)
           /\ pc[p] \in Outside \/ (pc[p] = "release" /\ k[p] > n[p])
           /\ UNCHANGED <<globalVersion, version, mutex, holder, mem, hist, commits>>
<1> USE DEF Goto, At, Outside, locks
<1>a. TxType /\ EndType
  BY DEF TypeOK
<1>1. ASSUME NEW ro \in BOOLEAN, BeginVersion(p, ro) PROVE pc'[p] \in Outside
  BY <1>1, <1>a DEF BeginVersion, TxType
<1>2. ASSUME NEW w \in Word, ReadSample(p, w) PROVE pc'[p] \in Outside
  BY <1>2, <1>a DEF ReadSample, TxType
<1>3. ASSUME NEW w \in Word, NEW v \in Value, Write(p, w, v) PROVE pc'[p] \in Outside
  BY <1>3, <1>a DEF Write, addWriteSet, TxType
<1>4. CASE EndReadOnly(p)
  BY <1>4, <1>a DEF EndReadOnly, ClearSets, TxType
<1>5. CASE GetLocks(p)
  BY <1>5, <1>a DEF GetLocks, TxType, EndType
<1>6. CASE BeginId(p)
  BY <1>6, <1>a DEF BeginId, TxType
<1>7. ASSUME NEW here \in Outside, NEW passed, NEW next \in Outside,
             ReadTest(p, here, passed, next) PROVE pc'[p] \in Outside /\ pc[p] \in Outside
  BY <1>7, <1>a DEF ReadTest, ClearSets, TxType
<1>8. CASE ReadCopy(p)
  BY <1>8, <1>a DEF ReadCopy, TxType
<1>9. CASE ReadMax2(p)
  <2>1. pc'[p] \in Outside
    BY <1>9, <1>a DEF ReadMax2, addReadSet, ClearSets, TxType
  <2> QED BY <1>9, <2>1 DEF ReadMax2, addReadSet
<1>10. CASE EndReturn(p)
  BY <1>10, <1>a DEF EndReturn, ClearSets, TxType
<1> QED
  BY <1>1, <1>2, <1>3, <1>4, <1>5, <1>6, <1>7, <1>8, <1>9, <1>10
     DEF OutsideStep, Call, BeginVersion, ReadSample, Write, addWriteSet, ReadVer, ReadLock, ReadMax,
         ReadVer2, ReadLock2, ReadTest

LEMMA IndexStep == ASSUME TypeInv, NEW p \in Thread, Step(p) PROVE IndexAt(p)'
<1> USE DEF Goto, At, Releasing
<1>a. TxType /\ EndType /\ IndexAt(p)
  BY DEF TypeInv, TypeOK
<1>b. /\ k[p] \in Nat /\ n[p] \in Nat /\ NLocks(p) \in Nat /\ Len(readSet[p]) \in Nat
  BY <1>a, ListLengths DEF EndType
<1>1. CASE OutsideStep(p)
  <2>1. CASE pc'[p] \in Outside
    BY <2>1 DEF Outside, IndexAt
  <2>2. CASE GetLocks(p) /\ pc'[p] = "acquire" /\ k'[p] = 1
    <3>1. writeSet' = writeSet
      BY <2>2 DEF GetLocks, tx
    <3> QED BY <2>2, <3>1, <1>b DEF IndexAt, NLocks
  <2> QED BY <1>1, <2>1, <2>2, OutsidePC DEF TypeInv
<1>2. ASSUME StartRelease(p, ok'[p]), UNCHANGED tx \/ UNCHANGED <<writeSet, readSet>>
      PROVE  IndexAt(p)'
  <2>1. pc'[p] = "release" /\ k'[p] = 1 /\ n'[p] = NLocks(p) /\ NLocks(p)' = NLocks(p)
    BY <1>2, <1>a DEF StartRelease, TxType, EndType, tx, NLocks
  <2> QED BY <2>1, <1>b DEF IndexAt
<1>3. CASE Acquire(p)
  <2>0. NLocks(p)' = NLocks(p) /\ k[p] >= 1 /\ k[p] <= NLocks(p)
    BY <1>3, <1>a, <1>b DEF Acquire, NLocks, tx, IndexAt
  <2>1. CASE mutex[LockAt(p, k[p])]
    <3>1. pc'[p] = "release" /\ k'[p] = 1 /\ n'[p] = k[p] - 1
      BY <1>3, <1>a, <2>1 DEF Acquire, UndoCount, TxType, EndType
    <3> QED BY <3>1, <2>0, <1>b DEF IndexAt
  <2>2. CASE ~ mutex[LockAt(p, k[p])]
    <3>1. pc'[p] = "setHolder" /\ k'[p] = k[p]
      BY <1>3, <1>a, <2>2 DEF Acquire, TxType, EndType
    <3> QED BY <3>1, <2>0, <1>b DEF IndexAt
  <2> QED BY <2>1, <2>2
<1>4. CASE SetHolder(p)
  <2>1. pc'[p] = "acquire" /\ k'[p] = k[p] + 1 /\ NLocks(p)' = NLocks(p)
    BY <1>4, <1>a DEF SetHolder, NLocks, tx, TxType, EndType
  <2> QED BY <1>4, <2>1, <1>a, <1>b DEF IndexAt, SetHolder
<1>5. CASE Stamp(p)
  <2>1. /\ pc'[p] \in {"valVer", "wbVer"} /\ k'[p] = 1
        /\ NLocks(p)' = NLocks(p) /\ readSet' = readSet
    BY <1>5, <1>a DEF Stamp, NLocks, tx, TxType, EndType
  <2> QED BY <2>1, <1>b DEF IndexAt
<1>6. CASE ValidateVer(p)
  <2>1. CASE StartRelease(p, FALSE)
    BY <1>6, <2>1, <1>2, <1>a DEF ValidateVer, StartRelease, EndType
  <2>2. CASE Goto(p, "valLock") /\ UNCHANGED <<k, n, ok>>
    <3>1. pc'[p] = "valLock" /\ k'[p] = k[p] /\ readSet' = readSet /\ k[p] <= Len(readSet[p])
      BY <1>6, <2>2, <1>a DEF ValidateVer, tx, TxType
    <3> QED BY <1>6, <3>1, <1>a, <1>b DEF IndexAt, ValidateVer
  <2> QED BY <1>6, <2>1, <2>2 DEF ValidateVer
<1>7. CASE ValidateLock(p)
  <2>1. CASE StartRelease(p, FALSE)
    BY <1>7, <2>1, <1>2, <1>a DEF ValidateLock, StartRelease, EndType
  <2>2. CASE Goto(p, "valVer") /\ k' = [k EXCEPT ![p] = @ + 1]
    <3>1. pc'[p] = "valVer" /\ k'[p] = k[p] + 1 /\ readSet' = readSet
      BY <1>7, <2>2, <1>a DEF ValidateLock, tx, TxType, EndType
    <3> QED BY <1>7, <3>1, <1>a, <1>b DEF IndexAt, ValidateLock
  <2> QED BY <1>7, <2>1, <2>2 DEF ValidateLock
<1>8. CASE Validated(p)
  <2>1. pc'[p] = "wbVer" /\ k'[p] = 1 /\ NLocks(p)' = NLocks(p)
    BY <1>8, <1>a DEF Validated, NLocks, tx, TxType, EndType
  <2> QED BY <2>1, <1>b DEF IndexAt
<1>9. CASE WriteBackVer(p)
  <2>1. pc'[p] = "wbCopy" /\ k'[p] = k[p] /\ NLocks(p)' = NLocks(p)
    BY <1>9, <1>a DEF WriteBackVer, NLocks, tx, endVars, TxType
  <2> QED BY <1>9, <2>1, <1>a, <1>b DEF IndexAt, WriteBackVer
<1>10. CASE WriteBackCopy(p)
  <2>1. pc'[p] = "wbVer" /\ k'[p] = k[p] + 1 /\ NLocks(p)' = NLocks(p)
    BY <1>10, <1>a DEF WriteBackCopy, NLocks, tx, TxType, EndType
  <2> QED BY <1>10, <2>1, <1>a, <1>b DEF IndexAt, WriteBackCopy
<1>11. CASE WrittenBack(p)
  BY <1>11, <1>2, <1>a DEF WrittenBack, StartRelease, EndType
<1>12. CASE ReleaseTest(p)
  <2>1. NLocks(p)' = NLocks(p) /\ n'[p] = n[p] /\ k[p] <= n[p]
    BY <1>12, <1>a DEF ReleaseTest, NLocks, tx, EndType
  <2>2. CASE pc'[p] = "relHolder" /\ k'[p] = k[p]
    BY <1>12, <2>1, <2>2, <1>a, <1>b DEF IndexAt, ReleaseTest
  <2>3. CASE pc'[p] = "release" /\ k'[p] = k[p] + 1
    BY <1>12, <2>1, <2>3, <1>a, <1>b DEF IndexAt, ReleaseTest
  <2> QED BY <1>12, <1>a, <2>2, <2>3 DEF ReleaseTest, TxType, EndType
<1>13. CASE ReleaseHolder(p)
  <2>1. NLocks(p)' = NLocks(p) /\ n'[p] = n[p] /\ k'[p] = k[p] /\ pc'[p] = "relMutex"
    BY <1>13, <1>a DEF ReleaseHolder, NLocks, tx, endVars, TxType
  <2> QED BY <1>13, <2>1, <1>a, <1>b DEF IndexAt, ReleaseHolder
<1>14. CASE ReleaseMutex(p)
  <2>1. NLocks(p)' = NLocks(p) /\ n'[p] = n[p] /\ k'[p] = k[p] + 1 /\ pc'[p] = "release"
    BY <1>14, <1>a DEF ReleaseMutex, NLocks, tx, TxType, EndType
  <2> QED BY <1>14, <2>1, <1>a, <1>b DEF IndexAt, ReleaseMutex
<1> QED
  BY <1>1, <1>3, <1>4, <1>5, <1>6, <1>7, <1>8, <1>9, <1>10, <1>11, <1>12, <1>13, <1>14
     DEF Step, InCall, OutsideStep

LEMMA TypeInvInit == Init => TypeInv
  BY TypeInit DEF Init, TypeInv, IndexAt, At, Releasing

LEMMA TypeInvNext == TypeInv /\ [Next]_vars => TypeInv'
<1> SUFFICES ASSUME TypeInv, [Next]_vars PROVE TypeInv'
  OBVIOUS
<1>1. TypeOK'
  BY TypeNext
<1>2. ASSUME NEW p \in Thread, Step(p), NEW q \in Thread PROVE IndexAt(q)'
  <2>1. CASE q = p
    BY <1>2, <2>1, IndexStep
  <2>2. CASE q # p
    <3>1. Same(q)
      BY <1>2, <2>2, OthersSame DEF TypeInv
    <3>2. IndexAt(q)
      BY DEF TypeInv
    <3> QED BY <3>1, <3>2 DEF Same, IndexAt, At, Releasing, NLocks
  <2> QED BY <2>1, <2>2
<1>3. CASE UNCHANGED vars
  BY <1>1, <1>3 DEF TypeInv, IndexAt, At, Releasing, NLocks, vars, tx, endVars
<1> QED BY <1>1, <1>2, <1>3 DEF TypeInv, Next, Step

\* Every variable keeps the type its C declaration gives it, and the loops of
\* tm_end stay inside the lock array and the two sets.
THEOREM TypeInvariant == Spec => []TypeInv
  BY TypeInvInit, TypeInvNext, PTL DEF Spec

\* Every variable keeps the type its C declaration gives it.
THEOREM TypeCorrect == Spec => []TypeOK
  BY TypeInvariant, PTL DEF TypeInv
-----------------------------------------------------------------------------
(* Locks.                                                                   *)

LEMMA OthersOwn ==
    ASSUME TypeInv, NEW p \in Thread, NEW q \in Thread, p # q, Step(p)
    PROVE  /\ OwnedIdx(q)' = OwnedIdx(q) /\ NLocks(q)' = NLocks(q)
           /\ \A j : LockAt(q, j)' = LockAt(q, j)
           /\ pc'[q] = pc[q] /\ k'[q] = k[q] /\ id'[q] = id[q]
<1>1. Same(q)
  BY OthersSame DEF TypeInv
<1> QED BY <1>1 DEF Same, OwnedIdx, NLocks, LockAt, At, Committing, Releasing

\* An entry of a lock array in use names a lock.
LEMMA OwnedType ==
    ASSUME TypeInv, NEW p \in Thread, NEW j \in OwnedIdx(p)
    PROVE  j \in 1 .. NLocks(p) /\ LockAt(p, j) \in Lock
  BY NodeType DEF TypeInv, TypeOK, OwnedIdx

\* A step that takes and releases nothing.
LEMMA KeepLocks ==
    ASSUME TypeInv, LockInv, NEW p \in Thread, Step(p), mutex' = mutex,
           OwnedIdx(p)' = OwnedIdx(p),
           \A j \in OwnedIdx(p) : LockAt(p, j)' = LockAt(p, j),
           \A j \in OwnedIdx(p) :
              \/ pc'[p] \in {"setHolder", "relMutex"} /\ j = k'[p]
              \/ holder'[LockAt(p, j)] = id'[p],
           \A q \in Thread \ {p} : \A j \in OwnedIdx(q) :
              holder'[LockAt(q, j)] = holder[LockAt(q, j)]
    PROVE  LockInv'
<1>1. \A q \in Thread : OwnedIdx(q)' = OwnedIdx(q)
                     /\ \A j \in OwnedIdx(q) : LockAt(q, j)' = LockAt(q, j)
  BY OthersOwn
<1>2. OwnersDisjoint'
  BY <1>1 DEF LockInv, OwnersDisjoint
<1>3. OwnedIsTaken'
  BY <1>1 DEF LockInv, OwnedIsTaken
<1>4. TakenIsOwned'
  BY <1>1 DEF LockInv, TakenIsOwned
<1>5. HolderIsOwner'
  <2> SUFFICES ASSUME NEW q \in Thread, NEW i \in OwnedIdx(q)
               PROVE  \/ pc'[q] \in {"setHolder", "relMutex"} /\ i = k'[q]
                      \/ holder'[LockAt(q, i)] = id'[q]
    BY <1>1 DEF HolderIsOwner
  <2>1. CASE q = p
    BY <2>1
  <2>2. CASE q # p
    BY <2>2, OthersOwn DEF LockInv, HolderIsOwner
  <2> QED BY <2>1, <2>2
<1> QED BY <1>2, <1>3, <1>4, <1>5 DEF LockInv

LEMMA LockStep == ASSUME TypeInv, LockInv, NEW p \in Thread, Step(p) PROVE LockInv'
<1> USE DEF Goto, At, Releasing, Committing
<1>a. TxType /\ EndType /\ RegionType /\ IndexAt(p)
  BY DEF TypeInv, TypeOK
<1>b. /\ k[p] \in Nat /\ n[p] \in Nat /\ NLocks(p) \in Nat /\ Len(readSet[p]) \in Nat
  BY <1>a, ListLengths DEF EndType
<1>h. \A j \in OwnedIdx(p) : \/ pc[p] \in {"setHolder", "relMutex"} /\ j = k[p]
                             \/ holder[LockAt(p, j)] = id[p]
  BY DEF LockInv, HolderIsOwner
<1>1. CASE OutsideStep(p)
  <2>1. OwnedIdx(p) = {} /\ OwnedIdx(p)' = {} /\ mutex' = mutex /\ holder' = holder
    BY <1>1, <1>b, OutsidePC DEF OwnedIdx, Outside, TypeInv
  <2> QED BY <2>1, KeepLocks
\* The steps of tm_end that touch neither field of a lock.
<1>2. ASSUME UNCHANGED <<mutex, holder, tx>>, OwnedIdx(p)' = OwnedIdx(p),
             pc[p] \notin {"setHolder", "relMutex"}
      PROVE  LockInv'
  <2>1. \A j : LockAt(p, j)' = LockAt(p, j)
    BY <1>2 DEF LockAt, tx
  <2>2. id'[p] = id[p]
    BY <1>2 DEF tx
  <2> QED BY <1>2, <1>h, <2>1, <2>2, KeepLocks
<1>3. ASSUME StartRelease(p, ok'[p]), UNCHANGED <<mutex, holder, tx>>,
             pc[p] \in {"valVer", "valLock", "wbVer"}
      PROVE  LockInv'
  <2>1. pc'[p] = "release" /\ k'[p] = 1 /\ n'[p] = NLocks(p) /\ NLocks(p)' = NLocks(p)
    BY <1>3, <1>a DEF StartRelease, TxType, EndType, tx, NLocks
  <2>2. OwnedIdx(p)' = OwnedIdx(p)
    BY <1>3, <2>1, <1>b DEF OwnedIdx
  <2> QED BY <1>2, <1>3, <2>2
<1>4. CASE Acquire(p)
  <2> DEFINE l == LockAt(p, k[p])
  <2>0. /\ NLocks(p)' = NLocks(p) /\ k[p] >= 1 /\ k[p] <= NLocks(p) /\ UNCHANGED <<holder, tx>>
        /\ pc[p] = "acquire"
    BY <1>4, <1>a, <1>b DEF Acquire, NLocks, tx, IndexAt
  <2>1. CASE mutex[l]
    <3>1. /\ pc'[p] = "release" /\ k'[p] = 1 /\ n'[p] = k[p] - 1 /\ mutex' = mutex
      BY <1>4, <1>a, <2>1 DEF Acquire, UndoCount, TxType, EndType
    <3>2. OwnedIdx(p)' = OwnedIdx(p)
      BY <2>0, <3>1, <1>b DEF OwnedIdx
    <3> QED BY <2>0, <3>1, <3>2, <1>2
  <2>2. CASE ~ mutex[l]
    <3>1. /\ pc'[p] = "setHolder" /\ k'[p] = k[p] /\ mutex' = [mutex EXCEPT ![l] = TRUE]
      BY <1>4, <1>a, <2>2 DEF Acquire, TxType, EndType
    <3>2. OwnedIdx(p)' = OwnedIdx(p) \cup {k[p]} /\ k[p] \notin OwnedIdx(p)
      BY <2>0, <3>1, <1>b DEF OwnedIdx
    <3>3. l \in Lock
      BY <1>a, <1>b, <2>0, NodeType
    <3>4. \A q \in Thread : \A j : LockAt(q, j)' = LockAt(q, j)
      BY <2>0 DEF LockAt, tx
    <3>5. \A q \in Thread \ {p} : OwnedIdx(q)' = OwnedIdx(q)
      BY OthersOwn
    <3>6. \A q \in Thread : \A j \in OwnedIdx(q) : LockAt(q, j) # l /\ mutex[LockAt(q, j)]
      BY <2>2 DEF LockInv, OwnedIsTaken
    <3>7. OwnersDisjoint'
      <4> SUFFICES ASSUME NEW q1 \in Thread, NEW q2 \in Thread, NEW i \in OwnedIdx(q1)',
                          NEW j \in OwnedIdx(q2)', LockAt(q1, i) = LockAt(q2, j)
                   PROVE  q1 = q2 /\ i = j
        BY <3>4 DEF OwnersDisjoint
      <4>1. i \in OwnedIdx(q1) \/ (q1 = p /\ i = k[p])
        BY <3>2, <3>5
      <4>2. j \in OwnedIdx(q2) \/ (q2 = p /\ j = k[p])
        BY <3>2, <3>5
      <4> QED BY <4>1, <4>2, <3>6 DEF LockInv, OwnersDisjoint
    <3>8. OwnedIsTaken'
      <4> SUFFICES ASSUME NEW q \in Thread, NEW i \in OwnedIdx(q)' PROVE mutex'[LockAt(q, i)]
        BY <3>4 DEF OwnedIsTaken
      <4>1. i \in OwnedIdx(q) \/ (q = p /\ i = k[p])
        BY <3>2, <3>5
      <4>2. CASE i \in OwnedIdx(q)
        BY <4>2, <3>6, <3>1, <1>a DEF RegionType
      <4>3. CASE q = p /\ i = k[p]
        BY <4>3, <3>1, <3>3, <1>a DEF RegionType
      <4> QED BY <4>1, <4>2, <4>3
    <3>9. TakenIsOwned'
      <4> SUFFICES ASSUME NEW m \in Lock, mutex'[m]
                   PROVE  \E q \in Thread : \E i \in OwnedIdx(q)' : LockAt(q, i) = m
        BY <3>4 DEF TakenIsOwned
      <4>1. CASE m = l
        BY <4>1, <3>2
      <4>2. CASE m # l
        <5>1. mutex[m]
          BY <4>2, <3>1, <1>a DEF RegionType
        <5>2. PICK q \in Thread : \E i \in OwnedIdx(q) : LockAt(q, i) = m
          BY <5>1 DEF LockInv, TakenIsOwned
        <5> QED BY <5>2, <3>2, <3>5
      <4> QED BY <4>1, <4>2
    <3>10. HolderIsOwner'
      <4> SUFFICES ASSUME NEW q \in Thread, NEW i \in OwnedIdx(q)'
                   PROVE  \/ pc'[q] \in {"setHolder", "relMutex"} /\ i = k'[q]
                          \/ holder'[LockAt(q, i)] = id'[q]
        BY <3>4 DEF HolderIsOwner
      <4>1. id' = id /\ holder' = holder
        BY <2>0 DEF tx
      <4>2. CASE q = p /\ i = k[p]
        BY <4>2, <3>1
      <4>3. CASE ~ (q = p /\ i = k[p])
        <5>1. i \in OwnedIdx(q)
          BY <4>3, <3>2, <3>5
        <5> QED BY <5>1, <4>1, <2>0, OthersOwn DEF LockInv, HolderIsOwner
      <4> QED BY <4>2, <4>3
    <3> QED BY <3>7, <3>8, <3>9, <3>10 DEF LockInv
  <2> QED BY <2>1, <2>2
<1>5. CASE SetHolder(p)
  <2> DEFINE l == LockAt(p, k[p])
  <2>1. /\ pc[p] = "setHolder" /\ pc'[p] = "acquire" /\ k'[p] = k[p] + 1 /\ k[p] \in 1 .. NLocks(p)
        /\ NLocks(p)' = NLocks(p) /\ mutex' = mutex /\ UNCHANGED tx
    BY <1>5, <1>a, <1>b DEF SetHolder, NLocks, tx, TxType, EndType, IndexAt
  <2>2. l \in Lock /\ holder' = [holder EXCEPT ![l] = id[p]] /\ holder \in [Lock -> Nat]
    BY <1>5, <1>a, <2>1, NodeType DEF SetHolder, RegionType
  <2>3. OwnedIdx(p)' = OwnedIdx(p) /\ k[p] \in OwnedIdx(p)
    BY <2>1, <1>b DEF OwnedIdx
  <2>4. \A q \in Thread : \A j : LockAt(q, j)' = LockAt(q, j)
    BY <2>1 DEF LockAt, tx
  <2>5. \A j \in OwnedIdx(p) : holder'[LockAt(p, j)] = id'[p]
    <3> SUFFICES ASSUME NEW j \in OwnedIdx(p) PROVE holder'[LockAt(p, j)] = id'[p]
      OBVIOUS
    <3>1. id'[p] = id[p]
      BY <2>1 DEF tx
    <3>2. LockAt(p, j) \in Lock
      BY OwnedType
    <3>3. CASE LockAt(p, j) = l
      BY <3>1, <3>3, <2>2
    <3>4. CASE LockAt(p, j) # l
      BY <3>1, <3>2, <3>4, <2>2, <1>h
    <3> QED BY <3>3, <3>4
  <2>6. \A q \in Thread \ {p} : \A j \in OwnedIdx(q) : holder'[LockAt(q, j)] = holder[LockAt(q, j)]
    BY <2>2, <2>3, OwnedType DEF LockInv, OwnersDisjoint
  <2> QED BY <2>1, <2>3, <2>4, <2>5, <2>6, KeepLocks
<1>6. CASE Stamp(p)
  <2>1. /\ pc[p] = "acquire" /\ pc'[p] \in {"valVer", "wbVer"} /\ k[p] > NLocks(p)
        /\ NLocks(p)' = NLocks(p) /\ UNCHANGED <<mutex, holder, tx>>
    BY <1>6, <1>a DEF Stamp, NLocks, locks, tx, TxType
  <2>2. OwnedIdx(p)' = OwnedIdx(p)
    BY <2>1, <1>b DEF OwnedIdx
  <2> QED BY <2>1, <2>2, <1>2
<1>7. CASE ValidateVer(p)
  <2>1. pc[p] = "valVer" /\ UNCHANGED <<mutex, holder, tx>>
    BY <1>7 DEF ValidateVer, locks
  <2>2. CASE StartRelease(p, FALSE)
    BY <2>1, <2>2, <1>3, <1>a DEF StartRelease, EndType
  <2>3. CASE Goto(p, "valLock")
    <3>1. OwnedIdx(p)' = OwnedIdx(p)
      BY <2>1, <2>3, <1>a DEF OwnedIdx, NLocks, tx, TxType
    <3> QED BY <2>1, <3>1, <1>2
  <2> QED BY <1>7, <2>2, <2>3 DEF ValidateVer
<1>8. CASE ValidateLock(p)
  <2>1. pc[p] = "valLock" /\ UNCHANGED <<mutex, holder, tx>>
    BY <1>8 DEF ValidateLock, locks
  <2>2. CASE StartRelease(p, FALSE)
    BY <2>1, <2>2, <1>3, <1>a DEF StartRelease, EndType
  <2>3. CASE Goto(p, "valVer")
    <3>1. OwnedIdx(p)' = OwnedIdx(p)
      BY <2>1, <2>3, <1>a DEF OwnedIdx, NLocks, tx, TxType
    <3> QED BY <2>1, <3>1, <1>2
  <2> QED BY <1>8, <2>2, <2>3 DEF ValidateLock
<1>9. CASE Validated(p) \/ WriteBackVer(p) \/ WriteBackCopy(p)
  <2>1. /\ pc[p] \in {"valVer", "wbVer", "wbCopy"} /\ pc'[p] \in {"wbVer", "wbCopy"}
        /\ UNCHANGED <<mutex, holder, tx>>
    BY <1>9, <1>a DEF Validated, WriteBackVer, WriteBackCopy, locks, TxType
  <2>2. OwnedIdx(p)' = OwnedIdx(p)
    BY <2>1 DEF OwnedIdx, NLocks, tx
  <2> QED BY <2>1, <2>2, <1>2
<1>10. CASE WrittenBack(p)
  <2>1. pc[p] = "wbVer" /\ UNCHANGED <<mutex, holder, tx>> /\ StartRelease(p, TRUE)
    BY <1>10 DEF WrittenBack, locks
  <2> QED BY <2>1, <1>3, <1>a DEF StartRelease, EndType
\* The holder test passes: the thread owns the k-th lock.
<1>11. CASE ReleaseTest(p)
  <2>1. pc[p] = "release" /\ k[p] \in 1 .. NLocks(p) /\ k[p] <= n[p]
        /\ UNCHANGED <<mutex, holder, tx, n>>
    BY <1>11, <1>a, <1>b DEF ReleaseTest, locks, IndexAt
  <2>2. k[p] \in OwnedIdx(p)
    BY <2>1, <1>b DEF OwnedIdx
  <2>3. pc'[p] = "relHolder" /\ k'[p] = k[p]
    BY <1>11, <2>1, <2>2, <1>h, <1>a DEF ReleaseTest, TxType
  <2>4. OwnedIdx(p)' = OwnedIdx(p)
    BY <2>1, <2>3 DEF OwnedIdx, NLocks, tx
  <2> QED BY <2>1, <2>4, <1>2
<1>12. CASE ReleaseHolder(p)
  <2> DEFINE l == LockAt(p, k[p])
  <2>1. /\ pc[p] = "relHolder" /\ pc'[p] = "relMutex" /\ k'[p] = k[p] /\ k[p] \in 1 .. NLocks(p)
        /\ k[p] <= n[p] /\ UNCHANGED <<mutex, tx, n>>
    BY <1>12, <1>a, <1>b DEF ReleaseHolder, endVars, TxType, IndexAt
  <2>2. l \in Lock /\ holder' = [holder EXCEPT ![l] = 0] /\ holder \in [Lock -> Nat]
    BY <1>12, <1>a, <2>1, NodeType DEF ReleaseHolder, RegionType
  <2>3. OwnedIdx(p)' = OwnedIdx(p) /\ k[p] \in OwnedIdx(p)
    BY <2>1, <1>b DEF OwnedIdx, NLocks, tx
  <2>4. \A q \in Thread : \A j : LockAt(q, j)' = LockAt(q, j)
    BY <2>1 DEF LockAt, tx
  <2>5. \A j \in OwnedIdx(p) : j = k[p] \/ holder'[LockAt(p, j)] = id'[p]
    <3> SUFFICES ASSUME NEW j \in OwnedIdx(p), j # k[p] PROVE holder'[LockAt(p, j)] = id'[p]
      OBVIOUS
    <3>1. id'[p] = id[p]
      BY <2>1 DEF tx
    <3>2. LockAt(p, j) \in Lock /\ LockAt(p, j) # l
      BY OwnedType, <2>3 DEF LockInv, OwnersDisjoint
    <3> QED BY <3>1, <3>2, <2>2, <2>1, <1>h
  <2>6. \A q \in Thread \ {p} : \A j \in OwnedIdx(q) : holder'[LockAt(q, j)] = holder[LockAt(q, j)]
    BY <2>2, <2>3, OwnedType DEF LockInv, OwnersDisjoint
  <2> QED BY <2>1, <2>3, <2>4, <2>5, <2>6, KeepLocks
<1>13. CASE ReleaseMutex(p)
  <2> DEFINE l == LockAt(p, k[p])
  <2>1. /\ pc[p] = "relMutex" /\ pc'[p] = "release" /\ k'[p] = k[p] + 1 /\ k[p] \in 1 .. NLocks(p)
        /\ k[p] <= n[p] /\ UNCHANGED <<holder, tx, n>>
    BY <1>13, <1>a, <1>b DEF ReleaseMutex, TxType, EndType, IndexAt
  <2>2. l \in Lock /\ mutex' = [mutex EXCEPT ![l] = FALSE] /\ mutex \in [Lock -> BOOLEAN]
    BY <1>13, <1>a, <2>1, NodeType DEF ReleaseMutex, RegionType
  <2>3. OwnedIdx(p)' = OwnedIdx(p) \ {k[p]} /\ k[p] \in OwnedIdx(p)
    BY <2>1, <1>b DEF OwnedIdx, NLocks, tx
  <2>4. \A q \in Thread : \A j : LockAt(q, j)' = LockAt(q, j)
    BY <2>1 DEF LockAt, tx
  <2>5. \A q \in Thread \ {p} : OwnedIdx(q)' = OwnedIdx(q)
    BY OthersOwn
  <2>6. \A q \in Thread : \A i \in OwnedIdx(q)' : i \in OwnedIdx(q) /\ LockAt(q, i) # l
    BY <2>3, <2>5 DEF LockInv, OwnersDisjoint
  <2>7. OwnersDisjoint'
    BY <2>4, <2>6 DEF LockInv, OwnersDisjoint
  <2>8. OwnedIsTaken'
    BY <2>2, <2>4, <2>6, OwnedType DEF LockInv, OwnedIsTaken
  <2>9. TakenIsOwned'
    <3> SUFFICES ASSUME NEW m \in Lock, mutex'[m]
                 PROVE  \E q \in Thread : \E i \in OwnedIdx(q)' : LockAt(q, i) = m
      BY <2>4 DEF TakenIsOwned
    <3>1. m # l /\ mutex[m]
      BY <2>2
    <3>2. PICK q \in Thread : \E i \in OwnedIdx(q) : LockAt(q, i) = m
      BY <3>1 DEF LockInv, TakenIsOwned
    <3>3. PICK i \in OwnedIdx(q) : LockAt(q, i) = m
      BY <3>2
    <3>4. i \in OwnedIdx(q)'
      BY <3>1, <3>3, <2>3, <2>5
    <3> QED BY <3>3, <3>4
  <2>10. HolderIsOwner'
    <3> SUFFICES ASSUME NEW q \in Thread, NEW i \in OwnedIdx(q)'
                 PROVE  \/ pc'[q] \in {"setHolder", "relMutex"} /\ i = k'[q]
                        \/ holder'[LockAt(q, i)] = id'[q]
      BY <2>4 DEF HolderIsOwner
    <3>1. holder' = holder /\ id'[q] = id[q]
      BY <2>1 DEF tx
    <3>2. CASE q = p
      BY <3>1, <3>2, <2>3, <1>h
    <3>3. CASE q # p
      BY <3>1, <3>3, <2>6, OthersOwn DEF LockInv, HolderIsOwner
    <3> QED BY <3>2, <3>3
  <2> QED BY <2>7, <2>8, <2>9, <2>10 DEF LockInv
<1> QED
  BY <1>1, <1>4, <1>5, <1>6, <1>7, <1>8, <1>9, <1>10, <1>11, <1>12, <1>13
     DEF Step, InCall, OutsideStep

LEMMA LockInit == Init => LockInv
  BY DEF Init, LockInv, OwnersDisjoint, OwnedIsTaken, TakenIsOwned, HolderIsOwner, OwnedIdx, At,
         Committing, Releasing

LEMMA LockStutter == LockInv /\ UNCHANGED vars => LockInv'
  BY DEF LockInv, OwnersDisjoint, OwnedIsTaken, TakenIsOwned, HolderIsOwner, OwnedIdx, LockAt,
         NLocks, At, Committing, Releasing, vars, locks, tx, endVars

LEMMA LockNext == TypeInv /\ LockInv /\ [Next]_vars => LockInv'
  BY LockStep, LockStutter DEF Next, Step

\* Two commits never own the same lock, and a lock is taken exactly while a
\* commit that owns it runs: for any number of threads, words and locks.
THEOREM LocksAreExclusive == Spec => []LocksExclusive
<1>1. LockInv => LocksExclusive
  BY DEF LockInv, OwnersDisjoint, OwnedIsTaken, TakenIsOwned, LocksExclusive, Owned
<1> QED
  BY <1>1, TypeInvInit, TypeInvNext, LockInit, LockNext, PTL DEF Spec
-----------------------------------------------------------------------------
-----------------------------------------------------------------------------
(* Facts about versions.                                                    *)

LEMMA ValueAtLater ==
    ASSUME NEW w, NEW v, NEW s \in Nat, NEW t \in Nat, hist[w] \subseteq Stored, s <= t,
           ValueAt(w, s, v), \A r \in hist[w] : r.ver <= s
    PROVE  ValueAt(w, t, v)
  BY DEF ValueAt, Stored

LEMMA ValueAtInstall ==
    ASSUME NEW w, NEW v, NEW t \in Nat, NEW x \in Stored, hist[w] \subseteq Stored,
           hist'[w] = hist[w] \cup {x}, t < x.ver, ValueAt(w, t, v)
    PROVE  ValueAt(w, t, v)'
  BY DEF ValueAt, Stored

LEMMA ValueAtKeep ==
    ASSUME NEW w, NEW v, NEW t, hist'[w] = hist[w], ValueAt(w, t, v) PROVE ValueAt(w, t, v)'
  BY DEF ValueAt

\* A step of p changes nothing that is said about the commit of another thread.
LEMMA OthersCommit ==
    ASSUME TypeInv, NEW p \in Thread, NEW q \in Thread, p # q, Step(p)
    PROVE  /\ Committing(q)' = Committing(q) /\ newVersion'[q] = newVersion[q]
           /\ rv'[q] = rv[q] /\ readSet'[q] = readSet[q] /\ writeSet'[q] = writeSet[q]
           /\ pc'[q] = pc[q] /\ k'[q] = k[q] /\ NLocks(q)' = NLocks(q)
           /\ \A j : LockAt(q, j)' = LockAt(q, j) /\ Reached(q, j)' = Reached(q, j)
           /\ \A w : Copying(q, w)' = Copying(q, w) /\ WritesWord(q, w)' = WritesWord(q, w)
<1>1. Same(q)
  BY OthersSame DEF TypeInv
<1> QED BY <1>1 DEF Same, NLocks, LockAt, At, Committing, Reached, Copying, WritesWord

\* The locks of commits under way are distinct.
LEMMA CommitLocks ==
    ASSUME LockInv, NEW p \in Thread, NEW q \in Thread, Committing(p), Committing(q),
           NEW i \in 1 .. NLocks(p), NEW j \in 1 .. NLocks(q), LockAt(p, i) = LockAt(q, j)
    PROVE  p = q /\ i = j
<1>1. i \in OwnedIdx(p) /\ j \in OwnedIdx(q)
  BY DEF OwnedIdx
<1> QED BY <1>1 DEF LockInv, OwnersDisjoint

LEMMA CommitWords ==
    ASSUME LockInv, NEW p \in Thread, NEW q \in Thread, Committing(p), Committing(q),
           NEW w, WritesWord(p, w), WritesWord(q, w)
    PROVE  p = q
<1>1. PICK i \in 1 .. NLocks(p) : writeSet[p][i].word = w
  BY DEF WritesWord
<1>2. PICK j \in 1 .. NLocks(q) : writeSet[q][j].word = w
  BY DEF WritesWord
<1> QED BY <1>1, <1>2, CommitLocks DEF LockAt

LEMMA VersionInit == Init => VersionInv
<1> SUFFICES ASSUME Init PROVE VersionInv
  OBVIOUS
<1> USE DEF Init, Committing, At
<1>1. ClockInv /\ StampInv /\ ValidInv /\ CommitInv /\ DistinctStamps
  BY DEF ClockInv, StampInv, ValidInv, CommitInv, DistinctStamps
<1>2. HistInv
  <2> SUFFICES ASSUME NEW w \in Word
               PROVE  /\ \A r \in hist[w] : r.ver <= version[LockOf(w)]
                      /\ \A p \in Thread : ~ Copying(p, w)
                      /\ ValueAt(w, version[LockOf(w)], mem[w])
    BY DEF HistInv
  <2>1. version[LockOf(w)] = 0 /\ mem[w] = Zero
    BY LockOfWord
  <2>2. hist[w] = {[ver |-> 0, val |-> Zero]}
    OBVIOUS
  <2>3. \A r \in hist[w] : r.ver <= version[LockOf(w)]
    BY <2>1, <2>2
  <2>4. \A p \in Thread : ~ Copying(p, w)
    BY DEF Copying
  <2>5. ValueAt(w, 0, Zero)
    <3> DEFINE r0 == [ver |-> 0, val |-> Zero]
    <3>1. r0 \in hist[w] /\ r0.val = Zero /\ r0.ver = 0
      BY <2>2
    <3>2. \A q \in hist[w] : q.ver = 0
      BY <2>2
    <3> HIDE DEF r0
    <3> QED BY <3>1, <3>2 DEF ValueAt
  <2> QED BY <2>1, <2>3, <2>4, <2>5
<1>3. OneWritePerVersion /\ NoLostUpdate
  BY DEF OneWritePerVersion, NoLostUpdate
<1> QED BY <1>1, <1>2, <1>3 DEF VersionInv

\* A step that leaves no commit of p under way and touches no version.
LEMMA QuietVersion ==
    ASSUME TypeInv, VersionInv, NEW p \in Thread, Step(p),
           UNCHANGED <<globalVersion, version, mem, hist, commits>>,
           ~ Committing(p)', ~ At(p, "wbCopy"), rv'[p] \in {rv[p], globalVersion, 0}
    PROVE  VersionInv'
<1>a. RegionType /\ TxType
  BY DEF TypeInv, TypeOK
<1>b. globalVersion \in Nat
  BY <1>a DEF RegionType
<1>1. \A q \in Thread : Committing(q)' =>
         /\ q # p /\ Committing(q) /\ newVersion'[q] = newVersion[q] /\ rv'[q] = rv[q]
         /\ readSet'[q] = readSet[q] /\ pc'[q] = pc[q] /\ k'[q] = k[q] /\ NLocks(q)' = NLocks(q)
         /\ \A j : LockAt(q, j)' = LockAt(q, j) /\ Reached(q, j)' = Reached(q, j)
         /\ \A w : WritesWord(q, w)' = WritesWord(q, w)
  BY OthersCommit
<1>2. \A q \in Thread : \A w : Copying(q, w)' = Copying(q, w)
  BY OthersCommit DEF Copying, Committing, At
<1>3. ClockInv'
  <2>1. \A q \in Thread : rv'[q] <= globalVersion'
    BY <1>b, OthersCommit DEF VersionInv, ClockInv
  <2> QED BY <2>1, <1>1 DEF VersionInv, ClockInv
<1>4. StampInv'
  BY <1>1 DEF VersionInv, StampInv
<1>5. HistInv'
  <2> SUFFICES ASSUME NEW w \in Word
               PROVE  /\ \A r \in hist[w] : r.ver <= version[LockOf(w)]
                      /\ \A q \in Thread : Copying(q, w)' =>
                            [ver |-> newVersion'[q], val |-> writeSet'[q][k'[q]].val] \in hist[w]
                      /\ (\A q \in Thread : ~ Copying(q, w)') =>
                            ValueAt(w, version[LockOf(w)], mem[w])'
    BY DEF HistInv
  <2>1. \A q \in Thread : Copying(q, w)' => q # p
    BY <1>2 DEF Copying
  <2>2. (\A q \in Thread : ~ Copying(q, w)') => ValueAt(w, version[LockOf(w)], mem[w])'
    BY <1>2, ValueAtKeep DEF VersionInv, HistInv, ValueAt
  <2> QED BY <2>1, <2>2, <1>2, OthersCommit DEF VersionInv, HistInv
<1>6. ValidInv'
  BY <1>1 DEF VersionInv, ValidInv, Clean, At
<1>7. CommitInv' /\ DistinctStamps'
  BY <1>1 DEF VersionInv, CommitInv, DistinctStamps
<1>8. OneWritePerVersion' /\ NoLostUpdate'
  BY DEF VersionInv, OneWritePerVersion, NoLostUpdate
<1> QED BY <1>3, <1>4, <1>5, <1>6, <1>7, <1>8 DEF VersionInv

\* The version a thread reads at changes in tm_begin and when its sets are freed.
LEMMA OutsideRv ==
    ASSUME TypeOK, NEW p \in Thread, OutsideStep(p)
    PROVE  rv'[p] \in {rv[p], globalVersion, 0}
<1> USE DEF Goto, tx
<1>a. rv \in [Thread -> Nat]
  BY DEF TypeOK, TxType
<1>1. ASSUME NEW ro \in BOOLEAN, BeginVersion(p, ro) PROVE rv'[p] \in {rv[p], globalVersion, 0}
  BY <1>1, <1>a DEF BeginVersion
<1>2. ASSUME NEW here, NEW passed, NEW next, ReadTest(p, here, passed, next)
      PROVE  rv'[p] \in {rv[p], globalVersion, 0}
  BY <1>2, <1>a DEF ReadTest, ClearSets
<1>3. CASE EndReadOnly(p) \/ EndReturn(p)
  BY <1>3, <1>a DEF EndReadOnly, EndReturn, ClearSets
<1>4. CASE ReadMax2(p)
  BY <1>4, <1>a DEF ReadMax2, addReadSet, ClearSets
<1> QED
  BY <1>1, <1>2, <1>3, <1>4
     DEF OutsideStep, Call, ReadSample, Write, addWriteSet, GetLocks, BeginId, ReadVer, ReadLock, ReadMax,
         ReadCopy, ReadVer2, ReadLock2

\* A step of p inside the commit that writes neither a version nor a word: the
\* part of the read set it has validated may grow.
LEMMA CommitKeeps ==
    ASSUME TypeInv, VersionInv, NEW p \in Thread, Step(p), Committing(p), Committing(p)',
           UNCHANGED <<globalVersion, version, mem, hist, commits, newVersion, rv, readSet, writeSet>>,
           ~ At(p, "wbCopy"), ~ At(p, "wbCopy")',
           \A j \in 1 .. NLocks(p) : Reached(p, j)' = Reached(p, j),
           \A i \in 1 .. Len(readSet[p]) :
              /\ WritesWord(p, readSet[p][i])
              /\ \/ At(p, "valVer")' /\ i < k'[p]
                 \/ At(p, "valLock")' /\ i <= k'[p]
                 \/ pc'[p] \in {"wbVer", "wbCopy"}
              => Clean(p, readSet[p][i])
    PROVE  VersionInv'
<1>1. ASSUME NEW q \in Thread PROVE Committing(q)' = Committing(q)
  <2>1. CASE q = p
    BY <2>1 DEF Committing
  <2>2. CASE q # p
    BY <2>2, OthersCommit
  <2> QED BY <2>1, <2>2
<1>2. \A q \in Thread : /\ NLocks(q)' = NLocks(q) /\ \A j : LockAt(q, j)' = LockAt(q, j)
                        /\ \A w : WritesWord(q, w)' = WritesWord(q, w)
                        /\ \A w : Clean(q, w)' = Clean(q, w)
  BY DEF NLocks, LockAt, WritesWord, Clean
<1>3. \A q \in Thread : \A j \in 1 .. NLocks(q) : Reached(q, j)' = Reached(q, j)
  BY OthersCommit
<1>4. \A q \in Thread : \A w : Copying(q, w)' = Copying(q, w)
  BY OthersCommit DEF Copying
<1>5. ClockInv'
  BY <1>1 DEF VersionInv, ClockInv
<1>6. StampInv'
  BY <1>1, <1>2, <1>3 DEF VersionInv, StampInv
<1>7. HistInv'
  <2> SUFFICES ASSUME NEW w \in Word
               PROVE  /\ \A r \in hist[w] : r.ver <= version[LockOf(w)]
                      /\ \A q \in Thread : Copying(q, w)' =>
                            [ver |-> newVersion[q], val |-> writeSet[q][k'[q]].val] \in hist[w]
                      /\ (\A q \in Thread : ~ Copying(q, w)') =>
                            ValueAt(w, version[LockOf(w)], mem[w])'
    BY DEF HistInv
  <2>1. \A q \in Thread : Copying(q, w)' => q # p
    BY DEF Copying
  <2>2. (\A q \in Thread : ~ Copying(q, w)') => ValueAt(w, version[LockOf(w)], mem[w])'
    BY <1>4 DEF VersionInv, HistInv, ValueAt
  <2> QED BY <2>1, <2>2, <1>4, OthersCommit DEF VersionInv, HistInv
<1>8. ValidInv'
  <2> SUFFICES ASSUME NEW q \in Thread, Committing(q)', NEW i \in 1 .. Len(readSet[q]),
                      WritesWord(q, readSet[q][i]),
                      \/ At(q, "valVer")' /\ i < k'[q]
                      \/ At(q, "valLock")' /\ i <= k'[q]
                      \/ pc'[q] \in {"wbVer", "wbCopy"}
               PROVE  Clean(q, readSet[q][i])
    BY <1>2 DEF ValidInv
  <2>1. CASE q = p
    BY <2>1
  <2>2. CASE q # p
    BY <2>2, <1>1, OthersCommit DEF VersionInv, ValidInv, At
  <2> QED BY <2>1, <2>2
<1>9. CommitInv' /\ DistinctStamps'
  BY <1>1 DEF VersionInv, CommitInv, DistinctStamps
<1>10. OneWritePerVersion' /\ NoLostUpdate'
  BY DEF VersionInv, OneWritePerVersion, NoLostUpdate
<1> QED BY <1>5, <1>6, <1>7, <1>8, <1>9, <1>10 DEF VersionInv

\* A version is drawn: it is greater than every version there is.
LEMMA StampVersion ==
    ASSUME TypeInv, LockInv, VersionInv, NEW p \in Thread, Step(p), Stamp(p) PROVE VersionInv'
<1> USE DEF Goto, At, tx, locks
<1>a. TxType /\ EndType /\ RegionType /\ HistType
  BY DEF TypeInv, TypeOK
<1>b. /\ globalVersion \in Nat /\ rv[p] \in Nat /\ k[p] \in Nat /\ NLocks(p) \in Nat
      /\ \A l \in Lock : version[l] \in Nat
      /\ \A q \in Thread : newVersion[q] \in Nat /\ rv[q] \in Nat
  BY <1>a, ListLengths DEF EndType, TxType, RegionType
<1>1. /\ pc[p] = "acquire" /\ pc'[p] = IF MustValidate(p) THEN "valVer" ELSE "wbVer"
      /\ globalVersion' = globalVersion + 1 /\ newVersion'[p] = globalVersion + 1 /\ k'[p] = 1
      /\ UNCHANGED <<version, mutex, holder, mem, rv, readSet, writeSet, hist, commits>>
  BY <1>a DEF Stamp, DrawnVersion, TxType, EndType
<1>2. ~ Committing(p) /\ Committing(p)' /\ ~ At(p, "wbCopy") /\ ~ At(p, "wbCopy")'
  BY <1>1 DEF Committing
<1>3. \A q \in Thread : /\ NLocks(q)' = NLocks(q) /\ \A j : LockAt(q, j)' = LockAt(q, j)
                        /\ \A w : WritesWord(q, w)' = WritesWord(q, w)
  BY <1>1 DEF NLocks, LockAt, WritesWord
<1>4. \A q \in Thread \ {p} : Committing(q)' => Committing(q) /\ newVersion'[q] = newVersion[q]
                                             /\ newVersion[q] <= globalVersion
  BY OthersCommit DEF VersionInv, ClockInv
<1>5. \A q \in Thread : \A w : Copying(q, w)' = Copying(q, w)
  BY <1>2, OthersCommit DEF Copying
<1>6. ClockInv'
  <2>1. /\ \A l \in Lock : version[l] <= globalVersion + 1
        /\ \A q \in Thread : rv[q] <= globalVersion + 1
    BY <1>b DEF VersionInv, ClockInv
  <2>2. ASSUME NEW q \in Thread, Committing(q)'
        PROVE  rv[q] < newVersion'[q] /\ newVersion'[q] <= globalVersion + 1
    BY <2>2, <1>b, <1>1, <1>4 DEF VersionInv, ClockInv
  <2> QED BY <2>1, <2>2, <1>1 DEF ClockInv
<1>7. StampInv'
  <2> SUFFICES ASSUME NEW q \in Thread, Committing(q)', NEW j \in 1 .. NLocks(q)
               PROVE  IF Reached(q, j)' THEN version[LockAt(q, j)] = newVersion'[q]
                                        ELSE version[LockAt(q, j)] < newVersion'[q]
    BY <1>1, <1>3 DEF StampInv
  <2>1. CASE q = p
    <3>1. ~ Reached(p, j)'
      BY <2>1, <1>1, <1>2 DEF Reached
    <3>2. LockAt(p, j) \in Lock
      BY <2>1, <1>a, NodeType
    <3> QED BY <2>1, <3>1, <3>2, <1>1, <1>b DEF VersionInv, ClockInv
  <2>2. CASE q # p
    BY <2>2, <1>4, OthersCommit DEF VersionInv, StampInv
  <2> QED BY <2>1, <2>2
<1>8. HistInv'
  <2> SUFFICES ASSUME NEW w \in Word
               PROVE  /\ \A r \in hist[w] : r.ver <= version[LockOf(w)]
                      /\ \A q \in Thread : Copying(q, w)' =>
                            [ver |-> newVersion'[q], val |-> writeSet[q][k'[q]].val] \in hist[w]
                      /\ (\A q \in Thread : ~ Copying(q, w)') =>
                            ValueAt(w, version[LockOf(w)], mem[w])'
    BY <1>1 DEF HistInv
  <2>1. \A q \in Thread : Copying(q, w)' => q # p
    BY <1>2 DEF Copying
  <2>2. (\A q \in Thread : ~ Copying(q, w)') => ValueAt(w, version[LockOf(w)], mem[w])'
    BY <1>1, <1>5 DEF VersionInv, HistInv, ValueAt
  <2> QED BY <2>1, <2>2, <1>5, OthersCommit DEF VersionInv, HistInv
<1>9. ValidInv'
  <2> SUFFICES ASSUME NEW q \in Thread, Committing(q)', NEW i \in 1 .. Len(readSet[q]),
                      WritesWord(q, readSet[q][i]),
                      \/ At(q, "valVer")' /\ i < k'[q]
                      \/ At(q, "valLock")' /\ i <= k'[q]
                      \/ pc'[q] \in {"wbVer", "wbCopy"}
               PROVE  Clean(q, readSet[q][i])'
    BY <1>1, <1>3 DEF ValidInv
  <2>1. CASE q = p
    <3>1. rv[p] + 1 = globalVersion + 1
      BY <2>1, <1>1 DEF MustValidate
    <3>2. readSet[p][i] \in Word
      BY <2>1, <1>a, ReadSetType
    <3>3. \A r \in hist[readSet[p][i]] : r.ver \in Nat
      BY <3>2, <1>a DEF HistType, Stored
    <3> QED BY <2>1, <3>1, <3>3, <1>1, <1>b DEF Clean
  <2>2. CASE q # p
    BY <2>2, <1>1, <1>4, OthersCommit DEF VersionInv, ValidInv, Clean
  <2> QED BY <2>1, <2>2
<1>10. CommitInv'
  <2>1. \A c \in commits : c.wv \in Nat
    BY <1>a DEF HistType, Commit
  <2>2. \A c \in commits : \A q \in Thread : Committing(q)' => newVersion'[q] # c.wv
    BY <2>1, <1>b, <1>1, <1>4 DEF VersionInv, CommitInv
  <2> QED BY <2>1, <2>2, <1>1, <1>b DEF VersionInv, CommitInv
<1>11. DistinctStamps'
  BY <1>1, <1>4, <1>b DEF VersionInv, DistinctStamps
<1>12. OneWritePerVersion' /\ NoLostUpdate'
  BY <1>1 DEF VersionInv, OneWritePerVersion, NoLostUpdate
<1> QED BY <1>6, <1>7, <1>8, <1>9, <1>10, <1>11, <1>12 DEF VersionInv

\* The k-th version is written: newer than all of its word, under the lock.
LEMMA WriteBackVersion ==
    ASSUME TypeInv, LockInv, VersionInv, NEW p \in Thread, Step(p), WriteBackVer(p)
    PROVE  VersionInv'
<1> USE DEF Goto, At, tx
<1> DEFINE w0 == writeSet[p][k[p]].word
           l0 == LockOf(w0)
           x0 == [ver |-> newVersion[p], val |-> writeSet[p][k[p]].val]
<1>a. TxType /\ EndType /\ RegionType /\ HistType /\ IndexAt(p)
  BY DEF TypeInv, TypeOK
<1>b. /\ globalVersion \in Nat /\ k[p] \in Nat /\ NLocks(p) \in Nat
      /\ \A l \in Lock : version[l] \in Nat
      /\ \A q \in Thread : newVersion[q] \in Nat /\ rv[q] \in Nat
  BY <1>a, ListLengths DEF EndType, TxType, RegionType
<1>1. /\ pc[p] = "wbVer" /\ pc'[p] = "wbCopy" /\ k[p] \in 1 .. NLocks(p) /\ Committing(p)
      /\ version' = [version EXCEPT ![l0] = newVersion[p]]
      /\ hist' = [hist EXCEPT ![w0] = @ \cup {x0}]
      /\ UNCHANGED <<globalVersion, newVersion, k, mem, rv, readSet, writeSet, commits>>
  BY <1>a, <1>b DEF WriteBackVer, InstalledVersion, TxType, endVars, IndexAt, Committing
<1>2. w0 \in Word /\ l0 \in Lock /\ LockAt(p, k[p]) = l0
  BY <1>1, <1>a, NodeType DEF LockAt
<1>3. /\ \A l \in Lock : version'[l] = IF l = l0 THEN newVersion[p] ELSE version[l]
      /\ \A w \in Word : hist'[w] = IF w = w0 THEN hist[w] \cup {x0} ELSE hist[w]
  BY <1>1, <1>2, <1>a DEF RegionType, HistType
<1>4. \A q \in Thread : /\ NLocks(q)' = NLocks(q) /\ \A j : LockAt(q, j)' = LockAt(q, j)
                        /\ \A w : WritesWord(q, w)' = WritesWord(q, w)
  BY <1>1 DEF NLocks, LockAt, WritesWord
<1>5. ASSUME NEW q \in Thread PROVE Committing(q)' = Committing(q)
  <2>1. CASE q = p
    BY <2>1, <1>1 DEF Committing
  <2>2. CASE q # p
    BY <2>2, OthersCommit
  <2> QED BY <2>1, <2>2
<1>6. version[l0] < newVersion[p]
  <2>1. ~ Reached(p, k[p])
    BY <1>1, <1>b DEF Reached
  <2> QED BY <2>1, <1>1, <1>2 DEF VersionInv, StampInv
<1>7. WritesWord(p, w0)
  BY <1>1 DEF WritesWord
<1>8. \A w \in Word : LockOf(w) \in Lock /\ \A r \in hist[w] : r \in Stored
  BY LockOfWord, <1>a DEF HistType
<1>9. x0 \in Stored
  BY <1>1, <1>b, <1>a, NodeType DEF Stored
<1>10. ClockInv'
  BY <1>1, <1>3, <1>5 DEF VersionInv, ClockInv
<1>11. StampInv'
  <2> SUFFICES ASSUME NEW q \in Thread, Committing(q), NEW j \in 1 .. NLocks(q)
               PROVE  IF Reached(q, j)' THEN version'[LockAt(q, j)] = newVersion[q]
                                        ELSE version'[LockAt(q, j)] < newVersion[q]
    BY <1>1, <1>4, <1>5 DEF StampInv
  <2>0. LockAt(q, j) \in Lock
    BY <1>a, NodeType
  <2>1. CASE q = p /\ j = k[p]
    <3>1. Reached(q, j)'
      BY <2>1, <1>1, <1>b DEF Reached
    <3>2. version'[LockAt(q, j)] = newVersion[q]
      BY <2>1, <1>2, <1>3
    <3> QED BY <3>1, <3>2
  <2>2. CASE ~ (q = p /\ j = k[p])
    <3>1. LockAt(q, j) # l0
      BY <2>2, <1>1, <1>2, CommitLocks
    <3>2. Reached(q, j)' = Reached(q, j)
      <4>1. CASE q = p
        BY <4>1, <2>2, <1>1, <1>b DEF Reached
      <4>2. CASE q # p
        BY <4>2, OthersCommit
      <4> QED BY <4>1, <4>2
    <3> QED BY <2>0, <3>1, <3>2, <1>3 DEF VersionInv, StampInv
  <2> QED BY <2>1, <2>2
<1>12. HistInv'
  <2> SUFFICES ASSUME NEW w \in Word
               PROVE  /\ \A r \in hist'[w] : r.ver <= version'[LockOf(w)]
                      /\ \A q \in Thread : Copying(q, w)' =>
                            [ver |-> newVersion[q], val |-> writeSet[q][k[q]].val] \in hist'[w]
                      /\ (\A q \in Thread : ~ Copying(q, w)') =>
                            ValueAt(w, version[LockOf(w)], mem[w])'
    BY <1>1 DEF HistInv
  <2>1. version[LockOf(w)] <= version'[LockOf(w)] /\ version'[LockOf(w)] \in Nat
    BY <1>3, <1>6, <1>8, <1>b
  <2>2. \A r \in hist[w] : r.ver <= version[LockOf(w)]
    BY DEF VersionInv, HistInv
  <2>3. \A r \in hist[w] : r.ver <= version'[LockOf(w)]
    BY <2>1, <2>2, <1>8, <1>b DEF Stored
  <2>4. Copying(p, w)' <=> w = w0
    BY <1>1 DEF Copying
  <2>5. \A q \in Thread \ {p} : Copying(q, w)' = Copying(q, w)
    BY OthersCommit
  <2>6. CASE w = w0
    <3>1. \A q \in Thread \ {p} : ~ Copying(q, w)'
      <4> SUFFICES ASSUME NEW q \in Thread \ {p}, Copying(q, w) PROVE FALSE
        BY <2>5
      <4>1. Committing(q) /\ k[q] \in 1 .. NLocks(q)
        BY DEF Copying, Committing, TypeInv, IndexAt
      <4>2. WritesWord(q, w)
        BY <4>1 DEF Copying, WritesWord
      <4> QED BY <4>1, <4>2, <2>6, <1>1, <1>7, CommitWords
    <3>2. x0.ver <= version'[LockOf(w)]
      BY <2>6, <1>2, <1>3, <1>b
    <3> QED BY <2>3, <2>4, <2>6, <3>1, <3>2, <1>3
  <2>7. CASE w # w0
    <3>1. hist'[w] = hist[w]
      BY <2>7, <1>3
    <3>2. (\A q \in Thread : ~ Copying(q, w)') => ValueAt(w, version'[LockOf(w)], mem[w])
      <4> SUFFICES ASSUME \A q \in Thread : ~ Copying(q, w)'
                   PROVE  ValueAt(w, version'[LockOf(w)], mem[w])
        OBVIOUS
      <4>1. \A q \in Thread : ~ Copying(q, w)
        BY <2>5, <1>1 DEF Copying
      <4>2. ValueAt(w, version[LockOf(w)], mem[w])
        BY <4>1 DEF VersionInv, HistInv
      <4> QED BY <4>2, <2>1, <2>2, <1>8, <1>b, ValueAtLater
    <3>3. ValueAt(w, version'[LockOf(w)], mem[w]) => ValueAt(w, version[LockOf(w)], mem[w])'
      BY <3>1, <1>1 DEF ValueAt
    <3>4. \A q \in Thread : Copying(q, w)' =>
             [ver |-> newVersion[q], val |-> writeSet[q][k[q]].val] \in hist[w]
      BY <2>4, <2>5, <2>7 DEF VersionInv, HistInv
    <3> QED BY <2>3, <3>1, <3>2, <3>3, <3>4
  <2> QED BY <2>6, <2>7
<1>13. ValidInv'
  <2> SUFFICES ASSUME NEW q \in Thread, Committing(q), NEW i \in 1 .. Len(readSet[q]),
                      WritesWord(q, readSet[q][i]),
                      \/ At(q, "valVer")' /\ i < k[q]
                      \/ At(q, "valLock")' /\ i <= k[q]
                      \/ pc'[q] \in {"wbVer", "wbCopy"}
               PROVE  Clean(q, readSet[q][i])'
    BY <1>1, <1>4, <1>5 DEF ValidInv
  <2>0. readSet[q][i] \in Word
    BY <1>a, ReadSetType
  <2>1. Clean(q, readSet[q][i])
    <3>1. CASE q = p
      BY <3>1, <1>1 DEF VersionInv, ValidInv
    <3>2. CASE q # p
      BY <3>2, OthersCommit DEF VersionInv, ValidInv
    <3> QED BY <3>1, <3>2
  <2>2. CASE readSet[q][i] # w0
    BY <2>0, <2>1, <2>2, <1>1, <1>3 DEF Clean
  <2>3. CASE readSet[q][i] = w0
    <3>1. q = p
      BY <2>3, <1>1, <1>7, CommitWords
    <3> QED BY <2>0, <2>1, <2>3, <3>1, <1>1, <1>3, <1>b DEF Clean
  <2> QED BY <2>2, <2>3
<1>14. CommitInv'
  <2> SUFFICES ASSUME NEW c \in commits, NEW w \in c.writes PROVE c.wv <= version'[LockOf(w)]
    BY <1>1, <1>5 DEF VersionInv, CommitInv
  <2>1. c.wv \in Nat /\ w \in Word
    BY <1>a DEF HistType, Commit
  <2>2. c.wv <= version[LockOf(w)]
    BY DEF VersionInv, CommitInv
  <2> QED BY <2>1, <2>2, <1>3, <1>6, <1>8, <1>b
<1>15. DistinctStamps'
  BY <1>1, <1>5 DEF VersionInv, DistinctStamps
<1>16. \A r \in hist[w0] : r.ver < newVersion[p]
  BY <1>2, <1>6, <1>8, <1>b DEF VersionInv, HistInv, Stored
<1>17. OneWritePerVersion'
  <2>1. \A w \in Word : \A r, q \in hist'[w] : r.ver = q.ver => r = q
    <3> SUFFICES ASSUME NEW w \in Word, NEW r \in hist'[w], NEW q \in hist'[w], r.ver = q.ver
                 PROVE  r = q
      OBVIOUS
    <3>1. \A y \in hist[w0] : y.ver # x0.ver
      BY <1>2, <1>8, <1>16, <1>b DEF Stored
    <3>2. \A y, z \in hist[w] : y.ver = z.ver => y = z
      BY DEF VersionInv, OneWritePerVersion
    <3> HIDE DEF x0, w0
    <3>3. CASE w = w0
      <4>1. r \in hist[w0] \/ r = x0
        BY <3>3, <1>3
      <4>2. q \in hist[w0] \/ q = x0
        BY <3>3, <1>3
      <4> QED BY <4>1, <4>2, <3>1, <3>2, <3>3
    <3>4. CASE w # w0
      BY <3>4, <3>2, <1>3
    <3> QED BY <3>3, <3>4
  <2> QED BY <2>1, <1>1 DEF VersionInv, OneWritePerVersion
<1>18. NoLostUpdate'
  <2> SUFFICES ASSUME NEW c \in commits, NEW w \in c.reads \cap c.writes, NEW r \in hist'[w],
                      c.rv < r.ver, r.ver < c.wv
               PROVE  FALSE
    BY <1>1 DEF NoLostUpdate
  <2>1. c.wv \in Nat /\ w \in Word
    BY <1>a DEF HistType, Commit
  <2>2. CASE r \in hist[w]
    BY <2>2 DEF VersionInv, NoLostUpdate
  <2>3. CASE r = x0 /\ w = w0
    <3>1. c.wv <= version[l0]
      BY <2>3 DEF VersionInv, CommitInv
    <3>2. r.ver = newVersion[p]
      BY <2>3
    <3> QED BY <3>1, <3>2, <2>1, <1>2, <1>6, <1>b
  <2> QED BY <2>1, <2>2, <2>3, <1>3
<1> QED BY <1>10, <1>11, <1>12, <1>13, <1>14, <1>15, <1>17, <1>18 DEF VersionInv

\* The k-th value is in its word: nothing is being copied there any more.
LEMMA WriteBackValue ==
    ASSUME TypeInv, LockInv, VersionInv, NEW p \in Thread, Step(p), WriteBackCopy(p)
    PROVE  VersionInv'
<1> USE DEF Goto, At, tx, locks
<1> DEFINE w0 == writeSet[p][k[p]].word
           v0 == writeSet[p][k[p]].val
<1>a. TxType /\ EndType /\ RegionType /\ HistType /\ IndexAt(p)
  BY DEF TypeInv, TypeOK
<1>b. /\ k[p] \in Nat /\ NLocks(p) \in Nat /\ \A l \in Lock : version[l] \in Nat
      /\ \A q \in Thread : newVersion[q] \in Nat
  BY <1>a, ListLengths DEF EndType, RegionType
<1>1. /\ pc[p] = "wbCopy" /\ pc'[p] = "wbVer" /\ k[p] \in 1 .. NLocks(p) /\ Committing(p)
      /\ mem' = [mem EXCEPT ![w0] = v0] /\ k'[p] = k[p] + 1
      /\ UNCHANGED <<globalVersion, version, newVersion, rv, readSet, writeSet, hist, commits>>
  BY <1>a, <1>b DEF WriteBackCopy, TxType, EndType, IndexAt, Committing
<1>2. w0 \in Word /\ LockAt(p, k[p]) = LockOf(w0) /\ LockOf(w0) \in Lock
  BY <1>1, <1>a, NodeType, LockOfWord DEF LockAt
<1>3. \A w \in Word : mem'[w] = IF w = w0 THEN v0 ELSE mem[w]
  BY <1>1, <1>2, <1>a DEF RegionType
<1>4. \A q \in Thread : /\ NLocks(q)' = NLocks(q) /\ \A j : LockAt(q, j)' = LockAt(q, j)
                        /\ \A w : WritesWord(q, w)' = WritesWord(q, w)
                        /\ \A w : Clean(q, w)' = Clean(q, w)
  BY <1>1 DEF NLocks, LockAt, WritesWord, Clean
<1>5. ASSUME NEW q \in Thread PROVE Committing(q)' = Committing(q)
  <2>1. CASE q = p
    BY <2>1, <1>1 DEF Committing
  <2>2. CASE q # p
    BY <2>2, OthersCommit
  <2> QED BY <2>1, <2>2
<1>6. ClockInv'
  BY <1>1, <1>5 DEF VersionInv, ClockInv
<1>7. StampInv'
  <2>1. ASSUME NEW q \in Thread, NEW j \in 1 .. NLocks(q) PROVE Reached(q, j)' = Reached(q, j)
    <3>1. CASE q = p
      BY <3>1, <1>1, <1>b DEF Reached
    <3>2. CASE q # p
      BY <3>2, OthersCommit
    <3> QED BY <3>1, <3>2
  <2> QED BY <2>1, <1>1, <1>4, <1>5 DEF VersionInv, StampInv
<1>8. HistInv'
  <2> SUFFICES ASSUME NEW w \in Word
               PROVE  /\ \A r \in hist[w] : r.ver <= version[LockOf(w)]
                      /\ \A q \in Thread : Copying(q, w)' =>
                            [ver |-> newVersion[q], val |-> writeSet[q][k'[q]].val] \in hist[w]
                      /\ (\A q \in Thread : ~ Copying(q, w)') =>
                            ValueAt(w, version[LockOf(w)], mem[w])'
    BY <1>1 DEF HistInv
  <2>1. \A r \in hist[w] : r.ver <= version[LockOf(w)]
    BY DEF VersionInv, HistInv
  <2>2. ~ Copying(p, w)' /\ (Copying(p, w) <=> w = w0)
    BY <1>1 DEF Copying
  <2>3. \A q \in Thread \ {p} : Copying(q, w)' = Copying(q, w)
    BY OthersCommit
  <2>4. \A q \in Thread : Copying(q, w)' =>
           [ver |-> newVersion[q], val |-> writeSet[q][k'[q]].val] \in hist[w]
    BY <2>2, <2>3, OthersCommit DEF VersionInv, HistInv
  <2>5. (\A q \in Thread : ~ Copying(q, w)') => ValueAt(w, version[LockOf(w)], mem'[w])
    <3>1. CASE w = w0
      <4>1. [ver |-> newVersion[p], val |-> v0] \in hist[w]
        BY <2>2, <3>1 DEF VersionInv, HistInv
      <4>2. version[LockOf(w)] = newVersion[p]
        <5>1. Reached(p, k[p])
          BY <1>1, <1>b DEF Reached
        <5> QED BY <5>1, <3>1, <1>1, <1>2 DEF VersionInv, StampInv
      <4>3. mem'[w] = v0
        BY <3>1, <1>3
      <4> QED BY <4>1, <4>2, <4>3, <2>1, <1>b DEF ValueAt
    <3>2. CASE w # w0
      BY <3>2, <2>2, <2>3, <1>3 DEF VersionInv, HistInv
    <3> QED BY <3>1, <3>2
  <2>6. ValueAt(w, version[LockOf(w)], mem'[w]) => ValueAt(w, version[LockOf(w)], mem[w])'
    BY <1>1 DEF ValueAt
  <2> QED BY <2>1, <2>4, <2>5, <2>6
<1>9. ValidInv'
  <2> SUFFICES ASSUME NEW q \in Thread, Committing(q), NEW i \in 1 .. Len(readSet[q]),
                      WritesWord(q, readSet[q][i]),
                      \/ At(q, "valVer")' /\ i < k'[q]
                      \/ At(q, "valLock")' /\ i <= k'[q]
                      \/ pc'[q] \in {"wbVer", "wbCopy"}
               PROVE  Clean(q, readSet[q][i])
    BY <1>1, <1>4, <1>5 DEF ValidInv
  <2>1. CASE q = p
    BY <2>1, <1>1 DEF VersionInv, ValidInv
  <2>2. CASE q # p
    BY <2>2, OthersCommit DEF VersionInv, ValidInv
  <2> QED BY <2>1, <2>2
<1>10. CommitInv' /\ DistinctStamps'
  BY <1>1, <1>5 DEF VersionInv, CommitInv, DistinctStamps
<1>11. OneWritePerVersion' /\ NoLostUpdate'
  BY <1>1 DEF VersionInv, OneWritePerVersion, NoLostUpdate
<1> QED BY <1>6, <1>7, <1>8, <1>9, <1>10, <1>11 DEF VersionInv

\* The commit is complete: it joins the history under a version of its own.
LEMMA WrittenBackVersion ==
    ASSUME TypeInv, LockInv, VersionInv, NEW p \in Thread, Step(p), WrittenBack(p)
    PROVE  VersionInv'
<1> USE DEF Goto, At, tx, locks
<1> DEFINE c0 == [rv |-> rv[p], wv |-> newVersion[p],
                  reads  |-> { readSet[p][j] : j \in 1 .. Len(readSet[p]) },
                  writes |-> { writeSet[p][j].word : j \in 1 .. NLocks(p) }]
<1>a. TxType /\ EndType /\ RegionType /\ HistType /\ IndexAt(p)
  BY DEF TypeInv, TypeOK
<1>b. k[p] \in Nat /\ NLocks(p) \in Nat
  BY <1>a, ListLengths DEF EndType
<1>1. /\ pc[p] = "wbVer" /\ pc'[p] = "release" /\ k[p] > NLocks(p)
      /\ Committing(p) /\ ~ Committing(p)' /\ commits' = commits \cup {c0}
      /\ UNCHANGED <<globalVersion, version, newVersion, mem, rv, readSet, writeSet, hist>>
  BY <1>a DEF WrittenBack, StartRelease, TxType, Committing
<1>2. \A q \in Thread : Committing(q)' => q # p /\ Committing(q)
  BY <1>1, OthersCommit
<1>3. \A q \in Thread : /\ NLocks(q)' = NLocks(q) /\ \A j : LockAt(q, j)' = LockAt(q, j)
                        /\ \A w : WritesWord(q, w)' = WritesWord(q, w)
                        /\ \A w : Clean(q, w)' = Clean(q, w)
  BY <1>1 DEF NLocks, LockAt, WritesWord, Clean
<1>4. \A q \in Thread : \A w : Copying(q, w)' = Copying(q, w)
  BY <1>1, OthersCommit DEF Copying
<1>5. ClockInv' /\ DistinctStamps'
  BY <1>1, <1>2 DEF VersionInv, ClockInv, DistinctStamps
<1>6. StampInv'
  BY <1>1, <1>2, <1>3, OthersCommit DEF VersionInv, StampInv
<1>7. HistInv'
  <2> SUFFICES ASSUME NEW w \in Word
               PROVE  /\ \A r \in hist[w] : r.ver <= version[LockOf(w)]
                      /\ \A q \in Thread : Copying(q, w)' =>
                            [ver |-> newVersion[q], val |-> writeSet[q][k'[q]].val] \in hist[w]
                      /\ (\A q \in Thread : ~ Copying(q, w)') =>
                            ValueAt(w, version[LockOf(w)], mem[w])'
    BY <1>1 DEF HistInv
  <2>1. \A q \in Thread : Copying(q, w)' => q # p
    BY <1>1 DEF Copying
  <2>2. (\A q \in Thread : ~ Copying(q, w)') => ValueAt(w, version[LockOf(w)], mem[w])'
    BY <1>1, <1>4 DEF VersionInv, HistInv, ValueAt
  <2> QED BY <2>1, <2>2, <1>4, OthersCommit DEF VersionInv, HistInv
<1>8. ValidInv'
  BY <1>1, <1>2, <1>3, OthersCommit DEF VersionInv, ValidInv
<1>9. ASSUME NEW w \in c0.writes PROVE newVersion[p] <= version[LockOf(w)] /\ WritesWord(p, w)
  <2>1. PICK j \in 1 .. NLocks(p) : writeSet[p][j].word = w
    BY <1>9
  <2>2. Reached(p, j) /\ LockAt(p, j) = LockOf(w) /\ LockAt(p, j) \in Lock
    BY <2>1, <1>1, <1>a, <1>b, NodeType DEF Reached, LockAt
  <2>3. version[LockOf(w)] = newVersion[p] /\ newVersion[p] \in Nat
    BY <2>2, <1>1, <1>a DEF VersionInv, StampInv, EndType
  <2> QED BY <2>1, <2>3 DEF WritesWord
<1>10. CommitInv'
  <2> SUFFICES ASSUME NEW c \in commits'
               PROVE  /\ c.wv <= globalVersion
                      /\ \A q \in Thread : Committing(q)' => newVersion[q] # c.wv
                      /\ \A w \in c.writes : c.wv <= version[LockOf(w)]
    BY <1>1 DEF CommitInv
  <2>1. CASE c \in commits
    BY <2>1, <1>2 DEF VersionInv, CommitInv
  <2>2. CASE c = c0
    <3>1. c.wv = newVersion[p]
      BY <2>2
    <3>2. newVersion[p] <= globalVersion
      BY <1>1 DEF VersionInv, ClockInv
    <3>3. \A q \in Thread : Committing(q)' => newVersion[q] # newVersion[p]
      BY <1>1, <1>2 DEF VersionInv, DistinctStamps
    <3> QED BY <2>2, <3>1, <3>2, <3>3, <1>9
  <2> QED BY <2>1, <2>2, <1>1
<1>11. OneWritePerVersion'
  <2>1. \A c \in commits : c.wv # c0.wv
    BY <1>1 DEF VersionInv, CommitInv
  <2>2. \A c, d \in commits : c.wv = d.wv => c = d
    BY DEF VersionInv, OneWritePerVersion
  <2>3. \A c, d \in commits' : c.wv = d.wv => c = d
    <3> HIDE DEF c0
    <3> QED BY <2>1, <2>2, <1>1
  <2> QED BY <2>3, <1>1 DEF VersionInv, OneWritePerVersion
<1>12. NoLostUpdate'
  <2> SUFFICES ASSUME NEW c \in commits', NEW w \in c.reads \cap c.writes, NEW r \in hist[w],
                      c.rv < r.ver, r.ver < c.wv
               PROVE  FALSE
    BY <1>1 DEF NoLostUpdate
  <2>1. CASE c \in commits
    BY <2>1 DEF VersionInv, NoLostUpdate
  <2>2. CASE c = c0
    <3>1. WritesWord(p, w)
      BY <2>2, <1>9
    <3>2. \E i \in 1 .. Len(readSet[p]) : readSet[p][i] = w
      BY <2>2
    <3>3. Clean(p, w)
      BY <3>1, <3>2, <1>1 DEF VersionInv, ValidInv
    <3> QED BY <2>2, <3>3 DEF Clean
  <2> QED BY <2>1, <2>2, <1>1
<1> QED BY <1>5, <1>6, <1>7, <1>8, <1>10, <1>11, <1>12 DEF VersionInv

LEMMA VersionStep ==
    ASSUME TypeInv, LockInv, VersionInv, NEW p \in Thread, Step(p) PROVE VersionInv'
<1> USE DEF Goto, At
<1>a. TxType /\ EndType /\ RegionType /\ HistType /\ TypeOK
  BY DEF TypeInv, TypeOK
<1>b. k[p] \in Nat /\ NLocks(p) \in Nat /\ Len(readSet[p]) \in Nat
  BY <1>a, ListLengths DEF EndType
<1>1. CASE OutsideStep(p)
  <2>1. ~ Committing(p)' /\ pc[p] # "wbCopy"
        /\ UNCHANGED <<globalVersion, version, mem, hist, commits>>
    BY <1>1, <1>a, OutsidePC DEF Outside, Committing
  <2> QED BY <2>1, <1>1, <1>a, OutsideRv, QuietVersion
\* Taking and releasing locks.
<1>2. CASE \/ Acquire(p) \/ SetHolder(p) \/ ReleaseTest(p) \/ ReleaseHolder(p)
           \/ ReleaseMutex(p)
  <2>1. /\ UNCHANGED <<globalVersion, version, mem, hist, commits, rv>> /\ pc[p] # "wbCopy"
        /\ pc'[p] \in {"acquire", "setHolder", "release", "relHolder", "relMutex"}
    <3>1. CASE Acquire(p)
      BY <3>1, <1>a DEF Acquire, TxType, tx
    <3>2. CASE SetHolder(p)
      BY <3>2, <1>a DEF SetHolder, TxType, tx
    <3>3. CASE ReleaseTest(p)
      BY <3>3, <1>a DEF ReleaseTest, TxType, tx, locks
    <3>4. CASE ReleaseHolder(p)
      BY <3>4, <1>a DEF ReleaseHolder, TxType, tx
    <3>5. CASE ReleaseMutex(p)
      BY <3>5, <1>a DEF ReleaseMutex, TxType, tx
    <3> QED BY <1>2, <3>1, <3>2, <3>3, <3>4, <3>5
  <2> QED BY <2>1, QuietVersion DEF Committing
\* A test of the validation fails.
<1>3. ASSUME ValidateVer(p) \/ ValidateLock(p), StartRelease(p, FALSE) PROVE VersionInv'
  <2>1. /\ UNCHANGED <<globalVersion, version, mem, hist, commits, rv>> /\ pc[p] # "wbCopy"
        /\ pc'[p] = "release"
    BY <1>3, <1>a DEF ValidateVer, ValidateLock, StartRelease, TxType, tx, locks
  <2> QED BY <2>1, QuietVersion DEF Committing
<1>4. CASE ValidateVer(p)
  <2>1. CASE version[LockOf(readSet[p][k[p]])] > rv[p]
    BY <1>3, <1>4, <2>1 DEF ValidateVer
  <2>2. CASE ~ (version[LockOf(readSet[p][k[p]])] > rv[p])
    <3>1. /\ pc[p] = "valVer" /\ pc'[p] = "valLock" /\ k'[p] = k[p] /\ k[p] \in 1 .. Len(readSet[p])
          /\ UNCHANGED <<globalVersion, version, mem, hist, commits, newVersion, rv, readSet, writeSet>>
      BY <1>4, <2>2, <1>a, <1>b DEF ValidateVer, TxType, EndType, tx, locks, TypeInv, IndexAt
    <3>2. Clean(p, readSet[p][k[p]])
      <4> DEFINE w == readSet[p][k[p]]
      <4>1. w \in Word /\ LockOf(w) \in Lock
        BY <3>1, <1>a, ReadSetType
      <4>2. version[LockOf(w)] \in Nat /\ rv[p] \in Nat /\ version[LockOf(w)] <= rv[p]
        BY <4>1, <2>2, <1>a DEF RegionType, TxType
      <4>3. \A r \in hist[w] : r.ver \in Nat /\ r.ver <= version[LockOf(w)]
        BY <4>1, <1>a DEF VersionInv, HistInv, HistType, Stored
      <4> HIDE DEF w
      <4>4. Clean(p, w)
        BY <4>2, <4>3 DEF Clean
      <4> QED BY <4>4 DEF w
    <3>3. \A i \in 1 .. Len(readSet[p]) :
             WritesWord(p, readSet[p][i]) /\ i <= k[p] => Clean(p, readSet[p][i])
      BY <3>1, <3>2, <1>b DEF VersionInv, ValidInv, Committing
    <3> QED BY <3>1, <3>3, CommitKeeps DEF Committing, Reached
  <2> QED BY <2>1, <2>2
<1>5. CASE ValidateLock(p)
  <2> DEFINE l == LockOf(readSet[p][k[p]])
  <2>1. CASE mutex[l] /\ ~ OwnLock(p, l)
    BY <1>3, <1>5, <2>1 DEF ValidateLock
  <2>2. CASE ~ (mutex[l] /\ ~ OwnLock(p, l))
    <3>1. /\ pc[p] = "valLock" /\ pc'[p] = "valVer" /\ k'[p] = k[p] + 1
          /\ UNCHANGED <<globalVersion, version, mem, hist, commits, newVersion, rv, readSet, writeSet>>
      BY <1>5, <2>2, <1>a, <1>b DEF ValidateLock, TxType, EndType, tx, locks
    <3>2. \A i \in 1 .. Len(readSet[p]) :
             WritesWord(p, readSet[p][i]) /\ i < k'[p] => Clean(p, readSet[p][i])
      BY <3>1, <1>b DEF VersionInv, ValidInv, Committing
    <3> QED BY <3>1, <3>2, CommitKeeps DEF Committing, Reached
  <2> QED BY <2>1, <2>2
<1>6. CASE Validated(p)
  <2>1. /\ pc[p] = "valVer" /\ pc'[p] = "wbVer" /\ k'[p] = 1 /\ k[p] > Len(readSet[p])
        /\ UNCHANGED <<globalVersion, version, mem, hist, commits, newVersion, rv, readSet, writeSet>>
    BY <1>6, <1>a DEF Validated, TxType, EndType, tx, locks
  <2>2. \A i \in 1 .. Len(readSet[p]) :
           WritesWord(p, readSet[p][i]) => Clean(p, readSet[p][i])
    BY <2>1, <1>b DEF VersionInv, ValidInv, Committing
  <2> QED BY <2>1, <2>2, CommitKeeps DEF Committing, Reached
<1> QED
  BY <1>1, <1>2, <1>4, <1>5, <1>6, StampVersion, WriteBackVersion, WriteBackValue,
     WrittenBackVersion DEF Step, InCall, OutsideStep

\* What one step can do to versions and their history: nothing, or give a word
\* that its thread has locked a version that is newer and was drawn before.
LEMMA Installs ==
    ASSUME TypeInv, LockInv, VersionInv, NEW p \in Thread, Step(p)
    PROVE  \/ UNCHANGED <<version, hist>> /\ \A w : Copying(p, w)' => Copying(p, w)
           \/ /\ Committing(p) /\ k[p] \in 1 .. NLocks(p)
              /\ LET w0 == writeSet[p][k[p]].word
                     x0 == [ver |-> newVersion[p], val |-> writeSet[p][k[p]].val]
                 IN  /\ w0 \in Word /\ x0 \in Stored /\ version[LockOf(w0)] < newVersion[p]
                     /\ LockAt(p, k[p]) = LockOf(w0)
                     /\ version' = [version EXCEPT ![LockOf(w0)] = newVersion[p]]
                     /\ hist' = [hist EXCEPT ![w0] = @ \cup {x0}]
                     /\ \A w : Copying(p, w)' => w = w0
<1> USE DEF Goto, At, tx, locks
<1>a. TxType /\ EndType /\ RegionType /\ HistType /\ IndexAt(p) /\ TypeOK
  BY DEF TypeInv, TypeOK
<1>b. k[p] \in Nat /\ NLocks(p) \in Nat
  BY <1>a, ListLengths DEF EndType
<1>1. CASE WriteBackVer(p)
  <2>1. /\ pc[p] = "wbVer" /\ Committing(p) /\ k[p] \in 1 .. NLocks(p) /\ UNCHANGED <<k, writeSet>>
        /\ WriteBackVer(p) /\ LockAt(p, k[p]) = LockOf(writeSet[p][k[p]].word)
    BY <1>1, <1>a, <1>b DEF WriteBackVer, endVars, IndexAt, Committing, LockAt
  <2>2. writeSet[p][k[p]].word \in Word /\ writeSet[p][k[p]].val \in Value
        /\ newVersion[p] \in Nat
    BY <2>1, <1>a, NodeType DEF EndType
  <2>3. version[LockAt(p, k[p])] < newVersion[p]
    BY <2>1, <1>b DEF VersionInv, StampInv, Reached
  <2> QED BY <2>1, <2>2, <2>3 DEF WriteBackVer, InstalledVersion, Stored, Copying
<1>2. CASE OutsideStep(p)
  <2>1. pc'[p] # "wbCopy" /\ UNCHANGED <<version, hist>>
    BY <1>2, <1>a, OutsidePC DEF Outside
  <2> QED BY <2>1 DEF Copying
<1>3. CASE ~ OutsideStep(p) /\ ~ WriteBackVer(p)
  <2>1. UNCHANGED <<version, hist>>
    BY <1>3 DEF Step, InCall, OutsideStep, Acquire, SetHolder, Stamp, ValidateVer, ValidateLock,
                Validated, WriteBackCopy, WrittenBack, ReleaseTest, ReleaseHolder, ReleaseMutex
  <2>2. pc'[p] # "wbCopy"
    <3>1. CASE Acquire(p)
      BY <3>1, <1>a DEF Acquire, TxType
    <3>2. CASE ValidateVer(p) \/ ValidateLock(p)
      BY <3>2, <1>a DEF ValidateVer, ValidateLock, StartRelease, TxType
    <3>3. CASE ReleaseTest(p)
      BY <3>3, <1>a DEF ReleaseTest, TxType
    <3>4. CASE Stamp(p)
      BY <3>4, <1>a DEF Stamp, TxType
    <3>5. CASE \/ SetHolder(p) \/ Validated(p) \/ WriteBackCopy(p) \/ WrittenBack(p)
               \/ ReleaseHolder(p) \/ ReleaseMutex(p)
      BY <3>5, <1>a DEF SetHolder, Validated, WriteBackCopy, WrittenBack, StartRelease,
                        ReleaseHolder, ReleaseMutex, TxType
    <3> QED BY <1>3, <3>1, <3>2, <3>3, <3>4, <3>5 DEF Step, InCall, OutsideStep
  <2> QED BY <2>1, <2>2 DEF Copying
<1> QED BY <1>1, <1>2, <1>3

\* A thread enters its commit with a version above the clock.
LEMMA EntersCommit ==
    ASSUME TypeInv, NEW p \in Thread, Step(p), Committing(p)'
    PROVE  \/ Committing(p) /\ newVersion'[p] = newVersion[p] /\ writeSet'[p] = writeSet[p]
           \/ newVersion'[p] = globalVersion + 1
<1> USE DEF Goto, At, tx, Committing
<1>a. TxType /\ EndType /\ TypeOK
  BY DEF TypeInv, TypeOK
<1>1. CASE Stamp(p)
  BY <1>1, <1>a DEF Stamp, DrawnVersion, EndType
<1>2. CASE ValidateVer(p) \/ ValidateLock(p) \/ Validated(p)
  BY <1>2 DEF ValidateVer, ValidateLock, Validated
<1>3. CASE WriteBackVer(p) \/ WriteBackCopy(p) \/ WrittenBack(p)
  BY <1>3 DEF WriteBackVer, WriteBackCopy, WrittenBack, endVars
<1>4. CASE OutsideStep(p)
  BY <1>4, <1>a, OutsidePC DEF Outside
<1>5. CASE Acquire(p)
  BY <1>5, <1>a DEF Acquire, TxType
<1>6. CASE SetHolder(p) \/ ReleaseHolder(p) \/ ReleaseMutex(p)
  BY <1>6, <1>a DEF SetHolder, ReleaseHolder, ReleaseMutex, TxType
<1>7. CASE ReleaseTest(p)
  BY <1>7, <1>a DEF ReleaseTest, TxType
<1> QED
  BY <1>1, <1>2, <1>3, <1>4, <1>5, <1>6, <1>7 DEF Step, InCall, OutsideStep
-----------------------------------------------------------------------------
(* The theorems about versions.                                             *)

LEMMA VersionStutter == VersionInv /\ UNCHANGED vars => VersionInv'
<1> SUFFICES ASSUME VersionInv, UNCHANGED vars PROVE VersionInv'
  OBVIOUS
<1> USE DEF vars, locks, tx, endVars, VersionInv
<1>1. ClockInv' /\ CommitInv' /\ DistinctStamps'
  BY DEF ClockInv, CommitInv, DistinctStamps, Committing
<1>2. StampInv'
  BY DEF StampInv, Committing, NLocks, LockAt, Reached, At
<1>3. HistInv'
  BY DEF HistInv, Copying, At, ValueAt
<1>4. ValidInv'
  BY DEF ValidInv, Committing, WritesWord, NLocks, Clean, At
<1>5. OneWritePerVersion' /\ NoLostUpdate'
  BY DEF OneWritePerVersion, NoLostUpdate
<1> QED BY <1>1, <1>2, <1>3, <1>4, <1>5

LEMMA VersionNext == TypeInv /\ LockInv /\ VersionInv /\ [Next]_vars => VersionInv'
  BY VersionStep, VersionStutter DEF Next, Step

\* The locks and the versions of commits, in every reachable state.
THEOREM CommitInvariant == Spec => [](TypeInv /\ LockInv /\ VersionInv)
  BY TypeInvInit, TypeInvNext, LockInit, LockNext, VersionInit, VersionNext, PTL DEF Spec

\* No lost update (tm_end): a transaction that read and wrote a word commits
\* only if no other commit changed it since the transaction began.
THEOREM NoUpdateIsLost == Spec => []NoLostUpdate
<1>1. VersionInv => NoLostUpdate
  BY DEF VersionInv
<1> QED BY <1>1, CommitInvariant, PTL

\* ++globalVersion gives every commit a version of its own, and no word holds
\* two values under one version.
THEOREM VersionsAreUnique == Spec => []OneWritePerVersion
<1>1. VersionInv => OneWritePerVersion
  BY DEF VersionInv
<1> QED BY <1>1, CommitInvariant, PTL

\* A version never decreases, and changes only under its lock.
THEOREM VersionsNeverShrink == Spec => VersionsGrow
<1>1. ASSUME TypeInv, LockInv, VersionInv, [Next]_vars
      PROVE  [/\ globalVersion' >= globalVersion
              /\ \A l \in Lock : version'[l] >= version[l]
              /\ \A l \in Lock : version'[l] # version[l] => mutex[l]]_vars
  <2> SUFFICES ASSUME NEW p \in Thread, Step(p)
               PROVE  /\ globalVersion' >= globalVersion
                      /\ \A l \in Lock : version'[l] >= version[l]
                      /\ \A l \in Lock : version'[l] # version[l] => mutex[l]
    BY <1>1 DEF Next, Step
  <2>a. globalVersion \in Nat /\ version \in [Lock -> Nat]
    BY <1>1 DEF TypeInv, TypeOK, RegionType
  <2>1. globalVersion' \in {globalVersion, globalVersion + 1}
    <3>1. CASE OutsideStep(p)
      BY <3>1, <1>1, OutsidePC DEF TypeInv
    <3>2. CASE ~ OutsideStep(p)
      BY <3>2 DEF Step, InCall, OutsideStep, Acquire, SetHolder, Stamp, ValidateVer, ValidateLock,
                  Validated, WriteBackVer, WriteBackCopy, WrittenBack, ReleaseTest,
                  ReleaseHolder, ReleaseMutex
    <3> QED BY <3>1, <3>2
  <2>2. CASE UNCHANGED version
    BY <2>a, <2>1, <2>2
  <2>3. CASE ~ UNCHANGED version
    <3> DEFINE l0 == LockOf(writeSet[p][k[p]].word)
    <3>1. /\ Committing(p) /\ k[p] \in 1 .. NLocks(p) /\ LockAt(p, k[p]) = l0
          /\ version[l0] < newVersion[p] /\ version' = [version EXCEPT ![l0] = newVersion[p]]
      BY <1>1, <2>3, Installs
    <3>2. mutex[l0] /\ newVersion[p] \in Nat
      BY <1>1, <3>1 DEF LockInv, OwnedIsTaken, OwnedIdx, TypeInv, TypeOK, EndType
    <3>3. \A l \in Lock : version'[l] = IF l = l0 THEN newVersion[p] ELSE version[l]
      BY <3>1, <2>a
    <3> HIDE DEF l0
    <3> QED BY <3>1, <3>2, <3>3, <2>a, <2>1
  <2> QED BY <2>2, <2>3
<1> QED BY <1>1, CommitInvariant, PTL DEF Spec, VersionsGrow
-----------------------------------------------------------------------------
(* Readers.                                                                 *)

\* A commit that enters after r began draws a version above r's.
LEMMA NoneOlderKept ==
    ASSUME TypeInv, VersionInv, NEW p \in Thread, Step(p), NEW r \in Thread, rv'[r] = rv[r],
           NEW w, NoneOlder(r, w)
    PROVE  NoneOlder(r, w)'
<1> SUFFICES ASSUME NEW q \in Thread, Committing(q)', WritesWord(q, w)'
             PROVE  newVersion'[q] > rv[r]
  BY DEF NoneOlder
<1>1. CASE q # p
  BY <1>1, OthersCommit DEF NoneOlder
<1>2. CASE q = p
  <2>1. CASE newVersion'[p] = globalVersion + 1
    BY <1>2, <2>1 DEF VersionInv, ClockInv, TypeInv, TypeOK, RegionType, TxType
  <2>2. CASE Committing(p) /\ newVersion'[p] = newVersion[p] /\ writeSet'[p] = writeSet[p]
    <3>1. WritesWord(p, w)
      BY <1>2, <2>2 DEF WritesWord, NLocks
    <3> QED BY <1>2, <2>2, <3>1 DEF NoneOlder
  <2> QED BY <1>2, <2>1, <2>2, EntersCommit
<1> QED BY <1>1, <1>2

\* A word keeps its history in a step, or gets one version on top of it.
LEMMA HistoryStep ==
    ASSUME TypeInv, LockInv, VersionInv, NEW p \in Thread, Step(p), NEW w \in Word
    PROVE  /\ version[LockOf(w)] \in Nat /\ version'[LockOf(w)] \in Nat
           /\ version[LockOf(w)] <= version'[LockOf(w)]
           /\ \/ /\ hist'[w] = hist[w] /\ \A q \in Thread : Copying(q, w)' => Copying(q, w)
              \/ /\ Committing(p) /\ WritesWord(p, w)
                 /\ version[LockOf(w)] < version'[LockOf(w)]
                 /\ \E x \in Stored : x.ver = newVersion[p] /\ hist'[w] = hist[w] \cup {x}
<1> DEFINE w0 == writeSet[p][k[p]].word
           x0 == [ver |-> newVersion[p], val |-> writeSet[p][k[p]].val]
<1>a. /\ version \in [Lock -> Nat] /\ hist \in [Word -> SUBSET Stored]
      /\ newVersion[p] \in Nat /\ LockOf(w) \in Lock
  BY LockOfWord DEF TypeInv, TypeOK, RegionType, EndType, HistType
<1>b. \A q \in Thread \ {p} : Copying(q, w)' = Copying(q, w)
  BY OthersCommit
<1>1. CASE UNCHANGED <<version, hist>> /\ \A u : Copying(p, u)' => Copying(p, u)
  BY <1>1, <1>a, <1>b
<1>2. CASE /\ Committing(p) /\ k[p] \in 1 .. NLocks(p)
           /\ w0 \in Word /\ x0 \in Stored /\ version[LockOf(w0)] < newVersion[p]
           /\ version' = [version EXCEPT ![LockOf(w0)] = newVersion[p]]
           /\ hist' = [hist EXCEPT ![w0] = @ \cup {x0}]
           /\ \A u : Copying(p, u)' => u = w0
  <2>1. version'[LockOf(w)] = IF LockOf(w) = LockOf(w0) THEN newVersion[p] ELSE version[LockOf(w)]
    BY <1>2, <1>a
  <2>2. CASE w = w0
    <3>1. WritesWord(p, w)
      BY <1>2, <2>2 DEF WritesWord
    <3>2. hist'[w] = hist[w] \cup {x0} /\ x0.ver = newVersion[p]
      BY <1>2, <1>a, <2>2
    <3>3. version'[LockOf(w)] = newVersion[p] /\ version[LockOf(w)] < newVersion[p]
      BY <1>2, <2>1, <2>2
    <3> HIDE DEF x0, w0
    <3> QED BY <1>2, <1>a, <3>1, <3>2, <3>3
  <2>3. CASE w # w0
    <3>1. hist'[w] = hist[w]
      BY <1>2, <1>a, <2>3
    <3>2. version[LockOf(w)] <= version'[LockOf(w)] /\ version'[LockOf(w)] \in Nat
      BY <1>2, <1>a, <2>1
    <3> QED BY <3>1, <3>2, <1>2, <1>a, <1>b, <2>3
  <2> QED BY <2>2, <2>3
<1> QED BY <1>1, <1>2, Installs

\* What r saw at its version t stays there: later versions only come on top.
LEMMA ValueKept ==
    ASSUME TypeInv, LockInv, VersionInv, NEW p \in Thread, Step(p), NEW r \in Thread,
           NEW w \in Word, NEW v, NEW t \in Nat, t = rv[r], NoneOlder(r, w), ValueAt(w, t, v)
    PROVE  ValueAt(w, t, v)'
<1>a. hist[w] \subseteq Stored
  BY DEF TypeInv, TypeOK, HistType
<1>1. CASE hist'[w] = hist[w]
  BY <1>1, ValueAtKeep
<1>2. CASE /\ Committing(p) /\ WritesWord(p, w)
           /\ \E x \in Stored : x.ver = newVersion[p] /\ hist'[w] = hist[w] \cup {x}
  <2>1. PICK x \in Stored : x.ver = newVersion[p] /\ hist'[w] = hist[w] \cup {x}
    BY <1>2
  <2>2. newVersion[p] > rv[r] /\ newVersion[p] \in Nat
    BY <1>2 DEF NoneOlder, TypeInv, TypeOK, EndType
  <2> QED BY <1>a, <2>1, <2>2, ValueAtInstall
<1> QED BY <1>1, <1>2, HistoryStep

\* The reads of r in other threads' steps, and in its own that leave them be.
LEMMA SnapKept ==
    ASSUME TypeInv, LockInv, VersionInv, ReadInv, NEW p \in Thread, Step(p), NEW r \in Thread,
           rv'[r] = rv[r], snap'[r] = snap[r], pc'[r] \in {"idle", "beginId"} => snap[r] = {}
    PROVE  SnapAt(r)'
<1> SUFFICES ASSUME NEW x \in snap[r]
             PROVE  NoneOlder(r, x.word)' /\ ValueAt(x.word, rv[r], x.val)'
  BY DEF SnapAt
<1>1. x.word \in Word /\ rv[r] \in Nat
  BY DEF TypeInv, TypeOK, HistType, TxType, WriteNode
<1>2. NoneOlder(r, x.word) /\ ValueAt(x.word, rv[r], x.val)
  BY DEF ReadInv, SnapAt
<1>3. NoneOlder(r, x.word)'
  BY <1>2, NoneOlderKept
<1>4. \A t \in Nat : t = rv[r] => ValueAt(x.word, t, x.val)'
  BY <1>1, <1>2, ValueKept
<1> QED BY <1>1, <1>3, <1>4 DEF ValueAt

\* A reader in the middle of a round, seen across a step of another thread.
LEMMA ReaderOthers ==
    ASSUME TypeInv, LockInv, VersionInv, ReadInv, NEW p \in Thread, Step(p),
           NEW r \in Thread, r # p
    PROVE  ReaderAt(r)'
<1> PICK w \in Word : w = word[r]
  BY DEF TypeInv, TypeOK, ReadType
<1> PICK s \in Nat : s = sampled[r]
  BY DEF TypeInv, TypeOK, ReadType
<1> PICK t \in Nat : t = rv[r]
  BY DEF TypeInv, TypeOK, TxType
<1> PICK v : v = buf[r]
  OBVIOUS
<1>b. Same(r)
  BY OthersSame DEF TypeInv
<1>c. FromWriteSet(r)' = FromWriteSet(r)
  BY <1>b DEF Same, FromWriteSet, Buffers
<1>d. NoneOlder(r, w) => NoneOlder(r, w)'
  BY <1>b, NoneOlderKept DEF Same
<1>e. /\ version[LockOf(w)] \in Nat /\ version'[LockOf(w)] \in Nat
      /\ version[LockOf(w)] <= version'[LockOf(w)]
  BY HistoryStep
<1>f. version[LockOf(w)] = version'[LockOf(w)] =>
         hist'[w] = hist[w] /\ \A q \in Thread : Copying(q, w)' => Copying(q, w)
  BY <1>e, HistoryStep
<1>g. ReaderAt(r)
  BY DEF ReadInv
<1>1. pc[r] \in {"rdVer", "rdLock", "rdMax", "rdCopy", "rdVer2"} =>
         s <= version[LockOf(w)] /\ s <= version'[LockOf(w)]
  BY <1>e, <1>g DEF ReaderAt
<1>2. pc[r] \in {"rdMax", "rdCopy", "rdVer2", "rdLock2", "rdMax2"} => NoneOlder(r, w)'
  BY <1>d, <1>g DEF ReaderAt
<1>3. pc[r] \in {"rdMax", "rdCopy"} /\ version'[LockOf(w)] = s =>
         \A q \in Thread : ~ Copying(q, w)'
  BY <1>1, <1>e, <1>f, <1>g DEF ReaderAt
<1>4. pc[r] = "rdVer2" /\ version'[LockOf(w)] = s /\ ~ FromWriteSet(r) => ValueAt(w, s, v)'
  BY <1>1, <1>e, <1>f, <1>g, ValueAtKeep DEF ReaderAt, At
<1>5. pc[r] \in {"rdLock2", "rdMax2"} /\ ~ FromWriteSet(r) => ValueAt(w, t, v)'
  BY <1>g, ValueKept DEF ReaderAt
<1>6. pc[r] \in {"rdCopy", "rdVer2"} => s <= t
  BY <1>g DEF ReaderAt
<1>7. /\ pc'[r] = pc[r] /\ word'[r] = w /\ sampled'[r] = s /\ rv'[r] = t /\ buf'[r] = v
  BY <1>b DEF Same
<1> QED BY <1>c, <1>1, <1>2, <1>3, <1>4, <1>5, <1>6, <1>7 DEF ReaderAt, At

\* A lock that is free protects no commit under way.
LEMMA Unlocked ==
    ASSUME TypeInv, LockInv, NEW w \in Word, ~ mutex[LockOf(w)], NEW r \in Thread
    PROVE  NoneOlder(r, w) /\ \A q \in Thread : ~ Copying(q, w)
<1>1. ASSUME NEW q \in Thread, Committing(q) PROVE ~ WritesWord(q, w)
  BY <1>1 DEF WritesWord, LockInv, OwnedIsTaken, OwnedIdx, LockAt
<1>2. ASSUME NEW q \in Thread, Copying(q, w) PROVE Committing(q) /\ WritesWord(q, w)
  BY <1>2 DEF Copying, Committing, WritesWord, TypeInv, IndexAt, At
<1> QED BY <1>1, <1>2 DEF NoneOlder

Reading == {"rdVer", "rdLock", "rdMax", "rdCopy", "rdVer2", "rdLock2", "rdMax2"}

\* One of the tests of tm_read: it ends the transaction or moves to the next.
LEMMA TestOutcome ==
    ASSUME TypeInv, NEW p \in Thread, NEW here, NEW passed, NEW next,
           ReadTest(p, here, passed, next)
    PROVE  /\ pc[p] = here
           /\ \/ ClearSets(p) /\ pc'[p] = "idle"
              \/ passed /\ pc'[p] = next /\ UNCHANGED <<tx, rdVars>>
           /\ UNCHANGED <<version, mem, hist>>
  BY DEF ReadTest, ClearSets, Goto, At, locks, TypeInv, TypeOK, TxType

\* A reader in the middle of a round, across its own next step.
LEMMA ReaderOwn ==
    ASSUME TypeInv, LockInv, VersionInv, ReadInv, NEW p \in Thread, Step(p)
    PROVE  ReaderAt(p)'
<1> USE DEF Goto, At, Reading
<1> PICK w \in Word : w = word[p]
  BY DEF TypeInv, TypeOK, ReadType
<1> PICK s \in Nat : s = sampled[p]
  BY DEF TypeInv, TypeOK, ReadType
<1> PICK t \in Nat : t = rv[p]
  BY DEF TypeInv, TypeOK, TxType
<1> PICK v : v = buf[p]
  OBVIOUS
<1>a. TypeOK /\ TxType /\ ReadType /\ EndType /\ RegionType
  BY DEF TypeInv, TypeOK
<1>b. version[LockOf(w)] \in Nat /\ hist[w] \subseteq Stored
  BY LockOfWord, <1>a DEF RegionType, TypeOK, HistType
<1>c. ReaderAt(p)
  BY DEF ReadInv
<1>1. CASE pc'[p] \notin Reading
  BY <1>1 DEF ReaderAt
<1>2. ASSUME NEW u \in Word, ReadSample(p, u) PROVE ReaderAt(p)'
  <2>1. /\ pc'[p] = "rdVer" /\ word'[p] = u /\ sampled'[p] = version[LockOf(u)]
        /\ UNCHANGED version /\ version[LockOf(u)] \in Nat
    BY <1>2, <1>a, LockOfWord DEF ReadSample, TxType, ReadType, RegionType, locks
  <2> QED BY <2>1 DEF ReaderAt
\* What a test that passes leaves as it was.
<1>3. ASSUME UNCHANGED <<tx, rdVars, version, mem, hist>>, pc[p] \in Reading, pc'[p] \in Reading
      PROVE  /\ word'[p] = w /\ sampled'[p] = s /\ rv'[p] = t /\ buf'[p] = v
             /\ FromWriteSet(p)' = FromWriteSet(p) /\ version'[LockOf(w)] = version[LockOf(w)]
             /\ \A q \in Thread : Copying(q, w)' => Copying(q, w)
             /\ NoneOlder(p, w) => NoneOlder(p, w)'
             /\ \A x, y : ValueAt(w, x, y) => ValueAt(w, x, y)'
  <2>1. \A q \in Thread : Copying(q, w)' => Copying(q, w)
    BY <1>3, OthersCommit DEF Copying
  <2>2. NoneOlder(p, w) => NoneOlder(p, w)'
    BY <1>3, NoneOlderKept DEF tx
  <2> QED BY <1>3, <2>1, <2>2, ValueAtKeep DEF tx, rdVars, FromWriteSet, Buffers
<1>4. CASE ReadVer(p) /\ pc'[p] \in Reading
  <2>1. /\ pc[p] = "rdVer" /\ pc'[p] = "rdLock" /\ UNCHANGED <<tx, rdVars, version, mem, hist>>
    BY <1>4, TestOutcome DEF ReadVer
  <2> QED BY <2>1, <1>3, <1>c DEF ReaderAt
<1>5. CASE ReadLock(p) /\ pc'[p] \in Reading
  <2>1. /\ pc[p] = "rdLock" /\ pc'[p] = "rdMax" /\ UNCHANGED <<tx, rdVars, version, mem, hist>>
        /\ ~ mutex[LockOf(w)]
    BY <1>5, TestOutcome DEF ReadLock, NotLocked
  <2>2. NoneOlder(p, w) /\ \A q \in Thread : ~ Copying(q, w)
    BY <2>1, Unlocked
  <2> QED BY <2>1, <2>2, <1>3, <1>c DEF ReaderAt
<1>6. CASE ReadMax(p) /\ pc'[p] \in Reading
  <2>1. /\ pc[p] = "rdMax" /\ pc'[p] = "rdCopy" /\ UNCHANGED <<tx, rdVars, version, mem, hist>>
        /\ NotNewer(p)
    BY <1>6, TestOutcome DEF ReadMax
  <2>2. s <= version[LockOf(w)]
    BY <2>1, <1>c DEF ReaderAt
  <2>3. s <= t
    BY <2>1, <2>2, <1>b DEF NotNewer
  <2> QED BY <2>1, <2>2, <2>3, <1>3, <1>c DEF ReaderAt
<1>7. CASE ReadCopy(p)
  <2>1. /\ pc[p] = "rdCopy" /\ pc'[p] = "rdVer2" /\ word'[p] = w /\ sampled'[p] = s /\ rv'[p] = t
        /\ UNCHANGED <<version, hist, mem, tx>>
    BY <1>7, <1>a DEF ReadCopy, TxType, locks, tx
  <2>2. s <= version[LockOf(w)] /\ NoneOlder(p, w) /\ s <= t
        /\ (version[LockOf(w)] = s => \A q \in Thread : ~ Copying(q, w))
    BY <2>1, <1>c DEF ReaderAt
  <2>3. NoneOlder(p, w)'
    BY <2>1, <2>2, NoneOlderKept
  <2>4. FromWriteSet(p)' = FromWriteSet(p)
    BY <2>1 DEF FromWriteSet, Buffers, tx
  <2>5. ASSUME version[LockOf(w)] = s, ~ FromWriteSet(p) PROVE ValueAt(w, s, buf[p])'
    <3>1. \A q \in Thread : ~ Copying(q, w)
      BY <2>2, <2>5
    <3>2. buf'[p] = mem[w]
      BY <3>1, <2>5, <1>7, <1>a DEF ReadCopy, CopyOutcomes, Copying, ReadType
    <3>3. ValueAt(w, s, mem[w])
      BY <3>1, <2>5 DEF VersionInv, HistInv
    <3> QED BY <3>2, <3>3, <2>1 DEF ValueAt
  <2>6. word'[p] = w /\ version'[LockOf(w)] = version[LockOf(w)]
    BY <2>1
  <2>7. ~ FromWriteSet(p) /\ version[LockOf(w)] = s =>
           \A b : b = buf'[p] => ValueAt(w, s, b)'
    BY <2>5 DEF ValueAt
  <2> QED BY <2>1, <2>2, <2>3, <2>4, <2>5, <2>6, <2>7 DEF ReaderAt
<1>8. CASE ReadVer2(p) /\ pc'[p] \in Reading
  <2>1. /\ pc[p] = "rdVer2" /\ pc'[p] = "rdLock2" /\ UNCHANGED <<tx, rdVars, version, mem, hist>>
        /\ s = version[LockOf(w)]
    <3>1. ReadTest(p, "rdVer2", SameVersion(p), "rdLock2")
      BY <1>8 DEF ReadVer2
    <3>2. /\ pc[p] = "rdVer2" /\ UNCHANGED <<version, mem, hist>>
          /\ \/ pc'[p] = "idle"
             \/ SameVersion(p) /\ pc'[p] = "rdLock2" /\ UNCHANGED <<tx, rdVars>>
      BY <3>1, TestOutcome
    <3> QED BY <1>8, <3>2 DEF SameVersion
  <2>2. NoneOlder(p, w) /\ s <= t /\ (~ FromWriteSet(p) => ValueAt(w, s, v))
    BY <2>1, <1>c DEF ReaderAt
  <2>3. ~ FromWriteSet(p) => ValueAt(w, t, v)
    <3>1. \A x \in hist[w] : x.ver <= s
      BY <2>1 DEF VersionInv, HistInv
    <3> QED BY <3>1, <2>2, <1>b, ValueAtLater
  <2> QED BY <2>1, <2>2, <2>3, <1>3 DEF ReaderAt
<1>9. CASE ReadLock2(p) /\ pc'[p] \in Reading
  <2>1. /\ pc[p] = "rdLock2" /\ pc'[p] = "rdMax2" /\ UNCHANGED <<tx, rdVars, version, mem, hist>>
    BY <1>9, TestOutcome DEF ReadLock2
  <2>2. NoneOlder(p, w) /\ (~ FromWriteSet(p) => ValueAt(w, t, v))
    BY <2>1, <1>c DEF ReaderAt
  <2> QED BY <2>1, <2>2, <1>3 DEF ReaderAt
<1>10. CASE pc'[p] \in Reading
  <2>1. ~ \E ro \in BOOLEAN : BeginVersion(p, ro)
    BY <1>10, <1>a DEF BeginVersion, TxType
  <2>2. ~ (BeginId(p) \/ SetHolder(p) \/ Validated(p) \/ WriteBackVer(p) \/ WriteBackCopy(p)
           \/ ReleaseHolder(p) \/ ReleaseMutex(p))
    BY <1>10, <1>a DEF BeginId, SetHolder, Validated, WriteBackVer, WriteBackCopy, ReleaseHolder,
                       ReleaseMutex, TxType
  <2>3. ~ (EndReadOnly(p) \/ EndReturn(p) \/ ReadMax2(p))
    BY <1>10, <1>a DEF EndReadOnly, EndReturn, ReadMax2, addReadSet, ClearSets, TxType
  <2>4. ~ (ValidateVer(p) \/ ValidateLock(p) \/ WrittenBack(p))
    BY <1>10, <1>a DEF ValidateVer, ValidateLock, WrittenBack, StartRelease, TxType
  <2>5. ~ (GetLocks(p) \/ Acquire(p) \/ Stamp(p))
    BY <1>10, <1>a DEF GetLocks, Acquire, Stamp, TxType
  <2>6. ~ ReleaseTest(p)
    BY <1>10, <1>a DEF ReleaseTest, TxType
  <2>7. ~ \E u \in Word, y \in Value : Write(p, u, y)
    BY <1>10, <1>a DEF Write, addWriteSet, TxType
  <2> QED BY <1>2, <1>4, <1>5, <1>6, <1>7, <1>8, <1>9, <1>10, <2>1, <2>2, <2>3, <2>4, <2>5, <2>6,
             <2>7 DEF Step, Call, InCall
<1> QED BY <1>1, <1>10

\* What a transaction has read, across its own next step.
LEMMA SnapOwn ==
    ASSUME TypeInv, LockInv, VersionInv, ReadInv, NEW p \in Thread, Step(p)
    PROVE  SnapAt(p)'
<1> USE DEF Goto, At
<1>a. TypeOK /\ TxType /\ HistType /\ SnapAt(p)
  BY DEF TypeInv, TypeOK, ReadInv
<1>1. ASSUME snap'[p] = {} PROVE SnapAt(p)'
  BY <1>1 DEF SnapAt
<1>2. CASE \E ro \in BOOLEAN : BeginVersion(p, ro)
  BY <1>1, <1>2, <1>a DEF BeginVersion, SnapAt
<1>3. CASE BeginId(p)
  BY <1>1, <1>3, <1>a DEF BeginId, SnapAt
<1>4. ASSUME ClearSets(p) PROVE SnapAt(p)'
  BY <1>1, <1>4, <1>a DEF ClearSets, HistType
<1>5. ASSUME NEW here, NEW passed, NEW next, next \notin {"idle", "beginId"},
             ReadTest(p, here, passed, next)
      PROVE  SnapAt(p)'
  BY <1>5, <1>4, TestOutcome, SnapKept DEF tx
<1>6. CASE ReadMax2(p)
  <2>1. CASE ~ NotNewer(p)
    BY <1>6, <1>4, <2>1 DEF ReadMax2, addReadSet
  <2>2. CASE NotNewer(p)
    <3> PICK w \in Word : w = word[p]
      BY DEF TypeInv, TypeOK, ReadType
    <3> PICK t \in Nat : t = rv[p]
      BY DEF TypeInv, TypeOK, TxType
    <3> PICK v : v = buf[p]
      OBVIOUS
    <3>1. /\ pc[p] = "rdMax2" /\ pc'[p] = "run" /\ UNCHANGED rv
          /\ snap' = IF FromWriteSet(p) THEN snap
                     ELSE [snap EXCEPT ![p] = @ \cup {[word |-> w, val |-> v]}]
      BY <1>6, <2>2, <1>a DEF ReadMax2, addReadSet, TxType
    <3>2. CASE FromWriteSet(p)
      BY <3>1, <3>2, SnapKept
    <3>3. CASE ~ FromWriteSet(p)
      <4>1. NoneOlder(p, w) /\ ValueAt(w, t, v)
        BY <3>1, <3>3 DEF ReadInv, ReaderAt
      <4>2. NoneOlder(p, w)' /\ ValueAt(w, t, v)'
        BY <3>1, <4>1, NoneOlderKept, ValueKept
      <4>3. snap'[p] = snap[p] \cup {[word |-> w, val |-> v]}
        BY <3>1, <3>3, <1>a DEF HistType
      <4>4. ASSUME NEW x \in snap[p] PROVE NoneOlder(p, x.word)' /\ ValueAt(x.word, t, x.val)'
        <5>1. x.word \in Word
          BY <1>a DEF HistType, WriteNode
        <5>2. NoneOlder(p, x.word) /\ ValueAt(x.word, t, x.val)
          BY <1>a DEF SnapAt
        <5> QED BY <5>1, <5>2, <3>1, NoneOlderKept, ValueKept
      <4>5. \A x \in snap'[p] : NoneOlder(p, x.word)' /\ ValueAt(x.word, t, x.val)'
        BY <4>2, <4>3, <4>4
      <4> QED BY <3>1, <4>5 DEF SnapAt, NoneOlder, ValueAt
    <3> QED BY <3>2, <3>3
  <2> QED BY <2>1, <2>2
\* Everything else leaves the reads and the version they are made at.
<1>7. ASSUME UNCHANGED <<snap, rv>>, pc'[p] \notin {"idle", "beginId"} PROVE SnapAt(p)'
  BY <1>7, SnapKept
<1>8. CASE \/ \E u \in Word : ReadSample(p, u)
           \/ \E u \in Word, y \in Value : Write(p, u, y)
           \/ GetLocks(p) \/ ReadCopy(p)
  <2>1. UNCHANGED <<snap, rv>>
    BY <1>8 DEF ReadSample, Write, addWriteSet, GetLocks, ReadCopy, tx
  <2>2. pc'[p] \notin {"idle", "beginId"}
    BY <1>8, <1>a DEF ReadSample, Write, addWriteSet, GetLocks, ReadCopy, TxType
  <2> QED BY <2>1, <2>2, <1>7
<1>9. CASE \/ Acquire(p) \/ SetHolder(p) \/ Stamp(p) \/ ValidateVer(p) \/ ValidateLock(p)
           \/ Validated(p)
  <2>1. UNCHANGED <<snap, rv>>
    BY <1>9 DEF Acquire, SetHolder, Stamp, ValidateVer, ValidateLock, Validated, tx
  <2>2. CASE Acquire(p)
    BY <2>1, <2>2, <1>7, <1>a DEF Acquire, TxType
  <2>3. CASE SetHolder(p) \/ Stamp(p) \/ Validated(p)
    BY <2>1, <2>3, <1>7, <1>a DEF SetHolder, Stamp, Validated, TxType
  <2>4. CASE ValidateVer(p) \/ ValidateLock(p)
    BY <2>1, <2>4, <1>7, <1>a DEF ValidateVer, ValidateLock, StartRelease, TxType
  <2> QED BY <1>9, <2>2, <2>3, <2>4
<1>10. CASE \/ WriteBackVer(p) \/ WriteBackCopy(p) \/ WrittenBack(p) \/ ReleaseTest(p)
            \/ ReleaseHolder(p) \/ ReleaseMutex(p)
  <2>1. UNCHANGED <<snap, rv>>
    BY <1>10 DEF WriteBackVer, WriteBackCopy, WrittenBack, ReleaseTest, ReleaseHolder,
                 ReleaseMutex, tx
  <2>2. CASE WriteBackVer(p) \/ WriteBackCopy(p) \/ WrittenBack(p)
    BY <2>1, <2>2, <1>7, <1>a DEF WriteBackVer, WriteBackCopy, WrittenBack, StartRelease, TxType
  <2>3. CASE ReleaseTest(p)
    BY <2>1, <2>3, <1>7, <1>a DEF ReleaseTest, TxType
  <2>4. CASE ReleaseHolder(p) \/ ReleaseMutex(p)
    BY <2>1, <2>4, <1>7, <1>a DEF ReleaseHolder, ReleaseMutex, TxType
  <2> QED BY <1>10, <2>2, <2>3, <2>4
<1>11. CASE EndReadOnly(p) \/ EndReturn(p)
  BY <1>11, <1>4 DEF EndReadOnly, EndReturn
<1>12. CASE ReadVer(p) \/ ReadLock(p) \/ ReadMax(p) \/ ReadVer2(p) \/ ReadLock2(p)
  BY <1>12, <1>5 DEF ReadVer, ReadLock, ReadMax, ReadVer2, ReadLock2
<1> QED
  BY <1>2, <1>3, <1>6, <1>8, <1>9, <1>10, <1>11, <1>12 DEF Step, Call, InCall

LEMMA ReadInit == Init => ReadInv
  BY DEF Init, ReadInv, ReaderAt, SnapAt, At

LEMMA ReadStutter == ReadInv /\ UNCHANGED vars => ReadInv'
<1> SUFFICES ASSUME ReadInv, UNCHANGED vars PROVE ReadInv'
  OBVIOUS
<1> USE DEF vars, locks, tx, rdVars, endVars
<1>1. ASSUME NEW p \in Thread PROVE ReaderAt(p)'
  <2>1. ReaderAt(p) /\ FromWriteSet(p)' = FromWriteSet(p)
    BY DEF ReadInv, FromWriteSet, Buffers
  <2>2. \A w : /\ NoneOlder(p, w)' = NoneOlder(p, w)
              /\ \A q \in Thread : Copying(q, w)' = Copying(q, w)
    BY DEF NoneOlder, Copying, Committing, WritesWord, NLocks, At
  <2>3. \A w, t, v : ValueAt(w, t, v)' = ValueAt(w, t, v)
    BY DEF ValueAt
  <2>4. UNCHANGED <<pc, word, sampled, buf, rv, version>>
    OBVIOUS
  <2> QED BY <2>1, <2>2, <2>3, <2>4 DEF ReaderAt, At
<1>2. ASSUME NEW p \in Thread PROVE SnapAt(p)'
  BY DEF ReadInv, SnapAt, NoneOlder, Committing, WritesWord, NLocks, ValueAt
<1> QED BY <1>1, <1>2 DEF ReadInv

LEMMA ReadNext == TypeInv /\ LockInv /\ VersionInv /\ ReadInv /\ [Next]_vars => ReadInv'
<1> SUFFICES ASSUME TypeInv, LockInv, VersionInv, ReadInv, [Next]_vars PROVE ReadInv'
  OBVIOUS
<1>1. ASSUME NEW p \in Thread, Step(p), NEW r \in Thread PROVE ReaderAt(r)' /\ SnapAt(r)'
  <2>1. CASE r = p
    BY <1>1, <2>1, ReaderOwn, SnapOwn
  <2>2. CASE r # p
    <3>1. rv'[r] = rv[r] /\ snap'[r] = snap[r] /\ pc'[r] = pc[r]
      BY <1>1, <2>2, OthersSame DEF TypeInv, Same
    <3>2. pc'[r] \in {"idle", "beginId"} => snap[r] = {}
      BY <3>1 DEF ReadInv, SnapAt
    <3> QED BY <1>1, <2>2, <3>1, <3>2, ReaderOthers, SnapKept
  <2> QED BY <2>1, <2>2
<1> QED BY <1>1, ReadStutter DEF ReadInv, Next, Step

\* Locks, versions and readers in every reachable state of every instance.
THEOREM CoreInvariant == Spec => []CoreInv
<1>1. Init => CoreInv
  BY TypeInvInit, LockInit, VersionInit, ReadInit DEF CoreInv
<1>2. CoreInv /\ [Next]_vars => CoreInv'
  BY TypeInvNext, LockNext, VersionNext, ReadNext DEF CoreInv
<1> QED BY <1>1, <1>2, PTL DEF Spec

\* Opacity of tm_read: whatever a transaction has read, even one that will
\* abort, is the memory as of the version it began with.
THEOREM ReadsAreSnapshots == Spec => []SnapshotReads
<1>1. CoreInv => SnapshotReads
  BY DEF CoreInv, ReadInv, SnapAt, SnapshotReads
<1> QED BY <1>1, CoreInvariant, PTL
-----------------------------------------------------------------------------
-----------------------------------------------------------------------------
(* The lists of a transaction.                                              *)

LEMMA ListInit == Init => ListInv
  BY DEF Init, ListInv, OneNodePerWord, ReadsListed, LocksForWriters, Landed, NLocks, Committing

\* The history only grows.
LEMMA HistoryGrows ==
    ASSUME TypeInv, LockInv, VersionInv, NEW p \in Thread, Step(p), NEW w \in Word
    PROVE  hist[w] \subseteq hist'[w]
  BY HistoryStep

LEMMA ListOthers ==
    ASSUME CoreInv, ListInv, NEW p \in Thread, Step(p), NEW r \in Thread, r # p
    PROVE  OneNodePerWord(r)' /\ ReadsListed(r)' /\ LocksForWriters(r)' /\ Landed(r)'
<1>a. Same(r)
  BY OthersSame DEF CoreInv, TypeInv
<1>b. OneNodePerWord(r) /\ ReadsListed(r) /\ LocksForWriters(r) /\ Landed(r)
  BY DEF ListInv
<1>1. OneNodePerWord(r)' /\ ReadsListed(r)' /\ LocksForWriters(r)'
  BY <1>a, <1>b DEF Same, OneNodePerWord, ReadsListed, LocksForWriters, NLocks, Committing
<1>2. Landed(r)'
  <2> SUFFICES ASSUME pc[r] \in {"wbVer", "wbCopy"}, NEW j \in 1 .. NLocks(r), Reached(r, j)'
               PROVE  [ver |-> newVersion[r], val |-> writeSet[r][j].val]
                         \in hist'[writeSet[r][j].word]
    BY <1>a DEF Same, Landed, NLocks
  <2>1. Reached(r, j)
    BY <1>a DEF Same, Reached, At
  <2>2. writeSet[r][j].word \in Word
    BY NodeType DEF CoreInv, TypeInv, TypeOK
  <2> QED BY <1>b, <2>1, <2>2, HistoryGrows DEF Landed, CoreInv
<1> QED BY <1>1, <1>2

\* The steps that leave the lists alone, outside the write-back.
LEMMA ListQuiet ==
    ASSUME CoreInv, ListInv, NEW p \in Thread, Step(p), UNCHANGED <<writeSet, isReadOnly, readSet, snap>>,
           pc'[p] \notin {"wbVer", "wbCopy"},
           pc'[p] \in {"acquire", "setHolder"} \/ Committing(p)' =>
              ~ isReadOnly[p] \/ pc[p] \in {"acquire", "setHolder"} \/ Committing(p)
    PROVE  OneNodePerWord(p)' /\ ReadsListed(p)' /\ LocksForWriters(p)' /\ Landed(p)'
<1>b. OneNodePerWord(p) /\ ReadsListed(p) /\ LocksForWriters(p)
  BY DEF ListInv
<1> QED BY <1>b DEF OneNodePerWord, ReadsListed, LocksForWriters, Landed, NLocks

LEMMA ListOwn ==
    ASSUME CoreInv, ListInv, NEW p \in Thread, Step(p)
    PROVE  OneNodePerWord(p)' /\ ReadsListed(p)' /\ LocksForWriters(p)' /\ Landed(p)'
<1> USE DEF Goto, At, tx
<1>a. TypeOK /\ TxType /\ EndType /\ HistType /\ TypeInv /\ LockInv /\ VersionInv /\ ReadInv /\ IndexAt(p)
  BY DEF CoreInv, TypeInv, TypeOK
<1>b. OneNodePerWord(p) /\ ReadsListed(p) /\ LocksForWriters(p) /\ Landed(p)
  BY DEF ListInv
<1>c. k[p] \in Nat /\ NLocks(p) \in Nat /\ Len(readSet[p]) \in Nat
  BY <1>a, ListLengths DEF EndType
<1>d. readSet[p] \in Seq(Word) /\ writeSet[p] \in Seq(WriteNode)
  BY <1>a DEF TxType
<1>1. ASSUME ClearSets(p)
      PROVE  OneNodePerWord(p)' /\ ReadsListed(p)' /\ LocksForWriters(p)' /\ Landed(p)'
  <2>1. pc'[p] = "idle" /\ writeSet'[p] = <<>> /\ snap'[p] = {}
    BY <1>1, <1>a DEF ClearSets, TxType, HistType
  <2> QED BY <2>1 DEF OneNodePerWord, ReadsListed, LocksForWriters, Landed, NLocks, Committing
<1>2. ASSUME NEW ro \in BOOLEAN, BeginVersion(p, ro)
      PROVE  OneNodePerWord(p)' /\ ReadsListed(p)' /\ LocksForWriters(p)' /\ Landed(p)'
  <2>1. pc'[p] = "beginId" /\ UNCHANGED <<writeSet, snap>> /\ snap[p] = {}
    BY <1>2, <1>a DEF BeginVersion, TxType, ReadInv, SnapAt
  <2> QED BY <2>1, <1>b DEF OneNodePerWord, ReadsListed, LocksForWriters, Landed, NLocks, Committing
<1>3. CASE BeginId(p) \/ ReadCopy(p) \/ \E u \in Word : ReadSample(p, u)
  <2>1. /\ UNCHANGED <<writeSet, isReadOnly, readSet, snap>>
        /\ pc'[p] \in {"run", "rdVer2", "rdVer"}
    BY <1>3, <1>a DEF BeginId, ReadCopy, ReadSample, TxType
  <2> QED BY <2>1, ListQuiet DEF Committing
<1>4. ASSUME NEW here, NEW passed, NEW next \in Reading, ReadTest(p, here, passed, next)
      PROVE  OneNodePerWord(p)' /\ ReadsListed(p)' /\ LocksForWriters(p)' /\ Landed(p)'
  <2>1. CASE UNCHANGED tx /\ pc'[p] = next
    BY <2>1, <1>4, ListQuiet DEF Committing, Reading
  <2> QED BY <1>1, <1>4, <1>a, <2>1, TestOutcome
<1>5. CASE ReadMax2(p)
  <2>1. CASE ~ NotNewer(p)
    BY <1>1, <1>5, <2>1 DEF ReadMax2, addReadSet
  <2>2. CASE NotNewer(p)
    <3>1. /\ pc'[p] = "run" /\ UNCHANGED <<writeSet, isReadOnly>>
          /\ readSet'[p] = IF isReadOnly[p] THEN readSet[p] ELSE Append(readSet[p], word[p])
          /\ snap'[p] \subseteq snap[p] \cup {[word |-> word[p], val |-> buf[p]]}
      BY <1>5, <2>2, <1>a DEF ReadMax2, addReadSet, TxType, HistType
    <3>2. ReadsListed(p)'
      <4> SUFFICES ASSUME ~ isReadOnly[p], NEW x \in snap'[p]
                   PROVE  \E i \in 1 .. Len(readSet'[p]) : readSet'[p][i] = x.word
        BY <3>1 DEF ReadsListed
      <4>1. readSet'[p] = Append(readSet[p], word[p]) /\ word[p] \in Word
        BY <3>1, <1>a DEF TypeOK, ReadType
      <4>2. /\ Len(readSet'[p]) = Len(readSet[p]) + 1
            /\ \A i \in 1 .. Len(readSet[p]) : readSet'[p][i] = readSet[p][i]
            /\ readSet'[p][Len(readSet[p]) + 1] = word[p]
        BY <4>1, <1>d, AppendProperties
      <4>3. CASE x \in snap[p]
        <5>1. PICK i \in 1 .. Len(readSet[p]) : readSet[p][i] = x.word
          BY <4>3, <1>b DEF ReadsListed
        <5> QED BY <5>1, <4>2, <1>c
      <4>4. CASE x.word = word[p]
        BY <4>2, <4>4, <1>c
      <4> QED BY <3>1, <4>3, <4>4
    <3> QED BY <3>1, <3>2, <1>b DEF OneNodePerWord, LocksForWriters, Landed, NLocks, Committing
  <2> QED BY <2>1, <2>2
<1>6. ASSUME NEW w \in Word, NEW v \in Value, Write(p, w, v)
      PROVE  OneNodePerWord(p)' /\ ReadsListed(p)' /\ LocksForWriters(p)' /\ Landed(p)'
  <2> DEFINE x == [word |-> w, val |-> v]
  <2>1. pc'[p] = "run" /\ UNCHANGED <<isReadOnly, readSet, snap>>
    BY <1>6 DEF Write, addWriteSet
  <2>2. OneNodePerWord(p)'
    <3>0. x \in WriteNode /\ x.word = w
      BY DEF WriteNode
    <3>1. CASE Buffers(p, w)
      <4>1. /\ NodeOf(p, w) \in 1 .. NLocks(p) /\ writeSet[p][NodeOf(p, w)].word = w
            /\ writeSet'[p] = [writeSet[p] EXCEPT ![NodeOf(p, w)] = x]
        BY <3>1, <1>6, <1>a, NodeOfIndex DEF Write, addWriteSet, TxType, NLocks
      <4> HIDE DEF x
      <4>2. /\ Len(writeSet'[p]) = NLocks(p)
            /\ \A i \in 1 .. NLocks(p) : writeSet'[p][i] = IF i = NodeOf(p, w) THEN x ELSE writeSet[p][i]
        BY <4>1, <1>d, ExceptSeq DEF NLocks
      <4>3. \A i \in 1 .. NLocks(p) : writeSet'[p][i].word = writeSet[p][i].word
        BY <4>1, <4>2, <3>0
      <4> QED BY <4>2, <4>3, <1>b DEF OneNodePerWord, NLocks
    <3>2. CASE ~ Buffers(p, w)
      <4>1. writeSet'[p] = Append(writeSet[p], x)
        BY <3>2, <1>6, <1>a DEF Write, addWriteSet, TxType
      <4> HIDE DEF x
      <4>2. /\ Len(writeSet'[p]) = NLocks(p) + 1 /\ writeSet'[p][NLocks(p) + 1] = x
            /\ \A i \in 1 .. NLocks(p) : writeSet'[p][i] = writeSet[p][i]
        BY <4>1, <3>0, <1>d, AppendProperties DEF NLocks
      <4>3. \A i \in 1 .. NLocks(p) : writeSet[p][i].word # w
        BY <3>2 DEF Buffers, NLocks
      <4>4. \A i \in 1 .. NLocks(p) + 1 : i \in 1 .. NLocks(p) \/ i = NLocks(p) + 1
        BY <1>c
      <4> QED BY <4>2, <4>3, <4>4, <3>0, <1>b DEF OneNodePerWord, NLocks
    <3> QED BY <3>1, <3>2
  <2> QED BY <2>1, <2>2, <1>b DEF ReadsListed, LocksForWriters, Landed, Committing
<1>7. CASE GetLocks(p)
  <2>1. /\ UNCHANGED <<writeSet, isReadOnly, readSet, snap>> /\ ~ isReadOnly[p]
        /\ pc'[p] \in {"acquire", "segv"}
    BY <1>7, <1>a DEF GetLocks, TxType
  <2> QED BY <2>1, ListQuiet
<1>8. CASE Acquire(p) \/ SetHolder(p)
  <2>1. CASE Acquire(p)
    BY <2>1, <1>a, ListQuiet DEF Acquire, TxType, Committing
  <2>2. CASE SetHolder(p)
    BY <2>2, <1>a, ListQuiet DEF SetHolder, TxType, Committing
  <2> QED BY <1>8, <2>1, <2>2
<1>9. CASE Stamp(p)
  <2>1. /\ UNCHANGED <<writeSet, isReadOnly, readSet, snap>> /\ pc[p] = "acquire" /\ k'[p] = 1
        /\ pc'[p] \in {"valVer", "wbVer"}
    BY <1>9, <1>a DEF Stamp, TxType, EndType
  <2>2. Landed(p)'
    BY <2>1, <1>c DEF Landed, Reached, NLocks
  <2> QED BY <2>1, <2>2, <1>b DEF OneNodePerWord, ReadsListed, LocksForWriters, NLocks, Committing
<1>10. CASE ValidateVer(p) \/ ValidateLock(p)
  BY <1>10, <1>a, ListQuiet DEF ValidateVer, ValidateLock, StartRelease, TxType, Committing
<1>11. CASE Validated(p)
  <2>1. /\ UNCHANGED <<writeSet, isReadOnly, readSet, snap>> /\ pc[p] = "valVer" /\ k'[p] = 1
        /\ pc'[p] = "wbVer"
    BY <1>11, <1>a DEF Validated, TxType, EndType
  <2>2. Landed(p)'
    BY <2>1, <1>c DEF Landed, Reached, NLocks
  <2> QED BY <2>1, <2>2, <1>b DEF OneNodePerWord, ReadsListed, LocksForWriters, NLocks, Committing
<1>12. CASE WriteBackVer(p)
  <2>1. /\ UNCHANGED <<writeSet, isReadOnly, readSet, snap, newVersion, k>> /\ pc[p] = "wbVer"
        /\ pc'[p] = "wbCopy" /\ k[p] \in 1 .. NLocks(p)
        /\ hist' = [hist EXCEPT ![writeSet[p][k[p]].word] = @ \cup
                       {[ver |-> newVersion[p], val |-> writeSet[p][k[p]].val]}]
    BY <1>12, <1>a, <1>c DEF WriteBackVer, InstalledVersion, TxType, endVars, IndexAt
  <2>2. Landed(p)'
    <3> SUFFICES ASSUME NEW j \in 1 .. NLocks(p), j <= k[p]
                 PROVE  [ver |-> newVersion[p], val |-> writeSet[p][j].val]
                           \in hist'[writeSet[p][j].word]
      BY <2>1 DEF Landed, Reached, NLocks
    <3>1. writeSet[p][j].word \in Word
      BY <1>a, NodeType
    <3>2. CASE j = k[p]
      BY <2>1, <3>1, <3>2, <1>a DEF HistType
    <3>3. CASE j < k[p]
      <4>1. [ver |-> newVersion[p], val |-> writeSet[p][j].val] \in hist[writeSet[p][j].word]
        BY <2>1, <3>3, <1>b DEF Landed, Reached
      <4> QED BY <4>1, <3>1, <1>a, HistoryGrows
    <3> QED BY <3>2, <3>3, <1>c
  <2> QED BY <2>1, <2>2, <1>b DEF OneNodePerWord, ReadsListed, LocksForWriters, NLocks, Committing
<1>13. CASE WriteBackCopy(p)
  <2>1. /\ UNCHANGED <<writeSet, isReadOnly, readSet, snap, newVersion, hist>> /\ pc[p] = "wbCopy"
        /\ pc'[p] = "wbVer" /\ k'[p] = k[p] + 1
    BY <1>13, <1>a DEF WriteBackCopy, TxType, EndType
  <2>2. Landed(p)'
    <3> SUFFICES ASSUME NEW j \in 1 .. NLocks(p), j < k[p] + 1
                 PROVE  [ver |-> newVersion[p], val |-> writeSet[p][j].val]
                           \in hist[writeSet[p][j].word]
      BY <2>1 DEF Landed, Reached, NLocks
    <3> QED BY <2>1, <1>b, <1>c DEF Landed, Reached
  <2> QED BY <2>1, <2>2, <1>b DEF OneNodePerWord, ReadsListed, LocksForWriters, NLocks, Committing
<1>14. CASE WrittenBack(p)
  BY <1>14, <1>a, ListQuiet DEF WrittenBack, StartRelease, TxType, Committing
<1>15. CASE ReleaseTest(p) \/ ReleaseHolder(p) \/ ReleaseMutex(p)
  <2>1. /\ UNCHANGED <<writeSet, isReadOnly, readSet, snap>>
        /\ pc'[p] \in {"release", "relHolder", "relMutex"}
    <3>1. CASE ReleaseTest(p)
      BY <3>1, <1>a DEF ReleaseTest, TxType
    <3>2. CASE ReleaseHolder(p) \/ ReleaseMutex(p)
      BY <3>2, <1>a DEF ReleaseHolder, ReleaseMutex, TxType
    <3> QED BY <1>15, <3>1, <3>2
  <2> QED BY <2>1, ListQuiet DEF Committing
<1>16. CASE EndReadOnly(p) \/ EndReturn(p)
  BY <1>16, <1>1 DEF EndReadOnly, EndReturn
<1>17. CASE ReadVer(p) \/ ReadLock(p) \/ ReadMax(p) \/ ReadVer2(p) \/ ReadLock2(p)
  BY <1>17, <1>4 DEF ReadVer, ReadLock, ReadMax, ReadVer2, ReadLock2, Reading
<1> QED
  BY <1>2, <1>3, <1>5, <1>6, <1>7, <1>8, <1>9, <1>10, <1>11, <1>12, <1>13, <1>14, <1>15, <1>16,
     <1>17 DEF Step, Call, InCall

LEMMA ListNext == CoreInv /\ ListInv /\ [Next]_vars => ListInv'
<1> SUFFICES ASSUME CoreInv, ListInv, [Next]_vars PROVE ListInv'
  OBVIOUS
<1>1. ASSUME NEW p \in Thread, Step(p) PROVE ListInv'
  BY <1>1, ListOwn, ListOthers DEF ListInv
<1>2. CASE UNCHANGED vars
  BY <1>2 DEF ListInv, OneNodePerWord, ReadsListed, LocksForWriters, Landed, NLocks, Committing,
              Reached, At, vars, tx, endVars
<1> QED BY <1>1, <1>2 DEF Next, Step

\* The whole invariant TLC checks on small instances, for every instance.
THEOREM Invariant == Spec => []IInv
<1>1. Init => CoreInv /\ ListInv
  BY TypeInvInit, LockInit, VersionInit, ReadInit, ListInit DEF CoreInv
<1>2. CoreInv /\ ListInv /\ [Next]_vars => CoreInv' /\ ListInv'
  BY TypeInvNext, LockNext, VersionNext, ReadNext, ListNext DEF CoreInv
<1> QED BY <1>1, <1>2, PTL DEF Spec, IInv
-----------------------------------------------------------------------------
(* The mapping.  What a write-back under way still has to install, and what *)
(* a step leaves alone of it.                                               *)

Lands(q, w, r) == WritingBack(q) /\ \E j \in 1 .. NLocks(q) :
    writeSet[q][j].word = w /\ r = [ver |-> newVersion[q], val |-> writeSet[q][j].val]

LEMMA LandingIs == \A w, r : r \in Landing(w) <=> \E q \in Thread : Lands(q, w, r)
  BY DEF Landing, Lands, Nodes

LEMMA LandingIsNext == \A w, r : r \in Landing(w)' <=> \E q \in Thread : Lands(q, w, r)'
  BY DEF Landing, Lands, Nodes

LEMMA OthersMap ==
    ASSUME CoreInv, NEW p \in Thread, Step(p), NEW r \in Thread, r # p
    PROVE  /\ StatusOf(r)' = StatusOf(r) /\ Nodes(r)' = Nodes(r)
           /\ \A w, x : Lands(r, w, x)' <=> Lands(r, w, x)
<1>1. Same(r)
  BY OthersSame DEF CoreInv, TypeInv
<1> QED BY <1>1 DEF Same, StatusOf, Nodes, Lands, WritingBack, At, NLocks

\* The store after a step that leaves the history alone.
LEMMA StoreOf ==
    ASSUME CoreInv, NEW p \in Thread, Step(p), NEW w \in Word, NEW r
    PROVE  r \in Store'[w] <=> \/ r \in hist'[w] \/ Lands(p, w, r)'
                              \/ \E q \in Thread \ {p} : Lands(q, w, r)
<1>1. r \in Store'[w] <=> r \in hist'[w] \/ \E q \in Thread : Lands(q, w, r)'
  BY LandingIsNext DEF Store
<1> QED BY <1>1, OthersMap

LEMMA StoreWas ==
    ASSUME NEW p \in Thread, NEW w \in Word, NEW r
    PROVE  r \in Store[w] <=> \/ r \in hist[w] \/ Lands(p, w, r)
                             \/ \E q \in Thread \ {p} : Lands(q, w, r)
  BY LandingIs DEF Store

LEMMA SameStore ==
    ASSUME CoreInv, NEW p \in Thread, Step(p),
           \A w \in Word : \A r : r \in hist'[w] \/ Lands(p, w, r)' <=> r \in hist[w] \/ Lands(p, w, r)
    PROVE  Store' = Store
<1>1. \A w \in Word : \A r : r \in Store'[w] <=> r \in Store[w]
  BY StoreOf, StoreWas
<1>2. \A w \in Word : Store'[w] = Store[w]
  BY <1>1
<1> QED BY <1>2 DEF Store

\* Outside the write-back a step leaves the store alone.
LEMMA QuietStore ==
    ASSUME CoreInv, NEW p \in Thread, Step(p), hist' = hist, ~ WritingBack(p), ~ WritingBack(p)'
    PROVE  Store' = Store
  BY SameStore DEF Lands

LEMMA OwnStatus ==
    ASSUME CoreInv, NEW p \in Thread, Step(p)
    PROVE  Status' = [Status EXCEPT ![p] = StatusOf(p)']
  BY OthersMap DEF Status

LEMMA OwnPending ==
    ASSUME CoreInv, NEW p \in Thread, Step(p)
    PROVE  Pending' = [Pending EXCEPT ![p] = Nodes(p)']
  BY OthersMap DEF Pending

\* A step the clients do not see.
LEMMA Stutters ==
    ASSUME CoreInv, NEW p \in Thread, Step(p), Store' = Store, StatusOf(p)' = StatusOf(p),
           UNCHANGED <<globalVersion, rv, snap, writeSet>>
    PROVE  UNCHANGED Abstract!avars
<1>1. Nodes(p)' = Nodes(p)
  BY DEF Nodes, NLocks
<1>2. Status' = Status /\ Pending' = Pending
  BY <1>1, OwnStatus, OwnPending DEF Status, Pending
<1> QED BY <1>2 DEF Abstract!avars
-----------------------------------------------------------------------------
(* The steps, one lemma per abstract operation.                             *)

\* The steps of a call that only this thread, or only the locks, can tell.
LEMMA HiddenSteps ==
    ASSUME CoreInv, NEW p \in Thread,
           \/ BeginId(p) \/ (\E w \in Word : ReadSample(p, w)) \/ ReadCopy(p) \/ GetLocks(p)
           \/ Acquire(p) \/ SetHolder(p) \/ ValidateVer(p) \/ ValidateLock(p)
           \/ ReleaseTest(p) \/ ReleaseHolder(p) \/ ReleaseMutex(p)
    PROVE  UNCHANGED Abstract!avars
<1> USE DEF Goto, At, tx, endVars, StatusOf, WritingBack
<1>s. Step(p)
  BY DEF Step, Call, InCall
<1>a. TxType /\ EndType
  BY DEF CoreInv, TypeInv, TypeOK
<1> SUFFICES /\ hist' = hist /\ ~ WritingBack(p) /\ ~ WritingBack(p)'
             /\ StatusOf(p)' = StatusOf(p) /\ UNCHANGED <<globalVersion, rv, snap, writeSet>>
  BY <1>s, QuietStore, Stutters DEF CoreInv
<1>1. CASE BeginId(p) \/ ReadCopy(p) \/ \E w \in Word : ReadSample(p, w)
  BY <1>1, <1>a DEF BeginId, ReadCopy, ReadSample, TxType
<1>2. CASE GetLocks(p)
  BY <1>2, <1>a DEF GetLocks, TxType
<1>3. CASE Acquire(p)
  BY <1>3, <1>a DEF Acquire, TxType, EndType
<1>4. CASE SetHolder(p)
  BY <1>4, <1>a DEF SetHolder, TxType, EndType
<1>5. CASE ValidateVer(p) \/ ValidateLock(p)
  BY <1>5, <1>a DEF ValidateVer, ValidateLock, StartRelease, TxType, EndType
<1>6. CASE ReleaseTest(p)
  BY <1>6, <1>a DEF ReleaseTest, TxType, EndType
<1>7. CASE ReleaseHolder(p) \/ ReleaseMutex(p)
  BY <1>7, <1>a DEF ReleaseHolder, ReleaseMutex, TxType, EndType
<1> QED BY <1>1, <1>2, <1>3, <1>4, <1>5, <1>6, <1>7

LEMMA BeginsAbstract ==
    ASSUME CoreInv, NEW p \in Thread, NEW ro \in BOOLEAN, BeginVersion(p, ro)
    PROVE  Abstract!ABegin(p)
<1>s. Step(p)
  BY DEF Step, Call
<1>a. TxType
  BY DEF CoreInv, TypeInv, TypeOK
<1>1. /\ pc[p] = "idle" /\ pc'[p] = "beginId" /\ hist' = hist
      /\ rv' = [rv EXCEPT ![p] = globalVersion] /\ UNCHANGED <<globalVersion, snap, writeSet>>
  BY <1>a DEF BeginVersion, At, Goto, TxType
<1>2. Store' = Store
  BY <1>1, <1>s, QuietStore DEF WritingBack
<1>3. Pending' = Pending
  BY <1>1, <1>s, OwnPending DEF Pending, Nodes, NLocks
<1>4. StatusOf(p) = "out" /\ StatusOf(p)' = "in"
  BY <1>1 DEF StatusOf, At, WritingBack
<1>5. Status[p] = "out" /\ Status' = [Status EXCEPT ![p] = "in"]
  BY <1>4, <1>s, OwnStatus DEF Status
<1> QED BY <1>1, <1>2, <1>3, <1>5 DEF Abstract!ABegin

\* clearSets, on whichever path.
LEMMA EndsAbstract ==
    ASSUME CoreInv, NEW p \in Thread, Step(p), ClearSets(p), ~ WritingBack(p), pc[p] # "idle",
           UNCHANGED <<globalVersion, hist>>
    PROVE  Abstract!AEnd(p)
<1>a. TxType
  BY DEF CoreInv, TypeInv, TypeOK
<1>1. /\ pc'[p] = "idle" /\ writeSet'[p] = <<>>
      /\ rv' = [rv EXCEPT ![p] = 0] /\ snap' = [snap EXCEPT ![p] = {}]
  BY <1>a DEF ClearSets, Goto, TxType
<1>2. Store' = Store
  BY <1>1, QuietStore DEF WritingBack
<1>3. Nodes(p)' = {}
  BY <1>1 DEF Nodes, NLocks
<1>4. Pending' = [Pending EXCEPT ![p] = {}]
  BY <1>3, OwnPending
<1>5. StatusOf(p) \in {"in", "committed"} /\ StatusOf(p)' = "out"
  BY <1>1 DEF StatusOf, At
<1>6. Status[p] \in {"in", "committed"} /\ Status' = [Status EXCEPT ![p] = "out"]
  BY <1>5, OwnStatus DEF Status
<1> QED BY <1>1, <1>2, <1>4, <1>6 DEF Abstract!AEnd

LEMMA TestsAbstract ==
    ASSUME CoreInv, NEW p \in Thread, NEW here \in Reading, NEW passed, NEW next \in Reading,
           ReadTest(p, here, passed, next), Step(p)
    PROVE  Abstract!AEnd(p) \/ UNCHANGED Abstract!avars
<1>1. /\ pc[p] = here /\ UNCHANGED <<globalVersion, hist, ok>>
      /\ \/ ClearSets(p)
         \/ pc'[p] = next /\ UNCHANGED tx
  BY TestOutcome DEF ReadTest, CoreInv, endVars
<1>2. CASE ClearSets(p)
  BY <1>1, <1>2, EndsAbstract DEF WritingBack, Reading
<1>3. CASE pc'[p] = next /\ UNCHANGED tx
  <2>1. Store' = Store
    BY <1>1, <1>3, QuietStore DEF WritingBack, Reading
  <2>2. StatusOf(p)' = StatusOf(p)
    BY <1>1, <1>3 DEF StatusOf, WritingBack, Reading, At
  <2> QED BY <1>1, <1>3, <2>1, <2>2, Stutters DEF tx
<1> QED BY <1>1, <1>2, <1>3

\* The value a read returns is current at its snapshot in the abstract store
\* too: whatever lands there later has a greater version.
LEMMA CurrentIs ==
    ASSUME CoreInv, NEW p \in Thread, NEW w \in Word, NEW v, ValueAt(w, rv[p], v), NoneOlder(p, w)
    PROVE  Abstract!Current(w, rv[p], v)
<1>1. PICK r \in hist[w] : /\ r.val = v /\ r.ver <= rv[p]
                           /\ \A q \in hist[w] : q.ver <= rv[p] => q.ver <= r.ver
  BY DEF ValueAt
<1>2. r \in Store[w]
  BY <1>1 DEF Store
<1>3. ASSUME NEW q \in Store[w], q.ver <= rv[p] PROVE q \in hist[w]
  <2>1. CASE \E d \in Thread : Lands(d, w, q)
    <3>1. PICK d \in Thread : Lands(d, w, q)
      BY <2>1
    <3>2. Committing(d) /\ WritesWord(d, w) /\ q.ver = newVersion[d]
      BY <3>1 DEF Lands, WritingBack, Committing, WritesWord
    <3>3. newVersion[d] > rv[p]
      BY <3>2 DEF NoneOlder
    <3>4. newVersion[d] \in Nat /\ rv[p] \in Nat
      BY DEF CoreInv, TypeInv, TypeOK, EndType, TxType
    <3> QED BY <1>3, <3>2, <3>3, <3>4
  <2>2. q \in hist[w] \/ \E d \in Thread : Lands(d, w, q)
    BY LandingIs DEF Store
  <2> QED BY <2>1, <2>2
<1>4. \A q \in Store[w] : q.ver <= rv[p] => q.ver <= r.ver
  BY <1>1, <1>3
<1> QED BY <1>1, <1>2, <1>4 DEF Abstract!Current

LEMMA ReadsAbstract ==
    ASSUME CoreInv, NEW p \in Thread, ReadMax2(p)
    PROVE  \/ Abstract!AEnd(p) \/ UNCHANGED Abstract!avars
           \/ \E w \in Word, v \in Value : Abstract!ARead(p, w, v)
<1>s. Step(p)
  BY DEF Step, InCall
<1>a. TxType /\ ReadType /\ HistType
  BY DEF CoreInv, TypeInv, TypeOK
<1>b. pc[p] = "rdMax2" /\ UNCHANGED <<globalVersion, hist, ok>>
  BY DEF ReadMax2, addReadSet, At, endVars
<1>1. CASE ~ NotNewer(p)
  <2>1. ClearSets(p)
    BY <1>1 DEF ReadMax2, addReadSet
  <2> QED BY <1>s, <1>b, <2>1, EndsAbstract DEF WritingBack
<1>2. CASE NotNewer(p)
  <2>1. /\ pc'[p] = "run" /\ UNCHANGED <<rv, writeSet>>
        /\ snap' = IF FromWriteSet(p) THEN snap
                   ELSE [snap EXCEPT ![p] = @ \cup {[word |-> word[p], val |-> buf[p]]}]
    BY <1>2, <1>a DEF ReadMax2, addReadSet, Goto, TxType
  <2>2. Store' = Store
    BY <1>s, <1>b, <2>1, QuietStore DEF WritingBack
  <2>3. StatusOf(p) = "in" /\ StatusOf(p)' = "in"
    BY <1>b, <2>1 DEF StatusOf, WritingBack, At
  <2>4. CASE FromWriteSet(p)
    BY <1>s, <1>b, <2>1, <2>2, <2>3, <2>4, Stutters
  <2>5. CASE ~ FromWriteSet(p)
    <3>1. Status' = Status /\ Pending' = Pending /\ Status[p] = "in"
      <4>1. Nodes(p)' = Nodes(p)
        BY <2>1 DEF Nodes, NLocks
      <4>2. Pending' = Pending
        BY <1>s, <4>1, OwnPending DEF Pending
      <4> QED BY <1>s, <2>3, <4>2, OwnStatus DEF Status
    <3>2. PICK w \in Word, v \in Value : w = word[p] /\ v = buf[p]
      BY <1>a DEF ReadType
    <3>3. ValueAt(w, rv[p], v) /\ NoneOlder(p, w)
      BY <1>b, <2>5, <3>2 DEF CoreInv, ReadInv, ReaderAt, At
    <3>4. Abstract!Current(w, rv[p], v)
      BY <3>3, CurrentIs
    <3>5. Abstract!ARead(p, w, v)
      BY <1>b, <2>1, <2>2, <2>5, <3>1, <3>2, <3>4 DEF Abstract!ARead
    <3> QED BY <3>5
  <2> QED BY <2>4, <2>5
<1> QED BY <1>1, <1>2

LEMMA WritesAbstract ==
    ASSUME CoreInv, ListInv, NEW p \in Thread, NEW w \in Word, NEW v \in Value, Write(p, w, v)
    PROVE  Abstract!AWrite(p, w, v)
<1> DEFINE x == [word |-> w, val |-> v]
<1>s. Step(p)
  BY DEF Step, Call
<1>a. TxType
  BY DEF CoreInv, TypeInv, TypeOK
<1>b. OneNodePerWord(p) /\ NLocks(p) \in Nat /\ writeSet[p] \in Seq(WriteNode)
  BY <1>a, ListLengths DEF ListInv, TxType
<1>c. x \in WriteNode /\ x.word = w
  BY DEF WriteNode
<1>1. /\ pc[p] = "run" /\ pc'[p] = "run" /\ UNCHANGED <<globalVersion, hist, ok, rv, snap>>
  BY DEF Write, addWriteSet, At, endVars
<1>2. Store' = Store
  BY <1>1, <1>s, QuietStore DEF WritingBack
<1>3. StatusOf(p) = "in" /\ StatusOf(p)' = "in"
  BY <1>1 DEF StatusOf, WritingBack, At
<1>4. Status' = Status /\ Status[p] = "in"
  BY <1>s, <1>3, OwnStatus DEF Status
<1>5. Nodes(p)' = {y \in Nodes(p) : y.word # w} \cup {x}
  <2>1. CASE Buffers(p, w)
    <3> DEFINE i == NodeOf(p, w)
    <3>1. /\ i \in 1 .. NLocks(p) /\ writeSet[p][i].word = w
          /\ writeSet'[p] = [writeSet[p] EXCEPT ![i] = x]
      BY <2>1, <1>a, NodeOfIndex DEF Write, addWriteSet, TxType, NLocks
    <3> HIDE DEF x, i
    <3>2. /\ Len(writeSet'[p]) = NLocks(p)
          /\ \A j \in 1 .. NLocks(p) : writeSet'[p][j] = IF j = i THEN x ELSE writeSet[p][j]
      BY <3>1, <1>b, <1>c, ExceptSeq DEF NLocks
    <3>3. \A j \in 1 .. NLocks(p) : writeSet[p][j].word = w => j = i
      BY <3>1, <1>b DEF OneNodePerWord
    <3>4. Nodes(p)' = { writeSet'[p][j] : j \in 1 .. NLocks(p) }
      BY <3>2 DEF Nodes, NLocks
    <3>5. x \in Nodes(p)'
      BY <3>1, <3>2, <3>4
    <3>6. ASSUME NEW y \in Nodes(p), y.word # w PROVE y \in Nodes(p)'
      <4>1. PICK j \in 1 .. NLocks(p) : y = writeSet[p][j]
        BY <3>6 DEF Nodes
      <4>2. writeSet'[p][j] = y
        BY <3>1, <3>2, <3>6, <4>1
      <4> QED BY <3>4, <4>2
    <3>7. ASSUME NEW y \in Nodes(p)', y # x PROVE y \in Nodes(p) /\ y.word # w
      <4>1. PICK j \in 1 .. NLocks(p) : y = writeSet'[p][j]
        BY <3>4, <3>7
      <4>2. j # i /\ y = writeSet[p][j]
        BY <3>2, <3>7, <4>1
      <4> QED BY <3>3, <4>2 DEF Nodes
    <3> QED BY <3>5, <3>6, <3>7
  <2>2. CASE ~ Buffers(p, w)
    <3>1. writeSet'[p] = Append(writeSet[p], x)
      BY <2>2, <1>a DEF Write, addWriteSet, TxType
    <3> HIDE DEF x
    <3>2. /\ Len(writeSet'[p]) = NLocks(p) + 1 /\ writeSet'[p][NLocks(p) + 1] = x
          /\ \A j \in 1 .. NLocks(p) : writeSet'[p][j] = writeSet[p][j]
      BY <3>1, <1>b, <1>c, AppendProperties DEF NLocks
    <3>3. \A j \in 1 .. NLocks(p) : writeSet[p][j].word # w
      BY <2>2 DEF Buffers, NLocks
    <3>4. \A j : j \in 1 .. NLocks(p) + 1 <=> j \in 1 .. NLocks(p) \/ j = NLocks(p) + 1
      BY <1>b
    <3>5. Nodes(p)' = { writeSet'[p][j] : j \in 1 .. NLocks(p) + 1 }
      BY <3>2 DEF Nodes, NLocks
    <3>6. x \in Nodes(p)'
      BY <3>2, <3>4, <3>5
    <3>7. ASSUME NEW y \in Nodes(p), y.word # w PROVE y \in Nodes(p)'
      <4>1. PICK j \in 1 .. NLocks(p) : y = writeSet[p][j]
        BY <3>7 DEF Nodes
      <4> QED BY <3>2, <3>4, <3>5, <4>1
    <3>8. ASSUME NEW y \in Nodes(p)', y # x PROVE y \in Nodes(p) /\ y.word # w
      <4>1. PICK j \in 1 .. NLocks(p) + 1 : y = writeSet'[p][j]
        BY <3>5, <3>8
      <4>2. j \in 1 .. NLocks(p) /\ y = writeSet[p][j]
        BY <3>2, <3>4, <3>8, <4>1
      <4> QED BY <3>3, <4>2 DEF Nodes
    <3> QED BY <3>6, <3>7, <3>8
  <2> QED BY <2>1, <2>2
<1>6. Pending' = [Pending EXCEPT ![p] = {y \in @ : y.word # w} \cup {x}]
  BY <1>s, <1>5, OwnPending DEF Pending
<1> QED BY <1>1, <1>2, <1>4, <1>6 DEF Abstract!AWrite

\* Entering the write-back is the abstract commit, at version t.
LEMMA CommitsAt ==
    ASSUME CoreInv, NEW p \in Thread, Step(p), ~ WritingBack(p), WritingBack(p)',
           StatusOf(p) = "in", UNCHANGED <<hist, writeSet, rv, snap>>,
           globalVersion' \in {globalVersion, globalVersion + 1},
           NEW t \in 1 .. globalVersion', newVersion'[p] = t, rv[p] < t,
           \A x \in Nodes(p) : \A r \in Store[x.word] : r.ver < t,
           \A x \in Nodes(p) : \A d \in Thread : \A s \in snap[d] : s.word = x.word => rv[d] < t,
           \A x \in Nodes(p) : \A s \in snap[p] : s.word = x.word =>
               \A r \in Store[x.word] : r.ver <= rv[p]
    PROVE  Abstract!ACommit(p)
<1>1. Nodes(p)' = Nodes(p) /\ Pending[p] = Nodes(p)
  BY DEF Nodes, NLocks, Pending
<1>2. Pending' = Pending
  BY <1>1, OwnPending DEF Pending
<1>3. StatusOf(p)' = "committed"
  BY DEF StatusOf, WritingBack, At
<1>4. Status[p] = "in" /\ Status' = [Status EXCEPT ![p] = "committed"]
  BY <1>3, OwnStatus DEF Status
<1>5. ASSUME NEW a \in Word
      PROVE  Store'[a] = Store[a] \cup
                { [ver |-> t, val |-> x.val] : x \in {y \in Nodes(p) : y.word = a} }
  <2>1. \A r : Lands(p, a, r)' <=>
               \E x \in Nodes(p) : x.word = a /\ r = [ver |-> t, val |-> x.val]
    BY DEF Lands, Nodes, NLocks
  <2>2. \A r : ~ Lands(p, a, r)
    BY DEF Lands
  <2>3. \A r : r \in Store'[a] <=> \/ r \in Store[a]
                                  \/ \E x \in Nodes(p) : x.word = a /\ r = [ver |-> t, val |-> x.val]
    BY <2>1, <2>2, StoreOf, StoreWas
  <2> QED BY <2>3
<1>6. Store' = [a \in Word |-> Store[a] \cup
                   { [ver |-> t, val |-> x.val] : x \in {y \in Pending[p] : y.word = a} }]
  BY <1>1, <1>5 DEF Store
<1> QED BY <1>1, <1>2, <1>4, <1>6 DEF Abstract!ACommit

\* Every version in the abstract store has been drawn.
LEMMA StoreDrawn ==
    ASSUME CoreInv, NEW w \in Word, NEW r \in Store[w]
    PROVE  r.ver \in Nat /\ r.ver <= globalVersion
<1>a. RegionType /\ EndType /\ HistType /\ ClockInv /\ HistInv
  BY DEF CoreInv, TypeInv, TypeOK, VersionInv
<1>1. CASE r \in hist[w]
  <2>1. r \in Stored /\ r.ver <= version[LockOf(w)]
    BY <1>1, <1>a DEF HistType, HistInv
  <2>2. version[LockOf(w)] <= globalVersion /\ version[LockOf(w)] \in Nat /\ globalVersion \in Nat
    BY <1>a, LockOfWord DEF ClockInv, RegionType
  <2> QED BY <2>1, <2>2 DEF Stored
<1>2. CASE \E q \in Thread : Lands(q, w, r)
  BY <1>2, <1>a DEF Lands, WritingBack, ClockInv, Committing, EndType
<1> QED BY <1>1, <1>2, LandingIs DEF Store

\* The shortcut: the version drawn is the next after the snapshot.
LEMMA StampCommits ==
    ASSUME CoreInv, ListInv, NEW p \in Thread, Stamp(p)
    PROVE  Abstract!ATick \/ Abstract!ACommit(p)
<1>s. Step(p)
  BY DEF Step, InCall
<1>a. TxType /\ EndType /\ RegionType /\ HistType /\ ClockInv
  BY DEF CoreInv, TypeInv, TypeOK, VersionInv
<1>1. /\ pc[p] = "acquire" /\ globalVersion' = globalVersion + 1 /\ globalVersion \in Nat
      /\ newVersion'[p] = globalVersion + 1 /\ UNCHANGED <<hist, writeSet, rv, snap, ok>>
      /\ pc'[p] = IF MustValidate(p) THEN "valVer" ELSE "wbVer"
  BY <1>a DEF Stamp, At, Goto, TxType, EndType, RegionType, DrawnVersion, tx
<1>2. CASE MustValidate(p)
  <2>1. Store' = Store
    BY <1>1, <1>2, <1>s, QuietStore DEF WritingBack
  <2>2. StatusOf(p)' = StatusOf(p) /\ Nodes(p)' = Nodes(p)
    BY <1>1, <1>2 DEF StatusOf, WritingBack, At, Nodes, NLocks
  <2>3. Status' = Status /\ Pending' = Pending
    BY <2>2, <1>s, OwnStatus, OwnPending DEF Status, Pending
  <2> QED BY <1>1, <2>1, <2>3 DEF Abstract!ATick
<1>3. CASE ~ MustValidate(p)
  <2>1. ~ WritingBack(p) /\ WritingBack(p)' /\ StatusOf(p) = "in"
    BY <1>1, <1>3 DEF WritingBack, StatusOf, At
  <2>2. rv[p] = globalVersion
    BY <1>3, <1>a, <1>1 DEF MustValidate, TxType
  <2>3. \A d \in Thread : rv[d] < globalVersion + 1
    BY <1>a, <1>1 DEF ClockInv, TxType
  <2>4. \A x \in Nodes(p) : x.word \in Word
    BY <1>a, NodeType DEF Nodes
  <2>5. \A x \in Nodes(p) : \A r \in Store[x.word] : r.ver \in Nat /\ r.ver <= globalVersion
    BY <2>4, StoreDrawn
  <2>6. \A x \in Nodes(p) : \A r \in Store[x.word] : r.ver < globalVersion + 1
    BY <2>5, <1>1
  <2>7. globalVersion + 1 \in 1 .. globalVersion'
    BY <1>1
  <2> QED BY <1>s, <1>1, <2>1, <2>2, <2>3, <2>5, <2>6, <2>7, CommitsAt
<1> QED BY <1>2, <1>3

\* The validated commit: its version is already drawn, and still the greatest
\* on every word it writes.
LEMMA ValidatedCommits ==
    ASSUME CoreInv, ListInv, NEW p \in Thread, Validated(p)
    PROVE  Abstract!ACommit(p)
<1> DEFINE t == newVersion[p]
<1>s. Step(p)
  BY DEF Step, InCall
<1>a. TxType /\ EndType /\ RegionType /\ HistType /\ ClockInv /\ StampInv /\ HistInv /\ ValidInv
      /\ LockInv
  BY DEF CoreInv, TypeInv, TypeOK, VersionInv
<1>1. /\ pc[p] = "valVer" /\ k[p] > Len(readSet[p]) /\ pc'[p] = "wbVer"
      /\ UNCHANGED <<globalVersion, hist, writeSet, rv, snap, newVersion>>
  BY <1>a DEF Validated, At, Goto, TxType, tx
<1>2. ~ WritingBack(p) /\ WritingBack(p)' /\ StatusOf(p) = "in" /\ Committing(p)
  BY <1>1 DEF WritingBack, StatusOf, At, Committing
<1>3. rv[p] < t /\ t <= globalVersion /\ t \in Nat /\ rv[p] \in Nat /\ globalVersion \in Nat
  BY <1>2, <1>a DEF ClockInv, TxType, EndType, RegionType
<1>4. \A x \in Nodes(p) : x.word \in Word /\ WritesWord(p, x.word)
  BY <1>a, NodeType DEF Nodes, WritesWord
<1>5. ASSUME NEW x \in Nodes(p), NEW r \in Store[x.word] PROVE r \in hist[x.word] /\ r.ver < t /\ r.ver \in Nat
  <2>1. r \in hist[x.word]
    <3>1. ASSUME NEW q \in Thread, Lands(q, x.word, r) PROVE FALSE
      <4>1. WritingBack(q) /\ Committing(q) /\ WritesWord(q, x.word)
        BY <3>1 DEF Lands, WritingBack, Committing, WritesWord
      <4>2. p = q
        BY <1>2, <1>4, <4>1, <1>a, CommitWords
      <4> QED BY <4>1, <4>2, <1>2
    <3> QED BY <3>1, <1>4, LandingIs DEF Store
  <2>2. PICK j \in 1 .. NLocks(p) : writeSet[p][j].word = x.word
    BY <1>4 DEF WritesWord
  <2>3. version[LockOf(x.word)] < t
    BY <1>1, <1>2, <1>a, <2>2 DEF StampInv, Reached, At, LockAt
  <2>4. r.ver <= version[LockOf(x.word)] /\ version[LockOf(x.word)] \in Nat /\ r.ver \in Nat
    BY <2>1, <1>4, <1>a, LockOfWord DEF HistInv, RegionType, HistType, Stored
  <2> QED BY <2>1, <2>3, <2>4, <1>3
<1>6. ASSUME NEW x \in Nodes(p), NEW d \in Thread, NEW s \in snap[d], s.word = x.word
      PROVE  rv[d] < t
  <2>1. NoneOlder(d, x.word)
    BY <1>6 DEF CoreInv, ReadInv, SnapAt
  <2>2. t > rv[d] /\ rv[d] \in Nat
    BY <2>1, <1>2, <1>4, <1>a DEF NoneOlder, TxType
  <2> QED BY <2>2, <1>3
<1>7. ASSUME NEW x \in Nodes(p), NEW s \in snap[p], s.word = x.word, NEW r \in Store[x.word]
      PROVE  r.ver <= rv[p]
  <2>1. ~ isReadOnly[p]
    BY <1>2 DEF ListInv, LocksForWriters
  <2>2. PICK i \in 1 .. Len(readSet[p]) : readSet[p][i] = x.word
    BY <2>1, <1>7 DEF ListInv, ReadsListed
  <2>3. i < k[p]
    BY <1>1, <1>a, ListLengths DEF EndType
  <2>4. Clean(p, x.word)
    BY <1>1, <1>2, <1>4, <1>a, <2>2, <2>3 DEF ValidInv, At
  <2> QED BY <2>4, <1>3, <1>5 DEF Clean
<1>8. t \in 1 .. globalVersion'
  BY <1>1, <1>3
<1> QED BY <1>s, <1>1, <1>2, <1>3, <1>5, <1>6, <1>7, <1>8, CommitsAt

\* Write-back installs what the abstract store already holds.
LEMMA WriteBackHidden ==
    ASSUME CoreInv, ListInv, NEW p \in Thread,
           WriteBackVer(p) \/ WriteBackCopy(p) \/ WrittenBack(p)
    PROVE  UNCHANGED Abstract!avars
<1>s. Step(p)
  BY DEF Step, InCall
<1>a. TxType /\ EndType /\ HistType /\ IndexAt(p) /\ Landed(p) /\ NLocks(p) \in Nat /\ k[p] \in Nat
  BY ListLengths DEF CoreInv, TypeInv, TypeOK, ListInv, EndType
<1>1. CASE WriteBackVer(p)
  <2>1. /\ pc[p] = "wbVer" /\ pc'[p] = "wbCopy" /\ k[p] \in 1 .. NLocks(p)
        /\ UNCHANGED <<globalVersion, rv, snap, writeSet, newVersion, ok>>
        /\ hist' = [hist EXCEPT ![writeSet[p][k[p]].word] = @ \cup
                       {[ver |-> newVersion[p], val |-> writeSet[p][k[p]].val]}]
    BY <1>1, <1>a DEF WriteBackVer, InstalledVersion, TxType, endVars, tx, IndexAt, At, Goto
  <2>2. \A w, r : Lands(p, w, r)' <=> Lands(p, w, r)
    BY <2>1 DEF Lands, WritingBack, NLocks
  <2>3. ASSUME NEW w \in Word, NEW r, r \in hist'[w] PROVE r \in hist[w] \/ Lands(p, w, r)
    BY <2>1, <2>3, <1>a DEF Lands, WritingBack, HistType
  <2>4. \A w \in Word : hist[w] \subseteq hist'[w]
    BY <2>1, <1>a DEF HistType
  <2>5. Store' = Store
    BY <1>s, <2>2, <2>3, <2>4, SameStore
  <2>6. StatusOf(p)' = StatusOf(p)
    BY <2>1 DEF StatusOf, WritingBack, At
  <2> QED BY <1>s, <2>1, <2>5, <2>6, Stutters
<1>2. CASE WriteBackCopy(p)
  <2>1. /\ pc[p] = "wbCopy" /\ pc'[p] = "wbVer"
        /\ UNCHANGED <<globalVersion, rv, snap, writeSet, newVersion, ok, hist>>
    BY <1>2, <1>a DEF WriteBackCopy, TxType, tx, At, Goto
  <2>2. \A w, r : Lands(p, w, r)' <=> Lands(p, w, r)
    BY <2>1 DEF Lands, WritingBack, NLocks
  <2>3. Store' = Store
    BY <1>s, <2>1, <2>2, SameStore
  <2>4. StatusOf(p)' = StatusOf(p)
    BY <2>1 DEF StatusOf, WritingBack, At
  <2> QED BY <1>s, <2>1, <2>3, <2>4, Stutters
<1>3. CASE WrittenBack(p)
  <2>1. /\ pc[p] = "wbVer" /\ pc'[p] = "release" /\ k[p] > NLocks(p) /\ ok'[p] = TRUE
        /\ UNCHANGED <<globalVersion, rv, snap, writeSet, newVersion, hist>>
    BY <1>3, <1>a DEF WrittenBack, StartRelease, TxType, EndType, tx, At, Goto
  <2>2. ASSUME NEW w \in Word, NEW r, Lands(p, w, r) PROVE r \in hist[w]
    <3>1. PICK j \in 1 .. NLocks(p) : writeSet[p][j].word = w
                                      /\ r = [ver |-> newVersion[p], val |-> writeSet[p][j].val]
      BY <2>2 DEF Lands
    <3>2. Reached(p, j)
      BY <2>1, <1>a DEF Reached, At
    <3> QED BY <2>1, <3>1, <3>2, <1>a DEF Landed
  <2>3. \A w, r : ~ Lands(p, w, r)'
    BY <2>1 DEF Lands, WritingBack
  <2>4. Store' = Store
    BY <1>s, <2>1, <2>2, <2>3, SameStore
  <2>5. StatusOf(p)' = StatusOf(p)
    BY <2>1 DEF StatusOf, WritingBack, At
  <2> QED BY <1>s, <2>1, <2>4, <2>5, Stutters
<1> QED BY <1>1, <1>2, <1>3

LEMMA StepMaps ==
    ASSUME CoreInv, ListInv, NEW p \in Thread, Step(p)
    PROVE  Abstract!ANext \/ UNCHANGED Abstract!avars
<1>1. ASSUME NEW ro \in BOOLEAN, BeginVersion(p, ro) PROVE Abstract!ANext
  BY <1>1, BeginsAbstract DEF Abstract!ANext
<1>2. CASE \/ BeginId(p) \/ (\E w \in Word : ReadSample(p, w)) \/ ReadCopy(p) \/ GetLocks(p)
           \/ Acquire(p) \/ SetHolder(p) \/ ValidateVer(p) \/ ValidateLock(p)
           \/ ReleaseTest(p) \/ ReleaseHolder(p) \/ ReleaseMutex(p)
  BY <1>2, HiddenSteps
<1>3. CASE ReadVer(p) \/ ReadLock(p) \/ ReadMax(p) \/ ReadVer2(p) \/ ReadLock2(p)
  BY <1>3, TestsAbstract DEF ReadVer, ReadLock, ReadMax, ReadVer2, ReadLock2, Reading, Abstract!ANext
<1>4. CASE ReadMax2(p)
  BY <1>4, ReadsAbstract DEF Abstract!ANext
<1>5. ASSUME NEW w \in Word, NEW v \in Value, Write(p, w, v) PROVE Abstract!ANext
  BY <1>5, WritesAbstract DEF Abstract!ANext
<1>6. CASE Stamp(p) \/ Validated(p)
  BY <1>6, StampCommits, ValidatedCommits DEF Abstract!ANext
<1>7. CASE WriteBackVer(p) \/ WriteBackCopy(p) \/ WrittenBack(p)
  BY <1>7, WriteBackHidden
<1>8. CASE EndReadOnly(p) \/ EndReturn(p)
  <2>1. /\ ClearSets(p) /\ ~ WritingBack(p) /\ pc[p] # "idle" /\ UNCHANGED <<globalVersion, hist>>
    BY <1>8 DEF EndReadOnly, EndReturn, WritingBack, At
  <2> QED BY <2>1, EndsAbstract DEF Abstract!ANext
<1> QED BY <1>1, <1>2, <1>3, <1>4, <1>5, <1>6, <1>7, <1>8 DEF Step, Call, InCall

\* A step of no thread changes nothing the clients see.
LEMMA StutterMaps == UNCHANGED vars => UNCHANGED Abstract!avars
<1> SUFFICES ASSUME UNCHANGED vars PROVE UNCHANGED Abstract!avars
  OBVIOUS
<1>1. UNCHANGED <<globalVersion, pc, rv, snap, writeSet, newVersion, ok, hist>>
  BY DEF vars, tx, endVars
<1>2. \A p \in Thread : Nodes(p)' = Nodes(p) /\ StatusOf(p)' = StatusOf(p)
  BY <1>1 DEF Nodes, NLocks, StatusOf, WritingBack, At
<1>3. \A q, w, r : Lands(q, w, r)' <=> Lands(q, w, r)
  BY <1>1 DEF Lands, WritingBack, NLocks
<1>4. \A w : Landing(w)' = Landing(w)
  BY <1>3, LandingIs, LandingIsNext
<1> QED BY <1>1, <1>2, <1>4 DEF Abstract!avars, Store, Status, Pending

LEMMA InitMaps == Init => Abstract!AInit
<1> SUFFICES ASSUME Init PROVE Abstract!AInit
  OBVIOUS
<1>1. \A w, r : r \notin Landing(w)
  BY LandingIs DEF Init, Lands, WritingBack
<1>2. \A w : Landing(w) = {}
  BY <1>1
<1>3. Store = [w \in Word |-> {[ver |-> 0, val |-> Zero]}]
  BY <1>2 DEF Store, Init
<1>4. \A p \in Thread : StatusOf(p) = "out" /\ Nodes(p) = {}
  BY DEF Init, StatusOf, Nodes, NLocks, At
<1> QED BY <1>3, <1>4 DEF Init, Abstract!AInit, Status, Pending

\* TL2 implements VersionedTM: every execution of the four calls, with any
\* number of threads, words and locks and any lengths, is one in which
\* transactions read one snapshot and commits are atomic.
THEOREM Implements == Spec => ImplementsVersionedTM
<1>1. Init => Abstract!AInit
  BY InitMaps
<1>2. CoreInv /\ ListInv /\ [Next]_vars => [Abstract!ANext]_(Abstract!avars)
  BY StepMaps, StutterMaps DEF Next, Step
<1>3. Spec => [](CoreInv /\ ListInv)
  BY Invariant DEF IInv
<1> QED BY <1>1, <1>2, <1>3, PTL DEF Spec, ImplementsVersionedTM, Abstract!ASpec
=============================================================================
