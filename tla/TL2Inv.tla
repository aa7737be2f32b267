------------------------------- MODULE TL2Inv -------------------------------
(***************************************************************************)
(* The inductive invariant of TL2, in four layers: the locks of a commit,  *)
(* the versions it installs, what a reader in the middle of a round may    *)
(* conclude, and the lists of a transaction.  Each layer is inductive      *)
(* relative to the ones before it.                                         *)
(***************************************************************************)
EXTENDS TL2

(* Locks.                                                                   *)

\* The loop indices of tm_end stay inside their arrays.
IndexAt(p) ==
    /\ At(p, "acquire") => k[p] \in 1 .. NLocks(p) + 1
    /\ At(p, "setHolder") => k[p] \in 1 .. NLocks(p)
    /\ At(p, "valVer") => k[p] \in 1 .. Len(readSet[p]) + 1
    /\ At(p, "valLock") => k[p] \in 1 .. Len(readSet[p])
    /\ At(p, "wbVer") => k[p] \in 1 .. NLocks(p) + 1
    /\ At(p, "wbCopy") => k[p] \in 1 .. NLocks(p)
    /\ Releasing(p) => k[p] \in 1 .. n[p] + 1 /\ n[p] <= NLocks(p)
    /\ pc[p] \in {"relHolder", "relMutex"} => k[p] <= n[p]
TypeInv == TypeOK /\ \A p \in Thread : IndexAt(p)

\* Two entries of the lock arrays in use name two locks.
OwnersDisjoint ==
    \A p, q \in Thread : \A i \in OwnedIdx(p), j \in OwnedIdx(q) :
        LockAt(p, i) = LockAt(q, j) => p = q /\ i = j

OwnedIsTaken == \A p \in Thread : \A i \in OwnedIdx(p) : mutex[LockAt(p, i)]
TakenIsOwned == \A l \in Lock : mutex[l] =>
                    \E p \in Thread : \E i \in OwnedIdx(p) : LockAt(p, i) = l

\* Between lock->holder = id and lock->holder = 0 the holder is the owner.
HolderIsOwner ==
    \A p \in Thread : \A i \in OwnedIdx(p) :
        \/ pc[p] \in {"setHolder", "relMutex"} /\ i = k[p]
        \/ holder[LockAt(p, i)] = id[p]

LockInv == OwnersDisjoint /\ OwnedIsTaken /\ TakenIsOwned /\ HolderIsOwner
-----------------------------------------------------------------------------
(* Versions.                                                                *)

ClockInv ==
    /\ \A l \in Lock : version[l] <= globalVersion
    /\ \A p \in Thread : rv[p] <= globalVersion
    /\ \A p \in Thread : Committing(p) =>
          rv[p] < newVersion[p] /\ newVersion[p] <= globalVersion

\* Nodes of the write set that write-back has reached, its version written.
Reached(p, j) == \/ At(p, "wbVer") /\ j < k[p]
                 \/ At(p, "wbCopy") /\ j <= k[p]

\* A commit finds older versions on its locks and leaves its own.
StampInv ==
    \A p \in Thread : Committing(p) => \A j \in 1 .. NLocks(p) :
        IF Reached(p, j) THEN version[LockAt(p, j)] = newVersion[p]
                         ELSE version[LockAt(p, j)] < newVersion[p]

\* Thread p is copying the k-th value to word w, whose version it has written.
Copying(p, w) == At(p, "wbCopy") /\ writeSet[p][k[p]].word = w

\* The version of a lock bounds those of its words; a word holds the last
\* value installed for it, except while that value is being copied.
HistInv ==
    \A w \in Word :
        /\ \A r \in hist[w] : r.ver <= version[LockOf(w)]
        /\ \A p \in Thread : Copying(p, w) =>
              [ver |-> newVersion[p], val |-> writeSet[p][k[p]].val] \in hist[w]
        /\ (\A p \in Thread : ~ Copying(p, w)) => ValueAt(w, version[LockOf(w)], mem[w])

\* No version strictly between the snapshot of p and its commit on word w.
Clean(p, w) == \A r \in hist[w] : ~ (rv[p] < r.ver /\ r.ver < newVersion[p])

WritesWord(p, w) == \E j \in 1 .. NLocks(p) : writeSet[p][j].word = w

\* The part of the read set that validation has passed, as far as the
\* transaction's own locks protect it.
ValidInv ==
    \A p \in Thread : Committing(p) => \A i \in 1 .. Len(readSet[p]) :
        /\ WritesWord(p, readSet[p][i])
        /\ \/ At(p, "valVer") /\ i < k[p]
           \/ At(p, "valLock") /\ i <= k[p]
           \/ pc[p] \in {"wbVer", "wbCopy"}
        => Clean(p, readSet[p][i])

CommitInv ==
    \A c \in commits :
        /\ c.wv <= globalVersion
        /\ \A p \in Thread : Committing(p) => newVersion[p] # c.wv
        /\ \A w \in c.writes : c.wv <= version[LockOf(w)]

DistinctStamps ==
    \A p, q \in Thread : Committing(p) /\ Committing(q) /\ p # q =>
        newVersion[p] # newVersion[q]

VersionInv == /\ ClockInv /\ StampInv /\ HistInv /\ ValidInv /\ CommitInv /\ DistinctStamps
              /\ OneWritePerVersion /\ NoLostUpdate
-----------------------------------------------------------------------------
(* Readers.                                                                 *)

\* No commit under way will give word w a version that the snapshot of p
\* includes: the word was seen unlocked after p began, and a version drawn
\* since then is greater than rv.
NoneOlder(p, w) ==
    \A q \in Thread : Committing(q) /\ WritesWord(q, w) => newVersion[q] > rv[p]

ReaderAt(p) ==
    LET w == word[p]
        v == version[LockOf(word[p])]
    IN  /\ pc[p] \in {"rdVer", "rdLock", "rdMax", "rdCopy", "rdVer2"} => sampled[p] <= v
        /\ pc[p] \in {"rdMax", "rdCopy", "rdVer2", "rdLock2", "rdMax2"} => NoneOlder(p, w)
        /\ pc[p] \in {"rdMax", "rdCopy"} /\ v = sampled[p] => \A q \in Thread : ~ Copying(q, w)
        /\ pc[p] \in {"rdCopy", "rdVer2"} => sampled[p] <= rv[p]
        /\ At(p, "rdVer2") /\ v = sampled[p] /\ ~ FromWriteSet(p) =>
              ValueAt(w, sampled[p], buf[p])
        /\ pc[p] \in {"rdLock2", "rdMax2"} /\ ~ FromWriteSet(p) => ValueAt(w, rv[p], buf[p])

SnapAt(p) ==
    /\ pc[p] \in {"idle", "beginId"} => snap[p] = {}
    /\ \A x \in snap[p] : NoneOlder(p, x.word) /\ ValueAt(x.word, rv[p], x.val)

ReadInv == \A p \in Thread : ReaderAt(p) /\ SnapAt(p)

\* Locks, versions and readers: what the safety theorems follow from.
CoreInv == TypeInv /\ LockInv /\ VersionInv /\ ReadInv
-----------------------------------------------------------------------------
(* A transaction's lists, and the history that its write-back leaves.       *)

\* checkWriteSet keeps one node per word.
OneNodePerWord(p) ==
    \A i, j \in 1 .. NLocks(p) : writeSet[p][i].word = writeSet[p][j].word => i = j

\* A read-write transaction lists what it has read, for the validation.
ReadsListed(p) ==
    ~ isReadOnly[p] =>
        \A x \in snap[p] : \E i \in 1 .. Len(readSet[p]) : readSet[p][i] = x.word

\* Only read-write transactions take locks.
LocksForWriters(p) ==
    pc[p] \in {"acquire", "setHolder"} \/ Committing(p) => ~ isReadOnly[p]

\* The nodes that write-back has reached are part of the history.
Landed(p) ==
    pc[p] \in {"wbVer", "wbCopy"} => \A j \in 1 .. NLocks(p) : Reached(p, j) =>
        [ver |-> newVersion[p], val |-> writeSet[p][j].val] \in hist[writeSet[p][j].word]

ListInv == \A p \in Thread :
    OneNodePerWord(p) /\ ReadsListed(p) /\ LocksForWriters(p) /\ Landed(p)

\* The whole: TLC checks that it holds, the proof modules that it is inductive.
IInv == CoreInv /\ ListInv
=============================================================================
