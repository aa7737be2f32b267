----------------------------- MODULE TL2Refines -----------------------------
(***************************************************************************)
(* TL2 implements VersionedTM.  A transaction commits in one abstract step *)
(* when it enters the write-back: from there nothing can stop it, so the   *)
(* abstract store already holds the nodes it still has to write.           *)
(***************************************************************************)
EXTENDS TL2

WritingBack(p) == pc[p] \in {"wbVer", "wbCopy"}

\* A transaction whose tm_end crashed is one that never ends.
StatusOf(p) ==
    IF At(p, "idle") THEN "out"
    ELSE IF \/ WritingBack(p)
            \/ pc[p] \in {"release", "relHolder", "relMutex"} /\ ok[p]
         THEN "committed" ELSE "in"

Nodes(p) == { writeSet[p][j] : j \in 1 .. NLocks(p) }

\* The nodes of write-backs under way, as versions of the word w.
Landing(w) ==
    UNION { { [ver |-> newVersion[p], val |-> x.val] : x \in {y \in Nodes(p) : y.word = w} }
            : p \in {q \in Thread : WritingBack(q)} }

Store   == [w \in Word |-> hist[w] \cup Landing(w)]
Status  == [p \in Thread |-> StatusOf(p)]
Pending == [p \in Thread |-> Nodes(p)]

Abstract == INSTANCE VersionedTM WITH
    Client <- Thread, Addr <- Word, Val <- Value, InitVal <- Zero,
    clock <- globalVersion, store <- Store, status <- Status, at <- rv, seen <- snap,
    pending <- Pending

\* tm_begin, tm_read, tm_write and tm_end, for all their steps and every
\* interleaving, behave as the atomic operations of VersionedTM: reads come
\* from one snapshot, a commit is all or nothing, an abort leaves no trace.
ImplementsVersionedTM == Abstract!ASpec
=============================================================================
