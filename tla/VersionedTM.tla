---------------------------- MODULE VersionedTM ----------------------------
(***************************************************************************)
(* What a transactional memory built on a version clock promises its       *)
(* clients, without locks, lists or steps: every word keeps the values     *)
(* committed for it, each under the version of its transaction; a          *)
(* transaction reads the memory as it was at the version it began with;    *)
(* a commit installs all its writes in one step, or none.                  *)
(***************************************************************************)
EXTENDS Naturals

CONSTANTS Client, Addr, Val, InitVal

VARIABLES
    clock,    \* the latest version drawn
    store,    \* per word, the committed values and their versions
    status,   \* "out", "in" a transaction, or "committed" and about to return
    at,       \* the version a transaction reads at
    seen,     \* what it has read from the store
    pending   \* what it will install

avars == <<clock, store, status, at, seen, pending>>

AInit ==
    /\ clock = 0
    /\ store = [a \in Addr |-> {[ver |-> 0, val |-> InitVal]}]
    /\ status = [c \in Client |-> "out"]
    /\ at = [c \in Client |-> 0]
    /\ seen = [c \in Client |-> {}]
    /\ pending = [c \in Client |-> {}]

\* v is the value of word a in the memory as of version t.
Current(a, t, v) ==
    \E r \in store[a] : /\ r.val = v /\ r.ver <= t
                        /\ \A q \in store[a] : q.ver <= t => q.ver <= r.ver

ABegin(c) ==
    /\ status[c] = "out"
    /\ status' = [status EXCEPT ![c] = "in"]
    /\ at' = [at EXCEPT ![c] = clock]
    /\ UNCHANGED <<clock, store, seen, pending>>

ARead(c, a, v) ==
    /\ status[c] = "in" /\ Current(a, at[c], v)
    /\ seen' = [seen EXCEPT ![c] = @ \cup {[word |-> a, val |-> v]}]
    /\ UNCHANGED <<clock, store, status, at, pending>>

AWrite(c, a, v) ==
    /\ status[c] = "in"
    /\ pending' = [pending EXCEPT ![c] =
                      {x \in @ : x.word # a} \cup {[word |-> a, val |-> v]}]
    /\ UNCHANGED <<clock, store, status, at, seen>>

\* A version may be drawn by a transaction that fails later.
ATick == clock' = clock + 1 /\ UNCHANGED <<store, status, at, seen, pending>>

\* All the writes appear at once, under one version nobody has used on these
\* words and that no snapshot already read there includes.  A word both read
\* and written has not changed since the snapshot; a word only read may have:
\* this is snapshot isolation, not serializability.
ACommit(c) ==
    /\ status[c] = "in"
    /\ clock' \in {clock, clock + 1}
    /\ \E t \in 1 .. clock' :
         /\ at[c] < t
         /\ \A x \in pending[c] : \A r \in store[x.word] : r.ver < t
         /\ \A x \in pending[c] : \A d \in Client : \A s \in seen[d] :
               s.word = x.word => at[d] < t
         /\ \A x \in pending[c] : \A s \in seen[c] :
               s.word = x.word => \A r \in store[x.word] : r.ver <= at[c]
         /\ store' = [a \in Addr |-> store[a] \cup
                         { [ver |-> t, val |-> x.val] : x \in {y \in pending[c] : y.word = a} }]
    /\ status' = [status EXCEPT ![c] = "committed"]
    /\ UNCHANGED <<at, seen, pending>>

\* The transaction is over: a failure ("in") leaves no trace in the store.
AEnd(c) ==
    /\ status[c] \in {"in", "committed"}
    /\ status' = [status EXCEPT ![c] = "out"]
    /\ at' = [at EXCEPT ![c] = 0]
    /\ seen' = [seen EXCEPT ![c] = {}]
    /\ pending' = [pending EXCEPT ![c] = {}]
    /\ UNCHANGED <<clock, store>>

ANext ==
    \/ ATick
    \/ \E c \in Client :
          \/ ABegin(c) \/ ACommit(c) \/ AEnd(c)
          \/ \E a \in Addr, v \in Val : ARead(c, a, v) \/ AWrite(c, a, v)

ASpec == AInit /\ [][ANext]_avars
=============================================================================
