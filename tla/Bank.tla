-------------------------------- MODULE Bank --------------------------------
(***************************************************************************)
(* The bank workload of grading/workload.hpp over a transactional memory.  *)
(* Of the memory it uses what VersionedTM promises: the closure of a       *)
(* transaction runs on the memory as it was when it began (one action,     *)
(* Begin), and its writes are installed in one step (Commit) if no word it *)
(* depends on has changed; else Transaction throws and transactional calls *)
(* the same closure again.                                                 *)
(***************************************************************************)
EXTENDS Integers, Sequences, FiniteSets

CONSTANTS
    Worker,
    Segment,      \* the addresses of account segments
    NbAccounts,   \* accounts of a segment, and of the bank to begin with
    InitBalance,
    Setups,       \* records [alloc, serial]: whether prob_alloc > 0, and
                  \* whether a commit needs all its reads current, as with the
                  \* lock of reference/, or those it writes, as VersionedTM
    MaxTx         \* bound: transactions of a worker

Start == 1        \* tm_start: the first segment
Null  == 0

ASSUME SegmentAssumption == IsFiniteSet(Segment) /\ Segment \subseteq Nat \ {Null} /\ Start \in Segment
ASSUME WorkerAssumption  == Worker # {}
ASSUME SetupAssumption == Setups \subseteq [alloc : BOOLEAN, serial : BOOLEAN]
ASSUME AccountAssumption == NbAccounts \in Nat \ {0} /\ InitBalance \in Nat

\* The words of a segment: its count, next, parity and accounts[i], in this order.
Header == 3
Count(s)      == <<s, 0>>
NextOf(s)     == <<s, 1>>
Parity(s)     == <<s, 2>>
Account(s, i) == <<s, Header + i>>
Fields(s) == {s} \X (0 .. Header + NbAccounts - 1)
Word      == Segment \X (0 .. Header + NbAccounts - 1)

VARIABLES
    setup,     \* what this bank and this memory are, fixed at the start
    mem,       \* the committed memory
    pc, job,   \* of a worker: where it is, and the closure it repeats
    snap,      \* the memory its transaction sees
    stale,     \* words committed by others since its transaction began
    count,     \* run's loosely updated number of accounts
    ran,       \* transactions of run so far
    strayed    \* history: workers that moved money between other accounts
               \* than those they drew

vars == <<setup, mem, pc, job, snap, stale, count, ran, strayed>>

\* tm_create: a zeroed first segment.
Init ==
    /\ setup \in Setups
    /\ mem = [x \in Word |-> 0]
    /\ pc = [w \in Worker |-> "next"] /\ job = [w \in Worker |-> [tx |-> "init"]]
    /\ snap = [w \in Worker |-> <<>>] /\ stale = [w \in Worker |-> {}]
    /\ count = [w \in Worker |-> NbAccounts]
    /\ ran = [w \in Worker |-> 0]
    /\ strayed = {}
-----------------------------------------------------------------------------
(* The list of segments in a memory m                                       *)

\* The segments that a walk along next passes, and a walk that ends: it starts
\* at the first segment and passes none twice.
Walks == UNION { [1 .. k -> Segment] : k \in 1 .. Cardinality(Segment) }
IsChain(m, c) ==
    /\ c[1] = Start /\ m[NextOf(c[Len(c)])] = Null
    /\ \A i \in 1 .. Len(c) - 1 : m[NextOf(c[i])] = c[i + 1]
    /\ \A i, j \in 1 .. Len(c) : c[i] = c[j] => i = j
Chain(m)  == CHOOSE c \in Walks : IsChain(m, c)
Linked(m) == LET c == Chain(m) IN { c[i] : i \in 1 .. Len(c) }

\* The accounts of the segments of S, of the whole list, and of its first j segments.
AccountsOf(m, s) == { Account(s, i) : i \in 0 .. m[Count(s)] - 1 }
OpenIn(m, S)   == UNION { AccountsOf(m, s) : s \in S }
Open(m)        == OpenIn(m, Linked(m))
Total(m)       == Cardinality(Open(m))
Upto(m, c, j)  == Cardinality(OpenIn(m, { c[i] : i \in 1 .. j }))

\* Account id, counted along the list, is in the j-th segment.
IsHome(m, c, id, j) == Upto(m, c, j - 1) <= id /\ id < Upto(m, c, j)
Exists(m, id) == LET c == Chain(m) IN \E j \in 1 .. Len(c) : IsHome(m, c, id, j)
Home(m, id)   == LET c == Chain(m) IN CHOOSE j \in 1 .. Len(c) : IsHome(m, c, id, j)
Locate(m, id) == LET c == Chain(m)  j == Home(m, id) IN Account(c[j], id - Upto(m, c, j - 1))

\* The sum of some words: the units above zero less those below.
Units(m, S)   == UNION { {x} \X (1 .. m[x]) : x \in S }
Debts(m, S)   == UNION { {x} \X (1 .. -m[x]) : x \in S }
SumOver(m, S) == Cardinality(Units(m, S)) - Cardinality(Debts(m, S))
Sum(m)        == SumOver(m, Open(m) \cup { Parity(s) : s \in Linked(m) })
-----------------------------------------------------------------------------
(* What the closures read, and the words they write with their values       *)

\* The walk of short_tx stops at the segment where both accounts are found.
Walked(m, id) == IF Exists(m, id) THEN Home(m, id) ELSE Len(Chain(m))
Further(i, j) == IF i > j THEN i ELSE j

ShortReads(m, j) ==
    LET c    == Chain(m)
        last == Further(Walked(m, j.send), Walked(m, j.recv))
        both == Exists(m, j.send) /\ Exists(m, j.recv)
    IN { Count(c[i]) : i \in 1 .. last }
       \cup { NextOf(c[i]) : i \in 1 .. (IF both THEN last - 1 ELSE last) }
       \cup (IF both THEN {Locate(m, j.send), Locate(m, j.recv)} ELSE {})

\* One unit, from an account with enough fund; recv is read after the sender
\* is written, and may be the same account.
Funded_fault(value) == value >= 0
Funded(value) == value > 0

NoWrites == [x \in {} |-> 0]

ShortWrites(m, j) ==
    IF Exists(m, j.send) /\ Exists(m, j.recv) /\ Funded(m[Locate(m, j.send)])
    THEN LET s == Locate(m, j.send)  r == Locate(m, j.recv)
         IN [x \in {s, r} |-> IF s = r THEN m[x] ELSE IF x = s THEN m[x] - 1 ELSE m[x] + 1]
    ELSE NoWrites

\* The balance of a deleted account, but for the initial balance, is kept.
Kept_fault(m, last, i) == m[Parity(last)] + m[Account(last, i)]
Kept(m, last, i) == m[Parity(last)] + m[Account(last, i)] - InitBalance

\* A segment that has lost its latest account is unlinked and freed.
Emptied_fault(n) == FALSE
Emptied(n) == n = 0

\* Too many accounts for the trigger drawn, and more than two.
Removes(m, j) == j.shrink /\ Total(m) > 2

AllocReads(m, j) ==
    LET c == Chain(m)  last == c[Len(c)]
    IN { Count(s) : s \in Linked(m) } \cup { NextOf(s) : s \in Linked(m) }
       \cup (IF Removes(m, j)
             THEN {Parity(last), Account(last, m[Count(last)] - 1)}
                  \cup (IF Emptied(m[Count(last)] - 1) THEN {Parity(c[Len(c) - 1])} ELSE {})
             ELSE {})

DeleteAccount(m) ==
    LET c == Chain(m)  last == c[Len(c)]  n == m[Count(last)] - 1
    IN IF Emptied(n)
       THEN LET prev == c[Len(c) - 1]
            IN [x \in {NextOf(prev), Parity(prev)} |->
                   IF x = NextOf(prev) THEN Null ELSE m[Parity(prev)] + Kept(m, last, n)]
       ELSE [x \in {Count(last), Parity(last)} |->
                IF x = Count(last) THEN n ELSE Kept(m, last, n)]

CreateAccount(m, fresh) ==
    LET c == Chain(m)  last == c[Len(c)]  n == m[Count(last)]
    IN IF n < NbAccounts
       THEN [x \in {Account(last, n), Count(last)} |->
                IF x = Count(last) THEN n + 1 ELSE InitBalance]
       ELSE [x \in Fields(fresh) \cup {NextOf(last)} |->
                IF x = NextOf(last) THEN fresh
                ELSE IF x = Count(fresh) THEN 1
                ELSE IF x = Account(fresh, 0) THEN InitBalance
                ELSE 0]

\* Unlinked, and in no memory a transaction still looks at.
Fresh == { s \in Segment : \A m \in {mem} \cup { snap[w] : w \in { v \in Worker : pc[v] = "in" } } :
                              s \notin Linked(m) }

InitWrites == [x \in {Count(Start)} \cup { Account(Start, i) : i \in 0 .. NbAccounts - 1 } |->
                  IF x = Count(Start) THEN NbAccounts ELSE InitBalance]

Reads(m, j) == CASE j.tx = "short" -> ShortReads(m, j)
                 [] j.tx = "alloc" -> AllocReads(m, j)
                 [] OTHER -> {}

Writes(m, j) ==
    CASE j.tx = "short" -> { ShortWrites(m, j) }
      [] j.tx = "alloc" -> IF Removes(m, j) THEN { DeleteAccount(m) } ELSE { CreateAccount(m, s) : s \in Fresh }
      [] j.tx = "init" -> { InitWrites }
      [] OTHER -> { NoWrites }

Install(m, new) == [x \in Word |-> IF x \in DOMAIN new THEN new[x] ELSE m[x]]
-----------------------------------------------------------------------------
(* Transaction and transactional                                            *)

Begin(w) ==
    /\ pc[w] = "next"
    /\ snap' = [snap EXCEPT ![w] = mem]
    /\ stale' = [stale EXCEPT ![w] = {}]
    /\ pc' = [pc EXCEPT ![w] = "in"]
    /\ UNCHANGED <<setup, mem, job, count, ran, strayed>>

\* TransactionRetry: the closure is called again.  short_tx changes the ids it
\* captured by reference as it walks, and a retry goes on with them.
Retry(w) ==
    /\ pc[w] = "in"
    /\ \E walked \in 0 .. Len(Chain(snap[w])) :
          LET Left(id) == IF Exists(snap[w], id) /\ Home(snap[w], id) <= walked
                          THEN id - Upto(snap[w], Chain(snap[w]), Home(snap[w], id) - 1)
                          ELSE id - Upto(snap[w], Chain(snap[w]), walked)
          IN job' = IF job[w].tx = "short"
                    THEN [job EXCEPT ![w].send = Left(@), ![w].recv = Left(@)]
                    ELSE job
    /\ pc' = [pc EXCEPT ![w] = "next"]
    /\ snap' = [snap EXCEPT ![w] = <<>>] /\ stale' = [stale EXCEPT ![w] = {}]
    /\ UNCHANGED <<setup, mem, count, ran, strayed>>

\* The words whose latest committed value a commit must have seen.
Depends_fault(reads, written) == {}
Depends(reads, written) == IF written = {} THEN {}
                           ELSE IF setup.serial THEN reads ELSE reads \cap written

\* The accounts drawn are not those of the committed transfer.
Strays(m, j) == /\ j.tx = "short" /\ Exists(m, j.send) /\ Exists(m, j.recv)
                /\ Exists(m, j.drawn[1]) /\ Exists(m, j.drawn[2])
                /\ \/ Locate(m, j.send) # Locate(m, j.drawn[1])
                   \/ Locate(m, j.recv) # Locate(m, j.drawn[2])

\* long_tx and the second transaction of init.
Correct(m) == /\ \A a \in Open(m) : m[a] >= 0
              /\ Sum(m) = InitBalance * Total(m)

\* Where the closure's result leads in init and run.
After(m, j) == CASE j.tx = "init" -> "initcheck"
                 [] j.tx = "initcheck" -> IF m[Account(Start, 0)] = InitBalance THEN "ready" ELSE "error"
                 [] j.tx \in {"long", "last"} /\ ~ Correct(m) -> "error"
                 [] j.tx = "last" /\ Correct(m) -> "done"
                 [] OTHER -> "idle"

Commit(w) ==
    /\ pc[w] = "in"
    /\ \E new \in Writes(snap[w], job[w]) :
          /\ Depends(Reads(snap[w], job[w]), DOMAIN new) \cap stale[w] = {}
          /\ mem' = Install(mem, new)
          /\ stale' = [v \in Worker |-> IF v # w /\ pc[v] = "in" THEN stale[v] \cup DOMAIN new ELSE {}]
    /\ pc' = [pc EXCEPT ![w] = After(snap[w], job[w])]
    /\ count' = IF job[w].tx = "long" /\ Correct(snap[w])
                THEN [count EXCEPT ![w] = Total(snap[w])] ELSE count
    \* short_tx found an account missing: run draws other accounts
    /\ ran' = IF job[w].tx = "short" => Exists(snap[w], job[w].send) /\ Exists(snap[w], job[w].recv)
              THEN [ran EXCEPT ![w] = @ + 1] ELSE ran
    /\ strayed' = IF Strays(snap[w], job[w]) THEN strayed \cup {w} ELSE strayed
    /\ snap' = [snap EXCEPT ![w] = <<>>]
    /\ UNCHANGED <<setup, job>>
-----------------------------------------------------------------------------
(* init and run                                                             *)

\* init is two transactions.
InitCheck(w) ==
    /\ pc[w] = "initcheck"
    /\ job' = [job EXCEPT ![w] = [tx |-> "initcheck"]]
    /\ pc' = [pc EXCEPT ![w] = "next"]
    /\ UNCHANGED <<setup, mem, snap, stale, count, ran, strayed>>

\* The workers begin run together (Measure).
BeginRun ==
    /\ \A w \in Worker : pc[w] = "ready"
    /\ pc' = [w \in Worker |-> "idle"]
    /\ ran' = [w \in Worker |-> 0]
    /\ UNCHANGED <<setup, mem, job, snap, stale, count, strayed>>

Drawn(w) ==
    IF ran[w] = MaxTx THEN { [tx |-> "last"] }
    ELSE { [tx |-> "long"] }
         \cup { [tx |-> "short", send |-> s, recv |-> r, drawn |-> <<s, r>>] :
                  s \in 0 .. count[w] - 1, r \in 0 .. count[w] - 1 }
         \cup (IF setup.alloc THEN { [tx |-> "alloc", shrink |-> b] : b \in BOOLEAN } ELSE {})

Draw(w) ==
    /\ pc[w] = "idle"
    /\ \E j \in Drawn(w) : job' = [job EXCEPT ![w] = j]
    /\ pc' = [pc EXCEPT ![w] = "next"]
    /\ UNCHANGED <<setup, mem, snap, stale, count, ran, strayed>>
-----------------------------------------------------------------------------
Next == BeginRun \/ \E w \in Worker :
            Begin(w) \/ Retry(w) \/ Commit(w) \/ InitCheck(w) \/ Draw(w)

Spec == Init /\ [][Next]_vars
-----------------------------------------------------------------------------
(* Properties.                                                              *)

\* Whether init is behind the workers.
Running == \E w \in Worker : job[w].tx \in {"short", "alloc", "long", "last"}

\* workload.hpp, long_tx: "no money should ever be destroyed or created out of
\* thin air", in the committed memory and so in every snapshot of it; and no
\* account is overdrawn by transfers that each saw it funded.
MoneyConserved == Running => Correct(mem)

\* init and run report no violation.
NoFalseAlarm == \A w \in Worker : pc[w] # "error"

Packed(m) ==
    LET c == Chain(m) IN /\ \A i \in 1 .. Len(c) - 1 : m[Count(c[i])] = NbAccounts
                         /\ m[Count(c[Len(c)])] \in 1 .. NbAccounts

\* The deletions and creations of alloc_tx leave no gap in the list: all
\* segments but the last are full and none is empty, or account ids would skip.
SegmentsPacked ==
    Running => Packed(mem)

\* short_tx: "Index of the sender account": the money moves between the
\* accounts that run drew.
TransfersAsDrawn == strayed = {}
=============================================================================
