------------------------------ MODULE Segments ------------------------------
(***************************************************************************)
(* The list of segments of template/: tm_alloc appends a node, tm_free     *)
(* unlinks one and frees it at once, tm_read, tm_write and tm_free walk    *)
(* the list to find a node.  No lock protects the list, so each pointer    *)
(* access is a step.  A segment_node and its freeSpace are allocated and   *)
(* freed together and are one element of Node; malloc may hand out again   *)
(* what free took back, with the fields it still holds.                    *)
(***************************************************************************)
EXTENDS Integers

CONSTANTS
    Thread,    \* threads with a read-write transaction
    Node,      \* the addresses a segment_node can have
    First,     \* the segment of tm_create
    Null,
    Memalign,  \* what posix_memalign(newSegment->freeSpace, ...) does: it is
               \* given the uninitialised pointer, not its address, and stores
               \* through it: "segv", or "buffer" when it happens to designate
               \* memory nothing else uses, which then is the segment
    MaxCalls   \* bound: calls of tm_alloc

ASSUME FirstAssumption == First \in Node /\ Null \notin Node
ASSUME MemalignAssumption == Memalign \subseteq {"segv", "buffer"} /\ Memalign # {}

VARIABLES
    tail,              \* region->allocTail (allocHead is always First)
    prev, next, id,    \* the fields of segment_node
    state,             \* of a node: "free", "raw" inside tm_alloc, or "live"
    pc, cur, target,   \* of a thread: currentSegment, target
    use,               \* of a thread: what it looks a segment up for
    near, far,         \* of a thread: pointers it has loaded, the one it is
                       \* to follow and the one it is to store
    returned,          \* addresses tm_alloc has returned
    calls, status      \* status: "ok", or how undefined behaviour ended it

fields == <<prev, next, id>>
locals == <<pc, cur, target, use, near, far>>
vars   == <<tail, fields, state, locals, returned, calls, status>>

Init ==
    /\ tail = First
    /\ prev = [s \in Node |-> Null] /\ next = [s \in Node |-> Null]
    /\ id = [s \in Node |-> 0]
    /\ state = [s \in Node |-> IF s = First THEN "live" ELSE "free"]
    /\ pc = [t \in Thread |-> "client"]
    /\ cur = [t \in Thread |-> Null] /\ target = [t \in Thread |-> Null]
    /\ use = [t \in Thread |-> "access"]
    /\ near = [t \in Thread |-> Null] /\ far = [t \in Thread |-> Null]
    /\ returned = {First} /\ calls = 0 /\ status = "ok"

At(t, label)   == status = "ok" /\ pc[t] = label
Goto(t, label) == pc' = [pc EXCEPT ![t] = label]

\* The call returns; what it had in locals is dead.
Return(t) == /\ Goto(t, "client")
             /\ cur' = [cur EXCEPT ![t] = Null]
             /\ target' = [target EXCEPT ![t] = Null]
             /\ use' = [use EXCEPT ![t] = "access"]
             /\ near' = [near EXCEPT ![t] = Null] /\ far' = [far EXCEPT ![t] = Null]

\* An access to a node that is freed has no defined outcome: the model stops.
Deref(nodes, step) ==
    IF \E s \in nodes \ {Null} : state[s] = "free"
    THEN status' = "stray" /\ UNCHANGED <<tail, fields, state, locals, returned>>
    ELSE step /\ UNCHANGED status
-----------------------------------------------------------------------------
(* tm_alloc                                                                 *)

AllocNode(t) ==
    /\ At(t, "client") /\ calls < MaxCalls
    /\ calls' = calls + 1
    /\ \E s \in {x \in Node : state[x] = "free"}, outcome \in Memalign :
          IF outcome = "segv"
          THEN status' = "segv" /\ UNCHANGED <<state, pc, cur>>
          ELSE /\ state' = [state EXCEPT ![s] = "raw"]
               /\ cur' = [cur EXCEPT ![t] = s]
               /\ Goto(t, "prev")
               /\ UNCHANGED status
    /\ UNCHANGED <<tail, fields, target, use, near, far, returned>>

ResetNext_fault(s) == next    \* a recycled node keeps the next it had
ResetNext(s) == [next EXCEPT ![s] = Null]

\* newSegment->prev = region->allocTail; newSegment->next = NULL
AllocPrev(t) ==
    /\ At(t, "prev")
    /\ prev' = [prev EXCEPT ![cur[t]] = tail]
    /\ next' = ResetNext(cur[t])
    /\ Goto(t, "idTail")
    /\ UNCHANGED <<tail, id, state, cur, target, use, near, far, returned, calls, status>>

\* The load of region->allocTail that each of the next two statements begins with.
LoadTail(t, here, there) ==
    /\ At(t, here)
    /\ near' = [near EXCEPT ![t] = tail]
    /\ Goto(t, there)
    /\ UNCHANGED <<tail, fields, state, cur, target, use, far, returned, calls, status>>

NextId_fault(s) == id[s] - 1
NextId(s) == id[s] + 1

\* newSegment->id = region->allocTail->id + 1
AllocId(t) ==
    /\ At(t, "id")
    /\ Deref({near[t]}, /\ id' = [id EXCEPT ![cur[t]] = NextId(near[t])]
                        /\ Goto(t, "linkTail")
                        /\ UNCHANGED <<tail, prev, next, state, cur, target, use, near, far, returned>>)
    /\ UNCHANGED calls

\* region->allocTail->next = newSegment
AllocLink(t) ==
    /\ At(t, "link")
    /\ Deref({near[t]}, /\ next' = [next EXCEPT ![near[t]] = cur[t]]
                        /\ Goto(t, "tail")
                        /\ UNCHANGED <<tail, prev, id, state, cur, target, use, near, far, returned>>)
    /\ UNCHANGED calls

\* region->allocTail = newSegment, and the address goes to the client.
AllocTail(t) ==
    /\ At(t, "tail")
    /\ tail' = cur[t]
    /\ state' = [state EXCEPT ![cur[t]] = "live"]
    /\ returned' = returned \cup {cur[t]}
    /\ Return(t)
    /\ UNCHANGED <<fields, calls, status>>
-----------------------------------------------------------------------------
(* findSegment, and its callers                                             *)

\* tm_read and tm_write ("access") or tm_free, of an address that tm_alloc
\* has returned at some time, to this thread or to another.
Lookup(t, a, what) ==
    /\ At(t, "client")
    /\ cur' = [cur EXCEPT ![t] = First]
    /\ target' = [target EXCEPT ![t] = a]
    /\ use' = [use EXCEPT ![t] = what]
    /\ Goto(t, "find")
    /\ UNCHANGED <<tail, fields, state, near, far, returned, calls, status>>

\* One round of the walk.  At the end of the list the transaction aborts.
Find(t) ==
    /\ At(t, "find")
    /\ Deref({cur[t]},
          IF cur[t] = target[t]
          THEN /\ Goto(t, use[t])
               /\ UNCHANGED <<tail, fields, state, cur, target, use, near, far, returned>>
          ELSE IF next[cur[t]] = Null
          THEN Return(t) /\ UNCHANGED <<tail, fields, state, returned>>
          ELSE /\ cur' = [cur EXCEPT ![t] = next[cur[t]]]
               /\ UNCHANGED <<tail, fields, state, pc, target, use, near, far, returned>>)
    /\ UNCHANGED calls

\* The locks and words of the segment are used after the walk: by tm_read at
\* once, by tm_end through the nodes of the read set and the write set.
Access(t) ==
    /\ At(t, "access")
    /\ Deref({cur[t]}, Return(t) /\ UNCHANGED <<tail, fields, state, returned>>)
    /\ UNCHANGED calls

IsFirst(s) == id[s] = 0

\* tm_free: the first segment is refused (clearSets, return false).
FreeTest(t) ==
    /\ At(t, "free")
    /\ Deref({cur[t]},
          IF IsFirst(cur[t])
          THEN Return(t) /\ UNCHANGED <<tail, fields, state, returned>>
          ELSE /\ Goto(t, "before")
               /\ UNCHANGED <<tail, fields, state, cur, target, use, near, far, returned>>)
    /\ UNCHANGED calls

\* A load of a field p of the node to be freed.
LoadNear(t, here, p, there) ==
    /\ At(t, here)
    /\ Deref({cur[t]}, /\ near' = [near EXCEPT ![t] = p]
                       /\ Goto(t, there)
                       /\ UNCHANGED <<tail, fields, state, cur, target, use, far, returned>>)
    /\ UNCHANGED calls

LoadFar(t, here, p, there) ==
    /\ At(t, here)
    /\ Deref({cur[t]}, /\ far' = [far EXCEPT ![t] = p]
                       /\ Goto(t, there)
                       /\ UNCHANGED <<tail, fields, state, cur, target, use, near, returned>>)
    /\ UNCHANGED calls

\* if (currentSegment->prev != NULL) currentSegment->prev->next = currentSegment->next,
\* with one load of prev for the test and the store (the field is no atomic).
LoadPrev(t) ==
    \/ LoadNear(t, "before", prev[cur[t]], IF prev[cur[t]] = Null THEN "after" ELSE "skip")
    \/ LoadFar(t, "skip", next[cur[t]], "unprev")

FreePrev(t) ==
    /\ At(t, "unprev")
    /\ Deref({near[t]}, /\ next' = [next EXCEPT ![near[t]] = far[t]]
                        /\ Goto(t, "after")
                        /\ UNCHANGED <<tail, prev, id, state, cur, target, use, near, far, returned>>)
    /\ UNCHANGED calls

\* if (currentSegment->next != NULL) currentSegment->next->prev = currentSegment->prev
LoadNext(t) ==
    \/ LoadNear(t, "after", next[cur[t]], IF next[cur[t]] = Null THEN "free!" ELSE "back")
    \/ LoadFar(t, "back", prev[cur[t]], "unnext")

\* The other half of the unlinking, dropped.
BackLink_fault(s, p) == prev
BackLink(s, p) == [prev EXCEPT ![s] = p]

FreeNext(t) ==
    /\ At(t, "unnext")
    /\ Deref({near[t]}, /\ prev' = BackLink(near[t], far[t])
                        /\ Goto(t, "free!")
                        /\ UNCHANGED <<tail, next, id, state, cur, target, use, near, far, returned>>)
    /\ UNCHANGED calls

\* free(currentSegment): at once, whoever still uses it.
FreeNode(t) ==
    /\ At(t, "free!")
    /\ Deref({cur[t]}, /\ state' = [state EXCEPT ![cur[t]] = "free"]
                       /\ Return(t)
                       /\ UNCHANGED <<tail, fields, returned>>)
    /\ UNCHANGED calls
-----------------------------------------------------------------------------
Call(t) == \/ AllocNode(t)
           \/ \E a \in returned, what \in {"access", "free"} : Lookup(t, a, what)

InCall(t) == \/ AllocPrev(t) \/ AllocId(t) \/ AllocLink(t) \/ AllocTail(t)
             \/ LoadTail(t, "idTail", "id") \/ LoadTail(t, "linkTail", "link")
             \/ Find(t) \/ Access(t)
             \/ FreeTest(t) \/ LoadPrev(t) \/ FreePrev(t) \/ LoadNext(t)
             \/ FreeNext(t) \/ FreeNode(t)

Idle == status = "ok" /\ \A t \in Thread : pc[t] = "client"

\* The nodes findSegment and tm_destroy come across, from allocHead on: what every
\* set with First in it has that is closed under next.
Closed(S) == \A s \in S : next[s] # Null => next[s] \in S
Listed == { s \in Node : \A S \in SUBSET Node : First \in S /\ Closed(S) => s \in S }

\* tm_destroy, which no other call may overlap: it frees what it finds.
Destroy ==
    /\ Idle
    /\ IF \E s \in Listed : state[s] = "free"
       THEN status' = "stray" /\ UNCHANGED state
       ELSE /\ status' = "destroyed"
            /\ state' = [s \in Node |-> IF s \in Listed THEN "free" ELSE state[s]]
    /\ UNCHANGED <<tail, fields, locals, returned, calls>>

Next == Destroy \/ \E t \in Thread : Call(t) \/ InCall(t)

Spec     == Init /\ [][Next]_vars
FairSpec == Spec /\ \A t \in Thread : WF_vars(InCall(t))
-----------------------------------------------------------------------------
(* Properties.                                                              *)

Pointer == Node \cup {Null}

\* Every field and local holds a value of its C type.
TypeOK ==
    /\ tail \in Node
    /\ prev \in [Node -> Pointer] /\ next \in [Node -> Pointer] /\ id \in [Node -> Nat]
    /\ state \in [Node -> {"free", "raw", "live"}]
    /\ pc \in [Thread -> {"client", "prev", "idTail", "id", "linkTail", "link", "tail",
                          "find", "access", "free", "before", "skip", "unprev",
                          "after", "back", "unnext", "free!"}]
    /\ cur \in [Thread -> Pointer] /\ target \in [Thread -> Pointer]
    /\ use \in [Thread -> {"access", "free"}]
    /\ near \in [Thread -> Pointer] /\ far \in [Thread -> Pointer]
    /\ First \in returned /\ returned \subseteq Node
    /\ calls \in Nat /\ status \in {"ok", "segv", "stray", "destroyed"}

\* tm_free, tm_alloc: between the calls of a single thread the list holds no
\* freed node, and prev is the inverse of next along it, whatever was freed.
ListSound ==
    Idle => \A s \in Listed : /\ state[s] = "live"
                              /\ next[s] # Null => prev[next[s]] = s

\* findSegment returns, and so do its callers: the list never gets a cycle.
FindReturns == \A t \in Thread : pc[t] = "find" ~> pc[t] = "client" \/ status # "ok"

\* What tm_alloc appends is in the list until tm_free takes it out.
AllocatedIsListed == Idle => \A s \in Node : state[s] = "live" => s \in Listed

\* Region: allocTail is the last of the segments.
TailIsLast == Idle => tail \in Listed /\ next[tail] = Null

\* A segment is not freed under a thread that still uses it.
NoStrayAccess == status # "stray"

\* tm_alloc gets its memory.
AllocGetsMemory == status # "segv"
=============================================================================
