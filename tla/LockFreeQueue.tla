--------------------------- MODULE LockFreeQueue ---------------------------
(* rcu::LockFreeQueue of nonlock_free_queue.h, the variant the tests use: a *)
(* linked queue with split reference counts.  A thread that works on the    *)
(* node at head or tail counts itself in the pointer's external count; when *)
(* a pointer leaves the node its count is moved to the node's internal      *)
(* count, less one for the pointer and one for the thread that moved it,    *)
(* and the thread whose change makes all counts zero deletes the node.      *)
(* Counts are integers: a negative one stands for the 30-bit value it       *)
(* wraps around to, which is not zero either.                               *)
EXTENDS LinkedNodes
CONSTANTS Pair,             \* two of the threads
          Pushers, Poppers, \* the threads that push, and those that pop
          MaxCount          \* bound on an external count, which retries increase
vars == <<node, head, tail, th, calls>>

Counted(n, p) == [external_count |-> n, ptr |-> p]
Fresh == [data |-> Null, next |-> Counted(0, Null), internal_count |-> 0, external_counters |-> 2]

\* The constructor counts its two pointers with 0, where every push counts a
\* new pointer with 1.  Two threads start with the new queue; all of them start
\* with a queue through which one value has gone, and with it the first node,
\* which is never deleted.
Init ==
    /\ \/ head = Counted(0, 1) /\ tail = Counted(0, 1)
       \/ head = Counted(1, 2) /\ tail = Counted(1, 2)
    /\ node = [a \in Addr |->
            CASE a = head.ptr -> Fresh
              [] a < head.ptr -> [Fresh EXCEPT !.next = Counted(1, 2), !.internal_count = -2,
                                               !.external_counters = 0]
              [] OTHER -> Freed]
    /\ th = [t \in Threads |-> IF t \in Pair \/ head.ptr = 2 THEN Away ELSE [at |-> "absent"]]
    /\ calls = 0

\* The counts of p after a change; the node is deleted when they are all zero.
Count(p, nodes, internal, external) ==
    LET n == [nodes[p] EXCEPT !.internal_count = @ + internal, !.external_counters = @ + external]
    IN  [nodes EXCEPT ![p] = IF n.internal_count = 0 /\ n.external_counters = 0 THEN Freed ELSE n]
\* Mutation: the thread that moved the pointer is counted as if it still worked.
free_external_counter_1(old, nodes) == Count(old.ptr, nodes, old.external_count - 1, -1)
free_external_counter(old, nodes) == Count(old.ptr, nodes, old.external_count - 2, -1)
release_ref(p) == Count(p, node, -1, 0)
increase_external_count(counted) == [counted EXCEPT !.external_count = @ + 1]
-----------------------------------------------------------------------------
\* push: a new node; then, until the data of the tail node can be set, the
\* thread counts itself at the tail.
Push(t) ==
    /\ t \in Pushers /\ Calling(t)
    /\ \E a \in New : /\ node' = [node EXCEPT ![a] = Fresh]
                      /\ Go(t, [at |-> "count tail", new |-> a, value |-> calls'])
    /\ UNCHANGED <<head, tail>>
PushCount(t) ==
    /\ th[t].at = "count tail" /\ tail.external_count < MaxCount
    /\ tail' = increase_external_count(tail)
    /\ Go(t, [at |-> "data", new |-> th[t].new, value |-> th[t].value, old |-> tail.ptr])
    /\ UNCHANGED <<node, head, calls>>
PushData(t) ==
    /\ th[t].at = "data" /\ node[th[t].old].data = Null
    /\ node' = [node EXCEPT ![th[t].old].data = th[t].value]
    /\ Go(t, [th[t] EXCEPT !.at = "next"])
    /\ UNCHANGED <<head, tail, calls>>
\* Another push is under way on this node: let go of it and try again.
PushBusy(t) ==
    /\ th[t].at = "data" /\ node[th[t].old].data # Null
    /\ Go(t, [th[t] EXCEPT !.at = "release"])
    /\ UNCHANGED <<node, head, tail, calls>>
PushRelease(t) ==
    /\ th[t].at = "release"
    /\ node' = release_ref(th[t].old)
    /\ Go(t, [at |-> "count tail", new |-> th[t].new, value |-> th[t].value])
    /\ UNCHANGED <<head, tail, calls>>
PushNext(t) ==
    /\ th[t].at = "next"
    /\ node' = [node EXCEPT ![th[t].old].next = Counted(1, th[t].new)]
    /\ Go(t, [th[t] EXCEPT !.at = "tail"])
    /\ UNCHANGED <<head, tail, calls>>
PushTail(t) ==
    /\ th[t].at = "tail"
    /\ tail' = Counted(1, th[t].new)
    /\ Go(t, [at |-> "free", counted |-> tail, res |-> Nothing])
    /\ UNCHANGED <<node, head, calls>>

\* pop counts itself at the head.
Pop(t) ==
    /\ t \in Poppers /\ Calling(t)
    /\ Go(t, [at |-> "count head"])
    /\ UNCHANGED <<node, head, tail>>
PopCount(t) ==
    /\ th[t].at = "count head" /\ head.external_count < MaxCount
    /\ head' = increase_external_count(head)
    /\ Go(t, [at |-> "test", counted |-> head'])
    /\ UNCHANGED <<node, tail, calls>>
\* The queue is empty, or next is read for the exchange of the head.
PopTest(t) ==
    LET p == th[t].counted.ptr IN
    /\ th[t].at = "test"
    /\ Go(t, IF p = tail.ptr THEN [at |-> "let go", old |-> p, res |-> Null]
             ELSE [at |-> "read", counted |-> th[t].counted])
    /\ UNCHANGED <<node, head, tail, calls>>
PopNext(t) ==
    /\ th[t].at = "read"
    /\ Go(t, [at |-> "cas", counted |-> th[t].counted, next |-> node[th[t].counted.ptr].next])
    /\ UNCHANGED <<node, head, tail, calls>>
PopCas(t) ==
    /\ th[t].at = "cas" /\ head = th[t].counted
    /\ head' = th[t].next
    /\ Go(t, [at |-> "popped", counted |-> th[t].counted])
    /\ UNCHANGED <<node, tail, calls>>
PopCasFails(t) ==
    /\ th[t].at = "cas" /\ head # th[t].counted
    /\ Go(t, [at |-> "let go", old |-> th[t].counted.ptr, res |-> Nothing])
    /\ UNCHANGED <<node, head, tail, calls>>
\* The thread gives up its count: the queue is empty, or it tries again.
PopLetGo(t) ==
    /\ th[t].at = "let go"
    /\ node' = release_ref(th[t].old)
    /\ Go(t, IF th[t].res = Nothing THEN [at |-> "count head"] ELSE [at |-> "return", res |-> Null])
    /\ UNCHANGED <<head, tail, calls>>
PopData(t) ==
    LET p == th[t].counted.ptr IN
    /\ th[t].at = "popped"
    /\ node' = [node EXCEPT ![p].data = Null]
    /\ Go(t, [at |-> "free", counted |-> th[t].counted, res |-> node[p].data])
    /\ UNCHANGED <<head, tail, calls>>

\* The end of push and of pop.
FreeExternal(t) ==
    /\ th[t].at = "free"
    /\ node' = free_external_counter(th[t].counted, node)
    /\ Go(t, IF th[t].res = Nothing THEN Away ELSE [at |-> "return", res |-> th[t].res])
    /\ UNCHANGED <<head, tail, calls>>
Return(t) ==
    /\ th[t].at = "return"
    /\ Go(t, Away)
    /\ UNCHANGED <<node, head, tail, calls>>

Next == \E t \in Threads :
    \/ Push(t) \/ PushCount(t) \/ PushData(t) \/ PushBusy(t) \/ PushRelease(t)
    \/ PushNext(t) \/ PushTail(t)
    \/ Pop(t) \/ PopCount(t) \/ PopTest(t) \/ PopNext(t) \/ PopCas(t) \/ PopCasFails(t) \/ PopLetGo(t) \/ PopData(t)
    \/ FreeExternal(t) \/ Return(t)
Spec == Init /\ [][Next]_vars
-----------------------------------------------------------------------------
(* The abstract queue: the nodes from head up to the one at the tail.       *)
Chain == Path(LAMBDA x : node[x].next.ptr, head.ptr, tail.ptr)
Contents == [i \in 1..Len(Chain) |-> node[Chain[i]].data]
Got(t) == CASE th[t].at = "popped" -> node[th[t].counted.ptr].data
            [] th[t].at \in {"return", "free", "let go"} -> th[t].res
            [] OTHER -> Nothing
OnChain == {Chain[i] : i \in 1..Len(Chain)} \cup {tail.ptr}
\* The nodes a thread reads or writes in its next step.
Uses(t) == CASE th[t].at \in {"data", "release", "next", "let go"} -> {th[t].old}
             [] th[t].at \in {"test", "read", "cas", "popped", "free"} -> {th[t].counted.ptr}
             [] OTHER -> {}
\* pop finds a node at the head: its assert(ptr != nullptr).
NodeAtHead == \A t \in Threads : th[t].at = "test" => th[t].counted.ptr \in {tail.ptr} \cup Addr
Own(t) == IF th[t].at \in {"count tail", "data", "release", "next", "tail"} THEN {th[t].new} ELSE {}
Held == UNION {Uses(t) \cup Own(t) : t \in Threads} \cup {1}
=============================================================================
