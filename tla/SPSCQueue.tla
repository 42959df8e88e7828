----------------------------- MODULE SPSCQueue -----------------------------
(* rcu::SPSCQueue (queue.h, queue.hpp): a linked queue with a dummy node at *)
(* its tail for one producer and one consumer.  data and next are plain     *)
(* fields; the atomic head and tail hand nodes over.                        *)
EXTENDS LinkedNodes
CONSTANTS Producer, Consumer
vars == <<node, head, tail, th, calls>>

Dummy == [data |-> Null, next |-> Null]
Init ==
    /\ node = [a \in Addr |-> IF a = 1 THEN Dummy ELSE Freed]
    /\ head = 1 /\ tail = 1
    /\ th = [t \in Threads |-> Away]
    /\ calls = 0

\* push fills the dummy at the tail and links a new one behind it ...
Push ==
    /\ Calling(Producer)
    /\ node' = [node EXCEPT ![tail].data = calls']
    /\ Go(Producer, [at |-> "link"])
    /\ UNCHANGED <<head, tail>>
PushLink ==
    /\ th[Producer].at = "link"
    /\ \E a \in New : /\ node' = [node EXCEPT ![tail].next = a, ![a] = Dummy]
                      /\ Go(Producer, [at |-> "publish", new |-> a])
    /\ UNCHANGED <<head, tail, calls>>
\* ... and moves the tail, which hands the filled node to the consumer.
PushPublish ==
    /\ th[Producer].at = "publish"
    /\ tail' = th[Producer].new
    /\ Go(Producer, Away)
    /\ UNCHANGED <<node, head, calls>>

\* pop_head compares head and tail, then moves the head.
Pop ==
    /\ Calling(Consumer)
    /\ Go(Consumer, IF head = tail THEN [at |-> "return", res |-> Null]
                                   ELSE [at |-> "unlink", old |-> head])
    /\ UNCHANGED <<node, head, tail>>
PopUnlink ==
    /\ th[Consumer].at = "unlink"
    /\ head' = node[head].next
    /\ Go(Consumer, [th[Consumer] EXCEPT !.at = "popped"])
    /\ UNCHANGED <<node, tail, calls>>
PopDelete ==
    /\ th[Consumer].at = "popped"
    /\ node' = [node EXCEPT ![th[Consumer].old] = Freed]
    /\ Go(Consumer, [at |-> "return", res |-> node[th[Consumer].old].data])
    /\ UNCHANGED <<head, tail, calls>>
Return ==
    /\ th[Consumer].at = "return"
    /\ Go(Consumer, Away)
    /\ UNCHANGED <<node, head, tail, calls>>

Next == Push \/ PushLink \/ PushPublish \/ Pop \/ PopUnlink \/ PopDelete \/ Return
Spec == Init /\ [][Next]_vars
-----------------------------------------------------------------------------
(* The abstract queue: the nodes from head up to the dummy at the tail.     *)
Chain == Path(LAMBDA x : node[x].next, head, tail)
Contents == [i \in 1..Len(Chain) |-> node[Chain[i]].data]
Got(t) == IF t # Consumer THEN Nothing
          ELSE CASE th[t].at = "popped" -> node[th[t].old].data
                 [] th[t].at = "return" -> th[t].res
                 [] OTHER -> Nothing
OnChain == {Chain[i] : i \in 1..Len(Chain)} \cup {tail}
Held == (IF th[Consumer].at = "popped" THEN {th[Consumer].old} ELSE {})
        \cup (IF th[Producer].at = "publish" THEN {th[Producer].new} ELSE {})
=============================================================================
