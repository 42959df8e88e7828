------------------------------ MODULE SkipList ------------------------------
(* rcu::SkipList (src/container/skiplist.h, skiplist-inl.h): a sorted list  *)
(* with shortcuts.  One thread.  Nodes are addresses, 0 is the head_; obj   *)
(* holds the nodes and size_, spec how often every element should be there. *)
EXTENDS Integers, Sequences, FiniteSets
CONSTANTS Elements, Addr, MAX_HEIGHT, InitHeights, MaxOps
VARIABLES obj, spec, calls
vars == <<obj, spec, calls>>

head_ == 0
Nil == -1
Unused == <<>>
Node(d, h) == [data |-> d, skip |-> [l \in 1..h |-> Nil]]
Init ==
    /\ \E h \in InitHeights :
          obj = [node |-> [a \in Addr \cup {head_} |-> IF a = head_ THEN Node(0, h) ELSE Node(0, 0)],
                 size |-> 0, result |-> FALSE]
    /\ spec = [count |-> [d \in Elements |-> 0], result |-> FALSE]
    /\ calls = 0
Op == calls < MaxOps /\ calls' = calls + 1

height(node) == Len(node[head_].skip)
\* sizeLimitTable_, the powers of e rounded down.
SizeLimit(h) == <<2, 7, 20, 54>>[h]
\* grow_height: the new head has one more layer, empty.
Grow(o) == IF height(o.node) < MAX_HEIGHT /\ o.size + 1 > SizeLimit(height(o.node))
           THEN [o.node EXCEPT ![head_].skip = Append(@, Nil)] ELSE o.node
\* The last node before d on layer l, from the node a on.
Walk(node, d, l, a) ==
    LET W[x \in DOMAIN node] == LET n == node[x].skip[l]
                                IN  IF n # Nil /\ node[n].data < d THEN W[n] ELSE x
    IN  W[a]
\* _search_equal_or_greater: on each layer the last node before d.
Prevs(node, d) ==
    LET P[l \in 1..height(node)] ==
            Walk(node, d, l, IF l = height(node) THEN head_ ELSE P[l + 1])
    IN  P
Found(node, d) == LET n == node[Prevs(node, d)[1]].skip[1] IN IF n = Nil THEN {}
                  ELSE IF node[n].data = d THEN {n} ELSE {}
find(d) == Found(obj.node, d) # {}

Free == {a \in Addr : obj.node[a].skip = Unused}
\* create, and on each of its layers between prevs and what follows.
Linked(node, prevs, a, d, h) ==
    [x \in DOMAIN node |->
        IF x = a THEN [data |-> d, skip |-> [l \in 1..h |-> node[prevs[l]].skip[l]]]
        ELSE [node[x] EXCEPT !.skip = [l \in DOMAIN @ |-> IF l <= h /\ prevs[l] = x THEN a ELSE @[l]]]]
insert(d, is_force_insert, h) ==
    LET node == Grow(obj)
        is_exist == Found(node, d) # {}
        adds == is_force_insert \/ ~is_exist
        a == CHOOSE x \in Free : \A y \in Free : x <= y
    IN  /\ Op /\ Free # {} /\ h <= height(node)
        /\ obj' = [node |-> IF adds THEN Linked(node, Prevs(node, d), a, d, h) ELSE node,
                   size |-> obj.size + (IF adds THEN 1 ELSE 0), result |-> is_exist]
        /\ spec' = [count |-> [spec.count EXCEPT ![d] = IF is_force_insert \/ @ = 0 THEN @ + 1 ELSE @],
                    result |-> spec.count[d] > 0]
\* Mutation: the node is taken out of the lowest layer only.
UnlinkedLowest(node, prevs, a) ==
    [x \in DOMAIN node |->
        IF x = a THEN Node(0, 0)
        ELSE [node[x] EXCEPT !.skip = [l \in DOMAIN @ |-> IF l = 1 /\ @[l] = a THEN node[a].skip[l] ELSE @[l]]]]
\* The node is taken out of each of its layers and destroyed.
Unlinked(node, prevs, a) ==
    [x \in DOMAIN node |->
        IF x = a THEN Node(0, 0)
        ELSE [node[x] EXCEPT !.skip = [l \in DOMAIN @ |->
                IF l <= Len(node[a].skip) /\ prevs[l] = x THEN node[a].skip[l] ELSE @[l]]]]
remove(d) ==
    /\ Op
    /\ LET found == Found(obj.node, d) IN
       \/ found = {} /\ obj' = [obj EXCEPT !.result = FALSE]
       \/ \E a \in found : obj' = [node |-> Unlinked(obj.node, Prevs(obj.node, d), a),
                                   size |-> obj.size - 1, result |-> TRUE]
    /\ spec' = [count |-> [spec.count EXCEPT ![d] = IF @ > 0 THEN @ - 1 ELSE 0],
                result |-> spec.count[d] > 0]

Next == \/ \E d \in Elements, force \in BOOLEAN, h \in 1..MAX_HEIGHT : insert(d, force, h)
        \/ \E d \in Elements : remove(d)
Spec == Init /\ [][Next]_vars
-----------------------------------------------------------------------------
\* The nodes on a layer, in order, as far as they have not been destroyed.
Layer(l) == LET L[x \in DOMAIN obj.node] ==
                    IF l > Len(obj.node[x].skip) \/ obj.node[x].skip[l] = Nil THEN <<>>
                    ELSE <<obj.node[x].skip[l]>> \o L[obj.node[x].skip[l]]
            IN  L[head_]

\* The lowest layer is sorted and holds every element as often as it should;
\* each layer holds exactly the nodes that are high enough, in the same order;
\* every other node has been destroyed; insert, remove and find answer rightly.
LayersAgree ==
    LET low == Layer(1)
        data == [i \in DOMAIN low |-> obj.node[low[i]].data]
    IN  /\ \A i \in 1..(Len(low) - 1) : data[i] <= data[i + 1]
        /\ \A d \in Elements : Cardinality({i \in DOMAIN low : data[i] = d}) = spec.count[d]
        /\ \A l \in 1..height(obj.node) :
              Layer(l) = SelectSeq(low, LAMBDA a : Len(obj.node[a].skip) >= l)
        /\ Addr \ Free = {low[i] : i \in DOMAIN low}
        /\ obj.size = Len(low) /\ obj.result = spec.result
        /\ \A d \in Elements : find(d) = (spec.count[d] > 0)
=============================================================================
