---------------------------- MODULE SWMRListSet ----------------------------
(* rcu::SWMRListSet (hazptr/swmr_list.h): a sorted linked list.  add and    *)
(* remove run under a mutex; contains walks the list with hazard pointers.  *)
(* It reads an element before it protects the node: if the node has been    *)
(* deleted meanwhile, that read yields any value.                           *)
EXTENDS LinkedNodes
CONSTANTS Writer,     \* the thread that adds and removes; the others search
          Elements    \* a finite set of integers
VARIABLE retired      \* nodes handed to the hazard pointers and not yet deleted
vars == <<node, head, tail, th, calls, retired>>

Init ==
    /\ node = [a \in Addr |-> Freed]
    /\ head = Null /\ tail = Null /\ retired = {}
    /\ th = [t \in Threads |-> Away]
    /\ calls = 0

Chain == Path(LAMBDA x : node[x].next, head, Null)
Set == {node[Chain[i]].element : i \in 1..Len(Chain)}
\* The number of nodes before find_first_small's place for d.
Before(d) == Cardinality({i \in 1..Len(Chain) : node[Chain[i]].element < d})
At(i) == IF i <= Len(Chain) THEN Chain[i] ELSE Null
\* prev.store(a), where prev is the place of d.
StorePrev(d, a, nodes) ==
    IF Before(d) = 0 THEN head' = a /\ node' = nodes
    ELSE head' = head /\ node' = [nodes EXCEPT ![Chain[Before(d)]].next = a]
\* Searches under way learn what is in the set after this step.
Searching == {t \in Threads : th[t].at \in {"look", "protect", "next", "again"}}
Observe(w) == th' = [t \in Threads |->
    IF t = Writer THEN w
    ELSE IF t \in Searching THEN [th[t] EXCEPT !.seen = @ \cup {th[t].data \in Set'}] ELSE th[t]]

\* Mutation: the new node goes in front of the list.
AddInFront(d) ==
    /\ Calling(Writer)
    /\ d \notin Set
    /\ \E a \in New : head' = a /\ node' = [node EXCEPT ![a] = [element |-> d, next |-> head]]
    /\ UNCHANGED <<tail, retired>>
    /\ Observe(Away)
add(d) ==
    /\ Calling(Writer)
    /\ \/ d \in Set /\ UNCHANGED <<node, head>>
       \/ /\ d \notin Set
          /\ \E a \in New :
                StorePrev(d, a, [node EXCEPT ![a] = [element |-> d, next |-> At(Before(d) + 1)]])
    /\ UNCHANGED <<tail, retired>>
    /\ Observe(Away)
\* The node is taken out, then cut off from its successor and retired.
remove(d) ==
    LET curr == At(Before(d) + 1) IN
    /\ Calling(Writer)
    /\ \/ d \notin Set /\ UNCHANGED <<node, head>> /\ Observe(Away)
       \/ /\ d \in Set
          /\ StorePrev(d, node[curr].next, node)
          /\ Observe([at |-> "cut", old |-> curr])
    /\ UNCHANGED <<tail, retired>>
Cut ==
    /\ th[Writer].at = "cut"
    /\ node' = [node EXCEPT ![th[Writer].old].next = Null]
    /\ retired' = retired \cup {th[Writer].old}
    /\ Go(Writer, Away)
    /\ UNCHANGED <<head, tail, calls>>

Published == UNION {{th[t].holder_prev, th[t].holder_curr} : t \in Searching}
\* Hazard pointers: what is retired and published by nobody is deleted.
Delete(a) ==
    /\ a \in retired \ Published
    /\ retired' = retired \ {a}
    /\ node' = [node EXCEPT ![a] = Freed]
    /\ UNCHANGED <<head, tail, th, calls>>

\* *p_prev for the node prev, Null for the head of the list.
Src(prev) == IF prev = Null THEN head ELSE node[prev].next
Restart(s) == [s EXCEPT !.at = "look", !.prev = Null, !.curr = head, !.next = Null]
contains(t, d) ==
    /\ t # Writer /\ Calling(t)
    /\ Go(t, [at |-> "look", data |-> d, prev |-> Null, curr |-> head, next |-> Null,
              holder_prev |-> Null, holder_curr |-> Null, seen |-> {d \in Set}])
    /\ UNCHANGED <<node, head, tail, retired>>
\* The element as read before it is protected.
Read(a) == IF node[a] = Freed THEN Elements ELSE {node[a].element}
Answer(s, res) == [at |-> "return", res |-> res, seen |-> s.seen]
Look(t) == LET s == th[t] IN
    /\ s.at = "look"
    /\ \/ s.curr = Null /\ Go(t, Answer(s, FALSE))
       \/ /\ s.curr # Null
          /\ \E e \in Read(s.curr) :
                Go(t, IF e < s.data THEN Answer(s, FALSE) ELSE [s EXCEPT !.at = "protect"])
    /\ UNCHANGED <<node, head, tail, calls, retired>>
\* Mutation: the node is published, and not compared with p_prev again.
ProtectBlindly(t) == LET s == th[t] IN
    /\ s.at = "protect"
    /\ Go(t, [s EXCEPT !.at = "next", !.holder_curr = s.curr])
    /\ UNCHANGED <<node, head, tail, calls, retired>>
\* try_protect, or back to the head of the list.
Protect(t) == LET s == th[t] IN
    /\ s.at = "protect"
    /\ Go(t, IF Src(s.prev) = s.curr THEN [s EXCEPT !.at = "next", !.holder_curr = s.curr]
             ELSE Restart([s EXCEPT !.holder_curr = Null]))
    /\ UNCHANGED <<node, head, tail, calls, retired>>
\* next is read, and p_prev once more.
ReadNext(t) == LET s == th[t] IN
    /\ s.at = "next"
    /\ Go(t, [s EXCEPT !.at = "again", !.next = node[s.curr].next])
    /\ UNCHANGED <<node, head, tail, calls, retired>>
\* The log lines of a changed p_prev also read the element of the node found
\* there, which is not protected: that read decides nothing and is left out.
Again(t) == LET s == th[t] IN
    /\ s.at = "again"
    /\ Go(t, CASE Src(s.prev) # s.curr -> Restart(s)
               [] Src(s.prev) = s.curr /\ node[s.curr].element = s.data -> Answer(s, TRUE)
               [] OTHER -> [s EXCEPT !.at = "look", !.prev = s.curr, !.curr = s.next, !.next = Null,
                                     !.holder_prev = s.holder_curr, !.holder_curr = s.holder_prev])
    /\ UNCHANGED <<node, head, tail, calls, retired>>
Return(t) ==
    /\ th[t].at = "return"
    /\ Go(t, Away)
    /\ UNCHANGED <<node, head, tail, calls, retired>>

Next ==
    \/ \E d \in Elements : add(d) \/ remove(d) \/ \E t \in Threads : contains(t, d)
    \/ Cut \/ \E a \in Addr : Delete(a)
    \/ \E t \in Threads : Look(t) \/ Protect(t) \/ ReadNext(t) \/ Again(t) \/ Return(t)
Spec == Init /\ [][Next]_vars
-----------------------------------------------------------------------------
(* Properties *)

\* The list is sorted without repetition, which find_first_small rests on.
Sorted == \A i \in 1..(Len(Chain) - 1) : node[Chain[i]].element < node[Chain[i + 1]].element

\* The nodes a search works on once it has protected them, the current one and
\* the one before it, are not deleted under it.
ProtectedInMemory ==
    \A t \in Searching :
        /\ th[t].at \in {"next", "again"} => node[th[t].curr] # Freed
        /\ th[t].prev # Null => node[th[t].prev] # Freed

\* contains answers TRUE only for an element that was in the set while it ran.
TrueIsTrue == \A t \in Threads : (th[t].at = "return" /\ th[t].res) => TRUE \in th[t].seen

OnChain == {Chain[i] : i \in 1..Len(Chain)}
Held == retired \cup (IF th[Writer].at = "cut" THEN {th[Writer].old} ELSE {})
=============================================================================
