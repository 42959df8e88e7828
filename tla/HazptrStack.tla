---------------------------- MODULE HazptrStack ----------------------------
(* rcu::HazptrStack (hazptr_stack.h): a stack of nodes pushed and popped by *)
(* compare-and-swap of its head.  pop reads next of a head it does not own  *)
(* and deletes the node at once, so at most one thread may pop: the module  *)
(* gives the pops to one thread, and the pushes to all.                     *)
EXTENDS LinkedNodes
CONSTANTS Popper
vars == <<node, head, tail, th, calls>>

Init ==
    /\ node = [a \in Addr |-> Freed]
    /\ head = Null /\ tail = Null
    /\ th = [t \in Threads |-> Away]
    /\ calls = 0

Push(t) ==
    /\ Calling(t)
    /\ \E a \in New : /\ node' = [node EXCEPT ![a] = [data |-> calls', next |-> head]]
                      /\ Go(t, [at |-> "push", new |-> a])
    /\ UNCHANGED <<head, tail>>
\* Mutation: the head is stored, not compared and swapped.
PushStore(t) ==
    /\ th[t].at = "push"
    /\ head' = th[t].new
    /\ Go(t, Away)
    /\ UNCHANGED <<node, tail, calls>>
\* compare_exchange_weak with node->next as the expected value.
PushCas(t) ==
    /\ th[t].at = "push"
    /\ node[th[t].new].next = head
    /\ head' = th[t].new
    /\ Go(t, Away)
    /\ UNCHANGED <<node, tail, calls>>
\* It may also fail for no reason.
PushCasFails(t) ==
    /\ th[t].at = "push"
    /\ node' = [node EXCEPT ![th[t].new].next = head]
    /\ UNCHANGED <<head, tail, th, calls>>

\* old_head is loaded, or reloaded by a failed exchange; its next is read
\* before the exchange.
Load(old) == IF old = Null THEN [at |-> "return", res |-> Null]
             ELSE [at |-> "pop", old |-> old]
Pop ==
    /\ Calling(Popper)
    /\ Go(Popper, Load(head))
    /\ UNCHANGED <<node, head, tail>>
PopNext ==
    /\ th[Popper].at = "pop"
    /\ Go(Popper, [at |-> "cas", old |-> th[Popper].old, next |-> node[th[Popper].old].next])
    /\ UNCHANGED <<node, head, tail, calls>>
PopCas ==
    /\ th[Popper].at = "cas" /\ head = th[Popper].old
    /\ head' = th[Popper].next
    /\ Go(Popper, [at |-> "popped", old |-> th[Popper].old])
    /\ UNCHANGED <<node, tail, calls>>
PopCasFails ==
    /\ th[Popper].at = "cas"
    /\ Go(Popper, Load(head))
    /\ UNCHANGED <<node, head, tail, calls>>
PopDelete ==
    /\ th[Popper].at = "popped"
    /\ node' = [node EXCEPT ![th[Popper].old] = Freed]
    /\ Go(Popper, [at |-> "return", res |-> node[th[Popper].old].data])
    /\ UNCHANGED <<head, tail, calls>>
Return ==
    /\ th[Popper].at = "return"
    /\ Go(Popper, Away)
    /\ UNCHANGED <<node, head, tail, calls>>

Next == \/ \E t \in Threads : Push(t) \/ PushCas(t) \/ PushCasFails(t)
        \/ Pop \/ PopNext \/ PopCas \/ PopCasFails \/ PopDelete \/ Return
Spec == Init /\ [][Next]_vars
-----------------------------------------------------------------------------
(* The abstract stack: the nodes from the head on, the last one pushed last. *)
Chain == Path(LAMBDA x : node[x].next, head, Null)
Contents == [i \in 1..Len(Chain) |-> node[Chain[Len(Chain) + 1 - i]].data]
Got(t) == IF t # Popper THEN Nothing
          ELSE CASE th[t].at = "popped" -> node[th[t].old].data
                 [] th[t].at = "return" -> th[t].res
                 [] OTHER -> Nothing
OnChain == {Chain[i] : i \in 1..Len(Chain)}
Held == {th[t].new : t \in {u \in Threads : th[u].at = "push"}}
        \cup (IF th[Popper].at = "popped" THEN {th[Popper].old} ELSE {})
=============================================================================
