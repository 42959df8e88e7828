---------------------------- MODULE LinkedNodes ----------------------------
(* The memory of the linked structures (SPSCQueue, LockFreeQueue,           *)
(* HazptrStack, SWMRListSet): nodes at a few addresses that are deleted and *)
(* allocated again, and the threads that work on them.                      *)
EXTENDS Integers, FiniteSets, Sequences
CONSTANTS Addr,        \* addresses of nodes, positive numbers
          Threads,
          MaxCalls     \* bound on the number of calls
VARIABLES
    node,   \* the node at every address, or Freed
    head, tail,
    th,     \* where every thread is, with its local variables
    calls   \* number of calls so far; the n-th call pushes the value n

ASSUME LinkedAssumption == Addr \subseteq Nat \ {0} /\ MaxCalls \in Nat

Null == 0
Nothing == -1   \* no call has taken anything yet; Null: it found nothing
Freed == [freed |-> TRUE]
FreeAddr == {a \in Addr : node[a] = Freed}
\* The allocator hands out the lowest free address, if there is one.
New == {a \in FreeAddr : \A b \in FreeAddr : a <= b}
Away == [at |-> "idle"]
Go(t, step) == th' = [th EXCEPT ![t] = step]
Calling(t) == th[t] = Away /\ calls < MaxCalls /\ calls' = calls + 1
\* The nodes from a on by their next pointers, which the structure's Link
\* operator yields, up to the node b.
Path(Link(_), a, b) ==
    LET P[x \in Addr \cup {Null}] == IF x = b THEN <<>> ELSE <<x>> \o P[Link(x)]
    IN  P[a]
=============================================================================
