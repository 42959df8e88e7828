----------------------------- MODULE BoundedFIFO -----------------------------
(***************************************************************************)
(* What a bounded blocking queue promises its callers, without saying how: *)
(* the n-th push to begin supplies the n-th pop to begin, every item is    *)
(* stored once and taken once, and never more than bound items are stored. *)
(* An item is named by the number of the push that supplies it.            *)
(***************************************************************************)
EXTENDS Naturals, FiniteSets

VARIABLES
  bound,    \* how many items fit
  pushed,   \* number of pushes begun
  popped,   \* number of pops begun
  items,    \* items stored and not yet taken
  writing,  \* pushes begun and not yet stored
  reading   \* pops begun that have not yet taken their item

vars == <<bound, pushed, popped, items, writing, reading>>

Init ==
  /\ bound \in Nat \ {0}
  /\ pushed = 0 /\ popped = 0
  /\ items = {} /\ writing = {} /\ reading = {}

BeginPush ==
  /\ pushed' = pushed + 1
  /\ writing' = writing \cup {pushed}
  /\ UNCHANGED <<bound, popped, items, reading>>

BeginPop ==
  /\ popped' = popped + 1
  /\ reading' = reading \cup {popped}
  /\ UNCHANGED <<bound, pushed, items, writing>>

Put(i) ==
  /\ Cardinality(items) < bound
  /\ i \notin items
  /\ items' = items \cup {i}
  /\ writing' = writing \ {i}
  /\ UNCHANGED <<bound, pushed, popped, reading>>

Take(i) ==
  /\ i \in items
  /\ items' = items \ {i}
  /\ reading' = reading \ {i}
  /\ UNCHANGED <<bound, pushed, popped, writing>>

\* Starting over with another bound, only while no call is under way.
Restart ==
  /\ writing = {} /\ reading = {}
  /\ bound' \in Nat \ {0}
  /\ pushed' = 0 /\ popped' = 0
  /\ items' = {}
  /\ UNCHANGED <<writing, reading>>

Next ==
  \/ BeginPush \/ BeginPop \/ Restart
  \/ \E i \in writing : Put(i)
  \/ \E i \in reading : Take(i)

Spec == Init /\ [][Next]_vars
=============================================================================
