-------------------------- MODULE BoundedQueueProofs --------------------------
(***************************************************************************)
(* Proofs about BoundedQueue, for any number of threads up to half the     *)
(* number of versions, any capacity and any number of tickets.             *)
(***************************************************************************)
EXTENDS BoundedQueue, ModularArithmetic, FiniteSetTheorems

\* Type facts used throughout: every thread's slot exists, and its
\* expected version is a raw version.
LEMMA SlotType ==
  ASSUME TypeOK, NEW t \in Threads
  PROVE  /\ slot(t) \in Slots
         /\ expected_version(t) \in 0..(VersionMod - 1)
         /\ (expected_version(t) + 1) % VersionMod \in 0..(VersionMod - 1)
<1> USE VersionAssumption
<1>1. index[t] \in Nat /\ capacity \in Nat \ {0}
  BY BoundAssumption DEF TypeOK, Item
<1>2. slot(t) \in Slots
  BY <1>1, ModRange DEF slot, slot_id, Slots
<1>3. PICK q \in Nat : q = index[t] \div capacity
  BY <1>1, DivMod
<1>4. 2 * q \in Nat
  OBVIOUS
<1>5. push_version_for_index(index[t]) \in 0..(VersionMod - 1)
  BY <1>3, <1>4, ModRange DEF push_version_for_index
<1>6. pop_version_for_index(index[t]) \in 0..(VersionMod - 1)
  <2>1. push_version_for_index(index[t]) + 1 \in Nat
    BY <1>5
  <2> QED
    BY <2>1, ModRange DEF pop_version_for_index
<1>7. expected_version(t) \in 0..(VersionMod - 1)
  BY <1>5, <1>6 DEF expected_version
<1>8. expected_version(t) + 1 \in Nat
  BY <1>7
<1> QED
  BY <1>2, <1>7, <1>8, ModRange

\* The constant sets the type invariant is made of.
LEMMA ConstantTypes ==
  /\ 0 \in Item /\ Item \subseteq Nat
  /\ 0 \in Indices /\ Indices \subseteq Nat
  /\ \A i \in Indices : i < MaxTickets => i \in Item /\ i + 1 \in Indices
  /\ 0 \in Words /\ 0..(VersionMod - 1) \subseteq Words /\ Words \subseteq Nat
  /\ \A v \in Words : v < VersionMod => v + VersionMod \in Words
BY BoundAssumption, VersionAssumption DEF Item, Indices, Words

\* The queue starts well typed, whatever capacity the constructor computes.
LEMMA TypeInit == Init => TypeOK
<1> SUFFICES ASSUME Init PROVE TypeOK
  OBVIOUS
<1>1. PICK m \in MinCapacities :
        /\ capacity = nextPowTwo(m)
        /\ futex = EachSlot(nextPowTwo(m), 0)
        /\ value = EachSlot(nextPowTwo(m), Moved)
        /\ turn  = EachSlot(nextPowTwo(m), 0)
  BY DEF Init
<1>2. capacity \in Nat \ {0}
  BY <1>1, CapacityAssumption
<1> QED
  BY <1>1, <1>2, ConstantTypes DEF Init, TypeOK, EachSlot, Slots, Labels

\* A step preserves the types, given that only untagged words are tagged.
LEMMA TypeNext ==
  ASSUME TypeOK, WaitersMismatch, [Next]_vars
  PROVE  TypeOK'
<1>1. ASSUME NEW t \in Threads, push(t) PROVE TypeOK'
  <2>1. next_push_index \in Item /\ next_push_index + 1 \in Indices
    BY <1>1, ConstantTypes DEF push, TypeOK
  <2> QED
    BY <1>1, <2>1 DEF push, Goto, TypeOK, Slots, Labels
<1>2. ASSUME NEW t \in Threads, TakePopTicket(t)
      PROVE  /\ next_pop_index' \in Indices
             /\ index' \in [Threads -> Item]
             /\ pc' \in [Threads -> Labels]
  <2>1. next_pop_index \in Item /\ next_pop_index + 1 \in Indices
    BY <1>2, ConstantTypes DEF TakePopTicket, TypeOK
  <2> QED
    BY <1>2, <2>1 DEF TakePopTicket, Goto, TypeOK, Labels
<1>3. ASSUME NEW t \in Threads, pop(t) \/ pop_ptr(t) PROVE TypeOK'
  BY <1>2, <1>3 DEF pop, pop_ptr, TakePopTicket, Goto, TypeOK, Slots
<1>4. ASSUME NEW t \in Threads, clear(t) PROVE TypeOK'
  BY <1>4 DEF clear, shared, Goto, TypeOK, Slots, Labels
<1>5. ASSUME NEW t \in Threads, NEW m \in MinCapacities, Resize(t, m)
      PROVE  TypeOK'
  <2>1. nextPowTwo(m) \in Nat \ {0}
    BY CapacityAssumption
  <2> QED
    BY <1>5, <2>1, ConstantTypes DEF Resize, EachSlot, local, TypeOK, Slots
<1>6. ASSUME NEW t \in Threads, Step(t) PROVE TypeOK'
  <2>0. slot(t) \in Slots /\ (expected_version(t) + 1) % VersionMod \in Words
    BY SlotType, ConstantTypes
  <2>1. CASE SizeReadPop(t)
    BY <2>1 DEF SizeReadPop, shared, Goto, TypeOK, Slots, Labels
  <2>2. CASE SizeReadPush(t)
    BY <2>2, ConstantTypes DEF SizeReadPush, NonEmpty, shared, Goto, TypeOK, Slots, Labels
  <2>3. CASE ClearPop(t)
    BY <1>2, <2>3 DEF ClearPop, TakePopTicket, Goto, TypeOK, Slots
  <2>4. CASE Load(t)
    <3>1. futex[slot(t)] \in Words
      BY <2>0 DEF TypeOK
    <3> QED
      BY <3>1, <2>4 DEF Load, WaitHow, shared, Goto, TypeOK, Slots, Labels
  <2>5. CASE TagSucceeds(t)
    <3>1. make_tagged_version(current_version[t]) \in Words
      <4>1. ~is_tagged_version(current_version[t]) /\ current_version[t] \in Words
        BY <2>5 DEF TagSucceeds, WaitersMismatch, TypeOK
      <4>2. current_version[t] \in Nat /\ VersionMod \in Nat
        BY <4>1, ConstantTypes, VersionAssumption
      <4>3. current_version[t] < VersionMod
        BY <4>1, <4>2 DEF is_tagged_version
      <4> QED
        BY <4>1, <4>3, ConstantTypes DEF make_tagged_version
    <3> QED
      BY <2>0, <2>5, <3>1 DEF TagSucceeds, Goto, TypeOK, Slots, Labels
  <2>6. CASE TagFails(t)
    BY <2>6 DEF TagFails, shared, Goto, TypeOK, Slots, Labels
  <2>7. CASE FutexWait(t)
    BY <2>7 DEF FutexWait, shared, Goto, TypeOK, Slots, Labels
  <2>8. CASE Callback(t)
    BY <2>0, <2>8 DEF Callback, Goto, TypeOK, Slots, Labels
  <2>9. ASSUME Exchange(t)
        PROVE  /\ futex' \in [Slots -> Words]
               /\ turn' \in [Slots -> Nat]
               /\ got' \in [Threads -> Item \cup {Moved}]
               /\ current_version' \in [Threads -> Words]
    BY <2>0, <2>9, ConstantTypes DEF Exchange, NewVersion, TypeOK
  <2>10. ASSUME DropLocals(t)
         PROVE  /\ index' \in [Threads -> Item]
                /\ op' \in [Threads -> {"push", "pop", "pop_ptr", "clear"}]
    BY <2>10, ConstantTypes DEF DropLocals, TypeOK
  <2>11. CASE AdvanceUntagged(t)
    BY <2>9, <2>10, <2>11
    DEF AdvanceUntagged, Exchange, DropLocals, Return, Goto, TypeOK, Slots, Labels
  <2>12. CASE AdvanceTagged(t)
    BY <2>9, <2>12 DEF AdvanceTagged, Exchange, Goto, TypeOK, Slots, Labels
  <2>13. CASE WakeAll(t)
    BY <2>10, <2>13 DEF WakeAll, DropLocals, Return, shared, TypeOK, Slots, Labels
  <2> QED
    BY <1>6, <2>1, <2>2, <2>3, <2>4, <2>5, <2>6, <2>7, <2>8, <2>11, <2>12, <2>13
    DEF Step
<1>7. ASSUME NEW t \in Threads, SpuriousReturn(t) PROVE TypeOK'
  BY <1>7 DEF SpuriousReturn, shared, Goto, TypeOK, Slots, Labels
<1>8. CASE UNCHANGED vars
  BY <1>8 DEF vars, TypeOK, Slots
<1> QED
  BY <1>1, <1>3, <1>4, <1>5, <1>6, <1>7, <1>8
  DEF Next, reserve_and_clear, Threads

-----------------------------------------------------------------------------
(* Tickets, turns and versions.                                            *)

\* The version a thread expects is its turn, cut to 16 bits, and so is the
\* version it installs.
LEMMA VersionOfTurn ==
  ASSUME TypeOK, NEW t \in Threads
  PROVE  /\ Turn(t) \in Nat
         /\ Kind(t) \in {0, 1}
         /\ expected_version(t) = Turn(t) % VersionMod
         /\ (expected_version(t) + 1) % VersionMod = (Turn(t) + 1) % VersionMod
<1> USE VersionAssumption
<1>1. index[t] \in Nat /\ capacity \in Nat \ {0}
  BY ConstantTypes DEF TypeOK
<1>2. PICK q \in Nat : q = index[t] \div capacity
  BY <1>1, DivMod
<1>3. 2 * q \in Nat /\ 2 * q + 1 \in Nat
  OBVIOUS
<1>4. (((2 * q) % VersionMod) + 1) % VersionMod = (2 * q + 1) % VersionMod
  BY <1>3, ModSucc
<1>5. Kind(t) \in {0, 1}
  BY DEF Kind
<1>6. Turn(t) \in Nat
  BY <1>2, <1>3, <1>5 DEF Turn, TurnOf
<1>7. expected_version(t) = Turn(t) % VersionMod
  <2>1. CASE op[t] = "push"
    BY <1>2, <2>1
    DEF expected_version, push_version_for_index, Turn, TurnOf, Kind
  <2>2. CASE op[t] # "push"
    BY <1>2, <1>4, <2>2
    DEF expected_version, pop_version_for_index, push_version_for_index, Turn,
        TurnOf, Kind
  <2> QED
    BY <2>1, <2>2
<1> QED
  BY <1>5, <1>6, <1>7, ModSucc

\* A slot and a turn at it belong to one ticket.
LEMMA TurnDeterminesTicket ==
  ASSUME capacity \in Nat \ {0}, NEW i \in Nat, NEW j \in Nat,
         NEW k \in {0, 1}, NEW l \in {0, 1},
         slot_id(i) = slot_id(j), TurnOf(k, i) = TurnOf(l, j)
  PROVE  i = j /\ k = l
<1>1. PICK q1 \in Nat, r \in 0..(capacity - 1) :
        q1 = i \div capacity /\ r = i % capacity /\ i = capacity * q1 + r
  BY DivMod
<1>2. PICK q2 \in Nat, r2 \in 0..(capacity - 1) :
        q2 = j \div capacity /\ r2 = j % capacity /\ j = capacity * q2 + r2
  BY DivMod
<1>3. r = r2
  BY <1>1, <1>2 DEF slot_id
<1>4. q1 = q2 /\ k = l
  BY <1>1, <1>2 DEF TurnOf
<1> QED
  BY <1>1, <1>2, <1>3, <1>4

\* Two threads inside the callback of one slot are the same thread.
LEMMA ExclusiveFromInv ==
  ASSUME TypeOK, CallbackInTurn, TicketsDistinct
  PROVE  SlotExclusive
<1> SUFFICES ASSUME NEW t \in Threads, NEW u \in Threads,
                    InCallback(t), InCallback(u), slot(t) = slot(u)
             PROVE  t = u
  BY DEF SlotExclusive, InCallback
<1>1. Turn(t) = Turn(u)
  BY DEF CallbackInTurn
<1>2. /\ index[t] \in Nat /\ index[u] \in Nat /\ capacity \in Nat \ {0}
      /\ Kind(t) \in {0, 1} /\ Kind(u) \in {0, 1}
  BY ConstantTypes DEF TypeOK, Kind
<1>3. index[t] = index[u] /\ Kind(t) = Kind(u)
  BY <1>1, <1>2, TurnDeterminesTicket DEF Turn, slot
<1>4. Holding(t) /\ Holding(u)
  BY DEF InCallback, Holding
<1> QED
  BY <1>3, <1>4 DEF TicketsDistinct

\* A thread that finds its 16-bit version at the slot is in turn.  Otherwise its
\* turn is at least VersionMod ahead, so the VersionMod \div 2 + 1 tickets of its
\* kind from the slot's turn to its own are all held, by different threads:
\* more than there are.
LEMMA NoConfusion ==
  ASSUME TypeOK, RawIsTurn, TurnNotPassed, TicketsHeld,
         NEW t \in Threads, Holding(t),
         get_raw_version(futex[slot(t)]) = expected_version(t)
  PROVE  Turn(t) = turn[slot(t)]
<1> DEFINE s == slot(t)
           k == Kind(t)
           half == VersionMod \div 2
<1>1. /\ s \in Slots /\ turn[s] \in Nat /\ Turn(t) \in Nat /\ k \in {0, 1}
      /\ capacity \in Nat \ {0}
  BY SlotType, VersionOfTurn DEF TypeOK
<1>2. half \in Nat /\ VersionMod = 2 * half
  BY VersionAssumption
<1>3. turn[s] % VersionMod = Turn(t) % VersionMod
  BY <1>1, VersionOfTurn DEF RawIsTurn
<1>4. turn[s] <= Turn(t)
  BY DEF TurnNotPassed
<1> SUFFICES ASSUME turn[s] < Turn(t) PROVE FALSE
  BY <1>1, <1>4
<1>5. turn[s] + VersionMod <= Turn(t)
  BY <1>1, <1>3, ModGap, VersionAssumption
<1>6. PICK q \in Nat, r \in 0..(capacity - 1) :
        q = index[t] \div capacity /\ r = index[t] % capacity
        /\ index[t] = capacity * q + r
  <2>1. index[t] \in Nat
    BY ConstantTypes DEF TypeOK
  <2> QED
    BY <1>1, <2>1, DivMod
<1>7. r = s /\ Turn(t) = 2 * q + k
  BY <1>6 DEF slot, slot_id, Turn, TurnOf
<1> DEFINE ticket(j) == capacity * (q - j) + r
<1> HIDE DEF s, k, half
<1>8. ASSUME NEW j \in 0..half
      PROVE  \E u \in Threads : Holding(u) /\ Kind(u) = k /\ index[u] = ticket(j)
  <2>1. q - j \in Nat
    BY <1>1, <1>2, <1>5, <1>7
  <2>2. ticket(j) \div capacity = q - j /\ ticket(j) % capacity = r
    BY <1>1, <1>6, <2>1, DivModUnique
  <2>3. PICK m \in Nat, n \in Nat :
          m = capacity * (q - j) /\ n = capacity * q /\ m <= n
    <3>1. capacity * (q - j) \in Nat /\ capacity * q \in Nat
      BY <1>1, <2>1
    <3>2. capacity * (q - j) <= capacity * q
      BY <1>1, <2>1
    <3> QED
      BY <3>1, <3>2
  <2>4. ticket(j) \in Nat /\ ticket(j) <= index[t]
    <3>1. ticket(j) = m + r /\ index[t] = n + r
      BY <1>6, <2>3
    <3> QED
      BY <2>3, <3>1
  <2>5. index[t] < Tickets(k) /\ Tickets(k) \in Nat
    BY <1>1, ConstantTypes DEF TurnNotPassed, k, TypeOK, Tickets
  <2>6. ticket(j) \in 0..(Tickets(k) - 1)
    <3>1. index[t] \in Nat
      BY ConstantTypes DEF TypeOK
    <3> HIDE DEF ticket
    <3> QED
      BY <2>4, <2>5, <3>1
  <2>7. slot_id(ticket(j)) = s
    BY <2>2, <1>7 DEF slot_id
  <2>8. turn[s] <= TurnOf(k, ticket(j))
    <3>1. TurnOf(k, ticket(j)) = 2 * (q - j) + k
      BY <2>2 DEF TurnOf
    <3> QED
      BY <3>1, <1>1, <1>2, <1>5, <1>7, <2>1
  <2> QED
    BY <1>1, <2>6, <2>7, <2>8 DEF TicketsHeld
<1> DEFINE f == [j \in 0..half |->
                   CHOOSE u \in Threads :
                     Holding(u) /\ Kind(u) = k /\ index[u] = ticket(j)]
<1>9. \A j \in 0..half : f[j] \in Threads /\ index[f[j]] = ticket(j)
  BY <1>8
<1>10. Cardinality(Threads) < Cardinality(0..half)
  <2>1. Cardinality(0..half) = half + 1
    BY <1>2, FS_Interval
  <2>2. Cardinality(Threads) \in Nat /\ Cardinality(Threads) <= half
    BY ThreadsAssumption, FS_CardinalityType DEF half
  <2> QED
    BY <1>2, <2>1, <2>2
<1>11. PICK x \in 0..half, y \in 0..half : x # y /\ f[x] = f[y]
  <2>1. f \in [0..half -> Threads]
    BY <1>9
  <2>2. IsFiniteSet(0..half) /\ IsFiniteSet(Threads)
    BY <1>2, FS_Interval, ThreadsAssumption
  <2> HIDE DEF f
  <2> QED
    BY <1>10, <2>1, <2>2, FS_PigeonHole
<1>12. ticket(x) = ticket(y)
  BY <1>9, <1>11
<1>13. PICK m \in Int, n \in Int : m = capacity * (q - x) /\ n = capacity * (q - y)
  BY <1>1, <1>2
<1>14. m + r = n + r
  BY <1>12, <1>13
<1>15. m = n
  BY <1>14
<1>16. q - x = q - y
  BY <1>1, <1>2, <1>13, <1>15
<1> QED
  BY <1>2, <1>11, <1>16

-----------------------------------------------------------------------------
(* The inductive invariant, one group of actions at a time.                *)

\* A thread's ticket does not change while its ticket's variables do not.
LEMMA SameTicket ==
  ASSUME NEW t, capacity' = capacity, index'[t] = index[t], op'[t] = op[t]
  PROVE  /\ slot(t)' = slot(t) /\ Turn(t)' = Turn(t) /\ Kind(t)' = Kind(t)
         /\ expected_version(t)' = expected_version(t)
BY DEF slot, slot_id, Turn, TurnOf, Kind, expected_version,
       push_version_for_index, pop_version_for_index

\* The part of the invariant that is about tickets and turns, not about waiting.
TicketInv ==
  /\ RawIsTurn
  /\ TurnNotPassed
  /\ TicketsDistinct
  /\ TicketsHeld
  /\ UnclaimedAhead
  /\ SlotHoldsItem

\* A step that moves no turn, index or value and changes no held ticket.
Quiet ==
  /\ capacity' = capacity
  /\ next_push_index' = next_push_index /\ next_pop_index' = next_pop_index
  /\ value' = value /\ turn' = turn
  /\ \A s \in Slots : get_raw_version(futex'[s]) = get_raw_version(futex[s])
  /\ \A u \in Threads :
       /\ Holding(u)' <=> Holding(u)
       /\ pc'[u] = "advance" <=> pc[u] = "advance"
       /\ Holding(u) => index'[u] = index[u] /\ op'[u] = op[u] /\ got'[u] = got[u]

\* A quiet step preserves what is known about tickets.
LEMMA QuietStep ==
  ASSUME TypeOK, TicketInv, Quiet
  PROVE  TicketInv'
<1> USE DEF TicketInv, Quiet
<1>1. ASSUME NEW u \in Threads, Holding(u)
      PROVE  slot(u)' = slot(u) /\ Turn(u)' = Turn(u) /\ Kind(u)' = Kind(u)
  BY <1>1, SameTicket
<1>2. \A k, i : /\ slot_id(i)' = slot_id(i) /\ TurnOf(k, i)' = TurnOf(k, i)
                /\ Tickets(k)' = Tickets(k)
  BY DEF slot_id, TurnOf, Tickets
<1>3. Slots' = Slots
  BY DEF Slots
<1>4. RawIsTurn'
  BY <1>3 DEF RawIsTurn, get_raw_version
<1>5. TurnNotPassed'
  BY <1>1, <1>2 DEF TurnNotPassed
<1>6. TicketsDistinct'
  BY <1>1 DEF TicketsDistinct
<1>7. TicketsHeld'
  <2> SUFFICES ASSUME NEW k \in {0, 1}, NEW i \in 0..(Tickets(k) - 1),
                      turn[slot_id(i)] <= TurnOf(k, i)
               PROVE  \E t \in Threads : (Holding(t) /\ Kind(t) = k /\ index[t] = i)'
    BY <1>2 DEF TicketsHeld
  <2>1. PICK t \in Threads : Holding(t) /\ Kind(t) = k /\ index[t] = i
    BY DEF TicketsHeld
  <2> QED
    BY <1>1, <2>1
<1>8. UnclaimedAhead'
  BY <1>2 DEF UnclaimedAhead
<1>9. SlotHoldsItem'
  <2>1. \A u \in Threads : pc[u] = "advance" => Holding(u)
    BY DEF Holding
  <2> QED
    BY <1>1, <1>3, <2>1 DEF SlotHoldsItem
<1> QED
  BY <1>4, <1>5, <1>6, <1>7, <1>8, <1>9

\* Taking the next ticket of kind k.
TakesTicket(t, k) ==
  /\ ~Holding(t) /\ pc'[t] = "load"
  /\ capacity' = capacity /\ futex' = futex /\ value' = value /\ turn' = turn
  /\ got' = got
  /\ Tickets(k) \in Item /\ index'[t] = Tickets(k) /\ Kind(t)' = k
  /\ Tickets(k)' = Tickets(k) + 1 /\ Tickets(1 - k)' = Tickets(1 - k)
  /\ \A u \in Threads \ {t} :
       pc'[u] = pc[u] /\ index'[u] = index[u] /\ op'[u] = op[u]

\* A new ticket is nobody else's, and its turn is still to come.
LEMMA TakeStep ==
  ASSUME TypeOK, TicketInv, NEW t \in Threads, NEW k \in {0, 1}, TakesTicket(t, k)
  PROVE  TicketInv'
<1> USE DEF TicketInv, TakesTicket
<1>1. ASSUME NEW u \in Threads \ {t}
      PROVE  /\ slot(u)' = slot(u) /\ Turn(u)' = Turn(u) /\ Kind(u)' = Kind(u)
             /\ Holding(u)' <=> Holding(u)
  BY SameTicket DEF Holding
<1>2. \A l, i : slot_id(i)' = slot_id(i) /\ TurnOf(l, i)' = TurnOf(l, i)
  BY DEF slot_id, TurnOf
<1>3. Slots' = Slots
  BY DEF Slots
<1>4. Tickets(0) \in Nat /\ Tickets(1) \in Nat /\ Item \subseteq Nat
  BY ConstantTypes DEF Tickets, TypeOK
<1>5. /\ \A l \in {0, 1} : Tickets(l)' \in Nat /\ Tickets(l) <= Tickets(l)'
      /\ \A l \in {0, 1} : l # k => Tickets(l)' = Tickets(l)
  BY <1>4
<1>6. slot(t)' = slot_id(Tickets(k)) /\ Turn(t)' = TurnOf(k, Tickets(k))
  BY DEF slot, slot_id, Turn, TurnOf
<1>7. Holding(t)'
  BY DEF Holding
<1>8. RawIsTurn'
  BY <1>3 DEF RawIsTurn, get_raw_version
<1>9. TurnNotPassed'
  <2>1. turn[slot_id(Tickets(k))] <= TurnOf(k, Tickets(k))
    BY <1>4 DEF UnclaimedAhead
  <2>2. ASSUME NEW u \in Threads \ {t}, Holding(u)
        PROVE  (index[u] < Tickets(Kind(u)))' /\ turn[slot(u)] <= Turn(u)
    <3>1. index[u] < Tickets(Kind(u)) /\ turn[slot(u)] <= Turn(u)
      BY <2>2 DEF TurnNotPassed
    <3>2. PICK l \in {0, 1} : l = Kind(u)
      BY DEF Kind
    <3>3. index[u] \in Nat /\ Tickets(l) \in Nat /\ Tickets(l)' \in Nat
          /\ Tickets(l) <= Tickets(l)'
      BY <1>4, <1>5 DEF TypeOK
    <3>4. (index[u] < Tickets(l))'
      BY <3>1, <3>2, <3>3
    <3>5. Tickets(Kind(u))' = Tickets(l)'
      BY <1>1, <3>2 DEF Tickets
    <3> QED
      BY <3>1, <3>4, <3>5
  <2>3. (index[t] < Tickets(Kind(t)))'
    <3>1. Tickets(Kind(t))' = Tickets(k)'
      BY DEF Tickets
    <3> QED
      BY <1>4, <3>1
  <2> QED
    BY <1>1, <1>6, <1>7, <2>1, <2>2, <2>3 DEF TurnNotPassed
<1>10. TicketsDistinct'
  <2>1. \A u \in Threads \ {t} : Holding(u) /\ Kind(u) = k => index[u] # Tickets(k)
    <3>1. \A u \in Threads : index[u] \in Nat
      BY <1>4 DEF TypeOK
    <3> QED
      BY <1>4, <3>1 DEF TurnNotPassed
  <2> QED
    BY <1>1, <2>1 DEF TicketsDistinct
<1>11. TicketsHeld'
  <2> SUFFICES ASSUME NEW l \in {0, 1}, NEW i \in 0..(Tickets(l)' - 1),
                      turn[slot_id(i)] <= TurnOf(l, i)
               PROVE  \E u \in Threads : (Holding(u) /\ Kind(u) = l /\ index[u] = i)'
    BY <1>2 DEF TicketsHeld
  <2>1. CASE l = k /\ i = Tickets(k)
    BY <1>7, <2>1
  <2>2. CASE ~(l = k /\ i = Tickets(k))
    <3>1. i \in 0..(Tickets(l) - 1)
      BY <1>4, <1>5, <2>2
    <3>2. PICK u \in Threads : Holding(u) /\ Kind(u) = l /\ index[u] = i
      BY <3>1 DEF TicketsHeld
    <3> QED
      BY <1>1, <3>2
  <2> QED
    BY <2>1, <2>2
<1>12. UnclaimedAhead'
  <2> SUFFICES ASSUME NEW l \in {0, 1}, NEW i \in Item, Tickets(l)' <= i
               PROVE  turn[slot_id(i)] <= TurnOf(l, i)
    BY <1>2 DEF UnclaimedAhead
  <2>1. Tickets(l) <= i
    <3>1. i \in Nat /\ Tickets(l) \in Nat
      BY <1>4
    <3> QED
      BY <1>5, <3>1
  <2> QED
    BY <2>1 DEF UnclaimedAhead
<1>13. SlotHoldsItem'
  <2>1. \A u \in Threads : pc'[u] = "advance" => u # t
    OBVIOUS
  <2>2. \A u \in Threads : pc[u] = "advance" => u # t
    BY DEF Holding
  <2> QED
    BY <1>1, <1>3, <2>1, <2>2 DEF SlotHoldsItem
<1> QED
  BY <1>8, <1>9, <1>10, <1>11, <1>12, <1>13

\* The callback of a push fills the slot; the callback of a pop finds the item
\* of the same ticket there.
LEMMA CallbackStep ==
  ASSUME TypeOK, TicketInv, CallbackInTurn, NEW t \in Threads, Callback(t)
  PROVE  TicketInv'
<1> USE DEF TicketInv, Callback, Goto
<1>0. \A u \in Threads : Holding(u)' <=> Holding(u)
  BY DEF Holding, TypeOK
<1>1. ASSUME NEW u \in Threads
      PROVE  slot(u)' = slot(u) /\ Turn(u)' = Turn(u) /\ Kind(u)' = Kind(u)
  BY SameTicket
<1>2. \A k, i : /\ slot_id(i)' = slot_id(i) /\ TurnOf(k, i)' = TurnOf(k, i)
                /\ Tickets(k)' = Tickets(k)
  BY DEF slot_id, TurnOf, Tickets
<1>3. Slots' = Slots
  BY DEF Slots
<1>4. RawIsTurn'
  BY <1>3 DEF RawIsTurn, get_raw_version
<1>5. TurnNotPassed'
  BY <1>0, <1>1, <1>2 DEF TurnNotPassed
<1>6. TicketsDistinct'
  BY <1>0, <1>1 DEF TicketsDistinct
<1>7. TicketsHeld'
  <2> SUFFICES ASSUME NEW k \in {0, 1}, NEW i \in 0..(Tickets(k) - 1),
                      turn[slot_id(i)] <= TurnOf(k, i)
               PROVE  \E u \in Threads : (Holding(u) /\ Kind(u) = k /\ index[u] = i)'
    BY <1>2 DEF TicketsHeld
  <2>1. PICK u \in Threads : Holding(u) /\ Kind(u) = k /\ index[u] = i
    BY DEF TicketsHeld
  <2> QED
    BY <1>0, <1>1, <2>1
<1>8. UnclaimedAhead'
  BY <1>2 DEF UnclaimedAhead
<1>9. SlotHoldsItem'
  <2>1. \A u \in Threads : pc[u] = "advance" => slot(u) # slot(t)
    <3>1. SlotExclusive
      BY ExclusiveFromInv
    <3> QED
      BY <3>1 DEF SlotExclusive
  <2>2. slot(t) \in Slots
    BY SlotType
  <2>3. ASSUME op[t] = "pop" PROVE value[slot(t)] = index[t]
    <3>1. index[t] \in Nat /\ capacity \in Nat \ {0}
      BY ConstantTypes DEF TypeOK
    <3>2. PICK q \in Nat, r \in 0..(capacity - 1) :
            /\ q = index[t] \div capacity /\ r = index[t] % capacity
            /\ index[t] = capacity * q + r
      BY <3>1, DivMod
    <3>3. turn[slot(t)] = 2 * q + 1
      BY <2>3, <3>2 DEF CallbackInTurn, InCallback, Turn, TurnOf, Kind
    <3>4. turn[slot(t)] % 2 = 1 /\ turn[slot(t)] \div 2 = q
      BY <3>3
    <3>5. value[slot(t)] = capacity * (turn[slot(t)] \div 2) + slot(t)
      BY <2>1, <2>2, <3>4 DEF SlotHoldsItem
    <3> QED
      BY <3>2, <3>4, <3>5 DEF slot, slot_id
  <2>4. ASSUME NEW s \in Slots
        PROVE  \/ turn[s] % 2 = 0
               \/ value'[s] = capacity * (turn[s] \div 2) + s
               \/ \E u \in Threads : pc'[u] = "advance" /\ slot(u) = s
    <3>1. CASE s = slot(t)
      BY <3>1 DEF TypeOK
    <3>2. CASE s # slot(t)
      <4>1. value'[s] = value[s]
        BY <3>2 DEF TypeOK
      <4>2. \A u \in Threads : pc[u] = "advance" => pc'[u] = "advance"
        BY DEF TypeOK
      <4> QED
        BY <4>1, <4>2 DEF SlotHoldsItem
    <3> QED
      BY <3>1, <3>2
  <2>5. ASSUME NEW u \in Threads, pc'[u] = "advance"
        PROVE  /\ op[u] = "push" => value'[slot(u)] = index[u]
               /\ op[u] = "pop" => got'[u] = index[u]
    <3>1. CASE u = t
      BY <2>2, <2>3, <3>1 DEF TypeOK
    <3>2. CASE u # t
      <4>1. pc[u] = "advance" /\ got'[u] = got[u]
        BY <2>5, <3>2 DEF TypeOK
      <4>2. slot(u) \in Slots /\ slot(u) # slot(t)
        BY <2>1, <4>1, SlotType
      <4>3. value'[slot(u)] = value[slot(u)]
        BY <4>2 DEF TypeOK
      <4> QED
        BY <4>1, <4>3 DEF SlotHoldsItem
    <3> QED
      BY <3>1, <3>2
  <2> QED
    BY <1>1, <1>3, <2>4, <2>5 DEF SlotHoldsItem
<1> QED
  BY <1>4, <1>5, <1>6, <1>7, <1>8, <1>9

\* What an exchange of the version word changes for the other threads: nothing.
OthersStay(t) ==
  \A u \in Threads \ {t} :
    pc'[u] = pc[u] /\ index'[u] = index[u] /\ op'[u] = op[u] /\ got'[u] = got[u]

\* Advancing the version ends the caller's turn and begins the next one.
LEMMA ExchangeStep ==
  ASSUME TypeOK, TicketInv, CallbackInTurn, NEW t \in Threads,
         Exchange(t), OthersStay(t), ~Holding(t)'
  PROVE  TicketInv' /\ CallbackInTurn'
<1> USE DEF TicketInv, OthersStay
<1> DEFINE s == slot(t)
           k == Kind(t)
<1>1. ASSUME NEW u \in Threads \ {t}
      PROVE  /\ slot(u)' = slot(u) /\ Turn(u)' = Turn(u) /\ Kind(u)' = Kind(u)
             /\ Holding(u)' <=> Holding(u)
  BY SameTicket DEF Exchange, Holding
<1>2. \A l, i : /\ slot_id(i)' = slot_id(i) /\ TurnOf(l, i)' = TurnOf(l, i)
                /\ Tickets(l)' = Tickets(l)
  BY DEF Exchange, slot_id, TurnOf, Tickets
<1>3. Slots' = Slots
  BY DEF Exchange, Slots
<1>4. s \in Slots /\ Turn(t) \in Nat /\ k \in {0, 1} /\ capacity \in Nat \ {0}
  BY SlotType, VersionOfTurn DEF TypeOK
<1>5. turn[s] = Turn(t)
  BY DEF Exchange, CallbackInTurn, InCallback
<1>6. turn'[s] = Turn(t) + 1 /\ \A r \in Slots \ {s} : turn'[r] = turn[r]
  BY <1>4, <1>5 DEF Exchange, TypeOK
<1>7. Holding(t) /\ InCallback(t)
  BY DEF Exchange, Holding, InCallback
<1>8. Item \subseteq Nat /\ \A u \in Threads : index[u] \in Item
  BY ConstantTypes DEF TypeOK
<1>9. ASSUME NEW l \in {0, 1}, NEW i \in Item
      PROVE  slot_id(i) \in Slots /\ TurnOf(l, i) \in Nat
  <2>1. i \in Nat
    BY <1>8
  <2>2. i \div capacity \in Nat
    BY <1>4, <2>1, DivMod
  <2> QED
    BY <1>4, <2>1, <2>2, ModRange DEF slot_id, Slots, TurnOf
\* At this slot every other ticket whose turn has not passed comes later.
<1>10. ASSUME NEW l \in {0, 1}, NEW i \in Item,
              ~(l = k /\ i = index[t]), turn[slot_id(i)] <= TurnOf(l, i)
       PROVE  turn'[slot_id(i)] <= TurnOf(l, i)
  <2>1. CASE slot_id(i) = s
    <3>1. ASSUME TurnOf(l, i) = Turn(t) PROVE FALSE
      <4>1. i \in Nat /\ index[t] \in Nat /\ slot_id(i) = slot_id(index[t])
        BY <1>8, <2>1 DEF slot
      <4>2. TurnOf(l, i) = TurnOf(k, index[t])
        BY <3>1 DEF Turn
      <4>3. i = index[t] /\ l = k
        BY <1>4, <4>1, <4>2, TurnDeterminesTicket
      <4> QED
        BY <1>10, <4>3
    <3> QED
      BY <1>4, <1>5, <1>6, <1>9, <1>10, <2>1, <3>1
  <2>2. CASE slot_id(i) # s
    BY <1>6, <1>9, <1>10, <2>2
  <2> QED
    BY <2>1, <2>2
\* The tickets whose turn has not passed now had not passed before.
<1>11. ASSUME NEW l \in {0, 1}, NEW i \in Item, turn'[slot_id(i)] <= TurnOf(l, i)
       PROVE  turn[slot_id(i)] <= TurnOf(l, i) /\ ~(l = k /\ i = index[t])
  <2>1. CASE slot_id(i) = s
    <3>1. Turn(t) + 1 <= TurnOf(l, i)
      BY <1>6, <1>11, <2>1
    <3> QED
      BY <1>4, <1>5, <1>9, <2>1, <3>1 DEF Turn
  <2>2. CASE slot_id(i) # s
    BY <1>6, <1>9, <1>11, <2>2 DEF slot
  <2> QED
    BY <2>1, <2>2
<1>12. RawIsTurn'
  <2>1. futex'[s] = (Turn(t) + 1) % VersionMod
        /\ \A r \in Slots \ {s} : futex'[r] = futex[r]
    BY <1>4, VersionOfTurn DEF Exchange, NewVersion, TypeOK
  <2>2. ((Turn(t) + 1) % VersionMod) % VersionMod = (Turn(t) + 1) % VersionMod
    <3>1. Turn(t) + 1 \in Nat
      BY <1>4
    <3> QED
      BY <3>1, ModRange, VersionAssumption
  <2> QED
    BY <1>3, <1>4, <1>6, <2>1, <2>2 DEF RawIsTurn, get_raw_version
<1>13. ASSUME NEW u \in Threads \ {t}, Holding(u)
       PROVE  /\ Kind(u) \in {0, 1} /\ index[u] \in Item
              /\ slot(u) = slot_id(index[u]) /\ Turn(u) = TurnOf(Kind(u), index[u])
              /\ index[u] < Tickets(Kind(u)) /\ turn'[slot(u)] <= Turn(u)
  <2>1. Kind(u) \in {0, 1} /\ index[u] \in Item
    BY <1>8 DEF Kind
  <2>2. slot(u) = slot_id(index[u]) /\ Turn(u) = TurnOf(Kind(u), index[u])
    BY DEF slot, Turn
  <2>3. ~(Kind(u) = k /\ index[u] = index[t])
    BY <1>7, <1>13 DEF TicketsDistinct
  <2>4. index[u] < Tickets(Kind(u)) /\ turn[slot(u)] <= Turn(u)
    BY <1>13 DEF TurnNotPassed
  <2> QED
    BY <1>10, <2>1, <2>2, <2>3, <2>4
<1>14. TurnNotPassed'
  BY <1>1, <1>2, <1>13 DEF TurnNotPassed
<1>15. TicketsDistinct'
  BY <1>1 DEF TicketsDistinct
<1>16. TicketsHeld'
  <2> SUFFICES ASSUME NEW l \in {0, 1}, NEW i \in 0..(Tickets(l) - 1),
                      turn'[slot_id(i)] <= TurnOf(l, i)
               PROVE  \E u \in Threads : (Holding(u) /\ Kind(u) = l /\ index[u] = i)'
    BY <1>2 DEF TicketsHeld
  <2>1. i \in Item
    BY BoundAssumption DEF TypeOK, Tickets, Indices, Item
  <2>2. turn[slot_id(i)] <= TurnOf(l, i) /\ ~(l = k /\ i = index[t])
    BY <1>11, <2>1
  <2>3. PICK u \in Threads : Holding(u) /\ Kind(u) = l /\ index[u] = i
    BY <2>2 DEF TicketsHeld
  <2> QED
    BY <1>1, <2>2, <2>3
<1>17. UnclaimedAhead'
  <2> SUFFICES ASSUME NEW l \in {0, 1}, NEW i \in Item, Tickets(l) <= i
               PROVE  turn'[slot_id(i)] <= TurnOf(l, i)
    BY <1>2 DEF UnclaimedAhead
  <2>1. ~(l = k /\ i = index[t])
    <3>1. index[t] < Tickets(k)
      BY <1>7 DEF TurnNotPassed
    <3>2. i \in Nat /\ Tickets(l) \in Nat /\ index[t] \in Nat
      BY <1>8, ConstantTypes DEF Tickets, TypeOK
    <3> QED
      BY <3>1, <3>2
  <2> QED
    BY <1>10, <2>1 DEF UnclaimedAhead
<1>18. \A u \in Threads \ {t} : InCallback(u) => slot(u) # s
  <2>1. SlotExclusive
    BY ExclusiveFromInv
  <2> QED
    BY <1>7, <2>1 DEF SlotExclusive, InCallback
<1>19. SlotHoldsItem'
  <2>1. ASSUME NEW r \in Slots
        PROVE  \/ turn'[r] % 2 = 0
               \/ value[r] = capacity * (turn'[r] \div 2) + r
               \/ \E u \in Threads : pc'[u] = "advance" /\ slot(u)' = r
    <3>1. CASE r = s
      <4>1. PICK q \in Nat, m \in 0..(capacity - 1) :
              /\ q = index[t] \div capacity /\ m = index[t] % capacity
              /\ index[t] = capacity * q + m
        BY <1>4, <1>8, DivMod
      <4>2. CASE op[t] = "push"
        <5>1. turn'[s] = 2 * q + 1
          BY <1>6, <4>1, <4>2 DEF Turn, TurnOf, Kind
        <5>2. turn'[s] \div 2 = q
          BY <5>1
        <5>3. value[s] = index[t]
          BY <4>2 DEF SlotHoldsItem, Exchange
        <5> QED
          BY <3>1, <4>1, <5>2, <5>3 DEF slot, slot_id
      <4>3. CASE op[t] # "push"
        <5>1. turn'[s] = (2 * q + 1) + 1
          BY <1>6, <4>1, <4>3 DEF Turn, TurnOf, Kind
        <5>2. turn'[s] % 2 = 0
          BY <5>1
        <5> QED
          BY <3>1, <5>2
      <4> QED
        BY <4>2, <4>3
    <3>2. CASE r # s
      <4>1. turn'[r] = turn[r]
        BY <1>6, <3>2
      <4>2. ASSUME NEW u \in Threads, pc[u] = "advance", slot(u) = r
            PROVE  pc'[u] = "advance" /\ slot(u)' = r
        BY <1>1, <3>2, <4>2
      <4> QED
        BY <4>1, <4>2 DEF SlotHoldsItem
    <3> QED
      BY <3>1, <3>2
  <2>2. value' = value /\ capacity' = capacity
    BY DEF Exchange
  <2>3. ASSUME NEW u \in Threads, pc'[u] = "advance"
        PROVE  (/\ op[u] = "push" => value[slot(u)] = index[u]
                /\ op[u] = "pop" => got[u] = index[u])'
    <3>1. u # t
      BY <2>3 DEF Holding
    <3> QED
      BY <1>1, <2>2, <2>3, <3>1 DEF SlotHoldsItem
  <2> QED
    BY <1>3, <2>1, <2>2, <2>3 DEF SlotHoldsItem
<1>20. CallbackInTurn'
  <2> SUFFICES ASSUME NEW u \in Threads, InCallback(u)'
               PROVE  (Turn(u) = turn[slot(u)])'
    BY DEF CallbackInTurn
  <2>1. u # t
    BY DEF InCallback, Holding
  <2>2. InCallback(u)
    BY <2>1 DEF InCallback
  <2>3. slot(u) \in Slots \ {s}
    BY <1>18, <2>1, <2>2, SlotType
  <2> QED
    BY <1>1, <1>6, <2>1, <2>2, <2>3 DEF CallbackInTurn
<1> QED
  BY <1>12, <1>14, <1>15, <1>16, <1>17, <1>19, <1>20

-----------------------------------------------------------------------------
(* The theorems.                                                           *)

\* Nothing is held, waited for or stored in a fresh queue.
LEMMA InitIInv == Init => IInv
<1> SUFFICES ASSUME Init PROVE IInv
  OBVIOUS
<1>1. TypeOK
  BY TypeInit
<1>2. /\ \A s \in Slots : futex[s] = 0 /\ turn[s] = 0
      /\ \A t \in Threads : pc[t] = "idle"
      /\ Tickets(0) = 0 /\ Tickets(1) = 0
  BY DEF Init, EachSlot, Slots, Tickets
<1>3. ~\E t \in Threads : Holding(t)
  BY <1>2 DEF Holding
<1>4. UnclaimedAhead
  <2> SUFFICES ASSUME NEW k \in {0, 1}, NEW i \in Item
               PROVE  turn[slot_id(i)] <= TurnOf(k, i)
    BY DEF UnclaimedAhead
  <2>1. i \in Nat /\ capacity \in Nat \ {0}
    BY <1>1, ConstantTypes DEF TypeOK
  <2>2. slot_id(i) \in Slots /\ i \div capacity \in Nat
    BY <2>1, ModRange, DivMod DEF slot_id, Slots
  <2> QED
    BY <1>2, <2>2 DEF TurnOf
<1>5. RawIsTurn
  BY <1>2 DEF RawIsTurn, get_raw_version
<1>6. SlotHoldsItem
  BY <1>2 DEF SlotHoldsItem
<1>7. WaitersMismatch /\ CallbackInTurn /\ NoLostWakeup
  BY <1>2 DEF WaitersMismatch, CallbackInTurn, InCallback, NoLostWakeup
<1>8. TurnNotPassed /\ TicketsDistinct /\ TicketsHeld
  BY <1>2, <1>3 DEF TurnNotPassed, TicketsDistinct, TicketsHeld
<1> QED
  BY <1>1, <1>4, <1>5, <1>6, <1>7, <1>8 DEF IInv

\* Only thread t moves.
OnlyMoves(t) ==
  /\ capacity' = capacity
  /\ \A u \in Threads \ {t} :
       /\ pc'[u] = pc[u] /\ index'[u] = index[u] /\ op'[u] = op[u]
       /\ current_version'[u] = current_version[u] /\ got'[u] = got[u]

\* What is known about the waiting threads survives a step of a thread that is
\* not itself about to wait, enter a callback, sleep or wake others.
LEMMA WaitStep ==
  ASSUME WaitersMismatch, CallbackInTurn, NoLostWakeup,
         NEW t \in Threads, OnlyMoves(t)
  PROVE  /\ pc'[t] \notin {"tag", "wait"} => WaitersMismatch'
         /\ turn' = turn /\ ~InCallback(t)' => CallbackInTurn'
         /\ futex' = futex /\ pc[t] # "wake" /\ pc'[t] # "asleep" => NoLostWakeup'
<1> USE DEF OnlyMoves
<1>1. ASSUME NEW u \in Threads \ {t}
      PROVE  /\ slot(u)' = slot(u) /\ Turn(u)' = Turn(u)
             /\ expected_version(u)' = expected_version(u)
  BY SameTicket
<1>2. ASSUME pc'[t] \notin {"tag", "wait"} PROVE WaitersMismatch'
  BY <1>1, <1>2 DEF WaitersMismatch, get_raw_version, is_tagged_version
<1>3. ASSUME turn' = turn, ~InCallback(t)' PROVE CallbackInTurn'
  BY <1>1, <1>3 DEF CallbackInTurn, InCallback
<1>4. ASSUME futex' = futex, pc[t] # "wake", pc'[t] # "asleep" PROVE NoLostWakeup'
  BY <1>1, <1>4 DEF NoLostWakeup, get_raw_version, is_tagged_version
<1> QED
  BY <1>2, <1>3, <1>4

\* Every step of every operation preserves the invariant.
LEMMA NextIInv == IInv /\ [Next]_vars => IInv'
<1> SUFFICES ASSUME IInv, [Next]_vars
             PROVE  TicketInv' /\ WaitersMismatch' /\ CallbackInTurn' /\ NoLostWakeup'
  BY TypeNext DEF IInv, TicketInv
<1> DEFINE Goal == TicketInv' /\ WaitersMismatch' /\ CallbackInTurn' /\ NoLostWakeup'
<1>0. TypeOK /\ TicketInv /\ WaitersMismatch /\ CallbackInTurn /\ NoLostWakeup
  BY DEF IInv, TicketInv
<1>1. ASSUME NEW t \in Threads, push(t) PROVE Goal
  <2>1. TakesTicket(t, 0)
    <3>1. next_push_index \in Item
      BY <1>0, <1>1, ConstantTypes DEF push, TypeOK
    <3> QED
      BY <1>0, <1>1, <3>1
      DEF push, Goto, TakesTicket, Tickets, Kind, Holding, TypeOK
  <2>2. OnlyMoves(t) /\ pc'[t] = "load" /\ pc[t] = "idle"
    BY <1>0, <1>1 DEF push, Goto, OnlyMoves, TypeOK
  <2>3. turn' = turn /\ futex' = futex
    BY <1>1 DEF push
  <2> QED
    BY <1>0, <2>1, <2>2, <2>3, TakeStep, WaitStep DEF InCallback
<1>2. ASSUME NEW t \in Threads, pop(t) \/ pop_ptr(t) PROVE Goal
  <2>1. TakesTicket(t, 1)
    <3>1. next_pop_index \in Item
      BY <1>0, <1>2, ConstantTypes DEF pop, pop_ptr, TakePopTicket, TypeOK
    <3> QED
      BY <1>0, <1>2, <3>1
      DEF pop, pop_ptr, TakePopTicket, Goto, TakesTicket, Tickets, Kind, Holding, TypeOK
  <2>2. OnlyMoves(t) /\ pc'[t] = "load" /\ pc[t] = "idle"
    BY <1>0, <1>2 DEF pop, pop_ptr, TakePopTicket, Goto, OnlyMoves, TypeOK
  <2>3. turn' = turn /\ futex' = futex
    BY <1>2 DEF pop, pop_ptr
  <2> QED
    BY <1>0, <2>1, <2>2, <2>3, TakeStep, WaitStep DEF InCallback
<1>3. ASSUME NEW t \in Threads, ClearPop(t) PROVE Goal
  <2>1. TakesTicket(t, 1)
    <3>1. next_pop_index \in Item
      BY <1>0, <1>3, ConstantTypes DEF ClearPop, TakePopTicket, TypeOK
    <3> QED
      BY <1>0, <1>3, <3>1
      DEF ClearPop, TakePopTicket, Goto, TakesTicket, Tickets, Kind, Holding, TypeOK
  <2>2. OnlyMoves(t) /\ pc'[t] = "load" /\ pc[t] = "clear_pop"
    BY <1>0, <1>3 DEF ClearPop, TakePopTicket, Goto, OnlyMoves, TypeOK
  <2>3. turn' = turn /\ futex' = futex
    BY <1>3 DEF ClearPop
  <2> QED
    BY <1>0, <2>1, <2>2, <2>3, TakeStep, WaitStep DEF InCallback
<1>4. ASSUME NEW t \in Threads, clear(t) PROVE Goal
  <2>1. Quiet /\ OnlyMoves(t) /\ pc'[t] = "size_pop" /\ pc[t] = "idle"
    BY <1>0, <1>4 DEF clear, shared, Goto, Quiet, OnlyMoves, Holding, TypeOK
  <2>2. turn' = turn /\ futex' = futex
    BY <1>4 DEF clear, shared
  <2> QED
    BY <1>0, <2>1, <2>2, QuietStep, WaitStep DEF InCallback
<1>5. ASSUME NEW t \in Threads, SizeReadPop(t) PROVE Goal
  <2>1. Quiet /\ OnlyMoves(t) /\ pc'[t] = "size_push" /\ pc[t] = "size_pop"
    BY <1>0, <1>5 DEF SizeReadPop, shared, Goto, Quiet, OnlyMoves, Holding, TypeOK
  <2>2. turn' = turn /\ futex' = futex
    BY <1>5 DEF SizeReadPop, shared
  <2> QED
    BY <1>0, <2>1, <2>2, QuietStep, WaitStep DEF InCallback
<1>6. ASSUME NEW t \in Threads, SizeReadPush(t) PROVE Goal
  <2>1. Quiet /\ OnlyMoves(t) /\ pc'[t] \in {"clear_pop", "idle"} /\ pc[t] = "size_push"
    BY <1>0, <1>6 DEF SizeReadPush, NonEmpty, shared, Goto, Quiet, OnlyMoves, Holding, TypeOK
  <2>2. turn' = turn /\ futex' = futex
    BY <1>6 DEF SizeReadPush, NonEmpty, shared
  <2> QED
    BY <1>0, <2>1, <2>2, QuietStep, WaitStep DEF InCallback
<1>7. ASSUME NEW t \in Threads, Load(t) PROVE Goal
  <2>1. Quiet /\ OnlyMoves(t) /\ pc'[t] \in {"callback", "wait", "tag"} /\ pc[t] = "load"
    BY <1>0, <1>7 DEF Load, WaitHow, shared, Goto, Quiet, OnlyMoves, Holding, TypeOK
  <2>2. turn' = turn /\ futex' = futex /\ index' = index /\ op' = op
    BY <1>7 DEF Load, shared
  <2>3. TicketInv' /\ NoLostWakeup'
    BY <1>0, <2>1, <2>2, QuietStep, WaitStep
  <2>4. \A u \in Threads : /\ slot(u)' = slot(u) /\ Turn(u)' = Turn(u)
                           /\ expected_version(u)' = expected_version(u)
    BY <2>1, <2>2, SameTicket DEF OnlyMoves
  <2>5. WaitersMismatch'
    <3>1. ASSUME pc'[t] \in {"tag", "wait"}
          PROVE  /\ get_raw_version(current_version'[t]) # expected_version(t)
                 /\ is_tagged_version(current_version'[t]) <=> pc'[t] = "wait"
      BY <1>0, <1>7, <3>1 DEF Load, Reached, WaitHow, Goto, TypeOK
    <3> QED
      BY <1>0, <2>1, <2>4, <3>1
      DEF WaitersMismatch, OnlyMoves, get_raw_version, is_tagged_version
  <2>6. CallbackInTurn'
    <3>1. ASSUME InCallback(t)' PROVE Turn(t) = turn[slot(t)]
      <4>1. Holding(t) /\ get_raw_version(futex[slot(t)]) = expected_version(t)
        BY <1>0, <1>7, <3>1 DEF Load, Reached, WaitHow, Goto, TypeOK, InCallback, Holding
      <4> QED
        BY <1>0, <4>1, NoConfusion DEF TicketInv
    <3> QED
      BY <1>0, <2>1, <2>2, <2>4, <3>1 DEF CallbackInTurn, InCallback, OnlyMoves
  <2> QED
    BY <2>3, <2>5, <2>6
<1>8. ASSUME NEW t \in Threads, TagSucceeds(t) PROVE Goal
  <2>1. /\ OnlyMoves(t) /\ pc'[t] = "wait" /\ pc[t] = "tag" /\ turn' = turn
        /\ index' = index /\ op' = op /\ slot(t) \in Slots
    BY <1>0, <1>8, SlotType DEF TagSucceeds, Goto, OnlyMoves, TypeOK
  <2>2. \A u \in Threads : /\ slot(u)' = slot(u)
                           /\ expected_version(u)' = expected_version(u)
    BY <2>1, SameTicket DEF OnlyMoves
  <2>3. PICK v \in Nat : /\ v = current_version[t] /\ v < VersionMod
                         /\ current_version'[t] = v + VersionMod
                         /\ futex[slot(t)] = v /\ futex'[slot(t)] = v + VersionMod
    <3>1. /\ current_version[t] \in Nat /\ VersionMod \in Nat
          /\ ~is_tagged_version(current_version[t])
      BY <1>0, <2>1, ConstantTypes, VersionAssumption DEF WaitersMismatch, TypeOK
    <3>2. current_version[t] < VersionMod
      BY <3>1 DEF is_tagged_version
    <3> QED
      BY <1>0, <1>8, <2>1, <3>1, <3>2 DEF TagSucceeds, make_tagged_version, TypeOK
  <2>4. get_raw_version(v) = get_raw_version(v + VersionMod)
    <3>1. VersionMod \in Nat \ {0}
      BY VersionAssumption
    <3>2. v \in 0..(VersionMod - 1)
      BY <2>3, <3>1
    <3> QED
      BY <3>1, <3>2, ModRange, ModAddModulus DEF get_raw_version
  <2>5. is_tagged_version(v + VersionMod)
    BY <2>3, VersionAssumption DEF is_tagged_version
  <2>6. \A s \in Slots \ {slot(t)} : futex'[s] = futex[s]
    BY <1>0, <1>8 DEF TagSucceeds, TypeOK
  <2>7. Quiet
    <3>1. \A s \in Slots : get_raw_version(futex'[s]) = get_raw_version(futex[s])
      BY <2>3, <2>4, <2>6
    <3> QED
      BY <1>0, <1>8, <3>1 DEF TagSucceeds, Goto, Quiet, Holding, TypeOK
  <2>8. WaitersMismatch'
    <3>1. get_raw_version(v) # expected_version(t)
      BY <1>0, <2>1, <2>3 DEF WaitersMismatch
    <3> QED
      BY <1>0, <2>1, <2>2, <2>3, <2>4, <2>5, <3>1
      DEF WaitersMismatch, OnlyMoves, get_raw_version, is_tagged_version
  <2>9. NoLostWakeup'
    <3> SUFFICES ASSUME NEW u \in Threads, pc'[u] = "asleep"
                 PROVE  \/ /\ is_tagged_version(futex'[slot(u)])
                           /\ get_raw_version(futex'[slot(u)]) # expected_version(u)
                        \/ \E w \in Threads : pc'[w] = "wake" /\ slot(w) = slot(u)
      BY <2>2 DEF NoLostWakeup, get_raw_version, is_tagged_version
    <3>1. pc[u] = "asleep" /\ slot(u) \in Slots
      BY <1>0, <2>1, SlotType DEF OnlyMoves
    <3>2. \A w \in Threads : pc[w] = "wake" => pc'[w] = "wake"
      BY <2>1 DEF OnlyMoves
    <3> QED
      BY <1>0, <2>3, <2>4, <2>5, <2>6, <3>1, <3>2 DEF NoLostWakeup
  <2> QED
    BY <1>0, <2>1, <2>7, <2>8, <2>9, QuietStep, WaitStep DEF InCallback
<1>9. ASSUME NEW t \in Threads, TagFails(t) \/ SpuriousReturn(t) PROVE Goal
  <2>1. Quiet /\ OnlyMoves(t) /\ pc'[t] = "load" /\ pc[t] \in {"tag", "asleep"}
    BY <1>0, <1>9
    DEF TagFails, SpuriousReturn, shared, Goto, Quiet, OnlyMoves, Holding, TypeOK
  <2>2. turn' = turn /\ futex' = futex
    BY <1>9 DEF TagFails, SpuriousReturn, shared
  <2> QED
    BY <1>0, <2>1, <2>2, QuietStep, WaitStep DEF InCallback
<1>10. ASSUME NEW t \in Threads, FutexWait(t) PROVE Goal
  <2>1. Quiet /\ OnlyMoves(t) /\ pc'[t] \in {"asleep", "load"} /\ pc[t] = "wait"
    BY <1>0, <1>10 DEF FutexWait, shared, Goto, Quiet, OnlyMoves, Holding, TypeOK
  <2>2. turn' = turn /\ futex' = futex /\ index' = index /\ op' = op
    BY <1>10 DEF FutexWait, shared
  <2>3. \A u \in Threads : /\ slot(u)' = slot(u)
                           /\ expected_version(u)' = expected_version(u)
    BY <2>1, <2>2, SameTicket DEF OnlyMoves
  <2>4. NoLostWakeup'
    <3>1. ASSUME pc'[t] = "asleep"
          PROVE  /\ is_tagged_version(futex[slot(t)])
                 /\ get_raw_version(futex[slot(t)]) # expected_version(t)
      <4>1. futex[slot(t)] = current_version[t]
        BY <1>0, <1>10, <3>1 DEF FutexWait, Goto, TypeOK
      <4> QED
        BY <1>0, <2>1, <4>1 DEF WaitersMismatch
    <3> QED
      BY <1>0, <2>1, <2>2, <2>3, <3>1
      DEF NoLostWakeup, OnlyMoves, get_raw_version, is_tagged_version
  <2> QED
    BY <1>0, <2>1, <2>2, <2>4, QuietStep, WaitStep DEF InCallback
<1>11. ASSUME NEW t \in Threads, Callback(t) PROVE Goal
  <2>1. OnlyMoves(t) /\ pc'[t] = "advance" /\ pc[t] = "callback"
    BY <1>0, <1>11 DEF Callback, Goto, OnlyMoves, TypeOK
  <2>2. turn' = turn /\ futex' = futex /\ index' = index /\ op' = op
    BY <1>11 DEF Callback
  <2>3. \A u \in Threads : slot(u)' = slot(u) /\ Turn(u)' = Turn(u)
    BY <2>1, <2>2, SameTicket DEF OnlyMoves
  <2>4. CallbackInTurn'
    BY <1>0, <2>1, <2>2, <2>3 DEF CallbackInTurn, InCallback, OnlyMoves
  <2> QED
    BY <1>0, <1>11, <2>1, <2>2, <2>4, CallbackStep, WaitStep
<1>12. ASSUME NEW t \in Threads, AdvanceUntagged(t) PROVE Goal
  <2>1. /\ OnlyMoves(t) /\ OthersStay(t) /\ pc'[t] \in {"size_pop", "idle"}
        /\ pc[t] = "advance" /\ Exchange(t)
    BY <1>0, <1>12
    DEF AdvanceUntagged, Exchange, DropLocals, Return, Goto, OnlyMoves, OthersStay,
        TypeOK
  <2>2. TicketInv' /\ CallbackInTurn'
    BY <1>0, <2>1, ExchangeStep DEF Holding
  <2>3. NoLostWakeup'
    <3>1. \A u \in Threads \ {t} : /\ slot(u)' = slot(u)
                                   /\ expected_version(u)' = expected_version(u)
      BY <2>1, SameTicket DEF OnlyMoves
    <3> SUFFICES ASSUME NEW u \in Threads \ {t}, pc[u] = "asleep"
                 PROVE  \/ /\ is_tagged_version(futex'[slot(u)])
                           /\ get_raw_version(futex'[slot(u)]) # expected_version(u)
                        \/ \E w \in Threads : pc'[w] = "wake" /\ slot(w)' = slot(u)
      BY <2>1, <3>1 DEF NoLostWakeup, OnlyMoves, get_raw_version, is_tagged_version
    <3>2. ASSUME NEW w \in Threads, pc[w] = "wake", slot(w) = slot(u)
          PROVE  pc'[w] = "wake" /\ slot(w)' = slot(u)
      BY <2>1, <3>1, <3>2 DEF OnlyMoves
    <3>3. CASE slot(u) = slot(t)
      BY <1>0, <1>12, <3>2, <3>3 DEF AdvanceUntagged, NoLostWakeup
    <3>4. CASE slot(u) # slot(t)
      <4>1. futex'[slot(u)] = futex[slot(u)]
        BY <1>0, <2>1, <3>4, SlotType DEF Exchange, TypeOK
      <4> QED
        BY <1>0, <3>2, <4>1 DEF NoLostWakeup
    <3> QED
      BY <3>3, <3>4
  <2> QED
    BY <1>0, <2>1, <2>2, <2>3, WaitStep
<1>13. ASSUME NEW t \in Threads, AdvanceTagged(t) PROVE Goal
  <2>1. /\ OnlyMoves(t) /\ OthersStay(t) /\ pc'[t] = "wake"
        /\ pc[t] = "advance" /\ Exchange(t) /\ index' = index /\ op' = op
    BY <1>0, <1>13 DEF AdvanceTagged, Exchange, Goto, OnlyMoves, OthersStay, TypeOK
  <2>2. TicketInv' /\ CallbackInTurn'
    BY <1>0, <2>1, ExchangeStep DEF Holding
  <2>3. NoLostWakeup'
    <3>1. \A u \in Threads : /\ slot(u)' = slot(u)
                             /\ expected_version(u)' = expected_version(u)
      BY <2>1, SameTicket DEF OnlyMoves
    <3> SUFFICES ASSUME NEW u \in Threads \ {t}, pc[u] = "asleep"
                 PROVE  \/ /\ is_tagged_version(futex'[slot(u)])
                           /\ get_raw_version(futex'[slot(u)]) # expected_version(u)
                        \/ \E w \in Threads : pc'[w] = "wake" /\ slot(w) = slot(u)
      BY <2>1, <3>1 DEF NoLostWakeup, OnlyMoves, get_raw_version, is_tagged_version
    <3>2. \A w \in Threads : pc[w] = "wake" => pc'[w] = "wake"
      BY <2>1 DEF OnlyMoves
    <3>3. CASE slot(u) = slot(t)
      BY <2>1, <3>3
    <3>4. CASE slot(u) # slot(t)
      <4>1. futex'[slot(u)] = futex[slot(u)]
        BY <1>0, <2>1, <3>4, SlotType DEF Exchange, TypeOK
      <4> QED
        BY <1>0, <3>2, <4>1 DEF NoLostWakeup
    <3> QED
      BY <3>3, <3>4
  <2> QED
    BY <1>0, <2>1, <2>2, <2>3, WaitStep
<1>14. ASSUME NEW t \in Threads, WakeAll(t) PROVE Goal
  <2>1. /\ capacity' = capacity /\ turn' = turn /\ futex' = futex
        /\ current_version' = current_version
        /\ pc[t] = "wake" /\ pc'[t] \in {"size_pop", "idle"}
        /\ \A u \in Threads \ {t} :
             /\ index'[u] = index[u] /\ op'[u] = op[u]
             /\ \/ pc'[u] = pc[u] /\ ~(pc[u] = "asleep" /\ slot(u) = slot(t))
                \/ pc'[u] = "load" /\ pc[u] = "asleep"
    BY <1>0, <1>14 DEF WakeAll, DropLocals, Return, shared, TypeOK
  <2>2. Quiet
    <3>1. /\ next_push_index' = next_push_index /\ next_pop_index' = next_pop_index
          /\ value' = value /\ got' = got
      BY <1>14 DEF WakeAll, shared
    <3>2. \A u \in Threads : /\ Holding(u)' <=> Holding(u)
                             /\ pc'[u] = "advance" <=> pc[u] = "advance"
                             /\ Holding(u) => u # t
      BY <2>1 DEF Holding
    <3> QED
      BY <2>1, <3>1, <3>2 DEF Quiet
  <2>3. \A u \in Threads \ {t} : /\ slot(u)' = slot(u) /\ Turn(u)' = Turn(u)
                                 /\ expected_version(u)' = expected_version(u)
    BY <2>1, SameTicket
  <2>4. WaitersMismatch'
    BY <1>0, <2>1, <2>3 DEF WaitersMismatch, get_raw_version, is_tagged_version
  <2>5. CallbackInTurn'
    BY <1>0, <2>1, <2>3 DEF CallbackInTurn, InCallback
  <2>6. NoLostWakeup'
    <3> SUFFICES ASSUME NEW u \in Threads, pc'[u] = "asleep"
                 PROVE  \/ /\ is_tagged_version(futex[slot(u)])
                           /\ get_raw_version(futex[slot(u)]) # expected_version(u)
                        \/ \E w \in Threads : pc'[w] = "wake" /\ slot(w)' = slot(u)
      BY <2>1, <2>3 DEF NoLostWakeup, get_raw_version, is_tagged_version
    <3>1. u # t /\ pc[u] = "asleep" /\ slot(u) # slot(t)
      BY <2>1
    <3>2. ASSUME NEW w \in Threads, pc[w] = "wake", slot(w) = slot(u)
          PROVE  pc'[w] = "wake" /\ slot(w)' = slot(u)
      BY <2>1, <2>3, <3>1, <3>2
    <3> QED
      BY <1>0, <3>1, <3>2 DEF NoLostWakeup
  <2> QED
    BY <1>0, <2>2, <2>4, <2>5, <2>6, QuietStep
<1>15. ASSUME NEW t \in Threads, NEW m \in MinCapacities, Resize(t, m) PROVE Goal
  <2>1. /\ nextPowTwo(m) \in Nat \ {0}
        /\ \A s \in Slots' : futex'[s] = 0 /\ turn'[s] = 0
        /\ \A u \in Threads : pc'[u] = "idle"
        /\ Tickets(0)' = 0 /\ Tickets(1)' = 0
    BY <1>15, CapacityAssumption DEF Resize, EachSlot, Slots, Tickets, local
  <2>2. ~\E u \in Threads : Holding(u)'
    BY <2>1 DEF Holding
  <2>3. UnclaimedAhead'
    <3> SUFFICES ASSUME NEW k \in {0, 1}, NEW i \in Item
                 PROVE  (turn[slot_id(i)] <= TurnOf(k, i))'
      BY DEF UnclaimedAhead
    <3>1. i \in Nat /\ capacity' \in Nat \ {0}
      BY <1>15, <2>1, ConstantTypes DEF Resize
    <3>2. (slot_id(i) \in Slots /\ i \div capacity \in Nat)'
      BY <3>1, ModRange, DivMod DEF slot_id, Slots
    <3> QED
      BY <2>1, <3>2 DEF TurnOf
  <2>4. RawIsTurn' /\ SlotHoldsItem'
    BY <2>1 DEF RawIsTurn, get_raw_version, SlotHoldsItem
  <2>5. WaitersMismatch' /\ CallbackInTurn' /\ NoLostWakeup'
    BY <2>1 DEF WaitersMismatch, CallbackInTurn, InCallback, NoLostWakeup
  <2>6. TurnNotPassed' /\ TicketsDistinct' /\ TicketsHeld'
    BY <2>1, <2>2 DEF TurnNotPassed, TicketsDistinct, TicketsHeld
  <2> QED
    BY <2>3, <2>4, <2>5, <2>6 DEF TicketInv
<1>16. CASE UNCHANGED vars
  BY <1>0, <1>16
  DEF vars, TicketInv, RawIsTurn, TurnNotPassed, TicketsDistinct, TicketsHeld,
      UnclaimedAhead, SlotHoldsItem, WaitersMismatch, CallbackInTurn, InCallback,
      NoLostWakeup, Holding, Kind, Turn, TurnOf, Tickets, slot, slot_id, Slots,
      expected_version, push_version_for_index, pop_version_for_index,
      get_raw_version, is_tagged_version
<1> QED
  BY <1>1, <1>2, <1>3, <1>4, <1>5, <1>6, <1>7, <1>8, <1>9, <1>10, <1>11, <1>12,
     <1>13, <1>14, <1>15, <1>16
  DEF Next, Step, reserve_and_clear, Threads

\* The invariant holds in every reachable state of the queue.
THEOREM Invariance == Spec => []IInv
<1>1. Init => IInv
  BY InitIInv
<1>2. IInv /\ [Next]_vars => IInv'
  BY NextIInv
<1> QED
  BY <1>1, <1>2, PTL DEF Spec

\* Types: in particular the version word never outgrows raw version plus tag,
\* although make_tagged_version adds without looking.
THEOREM TypeCorrect == Spec => []TypeOK
<1>1. IInv => TypeOK
  BY DEF IInv
<1> QED
  BY <1>1, Invariance, PTL

\* process() runs at most one callback per slot at any time, for any number of
\* threads up to half the number of versions.
THEOREM SlotMutualExclusion == Spec => []SlotExclusive
<1>1. IInv => SlotExclusive
  BY ExclusiveFromInv DEF IInv
<1> QED
  BY <1>1, Invariance, PTL

\* pop returns the item of the push with the same ticket.
THEOREM ItemIntegrity == Spec => []PopGetsItsTicket
<1>1. IInv => PopGetsItsTicket
  BY DEF IInv, SlotHoldsItem, PopGetsItsTicket
<1> QED
  BY <1>1, Invariance, PTL

\* wait_until_reach_expected_version and advance_version_and_wakeup_waiters
\* never leave a thread asleep that nobody will wake.
THEOREM WakeupsAreNotLost == Spec => []NoLostWakeup
<1>1. IInv => NoLostWakeup
  BY DEF IInv
<1> QED
  BY <1>1, Invariance, PTL

\* A step at a fixed capacity leaves a slot's turn alone or ends it.
LEMMA TurnStep ==
  ASSUME TypeOK, [Next]_vars, capacity' = capacity, NEW s \in Slots
  PROVE  turn'[s] = turn[s] \/ turn'[s] = turn[s] + 1
<1>1. ASSUME NEW t \in Threads, Exchange(t)
      PROVE  turn'[s] = turn[s] \/ turn'[s] = turn[s] + 1
  BY <1>1 DEF Exchange, TypeOK
<1>2. ASSUME NEW t \in Threads, Step(t) PROVE turn' = turn \/ Exchange(t)
  BY <1>2 DEF Step, SizeReadPop, SizeReadPush, ClearPop, Load, TagSucceeds,
              TagFails, FutexWait, Callback, AdvanceUntagged, AdvanceTagged,
              WakeAll, shared
<1>3. turn' = turn \/ \E t \in Threads : Exchange(t)
  <2>1. ASSUME NEW t \in Threads,
               \/ push(t) \/ pop(t) \/ pop_ptr(t) \/ clear(t) \/ SpuriousReturn(t)
        PROVE  turn' = turn
    BY <2>1 DEF push, pop, pop_ptr, clear, SpuriousReturn, shared
  <2>2. ASSUME NEW t \in Threads, NEW m \in MinCapacities, Resize(t, m)
        PROVE  FALSE
    BY <2>2 DEF Resize
  <2>3. CASE UNCHANGED vars
    BY <2>3 DEF vars
  <2> QED
    BY <1>2, <2>1, <2>2, <2>3 DEF Next, reserve_and_clear, Threads
<1> QED
  BY <1>1, <1>3

\* The blind exchange of a version always installs the successor of the
\* version it replaces.
THEOREM VersionsStepByOne == Spec => VersionStepsByOne
<1> DEFINE StepsByOne ==
      capacity' = capacity =>
        \A s \in Slots :
          get_raw_version(futex[s]') \in
            {get_raw_version(futex[s]), (get_raw_version(futex[s]) + 1) % VersionMod}
<1>1. IInv /\ IInv' /\ [Next]_vars => StepsByOne
  <2> SUFFICES ASSUME IInv, IInv', [Next]_vars, capacity' = capacity, NEW s \in Slots
               PROVE  get_raw_version(futex'[s]) \in
                        {get_raw_version(futex[s]),
                         (get_raw_version(futex[s]) + 1) % VersionMod}
    OBVIOUS
  <2>1. TypeOK /\ turn[s] \in Nat
    BY DEF IInv, TypeOK
  <2>2. turn'[s] = turn[s] \/ turn'[s] = turn[s] + 1
    BY <2>1, TurnStep
  <2>3. get_raw_version(futex[s]) = turn[s] % VersionMod
    BY DEF IInv, RawIsTurn
  <2>4. get_raw_version(futex'[s]) = turn'[s] % VersionMod
    BY DEF IInv, RawIsTurn, Slots, get_raw_version
  <2>5. ((turn[s] % VersionMod) + 1) % VersionMod = (turn[s] + 1) % VersionMod
    BY <2>1, ModSucc, VersionAssumption
  <2> QED
    BY <2>2, <2>3, <2>4, <2>5
<1>2. IInv /\ IInv' /\ [Next]_vars => [StepsByOne]_vars
  BY <1>1
<1> QED
  BY <1>2, Invariance, PTL DEF Spec, VersionStepsByOne

\* What size() has read of the pop index is not ahead of it.
SizeReadBefore ==
  \A t \in Threads : pc[t] = "size_push" => pop_idx[t] <= next_pop_index

LEMMA SizeReadBeforeStep ==
  ASSUME TypeOK, SizeReadBefore, [Next]_vars
  PROVE  SizeReadBefore'
<1> USE DEF SizeReadBefore, Goto, shared, local
<1>0. /\ next_pop_index \in Nat /\ pc \in [Threads -> Labels]
      /\ pop_idx \in [Threads -> Indices] /\ \A t \in Threads : pop_idx[t] \in Nat
  BY BoundAssumption DEF TypeOK, Indices
<1>1. ASSUME NEW t \in Threads, push(t) PROVE SizeReadBefore'
  BY <1>0, <1>1 DEF push
<1>2. ASSUME NEW t \in Threads, pop(t) \/ pop_ptr(t) PROVE SizeReadBefore'
  BY <1>0, <1>2 DEF pop, pop_ptr, TakePopTicket
<1>3. ASSUME NEW t \in Threads, clear(t) PROVE SizeReadBefore'
  BY <1>0, <1>3 DEF clear
<1>4. ASSUME NEW t \in Threads, NEW m \in MinCapacities, Resize(t, m) PROVE SizeReadBefore'
  BY <1>0, <1>4 DEF Resize
<1>5. ASSUME NEW t \in Threads, SizeReadPop(t) PROVE SizeReadBefore'
  BY <1>0, <1>5 DEF SizeReadPop
<1>6. ASSUME NEW t \in Threads, SizeReadPush(t) PROVE SizeReadBefore'
  BY <1>0, <1>6 DEF SizeReadPush
<1>7. ASSUME NEW t \in Threads, ClearPop(t) PROVE SizeReadBefore'
  BY <1>0, <1>7 DEF ClearPop, TakePopTicket
<1>8. ASSUME NEW t \in Threads,
             \/ Load(t) \/ TagSucceeds(t) \/ TagFails(t) \/ FutexWait(t)
             \/ Callback(t) \/ SpuriousReturn(t)
      PROVE  SizeReadBefore'
  BY <1>0, <1>8 DEF Load, TagSucceeds, TagFails, FutexWait, Callback, SpuriousReturn, WaitHow
<1>9. ASSUME NEW t \in Threads, AdvanceUntagged(t) \/ AdvanceTagged(t) \/ WakeAll(t)
      PROVE  SizeReadBefore'
  BY <1>0, <1>9 DEF AdvanceUntagged, AdvanceTagged, WakeAll, Exchange, Return, DropLocals
<1>10. CASE UNCHANGED vars
  BY <1>10 DEF vars
<1> QED
  BY <1>1, <1>2, <1>3, <1>4, <1>5, <1>6, <1>7, <1>8, <1>9, <1>10
     DEF Next, Step, reserve_and_clear, Threads

\* A clear returns only at a moment when every push that has a ticket has a pop
\* with the same ticket: size() reads the pop index first, and it only grows.
THEOREM ClearLeavesNothing == Spec => ClearReturnsOnEmpty
<1> DEFINE ReturnsOnEmpty ==
      \A t \in Threads :
        op[t] = "clear" /\ pc[t] # "idle" /\ pc'[t] = "idle" =>
          next_push_index <= next_pop_index
<1>1. Init => SizeReadBefore
  BY DEF Init, SizeReadBefore
<1>2. TypeOK /\ SizeReadBefore /\ [Next]_vars => SizeReadBefore'
  BY SizeReadBeforeStep
<1>3. TypeOK /\ SizeReadBefore /\ [Next]_vars => ReturnsOnEmpty
  <2> SUFFICES ASSUME TypeOK, SizeReadBefore, [Next]_vars, NEW t \in Threads,
                      op[t] = "clear", pc[t] # "idle", pc'[t] = "idle"
               PROVE  next_push_index <= next_pop_index
    OBVIOUS
  <2>0. /\ next_pop_index \in Nat /\ next_push_index \in Nat /\ pop_idx[t] \in Nat
        /\ pc \in [Threads -> Labels]
    BY BoundAssumption DEF TypeOK, Indices
  <2>1. SizeReadPush(t) /\ ~NonEmpty(t)
    <3> USE <2>0 DEF Goto, shared, local
    <3>1. ASSUME NEW u \in Threads, push(u) \/ pop(u) \/ pop_ptr(u) \/ clear(u) PROVE FALSE
      BY <3>1 DEF push, pop, pop_ptr, clear, TakePopTicket
    <3>2. ASSUME NEW u \in Threads, NEW m \in MinCapacities, Resize(u, m) PROVE FALSE
      BY <3>2 DEF Resize
    <3>3. ASSUME NEW u \in Threads,
                 \/ SizeReadPop(u) \/ ClearPop(u) \/ Load(u) \/ TagSucceeds(u) \/ TagFails(u)
                 \/ FutexWait(u) \/ Callback(u) \/ SpuriousReturn(u)
          PROVE  FALSE
      BY <3>3 DEF SizeReadPop, ClearPop, TakePopTicket, Load, TagSucceeds, TagFails, FutexWait,
                  Callback, SpuriousReturn, WaitHow
    <3>4. ASSUME NEW u \in Threads, AdvanceUntagged(u) \/ AdvanceTagged(u) \/ WakeAll(u)
          PROVE  FALSE
      BY <3>4 DEF AdvanceUntagged, AdvanceTagged, WakeAll, Exchange, Return
    <3>5. ~UNCHANGED vars
      BY DEF vars
    <3>6. PICK u \in Threads : SizeReadPush(u)
      BY <3>1, <3>2, <3>3, <3>4, <3>5 DEF Next, Step, reserve_and_clear, Threads
    <3> QED
      BY <3>6 DEF SizeReadPush
  <2> QED
    BY <2>0, <2>1 DEF SizeReadPush, NonEmpty, SizeReadBefore
<1>4. TypeOK /\ SizeReadBefore /\ [Next]_vars => [ReturnsOnEmpty]_vars
  BY <1>3
<1> QED
  BY <1>1, <1>2, <1>4, TypeCorrect, PTL DEF Spec, ClearReturnsOnEmpty

\* The ticket whose turn it is at slot s.
LEMMA TicketOfTurn ==
  ASSUME capacity \in Nat \ {0}, NEW s \in Slots, NEW v \in Nat
  PROVE  \E q \in Nat, k \in {0, 1}, i \in Nat :
           /\ v = 2 * q + k /\ q = v \div 2 /\ i = capacity * q + s
           /\ slot_id(i) = s /\ TurnOf(k, i) = v
<1>1. PICK q \in Nat, k \in 0..1 : q = v \div 2 /\ v = 2 * q + k
  OBVIOUS
<1>2. PICK i \in Nat : i = capacity * q + s
  BY DEF Slots
<1>3. i \div capacity = q /\ i % capacity = s
  BY <1>2, DivModUnique DEF Slots
<1>4. k \in {0, 1}
  BY <1>1
<1> QED
  BY <1>1, <1>2, <1>3, <1>4 DEF slot_id, TurnOf

\* If all threads inside the queue sleep, no ticket handed out is in turn: its
\* holder would have been woken, or would never have gone to sleep.
LEMMA AllAsleep ==
  ASSUME IInv, \A u \in Threads : pc[u] \in {"idle", "asleep"}
  PROVE  /\ \A t \in Threads : pc[t] = "asleep" => turn[slot(t)] # Turn(t)
         /\ \A k \in {0, 1} : \A i \in Nat : i < Tickets(k) => turn[slot_id(i)] # TurnOf(k, i)
<1>0. TypeOK /\ RawIsTurn /\ NoLostWakeup /\ TicketsHeld
  BY DEF IInv
<1>1. ASSUME NEW t \in Threads, pc[t] = "asleep" PROVE turn[slot(t)] # Turn(t)
  <2>1. ~(\E u \in Threads : pc[u] = "wake" /\ slot(u) = slot(t))
    OBVIOUS
  <2>2. get_raw_version(futex[slot(t)]) # expected_version(t)
    BY <1>0, <1>1, <2>1 DEF NoLostWakeup
  <2>3. slot(t) \in Slots /\ expected_version(t) = Turn(t) % VersionMod
    BY <1>0, SlotType, VersionOfTurn
  <2> QED
    BY <1>0, <2>2, <2>3 DEF RawIsTurn
<1>2. ASSUME NEW k \in {0, 1}, NEW i \in Nat, i < Tickets(k), turn[slot_id(i)] = TurnOf(k, i)
      PROVE  FALSE
  <2>1. Tickets(k) \in Nat /\ capacity \in Nat \ {0}
    BY <1>0, ConstantTypes DEF TypeOK, Tickets
  <2>2. i \in 0..(Tickets(k) - 1)
    BY <1>2, <2>1
  <2>3. TurnOf(k, i) \in Nat
    <3>1. PICK q \in Nat : q = i \div capacity
      BY <2>1, DivMod
    <3> QED
      BY <3>1 DEF TurnOf
  <2>4. turn[slot_id(i)] <= TurnOf(k, i)
    BY <1>2, <2>3
  <2>5. PICK t \in Threads : Holding(t) /\ Kind(t) = k /\ index[t] = i
    BY <1>0, <2>2, <2>4 DEF TicketsHeld
  <2>6. pc[t] = "asleep"
    BY <2>5 DEF Holding
  <2> QED
    BY <1>1, <1>2, <2>5, <2>6 DEF slot, Turn
<1> QED
  BY <1>1, <1>2

\* When everybody inside the queue sleeps, each sleeper waits for a call that nobody
\* has made: threads that call push and pop in step are never stuck on each other.
THEOREM NeverStuckOnEachOther == Spec => []StuckOnlyWhenFullOrEmpty
<1>1. IInv => StuckOnlyWhenFullOrEmpty
  <2> SUFFICES ASSUME IInv, \A u \in Threads : pc[u] \in {"idle", "asleep"},
                      NEW t \in Threads, pc[t] = "asleep",
                      ~(IF op[t] = "push" THEN index[t] >= next_pop_index + capacity
                                          ELSE index[t] >= next_push_index)
               PROVE  FALSE
    BY DEF StuckOnlyWhenFullOrEmpty
  <2>1. TypeOK /\ TurnNotPassed
    BY DEF IInv
  <2>2. /\ capacity \in Nat \ {0} /\ next_push_index \in Nat /\ next_pop_index \in Nat
        /\ index[t] \in Nat /\ slot(t) \in Slots /\ turn[slot(t)] \in Nat
    <3>1. slot(t) \in Slots
      BY <2>1, SlotType
    <3> QED
      BY <2>1, <3>1, ConstantTypes DEF TypeOK
  <2>3. PICK p \in Nat : /\ p = index[t] \div capacity
                         /\ index[t] = capacity * p + slot(t)
    BY <2>2, DivMod DEF slot, slot_id
  <2>4. Holding(t) /\ index[t] < Tickets(Kind(t)) /\ turn[slot(t)] <= Turn(t)
    BY <2>1 DEF TurnNotPassed, Holding
  <2>5. turn[slot(t)] # Turn(t)
    BY AllAsleep
  <2>6. Kind(t) \in {0, 1} /\ Turn(t) = 2 * p + Kind(t)
    BY <2>3 DEF Turn, TurnOf, Kind
  <2>7. PICK q \in Nat, k \in {0, 1}, i \in Nat :
          /\ turn[slot(t)] = 2 * q + k /\ i = capacity * q + slot(t)
          /\ slot_id(i) = slot(t) /\ TurnOf(k, i) = turn[slot(t)]
    BY <2>2, TicketOfTurn
  <2>8. 2 * q + k < 2 * p + Kind(t)
    BY <2>4, <2>5, <2>6, <2>7
  <2>9. ~(i < Tickets(k))
    BY <2>7, AllAsleep
  <2>10. PICK s \in Nat : s = slot(t)
    BY <2>2 DEF Slots
  <2>11. ASSUME q <= p PROVE i <= index[t]
    <3>1. capacity * q <= capacity * p
      <4>1. PICK d \in Nat : p = q + d
        BY <2>11
      <4>2. capacity * p = capacity * q + capacity * d
        BY <2>2, <4>1
      <4>3. PICK a \in Nat, b \in Nat : a = capacity * q /\ b = capacity * d
        BY <2>2
      <4> QED
        BY <4>2, <4>3
    <3>2. PICK a \in Nat, b \in Nat : a = capacity * q /\ b = capacity * p
      BY <2>2
    <3> QED
      BY <2>3, <2>7, <2>10, <3>1, <3>2
  <2>12. ASSUME q < p PROVE i + capacity <= index[t]
    <3>1. PICK d \in Nat : p = q + 1 + d
      <4>1. p - (q + 1) \in Nat /\ p = q + 1 + (p - (q + 1))
        BY <2>12
      <4> QED
        BY <4>1
    <3>2. capacity * p = capacity * q + capacity + capacity * d
      BY <2>2, <3>1
    <3>3. PICK a \in Nat, b \in Nat, c \in Nat :
            a = capacity * q /\ b = capacity * d /\ c = capacity * p
      BY <2>2
    <3> QED
      BY <2>2, <2>3, <2>7, <2>10, <3>2, <3>3
  <2>13. CASE op[t] = "push"
    <3>1. Kind(t) = 0 /\ index[t] < next_push_index /\ index[t] < next_pop_index + capacity
      BY <2>2, <2>4, <2>13 DEF Kind, Tickets
    <3>2. q < p
      BY <2>8, <3>1
    <3>3. i + capacity <= index[t]
      BY <2>12, <3>2
    <3>4. CASE k = 0
      BY <2>2, <2>9, <3>1, <3>3, <3>4 DEF Tickets
    <3>5. CASE k = 1
      BY <2>2, <2>9, <3>1, <3>3, <3>5 DEF Tickets
    <3> QED
      BY <3>4, <3>5
  <2>14. CASE op[t] # "push"
    <3>1. Kind(t) = 1 /\ index[t] < next_pop_index /\ index[t] < next_push_index
      BY <2>2, <2>4, <2>14 DEF Kind, Tickets
    <3>2. q <= p /\ (k = 1 => q < p)
      BY <2>8, <3>1
    <3>3. CASE k = 0
      BY <2>2, <2>9, <2>11, <3>1, <3>2, <3>3 DEF Tickets
    <3>4. CASE k = 1
      BY <2>2, <2>9, <2>12, <3>1, <3>2, <3>4 DEF Tickets
    <3> QED
      BY <3>3, <3>4
  <2> QED
    BY <2>13, <2>14
<1> QED
  BY <1>1, Invariance, PTL

-----------------------------------------------------------------------------
(* The queue implements BoundedFIFO: what the abstract queue sees of a     *)
(* state, and one lemma for each kind of step.                             *)

Stored == {r \in Slots : Resident(r)}
Items == {value[s] : s \in Stored}
Writing == {index[t] : t \in {u \in Threads : Pending(u) /\ op[u] = "push"}}
Reading == {index[t] : t \in {u \in Threads : Pending(u) /\ op[u] # "push"}}

Advancing(s) == \E t \in Threads : pc[t] = "advance" /\ slot(t) = s

\* Membership in the sets the abstract queue sees, now and after a step.
LEMMA ViewIs ==
  /\ \A s \in Slots : Resident(s) <=> (turn[s] % 2 = 1 <=> ~Advancing(s))
  /\ \A x : x \in Items <=> \E s \in Slots : Resident(s) /\ x = value[s]
  /\ \A x : x \in Writing <=> \E t \in Threads : Pending(t) /\ op[t] = "push" /\ x = index[t]
  /\ \A x : x \in Reading <=> \E t \in Threads : Pending(t) /\ op[t] # "push" /\ x = index[t]
<1>1. \A s \in Slots : Resident(s) <=> (turn[s] % 2 = 1 <=> ~Advancing(s))
  BY DEF Resident, Advancing
<1> QED
  BY <1>1 DEF Items, Stored, Writing, Reading

LEMMA NextViewIs ==
  /\ \A s \in Slots' : Resident(s)' <=> (turn'[s] % 2 = 1 <=> ~Advancing(s)')
  /\ \A x : x \in Items' <=> \E s \in Slots' : Resident(s)' /\ x = value'[s]
  /\ \A x : x \in Writing' <=> \E t \in Threads : Pending(t)' /\ op'[t] = "push" /\ x = index'[t]
  /\ \A x : x \in Reading' <=> \E t \in Threads : Pending(t)' /\ op'[t] # "push" /\ x = index'[t]
<1>1. \A s \in Slots' : Resident(s)' <=> (turn'[s] % 2 = 1 <=> ~Advancing(s)')
  BY DEF Resident, Advancing
<1> QED
  BY <1>1 DEF Items, Stored, Writing, Reading

\* The item in a slot is the one whose turn it is, so different slots hold
\* different items.
LEMMA ResidentIs ==
  ASSUME IInv, NEW s \in Slots, Resident(s)
  PROVE  /\ value[s] = capacity * (turn[s] \div 2) + s
         /\ value[s] % capacity = s
<1>0. TypeOK /\ SlotHoldsItem /\ CallbackInTurn
  BY DEF IInv
<1>1. capacity \in Nat \ {0} /\ turn[s] \in Nat
  BY <1>0 DEF TypeOK
<1>2. PICK q \in Nat, k \in {0, 1}, i \in Nat :
        turn[s] = 2 * q + k /\ q = turn[s] \div 2 /\ i = capacity * q + s /\ slot_id(i) = s
  <2>1. PICK v \in Nat : v = turn[s]
    BY <1>1
  <2>2. \E q \in Nat, k \in {0, 1}, i \in Nat :
          /\ v = 2 * q + k /\ q = v \div 2 /\ i = capacity * q + s
          /\ slot_id(i) = s /\ TurnOf(k, i) = v
    BY <1>1, TicketOfTurn
  <2> QED
    BY <2>1, <2>2
<1>3. turn[s] % 2 = k
  BY <1>2
<1>4. value[s] = i
  <2>1. CASE k = 1
    <3>1. ~Advancing(s) /\ turn[s] % 2 # 0
      BY <1>3, <2>1, ViewIs
    <3> QED
      BY <1>0, <1>2, <3>1 DEF SlotHoldsItem, Advancing
  <2>2. CASE k = 0
    <3>1. PICK t \in Threads : pc[t] = "advance" /\ slot(t) = s
      BY <1>3, <2>2, ViewIs DEF Advancing
    <3>2. Turn(t) = turn[s] /\ index[t] \in Nat
      BY <1>0, <3>1, ConstantTypes DEF CallbackInTurn, InCallback, TypeOK
    <3>3. PICK p \in Nat, r \in 0..(capacity - 1) :
            p = index[t] \div capacity /\ r = index[t] % capacity /\ index[t] = capacity * p + r
      BY <1>1, <3>2, DivMod
    <3>4. Kind(t) \in {0, 1} /\ Turn(t) = 2 * p + Kind(t) /\ r = s
      BY <3>1, <3>3 DEF Turn, TurnOf, Kind, slot, slot_id
    <3>5. Kind(t) = 0 /\ p = q
      BY <1>2, <2>2, <3>2, <3>4
    <3>6. op[t] = "push"
      BY <3>5 DEF Kind
    <3> QED
      BY <1>0, <1>2, <3>1, <3>3, <3>4, <3>5, <3>6 DEF SlotHoldsItem
  <2> QED
    BY <2>1, <2>2
<1> QED
  BY <1>2, <1>4 DEF slot_id

\* A step that leaves the turns, the values and the pending calls alone.
LEMMA ViewKept ==
  ASSUME TypeOK, capacity' = capacity, value' = value, turn' = turn,
         \A u \in Threads : /\ pc'[u] = "advance" <=> pc[u] = "advance"
                            /\ Holding(u)' <=> Holding(u)
                            /\ Holding(u) => index'[u] = index[u] /\ op'[u] = op[u]
  PROVE  UNCHANGED <<Items, Writing, Reading>>
<1>1. \A u \in Threads : pc[u] = "advance" => Holding(u)
  BY DEF Holding
<1>2. \A u \in Threads : Pending(u)' <=> Pending(u)
  BY DEF Pending
<1>3. \A u \in Threads : Pending(u) => index'[u] = index[u] /\ op'[u] = op[u]
  BY DEF Pending
<1>4. Slots' = Slots /\ \A s \in Slots : Advancing(s)' <=> Advancing(s)
  <2>1. \A u \in Threads : Holding(u) => slot(u)' = slot(u)
    BY SameTicket
  <2> QED
    BY <1>1, <2>1 DEF Slots, Advancing
<1>5. \A s \in Slots : Resident(s)' <=> Resident(s)
  BY <1>4, ViewIs, NextViewIs
<1>6. Items' = Items
  <2>1. \A x : x \in Items' <=> x \in Items
    BY <1>4, <1>5, ViewIs, NextViewIs
  <2> QED
    BY <2>1
<1>7. Writing' = Writing
  <2>1. \A x : x \in Writing' <=> x \in Writing
    BY <1>2, <1>3, ViewIs, NextViewIs
  <2> QED
    BY <2>1
<1>8. Reading' = Reading
  <2>1. \A x : x \in Reading' <=> x \in Reading
    BY <1>2, <1>3, ViewIs, NextViewIs
  <2> QED
    BY <2>1
<1> QED
  BY <1>6, <1>7, <1>8

\* The steps inside size(), the wait loop and wake_all are not visible.
LEMMA QuietSeen ==
  ASSUME TypeOK, Quiet
  PROVE  UNCHANGED <<capacity, next_push_index, next_pop_index, Items, Writing, Reading>>
BY ViewKept DEF Quiet

\* Taking a ticket begins a call.
LEMMA TakeSeen ==
  ASSUME TypeOK, NEW t \in Threads, NEW k \in {0, 1}, TakesTicket(t, k)
  PROVE  /\ capacity' = capacity /\ Items' = Items
         /\ Tickets(k)' = Tickets(k) + 1 /\ Tickets(1 - k)' = Tickets(1 - k)
         /\ k = 0 => Writing' = Writing \cup {next_push_index} /\ Reading' = Reading
         /\ k = 1 => Reading' = Reading \cup {next_pop_index} /\ Writing' = Writing
<1> USE DEF TakesTicket
<1>1. \A u \in Threads \ {t} : /\ Pending(u)' <=> Pending(u)
                               /\ Holding(u)' <=> Holding(u)
                               /\ index'[u] = index[u] /\ op'[u] = op[u]
                               /\ pc'[u] = pc[u]
  BY DEF Pending, Holding
<1>2. ~Pending(t) /\ Pending(t)' /\ pc[t] # "advance" /\ pc'[t] # "advance"
  BY DEF Pending, Holding
<1>3. Items' = Items
  <2>1. \A u \in Threads \ {t} : slot(u)' = slot(u)
    BY <1>1, SameTicket
  <2>2. Slots' = Slots /\ \A s \in Slots : Advancing(s)' <=> Advancing(s)
    BY <1>1, <1>2, <2>1 DEF Slots, Advancing
  <2>3. \A s \in Slots : Resident(s)' <=> Resident(s)
    BY <2>2, ViewIs, NextViewIs
  <2>4. \A x : x \in Items' <=> x \in Items
    BY <2>2, <2>3, ViewIs, NextViewIs
  <2> QED
    BY <2>4
<1>4. ASSUME k = 0 PROVE Writing' = Writing \cup {next_push_index} /\ Reading' = Reading
  <2>1. op'[t] = "push" /\ index'[t] = next_push_index
    BY <1>4 DEF Kind, Tickets
  <2>2. \A x : x \in Writing' <=> x \in Writing \/ x = next_push_index
    BY <1>1, <1>2, <2>1, ViewIs, NextViewIs
  <2>3. \A x : x \in Reading' <=> x \in Reading
    BY <1>1, <1>2, <2>1, ViewIs, NextViewIs
  <2> QED
    BY <2>2, <2>3
<1>5. ASSUME k = 1 PROVE Reading' = Reading \cup {next_pop_index} /\ Writing' = Writing
  <2>1. op'[t] # "push" /\ index'[t] = next_pop_index
    BY <1>5 DEF Kind, Tickets
  <2>2. \A x : x \in Reading' <=> x \in Reading \/ x = next_pop_index
    BY <1>1, <1>2, <2>1, ViewIs, NextViewIs
  <2>3. \A x : x \in Writing' <=> x \in Writing
    BY <1>1, <1>2, <2>1, ViewIs, NextViewIs
  <2> QED
    BY <2>2, <2>3
<1> QED
  BY <1>3, <1>4, <1>5

\* The callback changes what its own slot holds and ends the caller's wait.
LEMMA CallbackFrame ==
  ASSUME IInv, NEW t \in Threads, Callback(t)
  PROVE  /\ capacity' = capacity /\ next_push_index' = next_push_index
         /\ next_pop_index' = next_pop_index /\ Slots' = Slots
         /\ slot(t) \in Slots
         /\ \A s \in Slots : s # slot(t) => /\ value'[s] = value[s]
                                            /\ Resident(s)' <=> Resident(s)
         /\ Resident(slot(t)) <=> op[t] # "push"
         /\ Resident(slot(t))' <=> op[t] = "push"
         /\ op[t] = "push" => value'[slot(t)] = index[t]
         /\ op[t] # "push" => value[slot(t)] = index[t]
         /\ index[t] % capacity = slot(t)
         /\ index' = index /\ op' = op
         /\ Pending(t) /\ ~Pending(t)'
         /\ \A u \in Threads : u # t => (Pending(u)' <=> Pending(u))
<1>0. TypeOK /\ CallbackInTurn /\ SlotExclusive /\ capacity \in Nat \ {0}
  BY ExclusiveFromInv DEF IInv, TypeOK
<1>1. /\ pc[t] = "callback" /\ pc' = [pc EXCEPT ![t] = "advance"]
      /\ index' = index /\ op' = op /\ turn' = turn /\ capacity' = capacity
      /\ next_push_index' = next_push_index /\ next_pop_index' = next_pop_index
  BY DEF Callback, Goto
<1>2. slot(t) \in Slots /\ Slots' = Slots
  BY <1>0, <1>1, SlotType DEF Slots
<1>3. \A s \in Slots : s # slot(t) => value'[s] = value[s]
  BY <1>0 DEF Callback, TypeOK
<1>4. op[t] = "push" => value'[slot(t)] = index[t]
  BY <1>0, <1>2 DEF Callback, TypeOK
<1>5. \A u \in Threads : pc'[u] = IF u = t THEN "advance" ELSE pc[u]
  BY <1>0, <1>1 DEF TypeOK
<1>6. \A u \in Threads : slot(u)' = slot(u)
  BY <1>1, SameTicket
<1>7. ~Advancing(slot(t))
  BY <1>0, <1>1 DEF Advancing, SlotExclusive
<1>8. Advancing(slot(t))'
  <2>1. pc'[t] = "advance" /\ slot(t)' = slot(t)
    BY <1>5, <1>6
  <2> QED
    BY <2>1 DEF Advancing
<1>9. \A s \in Slots : s # slot(t) => (Advancing(s)' <=> Advancing(s))
  BY <1>1, <1>5, <1>6 DEF Advancing
<1>10. /\ turn[slot(t)] % 2 = 1 <=> op[t] # "push"
       /\ index[t] % capacity = slot(t)
       /\ \A s \in Slots : s = slot(t) /\ Resident(s) => value[s] = index[t]
  <2>1. turn[slot(t)] = Turn(t) /\ index[t] \in Nat
    BY <1>0, <1>1, ConstantTypes DEF CallbackInTurn, InCallback, TypeOK
  <2>2. PICK p \in Nat, r \in 0..(capacity - 1) :
          p = index[t] \div capacity /\ r = index[t] % capacity /\ index[t] = capacity * p + r
    BY <1>0, <2>1, DivMod
  <2>3. Kind(t) \in {0, 1} /\ Turn(t) = 2 * p + Kind(t) /\ r = slot(t)
    BY <2>2 DEF Turn, TurnOf, Kind, slot, slot_id
  <2>4. (2 * p + Kind(t)) % 2 = Kind(t) /\ (2 * p + Kind(t)) \div 2 = p
    BY <2>3
  <2>5. turn[slot(t)] % 2 = 1 <=> op[t] # "push"
    BY <2>1, <2>3, <2>4 DEF Kind
  <2>6. ASSUME NEW s \in Slots, s = slot(t), Resident(s) PROVE value[s] = index[t]
    BY <2>1, <2>2, <2>3, <2>4, <2>6, ResidentIs
  <2> QED
    BY <2>2, <2>3, <2>5, <2>6
<1>11. Resident(slot(t)) <=> op[t] # "push"
  BY <1>2, <1>7, <1>10, ViewIs
<1>12. ASSUME NEW s \in Slots, s = slot(t) PROVE Resident(s)' <=> op[t] = "push"
  <2>1. Advancing(s)'
    BY <1>6, <1>8, <1>12 DEF Advancing
  <2> QED
    BY <1>1, <1>2, <1>10, <1>12, <2>1, NextViewIs
<1>13. Resident(slot(t))' <=> op[t] = "push"
  <2>1. PICK s \in Slots : s = slot(t) /\ slot(t)' = s
    BY <1>2, <1>6
  <2>2. Resident(s)' <=> op[t] = "push"
    BY <1>12, <2>1
  <2> QED
    BY <2>1, <2>2 DEF Resident
<1>14. \A s \in Slots : s # slot(t) => (Resident(s)' <=> Resident(s))
  BY <1>1, <1>2, <1>9, ViewIs, NextViewIs
<1>15. /\ Pending(t) /\ ~Pending(t)'
       /\ \A u \in Threads : u # t => (Pending(u)' <=> Pending(u))
  BY <1>1, <1>5 DEF Pending, Holding
<1>16. op[t] # "push" => value[slot(t)] = index[t]
  BY <1>2, <1>10, <1>11
<1> QED
  BY <1>1, <1>2, <1>3, <1>4, <1>10, <1>11, <1>13, <1>14, <1>15, <1>16

\* There is room for the item of a push that runs its callback.
LEMMA RoomLeft ==
  ASSUME TypeOK, NEW s \in Slots, ~Resident(s)
  PROVE  Cardinality(Items) < capacity
<1>1. capacity \in Nat \ {0}
  BY DEF TypeOK
<1>2. IsFiniteSet(Slots) /\ Cardinality(Slots) = capacity
  <2>1. 0 \in Int /\ capacity - 1 \in Int /\ 0 <= capacity - 1 + 1
    BY <1>1
  <2>2. IsFiniteSet(0..(capacity - 1))
        /\ Cardinality(0..(capacity - 1)) = IF 0 > capacity - 1 THEN 0 ELSE capacity - 1 - 0 + 1
    BY <2>1, FS_Interval
  <2> QED
    BY <1>1, <2>2 DEF Slots
<1>3. Stored \subseteq Slots \ {s}
  BY DEF Stored
<1>4. IsFiniteSet(Slots \ {s}) /\ Cardinality(Slots \ {s}) = capacity - 1
  BY <1>2, FS_RemoveElement
<1>5. IsFiniteSet(Stored) /\ Cardinality(Stored) <= capacity - 1
  BY <1>3, <1>4, FS_Subset
<1>6. IsFiniteSet(Items) /\ Cardinality(Items) <= Cardinality(Stored)
  <2>1. PICK f : f = [r \in Stored |-> value[r]]
    OBVIOUS
  <2>2. f \in Surjection(Stored, Items)
    BY <2>1 DEF Surjection, Items
  <2> QED
    BY <1>5, <2>2, FS_Surjection
<1>7. Cardinality(Items) \in Nat /\ Cardinality(Stored) \in Nat
  BY <1>5, <1>6, FS_CardinalityType
<1> QED
  BY <1>1, <1>5, <1>6, <1>7

\* A push stores its item in its callback, a pop takes its item in its callback.
LEMMA CallbackSeen ==
  ASSUME IInv, NEW t \in Threads, Callback(t)
  PROVE  /\ UNCHANGED <<capacity, next_push_index, next_pop_index>>
         /\ op[t] = "push" =>
              /\ index[t] \in Writing /\ Cardinality(Items) < capacity /\ index[t] \notin Items
              /\ Items' = Items \cup {index[t]} /\ Writing' = Writing \ {index[t]}
              /\ Reading' = Reading
         /\ op[t] # "push" =>
              /\ index[t] \in Reading /\ index[t] \in Items
              /\ Items' = Items \ {index[t]} /\ Reading' = Reading \ {index[t]}
              /\ Writing' = Writing
<1>0. TypeOK /\ TicketsDistinct
  BY DEF IInv
<1>1. PICK s \in Slots : s = slot(t)
  BY CallbackFrame
<1>2. PICK i : i = index[t]
  OBVIOUS
<1>3. /\ capacity' = capacity /\ next_push_index' = next_push_index
      /\ next_pop_index' = next_pop_index /\ Slots' = Slots
      /\ \A r \in Slots : r # s => value'[r] = value[r] /\ (Resident(r)' <=> Resident(r))
      /\ Resident(s) <=> op[t] # "push"
      /\ op[t] = "push" => value'[s] = i
      /\ op[t] # "push" => value[s] = i
      /\ i % capacity = s
      /\ index' = index /\ op' = op /\ Pending(t) /\ ~Pending(t)'
      /\ \A u \in Threads : u # t => (Pending(u)' <=> Pending(u))
  BY <1>1, <1>2, CallbackFrame
<1>4. Resident(s)' <=> op[t] = "push"
  <2>1. slot(t)' = slot(t)
    BY <1>3, SameTicket
  <2>2. Resident(slot(t))' <=> op[t] = "push"
    BY CallbackFrame
  <2> QED
    BY <1>1, <2>1, <2>2 DEF Resident
<1>5. \A r \in Slots : Resident(r) /\ value[r] = i => r = s
  BY <1>3, ResidentIs
<1>6. \A u \in Threads : u # t /\ Pending(u) /\ index[u] = i => (op[u] = "push" <=> op[t] # "push")
  <2>1. \A u \in Threads : Pending(u) => Holding(u)
    BY DEF Pending
  <2> QED
    BY <1>0, <1>2, <1>3, <2>1 DEF TicketsDistinct, Kind
<1>7. ASSUME op[t] = "push"
      PROVE  /\ index[t] \in Writing /\ Cardinality(Items) < capacity /\ index[t] \notin Items
             /\ Items' = Items \cup {index[t]} /\ Writing' = Writing \ {index[t]}
             /\ Reading' = Reading
  <2>1. i \in Writing
    BY <1>2, <1>3, <1>7, ViewIs
  <2>2. i \notin Items
    BY <1>3, <1>5, <1>7, ViewIs
  <2>3. Cardinality(Items) < capacity
    BY <1>0, <1>3, <1>7, RoomLeft
  <2>4. \A x : x \in Items' <=> x \in Items \/ x = i
    BY <1>3, <1>4, <1>7, ViewIs, NextViewIs
  <2>5. \A x : x \in Writing' <=> x \in Writing /\ x # i
    BY <1>2, <1>3, <1>6, <1>7, ViewIs, NextViewIs
  <2>6. \A x : x \in Reading' <=> x \in Reading
    BY <1>3, <1>7, ViewIs, NextViewIs
  <2> QED
    BY <1>2, <2>1, <2>2, <2>3, <2>4, <2>5, <2>6
<1>8. ASSUME op[t] # "push"
      PROVE  /\ index[t] \in Reading /\ index[t] \in Items
             /\ Items' = Items \ {index[t]} /\ Reading' = Reading \ {index[t]}
             /\ Writing' = Writing
  <2>1. i \in Reading
    BY <1>2, <1>3, <1>8, ViewIs
  <2>2. i \in Items
    BY <1>3, <1>8, ViewIs
  <2>4. \A x : x \in Items' <=> x \in Items /\ x # i
    BY <1>3, <1>4, <1>5, <1>8, ViewIs, NextViewIs
  <2>5. \A x : x \in Reading' <=> x \in Reading /\ x # i
    BY <1>2, <1>3, <1>6, <1>8, ViewIs, NextViewIs
  <2>6. \A x : x \in Writing' <=> x \in Writing
    BY <1>3, <1>8, ViewIs, NextViewIs
  <2> QED
    BY <1>2, <2>1, <2>2, <2>4, <2>5, <2>6
<1> QED
  BY <1>3, <1>7, <1>8

\* Ending the turn of a slot is not visible: its item stays or stays away.
LEMMA ExchangeSeen ==
  ASSUME IInv, NEW t \in Threads, Exchange(t), OthersStay(t), OnlyMoves(t),
         ~Holding(t)'
  PROVE  UNCHANGED <<capacity, next_push_index, next_pop_index, Items, Writing, Reading>>
<1>0. TypeOK /\ SlotExclusive
  BY ExclusiveFromInv DEF IInv
<1>1. /\ pc[t] = "advance" /\ pc'[t] # "advance" /\ capacity' = capacity /\ value' = value
      /\ next_push_index' = next_push_index /\ next_pop_index' = next_pop_index
      /\ turn' = [turn EXCEPT ![slot(t)] = @ + 1] /\ Slots' = Slots
  BY DEF Exchange, Holding, Slots
<1>2. \A u \in Threads \ {t} : /\ pc'[u] = pc[u] /\ index'[u] = index[u] /\ op'[u] = op[u]
                               /\ slot(u)' = slot(u)
  BY SameTicket DEF OnlyMoves
<1>3. slot(t) \in Slots
  BY <1>0, SlotType
<1>4. \A s \in Slots : Resident(s)' <=> Resident(s)
  <2> TAKE s \in Slots
  <2>1. CASE s = slot(t)
    <3>1. Advancing(s) /\ ~Advancing(s)'
      <4>1. Advancing(s)
        BY <1>1, <2>1 DEF Advancing
      <4>2. \A u \in Threads \ {t} : ~(pc[u] = "advance" /\ slot(u) = s)
        BY <1>0, <1>1, <2>1 DEF SlotExclusive
      <4> QED
        BY <1>1, <1>2, <4>1, <4>2 DEF Advancing
    <3>2. turn'[s] = turn[s] + 1 /\ turn[s] \in Nat
      BY <1>0, <1>1, <2>1 DEF TypeOK
    <3>3. turn'[s] % 2 = 1 <=> ~(turn[s] % 2 = 1)
      BY <3>2
    <3> QED
      BY <1>1, <3>1, <3>3, ViewIs, NextViewIs
  <2>2. CASE s # slot(t)
    <3>1. turn'[s] = turn[s]
      BY <1>0, <1>1, <2>2 DEF TypeOK
    <3>2. Advancing(s)' <=> Advancing(s)
      BY <1>1, <1>2, <2>2 DEF Advancing
    <3> QED
      BY <1>1, <3>1, <3>2, ViewIs, NextViewIs
  <2> QED
    BY <2>1, <2>2
<1>5. \A x : x \in Items' <=> x \in Items
  BY <1>1, <1>4, ViewIs, NextViewIs
<1>6. /\ ~Pending(t) /\ ~Pending(t)'
      /\ \A u \in Threads \ {t} : Pending(u)' <=> Pending(u)
  BY <1>1, <1>2 DEF Pending, Holding
<1>7. \A x : x \in Writing' <=> x \in Writing
  BY <1>2, <1>6, ViewIs, NextViewIs
<1>8. \A x : x \in Reading' <=> x \in Reading
  BY <1>2, <1>6, ViewIs, NextViewIs
<1> QED
  BY <1>1, <1>5, <1>7, <1>8

\* What the abstract queue sees of the first state.
LEMMA InitSeen == Init => FIFO!Init
<1> SUFFICES ASSUME Init PROVE FIFO!Init
  OBVIOUS
<1>1. TypeOK /\ capacity \in Nat \ {0}
  BY TypeInit DEF TypeOK
<1>2. /\ next_push_index = 0 /\ next_pop_index = 0
      /\ \A u \in Threads : pc[u] = "idle"
      /\ \A s \in Slots : turn[s] = 0
  BY DEF Init, EachSlot, Slots
<1>3. \A u \in Threads : ~Pending(u)
  BY <1>2 DEF Pending, Holding
<1>4. \A s \in Slots : ~Resident(s)
  <2>1. \A s \in Slots : ~Advancing(s) /\ turn[s] % 2 # 1
    BY <1>2 DEF Advancing
  <2> QED
    BY <2>1, ViewIs
<1>5. Items = {} /\ Writing = {} /\ Reading = {}
  BY <1>3, <1>4, ViewIs
<1> QED
  BY <1>1, <1>2, <1>5 DEF FIFO!Init, Items, Stored, Writing, Reading

\* An item stored, or taken, is a step of the abstract queue.
LEMMA PutSeen ==
  ASSUME NEW i, i \in Writing, Cardinality(Items) < capacity, i \notin Items,
         Items' = Items \cup {i}, Writing' = Writing \ {i}, Reading' = Reading,
         UNCHANGED <<capacity, next_push_index, next_pop_index>>
  PROVE  FIFO!Next
<1>1. FIFO!Put(i)
  <2>1. Cardinality({value[s] : s \in {r \in Slots : Resident(r)}}) < capacity
    BY Zenon DEF Items, Stored
  <2>2. i \notin {value[s] : s \in {r \in Slots : Resident(r)}}
    BY Zenon DEF Items, Stored
  <2>3. {value[s] : s \in {r \in Slots : Resident(r)}}'
          = {value[s] : s \in {r \in Slots : Resident(r)}} \cup {i}
    BY Zenon DEF Items, Stored
  <2>4. {index[t] : t \in {u \in Threads : Pending(u) /\ op[u] = "push"}}'
          = {index[t] : t \in {u \in Threads : Pending(u) /\ op[u] = "push"}} \ {i}
    BY Zenon DEF Writing
  <2>5. {index[t] : t \in {u \in Threads : Pending(u) /\ op[u] # "push"}}'
          = {index[t] : t \in {u \in Threads : Pending(u) /\ op[u] # "push"}}
    BY Zenon DEF Reading
  <2>6. \A S : FIFO!Cardinality(S) = Cardinality(S)
    BY Zenon DEF FIFO!Cardinality, Cardinality
  <2> QED
    BY <2>1, <2>2, <2>3, <2>4, <2>5, <2>6, Zenon DEF FIFO!Put
<1>2. i \in {index[t] : t \in {u \in Threads : Pending(u) /\ op[u] = "push"}}
  BY Zenon DEF Writing
<1> QED
  BY <1>1, <1>2, Zenon DEF FIFO!Next

LEMMA TakenSeen ==
  ASSUME NEW i, i \in Reading, i \in Items,
         Items' = Items \ {i}, Reading' = Reading \ {i}, Writing' = Writing,
         UNCHANGED <<capacity, next_push_index, next_pop_index>>
  PROVE  FIFO!Next
<1>1. FIFO!Take(i)
  BY Zenon DEF FIFO!Take, Items, Stored, Writing, Reading
<1>2. i \in {index[t] : t \in {u \in Threads : Pending(u) /\ op[u] # "push"}}
  BY Zenon DEF Reading
<1> QED
  BY <1>1, <1>2, Zenon DEF FIFO!Next

\* Every step of the queue is a step of the abstract queue or is not visible.
LEMMA StepSeen ==
  ASSUME IInv, [Next]_vars
  PROVE  [FIFO!Next]_(FIFO!vars)
<1>0. TypeOK
  BY DEF IInv
<1> DEFINE Goal == FIFO!Next \/ UNCHANGED FIFO!vars
<1>q. ASSUME UNCHANGED <<capacity, next_push_index, next_pop_index, Items, Writing, Reading>>
      PROVE  Goal
  BY <1>q DEF FIFO!vars, Items, Stored, Writing, Reading
<1>1. ASSUME NEW t \in Threads, push(t) PROVE Goal
  <2>1. TakesTicket(t, 0)
    <3>1. next_push_index \in Item
      BY <1>0, <1>1, ConstantTypes DEF push, TypeOK
    <3> QED
      BY <1>0, <1>1, <3>1
      DEF push, Goto, TakesTicket, Tickets, Kind, Holding, TypeOK
  <2>2. /\ capacity' = capacity /\ Items' = Items
        /\ Tickets(0)' = Tickets(0) + 1 /\ Tickets(1 - 0)' = Tickets(1 - 0)
        /\ Writing' = Writing \cup {next_push_index} /\ Reading' = Reading
    BY <1>0, <2>1, TakeSeen
  <2>3. next_push_index' = next_push_index + 1 /\ next_pop_index' = next_pop_index
    BY <1>1 DEF push
  <2>4. FIFO!BeginPush
    BY <2>2, <2>3 DEF FIFO!BeginPush, Items, Stored, Writing, Reading
  <2> QED
    BY <2>4 DEF FIFO!Next
<1>2. ASSUME NEW t \in Threads, pop(t) \/ pop_ptr(t) \/ ClearPop(t) PROVE Goal
  <2>1. TakesTicket(t, 1)
    <3>1. next_pop_index \in Item
      BY <1>0, <1>2, ConstantTypes DEF pop, pop_ptr, ClearPop, TakePopTicket, TypeOK
    <3>2. CASE pop(t) \/ pop_ptr(t)
      BY <1>0, <3>1, <3>2
      DEF pop, pop_ptr, TakePopTicket, Goto, TakesTicket, Tickets, Kind, Holding, TypeOK
    <3>3. CASE ClearPop(t)
      BY <1>0, <3>1, <3>3
      DEF ClearPop, TakePopTicket, Goto, TakesTicket, Tickets, Kind, Holding, TypeOK
    <3> QED
      BY <1>2, <3>2, <3>3
  <2>2. /\ capacity' = capacity /\ Items' = Items
        /\ Reading' = Reading \cup {next_pop_index} /\ Writing' = Writing
    BY <1>0, <2>1, TakeSeen
  <2>3. next_pop_index' = next_pop_index + 1 /\ next_push_index' = next_push_index
    BY <1>2 DEF pop, pop_ptr, ClearPop, TakePopTicket
  <2>4. FIFO!BeginPop
    BY <2>2, <2>3 DEF FIFO!BeginPop, Items, Stored, Writing, Reading
  <2> QED
    BY <2>4 DEF FIFO!Next
<1>3. ASSUME NEW t \in Threads, clear(t) \/ SizeReadPop(t) \/ SizeReadPush(t) PROVE Goal
  <2>1. Quiet
    <3>1. CASE clear(t)
      BY <1>0, <3>1 DEF clear, shared, Goto, Quiet, Holding, TypeOK
    <3>2. CASE SizeReadPop(t)
      BY <1>0, <3>2 DEF SizeReadPop, shared, Goto, Quiet, Holding, TypeOK
    <3>3. CASE SizeReadPush(t)
      BY <1>0, <3>3 DEF SizeReadPush, NonEmpty, shared, Goto, Quiet, Holding, TypeOK
    <3> QED
      BY <1>3, <3>1, <3>2, <3>3
  <2> QED
    BY <1>0, <1>q, <2>1, QuietSeen
<1>4. ASSUME NEW t \in Threads,
             Load(t) \/ TagSucceeds(t) \/ TagFails(t) \/ FutexWait(t) \/ SpuriousReturn(t)
      PROVE  Goal
  <2>1. /\ capacity' = capacity /\ value' = value /\ turn' = turn
        /\ next_push_index' = next_push_index /\ next_pop_index' = next_pop_index
        /\ index' = index /\ op' = op
    BY <1>4 DEF Load, TagSucceeds, TagFails, FutexWait, SpuriousReturn, shared
  <2>2. \E l \in {"callback", "wait", "tag", "load", "asleep"} : pc' = [pc EXCEPT ![t] = l]
    BY <1>4 DEF Load, WaitHow, TagSucceeds, TagFails, FutexWait, SpuriousReturn, Goto
  <2>3. pc[t] \in {"load", "tag", "wait", "asleep"}
    BY <1>4 DEF Load, TagSucceeds, TagFails, FutexWait, SpuriousReturn
  <2>4. \A u \in Threads : /\ pc'[u] = "advance" <=> pc[u] = "advance"
                           /\ Holding(u)' <=> Holding(u)
    BY <1>0, <2>2, <2>3 DEF Holding, TypeOK
  <2>5. UNCHANGED <<Items, Writing, Reading>>
    BY <1>0, <2>1, <2>4, ViewKept
  <2> QED
    BY <1>q, <2>1, <2>5
<1>5. ASSUME NEW t \in Threads, Callback(t) PROVE Goal
  <2>1. CASE op[t] = "push"
    <3>1. /\ index[t] \in Writing /\ Cardinality(Items) < capacity /\ index[t] \notin Items
          /\ Items' = Items \cup {index[t]} /\ Writing' = Writing \ {index[t]}
          /\ Reading' = Reading
          /\ UNCHANGED <<capacity, next_push_index, next_pop_index>>
      BY <1>5, <2>1, CallbackSeen
    <3> QED
      BY <3>1, PutSeen
  <2>2. CASE op[t] # "push"
    <3>1. /\ index[t] \in Reading /\ index[t] \in Items
          /\ Items' = Items \ {index[t]} /\ Reading' = Reading \ {index[t]}
          /\ Writing' = Writing
          /\ UNCHANGED <<capacity, next_push_index, next_pop_index>>
      BY <1>5, <2>2, CallbackSeen
    <3> QED
      BY <3>1, TakenSeen
  <2> QED
    BY <2>1, <2>2
<1>6. ASSUME NEW t \in Threads, AdvanceUntagged(t) PROVE Goal
  <2>1. Exchange(t) /\ OnlyMoves(t) /\ OthersStay(t) /\ pc'[t] \in {"size_pop", "idle"}
    BY <1>0, <1>6
    DEF AdvanceUntagged, Exchange, DropLocals, Return, Goto, OnlyMoves, OthersStay, TypeOK
  <2> QED
    BY <1>q, <2>1, ExchangeSeen DEF Holding
<1>7. ASSUME NEW t \in Threads, AdvanceTagged(t) PROVE Goal
  <2>1. Exchange(t) /\ OnlyMoves(t) /\ OthersStay(t) /\ pc'[t] = "wake"
    BY <1>0, <1>7 DEF AdvanceTagged, Exchange, Goto, OnlyMoves, OthersStay, TypeOK
  <2> QED
    BY <1>q, <2>1, ExchangeSeen DEF Holding
<1>8. ASSUME NEW t \in Threads, WakeAll(t) PROVE Goal
  <2>1. /\ capacity' = capacity /\ turn' = turn /\ value' = value
        /\ next_push_index' = next_push_index /\ next_pop_index' = next_pop_index
    BY <1>8 DEF WakeAll, shared
  <2>2. /\ pc[t] = "wake" /\ pc'[t] \in {"size_pop", "idle"}
        /\ \A u \in Threads \ {t} :
             /\ index'[u] = index[u] /\ op'[u] = op[u]
             /\ pc'[u] = pc[u] \/ (pc'[u] = "load" /\ pc[u] = "asleep")
    BY <1>0, <1>8 DEF WakeAll, DropLocals, Return, TypeOK
  <2>3. \A u \in Threads : /\ pc'[u] = "advance" <=> pc[u] = "advance"
                           /\ Holding(u)' <=> Holding(u)
                           /\ Holding(u) => index'[u] = index[u] /\ op'[u] = op[u]
    BY <2>2 DEF Holding
  <2>4. UNCHANGED <<Items, Writing, Reading>>
    BY <1>0, <2>1, <2>3, ViewKept
  <2> QED
    BY <1>q, <2>1, <2>4
<1>9. ASSUME NEW t \in Threads, NEW m \in MinCapacities, Resize(t, m) PROVE Goal
  <2>1. /\ capacity' \in Nat \ {0}
        /\ \A s \in Slots' : turn'[s] = 0
        /\ \A u \in Threads : pc[u] = "idle" /\ pc'[u] = "idle"
        /\ next_push_index' = 0 /\ next_pop_index' = 0
    BY <1>9, CapacityAssumption DEF Resize, EachSlot, Slots, local
  <2>2. \A u \in Threads : ~Pending(u) /\ ~Pending(u)'
    BY <2>1 DEF Pending, Holding
  <2>3. \A s \in Slots' : ~Resident(s)'
    <3>1. \A s \in Slots' : ~Advancing(s)' /\ turn'[s] % 2 # 1
      BY <2>1 DEF Advancing
    <3> QED
      BY <3>1, NextViewIs
  <2>4. Writing = {} /\ Reading = {}
    BY <2>2, ViewIs
  <2>5. Writing' = {} /\ Reading' = {} /\ Items' = {}
    BY <2>2, <2>3, NextViewIs
  <2>6. FIFO!Restart
    BY <2>1, <2>4, <2>5 DEF FIFO!Restart, Items, Stored, Writing, Reading
  <2> QED
    BY <2>6 DEF FIFO!Next
<1>10. CASE UNCHANGED vars
  <2>1. \A u \in Threads : /\ pc'[u] = "advance" <=> pc[u] = "advance"
                           /\ Holding(u)' <=> Holding(u)
                           /\ index'[u] = index[u] /\ op'[u] = op[u]
    BY <1>10 DEF vars, Holding
  <2>2. UNCHANGED <<Items, Writing, Reading>>
    BY <1>0, <1>10, <2>1, ViewKept DEF vars
  <2> QED
    BY <1>10, <1>q, <2>2 DEF vars
<1>11. Goal
  BY <1>1, <1>2, <1>3, <1>4, <1>5, <1>6, <1>7, <1>8, <1>9, <1>10
  DEF Next, Step, reserve_and_clear, Threads
<1> QED
  BY <1>11

\* The queue is a bounded FIFO: the n-th push supplies the n-th pop, every item is
\* stored and taken once and never more than capacity are stored, whatever the
\* interleaving of process() calls and however often the 16-bit versions wrap.
THEOREM QueueImplementsFIFO == Spec => ImplementsFIFO
<1>1. Init => FIFO!Init
  BY InitSeen
<1>2. IInv /\ [Next]_vars => [FIFO!Next]_(FIFO!vars)
  BY StepSeen
<1> QED
  BY <1>1, <1>2, Invariance, PTL DEF Spec, ImplementsFIFO, FIFO!Spec
=============================================================================
