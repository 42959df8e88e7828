---------------------------- MODULE BoundedQueue ----------------------------
(***************************************************************************)
(* ConcurrentBoundedQueue (src/concurrent/concurrent_bounded_queue.h): a   *)
(* blocking multi-producer multi-consumer queue over a ring of slots.      *)
(* push and pop take a ticket with one fetch_add; ticket i uses the slot   *)
(* i mod capacity and waits until that slot's 16-bit version equals the    *)
(* version computed from i.  A waiter tags the version word before it      *)
(* sleeps in the kernel; whoever advances the version wakes the sleepers   *)
(* only if the word it replaced was tagged.                                *)
(*                                                                         *)
(* Every access to a shared atomic, every system call and the user's       *)
(* callback is one action.  The payload of a push is its ticket: the       *)
(* queue never looks at a value, and tickets tell all values apart.        *)
(***************************************************************************)
EXTENDS Naturals, FiniteSets

CONSTANTS
  Pushers,        \* threads that call push
  Poppers,        \* threads that call pop
  Clearers,       \* threads that call clear and reserve_and_clear
  MinCapacities,  \* arguments of the constructor and of reserve_and_clear
  VersionMod,     \* number of raw versions, 2^16 in the code
  MaxTickets      \* bound: tickets of each kind handed out between two resets

Threads == Pushers \cup Poppers \cup Clearers

(***************************************************************************)
(* Bits needed to write x, and the least power of two that is >= v.        *)
(***************************************************************************)
findLastSet(x) ==
  IF x = 0 THEN 0 ELSE CHOOSE k \in 1..x : 2^(k-1) <= x /\ x < 2^k

nextPowTwo(v) == IF v = 0 THEN 1 ELSE 2^findLastSet(v - 1)

Item == 0..(MaxTickets - 1)
Moved == MaxTickets     \* in a slot never written or whose value was moved out
Words == 0..(2 * VersionMod - 1)

(***************************************************************************)
(* A thread that holds a ticket occupies one of the VersionMod \div 2      *)
(* versions of its kind until the slot's turn has passed, so versions      *)
(* cannot be confused as long as there are no more threads than that.      *)
(***************************************************************************)
ASSUME ThreadsAssumption ==
  /\ IsFiniteSet(Threads)
  /\ Cardinality(Threads) <= VersionMod \div 2

ASSUME VersionAssumption ==
  /\ VersionMod \in Nat \ {0}
  /\ VersionMod % 2 = 0

ASSUME CapacityAssumption ==
  /\ MinCapacities # {}
  /\ \A m \in MinCapacities : nextPowTwo(m) \in Nat \ {0}

ASSUME BoundAssumption == MaxTickets \in Nat \ {0}

VARIABLES
  capacity,         \* _capacity
  next_push_index,  \* _next_push_index
  next_pop_index,   \* _next_pop_index
  futex,            \* version word of each slot: raw version, plus VersionMod if tagged
  value,            \* value of each slot
  pc,               \* where each thread is
  op,               \* the operation each thread is in
  index,            \* the ticket a thread holds
  current_version,  \* the version word the thread last loaded or installed
  got,              \* what the pop callback read
  pop_idx,          \* size(): the pop index read first
  turn              \* auxiliary: versions each slot has gone through, unwrapped

shared == <<capacity, next_push_index, next_pop_index, futex, value, turn>>
local  == <<pc, op, index, current_version, got, pop_idx>>
vars   == <<capacity, next_push_index, next_pop_index, futex, value, pc, op,
            index, current_version, got, pop_idx, turn>>

-----------------------------------------------------------------------------
(* Versions and slots.                                                     *)

get_raw_version(version) == version % VersionMod

make_tagged_version(version) == version + VersionMod

is_tagged_version(version) == version >= VersionMod

\* capacity is a power of two: & and >> are % and \div.
slot_id(i) == i % capacity

\* Mutation: the shift by one is forgotten.
PushVersionUnshifted(i) == (i \div capacity) % VersionMod

push_version_for_index(i) == (2 * (i \div capacity)) % VersionMod

\* Mutation: a pop waits for the version of the push.
PopVersionAsPush(i) == push_version_for_index(i)

pop_version_for_index(i) == (push_version_for_index(i) + 1) % VersionMod

expected_version(t) ==
  IF op[t] = "push" THEN push_version_for_index(index[t])
                    ELSE pop_version_for_index(index[t])

slot(t) == slot_id(index[t])

-----------------------------------------------------------------------------
(* The state between calls, after the constructor or a resize.             *)

EachSlot(c, x) == [s \in 0..(c - 1) |-> x]

Init ==
  /\ \E m \in MinCapacities :
       /\ capacity = nextPowTwo(m)
       /\ futex = EachSlot(nextPowTwo(m), 0)
       /\ value = EachSlot(nextPowTwo(m), Moved)
       /\ turn  = EachSlot(nextPowTwo(m), 0)
  /\ next_push_index = 0
  /\ next_pop_index = 0
  /\ pc = [t \in Threads |-> "idle"]
  /\ op = [t \in Threads |-> "push"]
  /\ index = [t \in Threads |-> 0]
  /\ current_version = [t \in Threads |-> 0]
  /\ got = [t \in Threads |-> Moved]
  /\ pop_idx = [t \in Threads |-> 0]

Goto(t, label) == pc' = [pc EXCEPT ![t] = label]

-----------------------------------------------------------------------------
(* Entry of the public operations.                                         *)

push(t) ==
  /\ pc[t] = "idle"
  /\ next_push_index < MaxTickets
  /\ next_push_index' = next_push_index + 1
  /\ index' = [index EXCEPT ![t] = next_push_index]
  /\ op' = [op EXCEPT ![t] = "push"]
  /\ Goto(t, "load")
  /\ UNCHANGED <<capacity, next_pop_index, futex, value, current_version, got,
                 pop_idx, turn>>

\* The fetch_add of a pop; clear comes here from its loop.
TakePopTicket(t) ==
  /\ next_pop_index < MaxTickets
  /\ next_pop_index' = next_pop_index + 1
  /\ index' = [index EXCEPT ![t] = next_pop_index]
  /\ Goto(t, "load")

pop(t) ==
  /\ pc[t] = "idle"
  /\ TakePopTicket(t)
  /\ op' = [op EXCEPT ![t] = "pop"]
  /\ UNCHANGED <<capacity, next_push_index, futex, value, current_version, got,
                 pop_idx, turn>>

\* pop(T*) has a callback that neither reads nor moves the value.
pop_ptr(t) ==
  /\ pc[t] = "idle"
  /\ TakePopTicket(t)
  /\ op' = [op EXCEPT ![t] = "pop_ptr"]
  /\ UNCHANGED <<capacity, next_push_index, futex, value, current_version, got,
                 pop_idx, turn>>

clear(t) ==
  /\ pc[t] = "idle"
  /\ op' = [op EXCEPT ![t] = "clear"]
  /\ Goto(t, "size_pop")
  /\ UNCHANGED <<shared, index, current_version, got, pop_idx>>

\* Resizing frees and reallocates the slots, so its caller must be alone.
Resize(t, min_capacity) ==
  LET new_capacity == nextPowTwo(min_capacity)
  IN  /\ \A u \in Threads : pc[u] = "idle"
      /\ new_capacity # capacity
      /\ capacity' = new_capacity
      /\ futex' = EachSlot(new_capacity, 0)
      /\ value' = EachSlot(new_capacity, Moved)
      /\ turn' = EachSlot(new_capacity, 0)
      /\ next_push_index' = 0
      /\ next_pop_index' = 0
      /\ UNCHANGED local

reserve_and_clear(t, min_capacity) ==
  \/ Resize(t, min_capacity)
  \/ nextPowTwo(min_capacity) = capacity /\ clear(t)

-----------------------------------------------------------------------------
(* clear: while (size() > 0) pop(...).  size() reads the two indices one   *)
(* after the other.                                                        *)

SizeReadPop(t) ==
  /\ pc[t] = "size_pop"
  /\ pop_idx' = [pop_idx EXCEPT ![t] = next_pop_index]
  /\ Goto(t, "size_push")
  /\ UNCHANGED <<shared, op, index, current_version, got>>

\* Mutation: the size test is off by one.
NonSingle(t) == next_push_index > pop_idx[t] + 1

\* size() > 0
NonEmpty(t) == next_push_index > pop_idx[t]

SizeReadPush(t) ==
  /\ pc[t] = "size_push"
  /\ pop_idx' = [pop_idx EXCEPT ![t] = 0]
  /\ IF NonEmpty(t)
     THEN Goto(t, "clear_pop") /\ op' = op
     ELSE Goto(t, "idle") /\ op' = [op EXCEPT ![t] = "push"]
  /\ UNCHANGED <<shared, index, current_version, got>>

ClearPop(t) ==
  /\ pc[t] = "clear_pop"
  /\ TakePopTicket(t)
  /\ UNCHANGED <<capacity, next_push_index, futex, value, op, current_version,
                 got, pop_idx, turn>>

-----------------------------------------------------------------------------
(* wait_until_reach_expected_version.                                      *)

\* Mutation: versions are ordered, as if they never wrapped.
ReachedOrPassed(t, v) == get_raw_version(v) >= expected_version(t)

Reached(t, v) == get_raw_version(v) = expected_version(t)

\* Mutation: the test for a tagged word is missing.
TagAgain(v) == "tag"

\* Tag the word before waiting, unless somebody did.
WaitHow(v) == IF is_tagged_version(v) THEN "wait" ELSE "tag"

\* The load before the loop, and the one that ends each round of it.
Load(t) ==
  LET v == futex[slot(t)]
  IN  /\ pc[t] = "load"
      /\ current_version' = [current_version EXCEPT ![t] = v]
      /\ Goto(t, IF Reached(t, v) THEN "callback" ELSE WaitHow(v))
      /\ UNCHANGED <<shared, op, index, got, pop_idx>>

TagSucceeds(t) ==
  LET v == make_tagged_version(current_version[t])
  IN  /\ pc[t] = "tag"
      /\ futex[slot(t)] = current_version[t]
      /\ futex' = [futex EXCEPT ![slot(t)] = v]
      /\ current_version' = [current_version EXCEPT ![t] = v]
      /\ Goto(t, "wait")
      /\ UNCHANGED <<capacity, next_push_index, next_pop_index, value, op,
                     index, got, pop_idx, turn>>

\* compare_exchange_weak may fail although the word is unchanged.
TagFails(t) ==
  /\ pc[t] = "tag"
  /\ Goto(t, "load")
  /\ UNCHANGED <<shared, op, index, current_version, got, pop_idx>>

\* Mutation: the sleeper does not compare the word.
FutexWaitUnchecked(t) ==
  /\ pc[t] = "wait"
  /\ Goto(t, "asleep")
  /\ UNCHANGED <<shared, op, index, current_version, got, pop_idx>>

\* FUTEX_WAIT compares and goes to sleep in one step of the kernel.
FutexWait(t) ==
  /\ pc[t] = "wait"
  /\ Goto(t, IF futex[slot(t)] = current_version[t] THEN "asleep" ELSE "load")
  /\ UNCHANGED <<shared, op, index, current_version, got, pop_idx>>

\* FUTEX_WAIT may return without a wake-up: a signal, or a stray one.
SpuriousReturn(t) ==
  /\ pc[t] = "asleep"
  /\ Goto(t, "load")
  /\ UNCHANGED <<shared, op, index, current_version, got, pop_idx>>

-----------------------------------------------------------------------------
(* The callback, and advance_version_and_wakeup_waiters.                   *)

Callback(t) ==
  /\ pc[t] = "callback"
  /\ value' = [value EXCEPT ![slot(t)] =
                 CASE op[t] = "push" -> index[t]
                   [] op[t] = "pop"  -> Moved
                   [] OTHER          -> @]
  /\ got' = [got EXCEPT ![t] = IF op[t] = "pop" THEN value[slot(t)] ELSE Moved]
  /\ Goto(t, "advance")
  /\ UNCHANGED <<capacity, next_push_index, next_pop_index, futex, op, index,
                 current_version, pop_idx, turn>>

\* Where a thread continues when process() returns; its locals are gone.
Return(t) == IF op[t] = "clear" THEN "size_pop" ELSE "idle"

DropLocals(t) ==
  /\ index' = [index EXCEPT ![t] = 0]
  /\ op' = [op EXCEPT ![t] = IF @ = "clear" THEN "clear" ELSE "push"]

\* Mutation: the version skips one.
NewVersionByTwo(t) == (expected_version(t) + 2) % VersionMod

\* What the exchange installs.
NewVersion(t) == (expected_version(t) + 1) % VersionMod

Exchange(t) ==
  /\ pc[t] = "advance"
  /\ futex' = [futex EXCEPT ![slot(t)] = NewVersion(t)]
  /\ turn' = [turn EXCEPT ![slot(t)] = @ + 1]
  /\ got' = [got EXCEPT ![t] = Moved]
  /\ current_version' = [current_version EXCEPT ![t] = 0]
  /\ UNCHANGED <<capacity, next_push_index, next_pop_index, value, pop_idx>>

AdvanceUntagged(t) ==
  /\ Exchange(t)
  /\ ~is_tagged_version(futex[slot(t)])
  /\ Goto(t, Return(t))
  /\ DropLocals(t)

\* Mutation: the sleepers are not woken.
AdvanceWithoutWake(t) ==
  /\ Exchange(t)
  /\ is_tagged_version(futex[slot(t)])
  /\ Goto(t, Return(t))
  /\ DropLocals(t)

AdvanceTagged(t) ==
  /\ Exchange(t)
  /\ is_tagged_version(futex[slot(t)])
  /\ Goto(t, "wake")
  /\ UNCHANGED <<op, index>>

\* Mutation: one sleeper is woken instead of all.
WakeOne(t) ==
  LET sleepers == {u \in Threads : pc[u] = "asleep" /\ slot(u) = slot(t)}
  IN  /\ pc[t] = "wake"
      /\ IF sleepers = {}
         THEN Goto(t, Return(t))
         ELSE \E u \in sleepers : pc' = [pc EXCEPT ![t] = Return(t), ![u] = "load"]
      /\ DropLocals(t)
      /\ UNCHANGED <<shared, current_version, got, pop_idx>>

WakeAll(t) ==
  /\ pc[t] = "wake"
  /\ pc' = [u \in Threads |->
              IF u = t THEN Return(t)
              ELSE IF pc[u] = "asleep" /\ slot(u) = slot(t) THEN "load"
              ELSE pc[u]]
  /\ DropLocals(t)
  /\ UNCHANGED <<shared, current_version, got, pop_idx>>

-----------------------------------------------------------------------------
\* What a thread does by itself once it is inside an operation.
Step(t) ==
  \/ SizeReadPop(t) \/ SizeReadPush(t) \/ ClearPop(t)
  \/ Load(t) \/ TagSucceeds(t) \/ TagFails(t) \/ FutexWait(t)
  \/ Callback(t) \/ AdvanceUntagged(t) \/ AdvanceTagged(t) \/ WakeAll(t)

Next ==
  \/ \E t \in Pushers : push(t)
  \/ \E t \in Poppers : pop(t) \/ pop_ptr(t)
  \/ \E t \in Clearers : clear(t) \/ \E m \in MinCapacities : reserve_and_clear(t, m)
  \/ \E t \in Threads : Step(t) \/ SpuriousReturn(t)

Spec == Init /\ [][Next]_vars

\* A thread inside an operation keeps running until the kernel puts it to
\* sleep, and a callback returns.
Fairness == \A t \in Threads : WF_vars(Step(t))

FairSpec == Spec /\ Fairness

-----------------------------------------------------------------------------
(* Properties.                                                             *)

Slots == 0..(capacity - 1)

\* The thread holds a ticket whose turn at the slot is not over.
Holding(t) ==
  pc[t] \in {"load", "tag", "wait", "asleep", "callback", "advance"}

\* 0 for a push and 1 for a pop; the turn of the k-kind ticket i: the version
\* it waits for, before it is cut to 16 bits.
Kind(t) == IF op[t] = "push" THEN 0 ELSE 1

TurnOf(k, i) == 2 * (i \div capacity) + k

Turn(t) == TurnOf(Kind(t), index[t])

Labels == {"idle", "size_pop", "size_push", "clear_pop", "load", "tag", "wait",
           "asleep", "callback", "advance", "wake"}

Indices == 0..MaxTickets

\* Every variable has its type: indices below the bound, version words of at
\* most two times VersionMod values, a pc of one of the steps of process(),
\* size() and clear().
TypeOK ==
  /\ capacity \in Nat \ {0}
  /\ next_push_index \in Indices
  /\ next_pop_index \in Indices
  /\ futex \in [Slots -> Words]
  /\ value \in [Slots -> Item \cup {Moved}]
  /\ turn \in [Slots -> Nat]
  /\ pc \in [Threads -> Labels]
  /\ op \in [Threads -> {"push", "pop", "pop_ptr", "clear"}]
  /\ index \in [Threads -> Item]
  /\ current_version \in [Threads -> Words]
  /\ got \in [Threads -> Item \cup {Moved}]
  /\ pop_idx \in [Threads -> Indices]
  /\ \A t \in Threads :
       pc[t] \in {"size_pop", "size_push", "clear_pop"} => op[t] = "clear"

\* No two threads are inside the callback of the same slot: process() reaches
\* the callback only while the slot's version is the caller's own, wrapped
\* versions included.
SlotExclusive ==
  \A t, u \in Threads :
    /\ pc[t] \in {"callback", "advance"}
    /\ pc[u] \in {"callback", "advance"}
    /\ slot(t) = slot(u)
    => t = u

\* A pop with ticket i receives exactly what the push with ticket i stored:
\* nothing is lost, read twice, or overwritten before it was read.
PopGetsItsTicket ==
  \A t \in Threads :
    pc[t] = "advance" /\ op[t] = "pop" => got[t] = index[t]

\* A sleeper is never forgotten: the slot's word still carries the tag and has
\* not reached the sleeper's version, so the next advance will wake it, or the
\* thread that removed the tag is about to call wake_all on that slot.
NoLostWakeup ==
  \A t \in Threads :
    pc[t] = "asleep" =>
      \/ /\ is_tagged_version(futex[slot(t)])
         /\ get_raw_version(futex[slot(t)]) # expected_version(t)
      \/ \E u \in Threads : pc[u] = "wake" /\ slot(u) = slot(t)

\* When every thread inside the queue sleeps, each of them waits for a call
\* nobody has made: a pop whose push has no ticket yet, or a push a whole
\* capacity ahead of the pops.
StuckOnlyWhenFullOrEmpty ==
  (\A t \in Threads : pc[t] \in {"idle", "asleep"}) =>
    \A t \in Threads : pc[t] = "asleep" =>
      IF op[t] = "push" THEN index[t] >= next_pop_index + capacity
                        ELSE index[t] >= next_push_index

\* A slot's version only ever stays or moves on by one: the blind exchange of
\* advance_version_and_wakeup_waiters never turns a version back or skips one.
VersionStepsByOne ==
  [][capacity' = capacity =>
       \A s \in Slots :
         get_raw_version(futex[s]') \in
           {get_raw_version(futex[s]), (get_raw_version(futex[s]) + 1) % VersionMod}]_vars

\* A pop whose push took a ticket, and a push whose slot some pop has a ticket
\* to empty, return: no wake-up is missed for good, no ticket is starved.
TicketsServed ==
  \A t \in Threads :
    /\ Holding(t)
    /\ IF op[t] = "push" THEN index[t] < next_pop_index + capacity
                         ELSE index[t] < next_push_index
    ~> ~Holding(t)

\* clear() leaves nothing behind: it returns only at a moment when every push
\* that has a ticket has a pop with the same ticket, although size() reads the
\* two indices one after the other while others push and pop.
ClearReturnsOnEmpty ==
  [][\A t \in Threads :
       op[t] = "clear" /\ pc[t] # "idle" /\ pc'[t] = "idle" =>
         next_push_index <= next_pop_index]_vars

-----------------------------------------------------------------------------
(* The inductive invariant behind the safety properties.                   *)

InCallback(t) == pc[t] \in {"callback", "advance"}

Tickets(k) == IF k = 0 THEN next_push_index ELSE next_pop_index

\* The version word is the slot's turn, cut to 16 bits.
RawIsTurn ==
  \A s \in Slots : get_raw_version(futex[s]) = turn[s] % VersionMod

\* A thread about to wait has seen a version that is not its own.
WaitersMismatch ==
  \A t \in Threads :
    pc[t] \in {"tag", "wait"} =>
      /\ get_raw_version(current_version[t]) # expected_version(t)
      /\ is_tagged_version(current_version[t]) <=> pc[t] = "wait"

\* A ticket in use was handed out, and its turn has not passed.
TurnNotPassed ==
  \A t \in Threads :
    Holding(t) => index[t] < Tickets(Kind(t)) /\ turn[slot(t)] <= Turn(t)

\* In the callback it is the caller's turn.
CallbackInTurn ==
  \A t \in Threads : InCallback(t) => Turn(t) = turn[slot(t)]

\* No ticket is held twice ...
TicketsDistinct ==
  \A t, u \in Threads :
    Holding(t) /\ Holding(u) /\ Kind(t) = Kind(u) /\ index[t] = index[u] => t = u

\* ... and one whose turn has not passed is held by some thread.
TicketsHeld ==
  \A k \in {0, 1} : \A i \in 0..(Tickets(k) - 1) :
    turn[slot_id(i)] <= TurnOf(k, i) =>
      \E t \in Threads : Holding(t) /\ Kind(t) = k /\ index[t] = i

\* A slot's turn never runs ahead of the tickets handed out.
UnclaimedAhead ==
  \A k \in {0, 1} : \A i \in Item :
    Tickets(k) <= i => turn[slot_id(i)] <= TurnOf(k, i)

\* From the callback of a push to the callback of the matching pop the slot
\* holds that push's item, which the pop receives.
SlotHoldsItem ==
  /\ \A s \in Slots :
       \/ turn[s] % 2 = 0
       \/ value[s] = capacity * (turn[s] \div 2) + s
       \/ \E t \in Threads : pc[t] = "advance" /\ slot(t) = s
  /\ \A t \in Threads : pc[t] = "advance" =>
       /\ op[t] = "push" => value[slot(t)] = index[t]
       /\ op[t] = "pop" => got[t] = index[t]

IInv ==
  /\ TypeOK
  /\ RawIsTurn
  /\ WaitersMismatch
  /\ TurnNotPassed
  /\ CallbackInTurn
  /\ TicketsDistinct
  /\ TicketsHeld
  /\ UnclaimedAhead
  /\ SlotHoldsItem
  /\ NoLostWakeup

-----------------------------------------------------------------------------
\* The bounded FIFO the queue promises.  An item changes hands in the callback:
\* slot s holds one between the callback of a push and the callback of a pop.
Resident(s) ==
  (turn[s] % 2 = 1) # (\E t \in Threads : pc[t] = "advance" /\ slot(t) = s)

Pending(t) == Holding(t) /\ pc[t] # "advance"

FIFO == INSTANCE BoundedFIFO WITH
  bound   <- capacity,
  pushed  <- next_push_index,
  popped  <- next_pop_index,
  items   <- {value[s] : s \in {r \in Slots : Resident(r)}},
  writing <- {index[t] : t \in {u \in Threads : Pending(u) /\ op[u] = "push"}},
  reading <- {index[t] : t \in {u \in Threads : Pending(u) /\ op[u] # "push"}}

\* Every behaviour of the queue is a behaviour of BoundedFIFO.
ImplementsFIFO == FIFO!Spec
=============================================================================
