----------------------------- MODULE VectorRange -----------------------------
(***************************************************************************)
(* Index arithmetic and range operations of ConcurrentVector               *)
(* (src/concurrent/vector.h, struct Meta and class Snapshot): an index is  *)
(* split into a shard and an offset, and for_each, on which fill_n and     *)
(* copy_n rest, hands a range to its callback shard by shard.  One thread: *)
(* a Snapshot is a local object and its table never changes.               *)
(***************************************************************************)
EXTENDS Naturals, Sequences, Bitwise, FiniteSetsExt

CONSTANTS
  ShardSizes,   \* num_per_shard given to the constructor
  MaxIndex      \* bound: one past the largest index used

ASSUME RangeAssumption == ShardSizes \subseteq Nat /\ MaxIndex \in Nat \ {0}

VARIABLES
  num_per_shard,
  shard_bit,
  shard_num,     \* size of the snapshot's table
  reserved,      \* elements reserved so far, by reserve, fill_n or copy_n
  start_index,
  end_index,
  shard_id,      \* of the loop in for_each
  places,        \* the elements handed to the callback, in order
  pc             \* "idle", "loop", "done", or "wild" after an access outside

vars == <<num_per_shard, shard_bit, shard_num, reserved, start_index, end_index,
          shard_id, places, pc>>
meta == <<num_per_shard, shard_bit>>

findLastSet(x) == IF x = 0 THEN 0 ELSE 1 + Max({k \in 0..x : 2^k <= x})

nextPowTwo(v) == IF v = 0 THEN 1 ELSE 2^findLastSet(v - 1)

\* __builtin_popcount
popcount(x) == Cardinality({k \in 0..x : shiftR(x, k) % 2 = 1})

shard_bit_for(n) == popcount(n - 1)

get_shard_id(index) == shiftR(index, shard_bit)

get_shard_offset(index) == index & (num_per_shard - 1)

\* Mutation: the shard of the last element is taken for the number of shards.
require_shard_num_less(size) == get_shard_id(size - 1)

\* How many shards size elements need; the code asks for at least one element.
require_shard_num(size) == get_shard_id(size - 1) + 1

\* Where operator[] finds an element.
place(index) == <<get_shard_id(index), get_shard_offset(index)>>

Init ==
  \E n \in ShardSizes :
    /\ num_per_shard = nextPowTwo(n)
    /\ shard_bit = shard_bit_for(nextPowTwo(n))
    /\ shard_num = 0 /\ reserved = 0
    /\ start_index = 0 /\ end_index = 0 /\ shard_id = 0
    /\ places = <<>>
    /\ pc = "idle"

-----------------------------------------------------------------------------
\* ensure_table: the table has at least n shards from now on.
ensure_table(n) == shard_num' = Max({n, shard_num})

reserve(size) ==
  /\ pc = "idle"
  /\ ensure_table(require_shard_num(size))
  /\ reserved' = Max({size, reserved})
  /\ UNCHANGED <<meta, start_index, end_index, shard_id, places, pc>>

\* What the callback gets of one shard: the elements from one offset up to another.
Stretch(shard, from, to) == [k \in 1..(to - from) |-> <<shard, from + k - 1>>]

\* The first shard is handed over from the start to its end.
Begin(start, end) ==
  /\ start_index' = start /\ end_index' = end
  /\ places' = Stretch(get_shard_id(start), get_shard_offset(start), num_per_shard)
  /\ shard_id' = get_shard_id(start) + 1
  /\ pc' = "loop"

\* The caller stays within what is reserved.
for_each(start, end) ==
  /\ pc = "idle"
  /\ start < end /\ end <= reserved
  /\ Begin(start, end)
  /\ UNCHANGED <<meta, shard_num, reserved>>

\* fill_n and copy_n take a table of as many shards as they need elements.
fill_n(start, length) ==
  /\ pc = "idle"
  /\ start + length <= MaxIndex
  /\ ensure_table(start + length)
  /\ reserved' = Max({start + length, reserved})
  /\ Begin(start, start + length)
  /\ UNCHANGED meta

NextShard ==
  /\ pc = "loop" /\ shard_id # get_shard_id(end_index)
  /\ \/ /\ shard_id < shard_num
        /\ places' = places \o Stretch(shard_id, 0, num_per_shard)
        /\ shard_id' = shard_id + 1
        /\ UNCHANGED pc
     \/ /\ shard_id >= shard_num
        /\ pc' = "wild"
        /\ UNCHANGED <<places, shard_id>>
  /\ UNCHANGED <<meta, shard_num, reserved, start_index, end_index>>

\* Mutation: the last shard is looked up even if the range ends before it.
TailAlways == get_shard_id(start_index) < get_shard_id(end_index)

\* The range ends within another shard than it starts in.
HasTail ==
  /\ get_shard_id(start_index) < get_shard_id(end_index)
  /\ get_shard_offset(end_index) > 0

LastShard ==
  /\ pc = "loop" /\ shard_id = get_shard_id(end_index)
  /\ \/ /\ HasTail
        /\ places' = places \o Stretch(shard_id, 0, get_shard_offset(end_index))
        /\ pc' = IF shard_id < shard_num THEN "done" ELSE "wild"
     \/ /\ ~HasTail
        /\ pc' = "done"
        /\ UNCHANGED places
  /\ UNCHANGED <<meta, shard_num, reserved, start_index, end_index, shard_id>>

Return ==
  /\ pc = "done"
  /\ pc' = "idle"
  /\ start_index' = 0 /\ end_index' = 0 /\ shard_id' = 0
  /\ places' = <<>>
  /\ UNCHANGED <<meta, shard_num, reserved>>

Next ==
  \/ \E size \in 1..MaxIndex : reserve(size)
  \/ \E start \in 0..(MaxIndex - 1), end \in 1..MaxIndex : for_each(start, end)
  \/ \E start \in 0..(MaxIndex - 1), length \in 1..MaxIndex : fill_n(start, length)
  \/ NextShard \/ LastShard \/ Return

Spec == Init /\ [][Next]_vars

-----------------------------------------------------------------------------
(* Properties.                                                             *)

\* Every variable has its type, and shard_bit bits address one shard exactly.
TypeOK ==
  /\ num_per_shard \in Nat /\ shard_bit \in Nat /\ num_per_shard = 2^shard_bit
  /\ shard_num \in 0..MaxIndex /\ reserved \in 0..MaxIndex
  /\ start_index \in 0..MaxIndex /\ end_index \in 0..MaxIndex
  /\ shard_id \in Nat
  /\ places \in Seq(Nat \X Nat)
  /\ pc \in {"idle", "loop", "done", "wild"}

\* What operator[] would visit, in order.
Wanted == [k \in 1..(end_index - start_index) |-> place(start_index + k - 1)]

Crosses == get_shard_id(start_index) < get_shard_id(end_index)

\* A range whose end lies in another shard than its start is visited exactly, in
\* the order of the indexes: for_each counts right, and copy_n, whose source
\* iterator moves on with every callback, copies each element to its own place.
\* for_each does not look at a shard the table does not have, not even when the
\* range ends on the boundary after the last shard.
CrossingRangeVisited ==
  /\ pc = "done" /\ Crosses => places = Wanted
  /\ Crosses => pc # "wild"

\* Each reserved index has a place of its own in the table, and shard_bit bits
\* address one shard exactly.
ReservedIsAddressable ==
  /\ TypeOK
  /\ \A i \in 0..(reserved - 1) :
       place(i) \in (0..(shard_num - 1)) \X (0..(num_per_shard - 1))
  /\ \A i, j \in 0..(reserved - 1) : place(i) = place(j) => i = j

=============================================================================
