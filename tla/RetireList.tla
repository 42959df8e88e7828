----------------------------- MODULE RetireList -----------------------------
(***************************************************************************)
(* RetireList (src/concurrent/vector.h): a lock-free list of retired data  *)
(* whose head word carries the time of the latest retirement, in units of  *)
(* 64 seconds cut to 16 bits.  retire first tries to delete the whole list *)
(* if its head word has expired, then pushes.                              *)
(*                                                                         *)
(* The list belongs to an object that retires data; that module supplies   *)
(* the specification and sends a thread to "retire" with its data set.     *)
(* A node is named by the data it carries.                                 *)
(***************************************************************************)
EXTENDS Naturals, Sequences

CONSTANTS
  Threads,
  NULL,
  TimeMod,   \* number of time stamps, 2^16 in the code
  MaxTime    \* bound: how far the clock runs

VARIABLES
  clock,     \* CLOCK_MONOTONIC in units of 64 seconds
  list,      \* the data of the nodes, from the head
  stamp,     \* the tag of the head word; 0 in an empty head
  deleted,   \* the data delete_list has deleted, in this order
  pc,        \* where each thread is
  data,      \* what the thread retires
  now,       \* the time it read
  old_head   \* the head word it read

retireVars == <<clock, list, stamp, deleted, pc, data, now, old_head>>

Goto(t, label) == pc' = [pc EXCEPT ![t] = label]

\* The head word: pointer to the first node, and tag.
Head_(s, tg) == <<IF s = <<>> THEN NULL ELSE s[1], tg>>

head == Head_(list, stamp)

expire(word, time) == (word[2] + TimeMod - time) % TimeMod > 1

RetireInit ==
  /\ clock = 0
  /\ list = <<>> /\ stamp = 0
  /\ deleted = <<>>
  /\ pc = [t \in Threads |-> "idle"]
  /\ data = [t \in Threads |-> NULL]
  /\ now = [t \in Threads |-> 0]
  /\ old_head = [t \in Threads |-> Head_(<<>>, 0)]

Tick ==
  /\ clock < MaxTime
  /\ clock' = clock + 1
  /\ UNCHANGED <<list, stamp, deleted, pc, data, now, old_head>>

retire(t) ==
  /\ pc[t] = "retire"
  /\ now' = [now EXCEPT ![t] = clock % TimeMod]
  /\ Goto(t, "try_gc")
  /\ UNCHANGED <<clock, list, stamp, deleted, data, old_head>>

try_gc(t) ==
  /\ pc[t] = "try_gc"
  /\ old_head' = [old_head EXCEPT ![t] = head]
  /\ Goto(t, IF expire(head, now[t]) THEN "try_drop" ELSE "push")
  /\ UNCHANGED <<clock, list, stamp, deleted, data, now>>

\* Mutation: the list is taken without looking whether it is still the same.
DropBlindly(t) ==
  /\ pc[t] = "try_drop"
  /\ deleted' = deleted \o list
  /\ UNCHANGED <<list, stamp>>
  /\ Goto(t, "push")
  /\ UNCHANGED <<clock, data, now, old_head>>

\* try_drop empties the list, delete_list deletes what was on it.
try_drop(t) ==
  /\ pc[t] = "try_drop" /\ head = old_head[t]
  /\ deleted' = deleted \o list
  /\ list' = <<>> /\ stamp' = 0
  /\ Goto(t, "push")
  /\ UNCHANGED <<clock, data, now, old_head>>

\* compare_exchange_weak fails: the list is left for the next time.
TryDropFails(t) ==
  /\ pc[t] = "try_drop"
  /\ Goto(t, "push")
  /\ UNCHANGED <<clock, list, stamp, deleted, data, now, old_head>>

PushLoad(t) ==
  /\ pc[t] = "push"
  /\ old_head' = [old_head EXCEPT ![t] = head]
  /\ Goto(t, "push_cas")
  /\ UNCHANGED <<clock, list, stamp, deleted, data, now>>

PushCas(t) ==
  /\ pc[t] = "push_cas" /\ head = old_head[t]
  /\ list' = <<data[t]>> \o list
  /\ stamp' = now[t]
  /\ data' = [data EXCEPT ![t] = NULL]
  /\ now' = [now EXCEPT ![t] = 0]
  /\ old_head' = [old_head EXCEPT ![t] = Head_(<<>>, 0)]
  /\ Goto(t, "idle")
  /\ UNCHANGED <<clock, deleted>>

PushCasFails(t) ==
  /\ pc[t] = "push_cas"
  /\ old_head' = [old_head EXCEPT ![t] = head]
  /\ UNCHANGED <<clock, list, stamp, deleted, pc, data, now>>

RetireStep(t) ==
  \/ retire(t) \/ try_gc(t) \/ try_drop(t) \/ TryDropFails(t)
  \/ PushLoad(t) \/ PushCas(t) \/ PushCasFails(t)
=============================================================================
