----------------------------- MODULE ObjectPool -----------------------------
(***************************************************************************)
(* ObjectPool (src/pool.h): objects preallocated in nodes.  Free nodes are *)
(* on one of two lock-free lists of the pool, or in a thread's cache:      *)
(* market nodes may be cached privately, collective nodes always go back   *)
(* to the pool.  The heads of the lists are tagged indices: a node's tag   *)
(* advances whenever the node is pushed, against the ABA problem.          *)
(*                                                                         *)
(* A node is <<pool, index>>; a list's head and a node's next name a node  *)
(* by its index only, and it is looked up in the pool that owns the list.  *)
(***************************************************************************)
EXTENDS Naturals, Sequences, FiniteSets

CONSTANTS
  Threads,
  Pools,           \* pools of objects of one type
  Uses,            \* the programs looked at, see PoolAssumption
  num,             \* nodes of each pool
  TC_CAPACITY,     \* ThreadCache::get_capacity()
  NULL,            \* NULL_INDEX
  TagMod,          \* number of tags, 2^32 in the code
  MaxTag,          \* bound: how often one node is pushed
  MaxHeld          \* bound: objects a thread holds at once

Indices == 0..(num - 1)
Nodes == Pools \X Indices
Tagged == Indices \X (0..(TagMod - 1))
Lists == {"market", "collective"}

\* A program has its template and constructor arguments and the pools it uses.
\* A collective_num that leaves one of the lists empty makes init fail.
ASSUME PoolAssumption ==
  /\ num \in Nat /\ TC_CAPACITY \in Nat
  /\ Uses \subseteq [USE_ACC : BOOLEAN, collective_num : 1..(num - 1), pools : SUBSET Pools]
  /\ TagMod \in Nat \ {0} /\ MaxTag \in Nat /\ MaxHeld \in Nat
  /\ NULL \notin Pools \cup Nodes \cup Tagged

\* No node is pushed as often as there are tags, so that no tag comes again.
ASSUME TagAssumption == MaxTag < TagMod

\* A program with one cache per thread has one pool: the cache would mix up the
\* nodes of several.
ASSUME CacheAssumption == \A u \in Uses : u.USE_ACC \/ \A p, q \in u.pools : p = q

VARIABLES
  use,        \* one of Uses, fixed
  head,       \* _market_head and _collective_head of each pool
  next,       \* Node::next
  tag,        \* Node::tag
  cache,      \* ThreadCache: the nodes, last in first out
  held,       \* the PooledObjects of each thread: node and pool
  lost,       \* auxiliary: nodes in the cache of a thread that has ended
  pc,         \* where each thread is
  at,         \* pool and list the thread works on
  node,       \* the node it is pushing
  old_head,
  new_head

vars == <<use, head, next, tag, cache, held, lost, pc, at, node, old_head, new_head>>
local == <<pc, at, node, old_head, new_head>>

Goto(t, label) == pc' = [pc EXCEPT ![t] = label]

\* Template argument: a cache per thread and pool, or per thread.
USE_ACC == use.USE_ACC

\* Nodes 0 .. collective_num - 1 are collective, the others market nodes.
collective_num == use.collective_num

is_collective(n) == n[2] < collective_num

make_tagged_index(i, tg) == <<i, tg % TagMod>>

\* The cache a thread uses for a pool: the thread's own, whatever the pool, or
\* the one the accessor finds for the thread in the pool.
Caches == Threads \X (IF USE_ACC THEN Pools ELSE {NULL})

CacheOf(t, p) == <<t, IF USE_ACC THEN p ELSE NULL>>

-----------------------------------------------------------------------------
\* init: every node is on its list, in the order of the indices, with tag 0.
Init ==
  /\ use \in Uses
  /\ head = [h \in Pools \X Lists |->
               make_tagged_index(IF h[2] = "collective" THEN 0 ELSE collective_num, 0)]
  /\ next = [n \in Nodes |-> IF n[2] \in {collective_num - 1, num - 1}
                             THEN NULL ELSE make_tagged_index(n[2] + 1, 0)]
  /\ tag = [n \in Nodes |-> 1]
  /\ cache = [c \in Caches |-> <<>>]
  /\ held = [t \in Threads |-> <<>>]
  /\ lost = {}
  /\ pc = [t \in Threads |-> "idle"]
  /\ at = [t \in Threads |-> NULL]
  /\ node = [t \in Threads |-> NULL]
  /\ old_head = [t \in Threads |-> NULL]
  /\ new_head = [t \in Threads |-> NULL]

-----------------------------------------------------------------------------
(* get: the thread's cache, then the market, then the collective, then new. *)

\* The PooledObject for node n of pool p; a NULL node is an object from new.
Handle(n, p) == [node |-> n, pool |-> p]

Obtain(t, n, p) == held' = [held EXCEPT ![t] = Append(@, Handle(n, p))]

Return(t) ==
  /\ Goto(t, "idle")
  /\ at' = [at EXCEPT ![t] = NULL]
  /\ node' = [node EXCEPT ![t] = NULL]
  /\ old_head' = [old_head EXCEPT ![t] = NULL]
  /\ new_head' = [new_head EXCEPT ![t] = NULL]

GetLocal(t, p) ==
  LET c == cache[CacheOf(t, p)]
  IN  /\ pc[t] = "idle" /\ Len(held[t]) < MaxHeld
      /\ c # <<>>
      /\ Obtain(t, c[Len(c)], p)
      /\ cache' = [cache EXCEPT ![CacheOf(t, p)] = SubSeq(c, 1, Len(c) - 1)]
      /\ UNCHANGED <<head, next, tag, lost, local>>

GetShared(t, p) ==
  /\ pc[t] = "idle" /\ Len(held[t]) < MaxHeld
  /\ cache[CacheOf(t, p)] = <<>>
  /\ at' = [at EXCEPT ![t] = <<p, "market">>]
  /\ Goto(t, "pop_load")
  /\ UNCHANGED <<head, next, tag, cache, held, lost, node, old_head, new_head>>

\* pop_one_node has the head of the list: go on, or give the list up.
HaveHead(t) ==
  LET h == head[at[t]]
  IN  \/ /\ h # NULL
         /\ old_head' = [old_head EXCEPT ![t] = h]
         /\ Goto(t, "pop_next")
         /\ UNCHANGED <<held, at, node, new_head>>
      \/ /\ h = NULL /\ at[t][2] = "market"
         /\ at' = [at EXCEPT ![t] = <<@[1], "collective">>]
         /\ old_head' = [old_head EXCEPT ![t] = NULL]
         /\ new_head' = [new_head EXCEPT ![t] = NULL]
         /\ Goto(t, "pop_load")
         /\ UNCHANGED <<held, node>>
      \/ /\ h = NULL /\ at[t][2] = "collective"
         /\ Obtain(t, NULL, NULL)
         /\ Return(t)

PopLoad(t) ==
  /\ pc[t] = "pop_load"
  /\ HaveHead(t)
  /\ UNCHANGED <<head, next, tag, cache, lost>>

\* The node named by the head, which other threads may have taken meanwhile.
HeadNode(t) == <<at[t][1], old_head[t][1]>>

PopNext(t) ==
  /\ pc[t] = "pop_next"
  /\ new_head' = [new_head EXCEPT ![t] = next[HeadNode(t)]]
  /\ Goto(t, "pop_cas")
  /\ UNCHANGED <<head, next, tag, cache, held, lost, at, node, old_head>>

PopCas(t) ==
  /\ pc[t] = "pop_cas" /\ head[at[t]] = old_head[t]
  /\ head' = [head EXCEPT ![at[t]] = new_head[t]]
  /\ Obtain(t, HeadNode(t), at[t][1])
  /\ Return(t)
  /\ UNCHANGED <<next, tag, cache, lost>>

\* compare_exchange_weak fails, spuriously or not, and loads the head.
PopCasFails(t) ==
  /\ pc[t] = "pop_cas"
  /\ HaveHead(t)
  /\ UNCHANGED <<head, next, tag, cache, lost>>

-----------------------------------------------------------------------------
(* PooledObject::release, and the move of a PooledObject to another thread. *)

Without(s, i) == SubSeq(s, 1, i - 1) \o SubSeq(s, i + 1, Len(s))

Drop(t, i) == held' = [held EXCEPT ![t] = Without(@, i)]

\* An object from new is deleted.
ReleaseHeap(t, i) ==
  /\ pc[t] = "idle" /\ held[t][i].node = NULL
  /\ Drop(t, i)
  /\ UNCHANGED <<head, next, tag, cache, lost, local>>

\* release_to_tc has room.
Fits(c) == Len(c) < TC_CAPACITY

\* Mutation: collective nodes are cached, too.
CachesAny(n, c) == Fits(c)

\* Whether the node is kept by the thread.
Keeps(n, c) == ~is_collective(n) /\ Fits(c)

ReleaseLocal(t, i) ==
  LET n == held[t][i].node
      c == CacheOf(t, held[t][i].pool)
  IN  /\ pc[t] = "idle" /\ n # NULL /\ Keeps(n, cache[c])
      /\ cache' = [cache EXCEPT ![c] = Append(@, n)]
      /\ Drop(t, i)
      /\ UNCHANGED <<head, next, tag, lost, local>>

ReleaseShared(t, i) ==
  LET n == held[t][i].node
      p == held[t][i].pool
  IN  /\ pc[t] = "idle" /\ n # NULL /\ tag[n] <= MaxTag
      /\ ~Keeps(n, cache[CacheOf(t, p)])
      /\ Drop(t, i)
      /\ at' = [at EXCEPT ![t] = <<p, IF is_collective(n) THEN "collective" ELSE "market">>]
      /\ node' = [node EXCEPT ![t] = n]
      /\ Goto(t, "push_load")
      /\ UNCHANGED <<head, next, tag, cache, lost, old_head, new_head>>

Move(t, i, u) ==
  /\ pc[t] = "idle" /\ pc[u] = "idle" /\ t # u /\ Len(held[u]) < MaxHeld
  /\ held' = [held EXCEPT ![t] = Without(@, i), ![u] = Append(@, held[t][i])]
  /\ UNCHANGED <<head, next, tag, cache, lost, local>>

-----------------------------------------------------------------------------
(* push_into, with a list of one node.                                     *)

\* Mutation: the tag stays as it is.
advance_tag_not(n) == tag' = tag

advance_tag(n) == tag' = [tag EXCEPT ![n] = @ + 1]

PushLoad(t) ==
  /\ pc[t] = "push_load"
  /\ old_head' = [old_head EXCEPT ![t] = head[at[t]]]
  /\ new_head' = [new_head EXCEPT ![t] = make_tagged_index(node[t][2], tag[node[t]])]
  /\ advance_tag(node[t])
  /\ Goto(t, "push_next")
  /\ UNCHANGED <<head, next, cache, held, lost, at, node>>

PushNext(t) ==
  /\ pc[t] = "push_next"
  /\ next' = [next EXCEPT ![node[t]] = old_head[t]]
  /\ Goto(t, "push_cas")
  /\ UNCHANGED <<head, tag, cache, held, lost, at, node, old_head, new_head>>

PushCas(t) ==
  /\ pc[t] = "push_cas" /\ head[at[t]] = old_head[t]
  /\ head' = [head EXCEPT ![at[t]] = new_head[t]]
  /\ Return(t)
  /\ UNCHANGED <<next, tag, cache, held, lost>>

PushCasFails(t) ==
  /\ pc[t] = "push_cas"
  /\ old_head' = [old_head EXCEPT ![t] = head[at[t]]]
  /\ Goto(t, "push_next")
  /\ UNCHANGED <<head, next, tag, cache, held, lost, at, node, new_head>>

-----------------------------------------------------------------------------
\* A thread-local cache ends with its thread, and nobody finds its nodes again;
\* a cache found through the accessor is the next one's who has the thread id.
ThreadExit(t) ==
  LET c == <<t, NULL>>
  IN  /\ ~USE_ACC
      /\ pc[t] = "idle" /\ held[t] = <<>> /\ cache[c] # <<>>
      /\ lost' = lost \cup {cache[c][i] : i \in 1..Len(cache[c])}
      /\ cache' = [cache EXCEPT ![c] = <<>>]
      /\ UNCHANGED <<head, next, tag, held, local>>

-----------------------------------------------------------------------------
Next ==
  /\ \E t \in Threads :
       \/ \E p \in use.pools : GetLocal(t, p) \/ GetShared(t, p)
       \/ PopLoad(t) \/ PopNext(t) \/ PopCas(t) \/ PopCasFails(t)
       \/ \E i \in 1..Len(held[t]) :
            \/ ReleaseHeap(t, i) \/ ReleaseLocal(t, i) \/ ReleaseShared(t, i)
            \/ \E u \in Threads : Move(t, i, u)
       \/ PushLoad(t) \/ PushNext(t) \/ PushCas(t) \/ PushCasFails(t)
       \/ ThreadExit(t)
  /\ UNCHANGED use

Spec == Init /\ [][Next]_vars

-----------------------------------------------------------------------------
(* Properties.                                                             *)

HeapHandle == Handle(NULL, NULL)

Handles == {HeapHandle} \cup [node : Nodes, pool : Pools]

\* Every variable has its type, and no cache holds more than it has room for.
TypeOK ==
  /\ use \in Uses
  /\ head \in [Pools \X Lists -> Tagged \cup {NULL}]
  /\ next \in [Nodes -> Tagged \cup {NULL}]
  /\ tag \in [Nodes -> 1..(MaxTag + 1)]
  /\ lost \subseteq Nodes
  /\ cache \in [Caches -> Seq(Nodes)]
  /\ \A c \in Caches : Len(cache[c]) <= TC_CAPACITY
  /\ held \in [Threads -> Seq(Handles)]
  /\ pc \in [Threads -> {"idle", "pop_load", "pop_next", "pop_cas",
                         "push_load", "push_next", "push_cas"}]
  /\ at \in [Threads -> (Pools \X Lists) \cup {NULL}]
  /\ node \in [Threads -> Nodes \cup {NULL}]
  /\ old_head \in [Threads -> Tagged \cup {NULL}]
  /\ new_head \in [Threads -> Tagged \cup {NULL}]

\* The nodes on list h, found by following next from the head, and whether the
\* walk comes to an end.
Walk(h) ==
  LET walk[k \in 0..num] ==
        IF k = 0 THEN head[h]
        ELSE IF walk[k - 1] = NULL THEN NULL
        ELSE next[<<h[1], walk[k - 1][1]>>]
  IN  walk

OnList(h) == {<<h[1], Walk(h)[k][1]>> : k \in {j \in 0..num : Walk(h)[j] # NULL}}

Terminated(h) == Walk(h)[num] = NULL

\* How many PooledObjects, cache entries, lists and pushing threads have node n.
Owners(n) ==
  Cardinality({x \in Threads \X (1..MaxHeld) :
                 x[2] <= Len(held[x[1]]) /\ held[x[1]][x[2]].node = n})
  + Cardinality({x \in Caches \X (1..TC_CAPACITY) :
                   x[2] <= Len(cache[x[1]]) /\ cache[x[1]][x[2]] = n})
  + Cardinality({h \in Pools \X Lists : n \in OnList(h)})
  + Cardinality({t \in Threads : node[t] = n})
  + (IF n \in lost THEN 1 ELSE 0)

\* Every node is in exactly one place at any time: handed out to nobody else
\* while a thread has it, and never dropped from the lists.
NodeOwnedOnce ==
  /\ \A h \in Pools \X Lists : Terminated(h)
  /\ \A n \in Nodes : Owners(n) = 1

\* What was borrowed from the collective goes back to it: a collective node is
\* never in a cache nor on the market, a market node never on the collective, and
\* every variable has its type, a cache no more entries than room.
CollectiveApart ==
  /\ TypeOK
  /\ \A c \in Caches : \A i \in 1..Len(cache[c]) : ~is_collective(cache[c][i])
  /\ \A p \in Pools : \A n \in OnList(<<p, "market">>) : ~is_collective(n)
  /\ \A p \in Pools : \A n \in OnList(<<p, "collective">>) : is_collective(n)
=============================================================================
