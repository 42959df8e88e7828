-------------------------- MODULE ObjectPoolProofs --------------------------
(***************************************************************************)
(* Proofs about ObjectPool: every node is in exactly one place whatever    *)
(* the threads do, for any number of threads, pools, nodes and tags.       *)
(***************************************************************************)
EXTENDS ObjectPool, ModularArithmetic, FiniteSetTheorems, SequenceTheorems

(* The inductive invariant says where every node is: kind and who name the *)
(* place, and a node on a list has a depth below the size of the list.     *)

Kinds == {"held", "cache", "push", "lost", "list"}

\* The list a node goes back to, and the reference by which it is on it.
ListOf(n) == <<n[1], IF is_collective(n) THEN "collective" ELSE "market">>
Ref(n) == <<n[2], tag[n] - 1>>

Has(s, x) == \E i \in 1..Len(s) : s[i] = x
Once(s) == \A i, j \in 1..Len(s) : s[i] = s[j] => i = j
Holds(s, n) == \E i \in 1..Len(s) : s[i].node = n
HoldsOnce(s) == \A i, j \in 1..Len(s) : s[i].node = s[j].node /\ s[i].node # NULL => i = j

\* Every node has a place.
Placed(kind, who) ==
  \A n \in Nodes : /\ kind[n] \in Kinds
                   /\ kind[n] \in {"held", "push"} => who[n] \in Threads
                   /\ kind[n] = "cache" => who[n] \in Caches

\* It is where its place says, and nowhere else.
HeldPlaced(kind, who) ==
  \A t \in Threads : /\ HoldsOnce(held[t])
                     /\ \A n \in Nodes : Holds(held[t], n) <=> kind[n] = "held" /\ who[n] = t

CachePlaced(kind, who) ==
  \A c \in Caches : /\ Once(cache[c])
                    /\ \A n \in Nodes : Has(cache[c], n) <=> kind[n] = "cache" /\ who[n] = c

PushPlaced(kind, who) ==
  \A t \in Threads, n \in Nodes : node[t] = n <=> kind[n] = "push" /\ who[n] = t

LostPlaced(kind) ==
  \A n \in Nodes : n \in lost <=> kind[n] = "lost"

\* The nodes of a list are lined up from its head by their depth.
OnTop(h, k, kind, d) ==
  {n \in Nodes : kind[n] = "list" /\ ListOf(n) = h /\ d[n] = k}

Leads(x, h, size, kind, d) ==
  \/ size = 0 /\ x = NULL
  \/ size > 0 /\ \E n \in OnTop(h, size - 1, kind, d) : x = Ref(n)

Lined(kind, d, sz) ==
  /\ \A h \in Pools \X Lists : sz[h] \in Nat /\ Leads(head[h], h, sz[h], kind, d)
  /\ \A n \in Nodes : kind[n] = "list" =>
       /\ d[n] \in Nat /\ d[n] < sz[ListOf(n)]
       /\ Leads(next[n], ListOf(n), d[n], kind, d)
  /\ \A m, n \in Nodes :
       kind[m] = "list" /\ kind[n] = "list" /\ ListOf(m) = ListOf(n) /\ d[m] = d[n] => m = n

PopStates == {"pop_load", "pop_next", "pop_cas"}
PushStates == {"push_load", "push_next", "push_cas"}

\* What a pushing thread knows.
PushKnows(t) ==
  /\ pc[t] \in PushStates => node[t] \in Nodes /\ at[t] = ListOf(node[t])
  /\ pc[t] \notin PushStates => node[t] = NULL
  /\ pc[t] = "push_load" => tag[node[t]] <= MaxTag
  /\ pc[t] \in {"push_next", "push_cas"} => new_head[t] = Ref(node[t])
  /\ pc[t] = "push_cas" => next[node[t]] = old_head[t]

\* The node has been given the tag it will have on the list.
Renewed(n, kind, who) == kind[n] = "push" /\ pc[who[n]] # "push_load"

\* What a popping thread knows: the node it read from the head may have left
\* the list since, but when it comes back it has another tag.
PopKnows(t, kind, who) ==
  /\ pc[t] \in PopStates => at[t] \in use.pools \X Lists
  /\ pc[t] \in {"pop_next", "pop_cas"} =>
       /\ old_head[t] \in Tagged /\ HeadNode(t) \in Nodes /\ ListOf(HeadNode(t)) = at[t]
       /\ old_head[t][2] < tag[HeadNode(t)]
       /\ Renewed(HeadNode(t), kind, who) => old_head[t][2] < tag[HeadNode(t)] - 1
  /\ pc[t] = "pop_cas" =>
       (old_head[t][2] = tag[HeadNode(t)] - 1 => next[HeadNode(t)] = new_head[t])

Pushing == \A t \in Threads : PushKnows(t)
Popping(kind, who) == \A t \in Threads : PopKnows(t, kind, who)

\* Nodes come back to the pool they belong to.
GoodHandle(o) ==
  o.node = NULL \/ (o.node \in Nodes /\ o.pool = o.node[1] /\ o.pool \in use.pools)
GoodEntry(c, n) == ~is_collective(n) /\ n[1] \in use.pools /\ (USE_ACC => c[2] = n[1])

HandlesHome == \A t \in Threads : \A i \in 1..Len(held[t]) : GoodHandle(held[t][i])
CachesHome == \A c \in Caches : \A i \in 1..Len(cache[c]) : GoodEntry(c, cache[c][i])
Homes == HandlesHome /\ CachesHome

HeldBounded ==
  \A t \in Threads : /\ Len(held[t]) <= MaxHeld
                     /\ pc[t] \in PopStates => Len(held[t]) < MaxHeld

Located(kind, who, d, sz) ==
  /\ Placed(kind, who)
  /\ HeldPlaced(kind, who) /\ CachePlaced(kind, who) /\ PushPlaced(kind, who) /\ LostPlaced(kind)
  /\ Lined(kind, d, sz)
  /\ Popping(kind, who)

PoolInv ==
  /\ TypeOK /\ Pushing /\ Homes /\ HeldBounded
  /\ \E kind, who, d, sz : Located(kind, who, d, sz)

-----------------------------------------------------------------------------
(* Lemmas on nodes, references and sequences.                              *)

\* A node is its pool and its index, and a list a pool and one of two names.
LEMMA NodeFacts ==
  /\ \A n \in Nodes : n[1] \in Pools /\ n[2] \in 0..(num - 1) /\ n = <<n[1], n[2]>>
  /\ \A p \in Pools, i \in 0..(num - 1) :
       <<p, i>> \in Nodes /\ <<p, i>>[1] = p /\ <<p, i>>[2] = i
  /\ NULL \notin Nodes
BY PoolAssumption DEF Nodes, Indices

LEMMA ListFacts ==
  ASSUME NEW n \in Nodes
  PROVE  ListOf(n) \in Pools \X Lists /\ ListOf(n)[1] = n[1]
BY NodeFacts DEF ListOf, Lists

\* As long as tags do not come again, a reference and a list tell the node.
LEMMA RefFacts ==
  ASSUME TypeOK
  PROVE  /\ \A n \in Nodes : /\ Ref(n) \in Tagged /\ Ref(n) # NULL
                             /\ Ref(n)[1] = n[2] /\ Ref(n)[2] = tag[n] - 1
         /\ \A m, n \in Nodes : ListOf(m) = ListOf(n) /\ m[2] = n[2] => m = n
<1>1. ASSUME NEW n \in Nodes
      PROVE  /\ Ref(n) \in Tagged /\ Ref(n) # NULL
             /\ Ref(n)[1] = n[2] /\ Ref(n)[2] = tag[n] - 1
  <2>1. tag[n] - 1 \in 0..(TagMod - 1)
    BY PoolAssumption, TagAssumption DEF TypeOK
  <2>2. n[2] \in 0..(num - 1)
    BY NodeFacts
  <2>3. Ref(n) \in Tagged
    BY <2>1, <2>2 DEF Ref, Tagged, Indices
  <2> QED
    BY <2>3, PoolAssumption DEF Ref
<1>2. ASSUME NEW m \in Nodes, NEW n \in Nodes, ListOf(m) = ListOf(n), m[2] = n[2]
      PROVE  m = n
  <2>1. m[1] = n[1]
    BY <1>2, ListFacts
  <2> QED
    BY <1>2, <2>1, NodeFacts
<1> QED
  BY <1>1, <1>2

\* The tagged index made for a node that is pushed.
LEMMA MakeRef ==
  ASSUME NEW i, NEW g \in Nat, g <= MaxTag
  PROVE  make_tagged_index(i, g) = <<i, g>>
<1>1. g \in 0..(TagMod - 1) /\ TagMod \in Nat \ {0}
  BY PoolAssumption, TagAssumption
<1>2. g % TagMod = g
  BY <1>1, ModRange
<1> QED
  BY <1>2 DEF make_tagged_index

LEMMA AppendIs ==
  ASSUME NEW S, NEW s \in Seq(S), NEW e \in S
  PROVE  /\ Append(s, e) \in Seq(S) /\ Len(Append(s, e)) = Len(s) + 1
         /\ \A i \in 1..Len(s) : Append(s, e)[i] = s[i]
         /\ Append(s, e)[Len(s) + 1] = e
OBVIOUS

LEMMA FrontIs ==
  ASSUME NEW S, NEW s \in Seq(S), s # <<>>
  PROVE  /\ Len(s) \in Nat /\ Len(s) > 0 /\ s[Len(s)] \in S
         /\ SubSeq(s, 1, Len(s) - 1) \in Seq(S)
         /\ Len(SubSeq(s, 1, Len(s) - 1)) = Len(s) - 1
         /\ \A i \in 1..(Len(s) - 1) : SubSeq(s, 1, Len(s) - 1)[i] = s[i]
<1>1. Len(s) \in Nat \ {0} /\ s[Len(s)] \in S
  BY EmptySeq, ElementOfSeq
<1>2. PICK k : k = Len(s) - 1
  OBVIOUS
<1>3. k \in Nat /\ k <= Len(s)
  BY <1>1, <1>2
<1>4. SubSeq(s, 1, k) \in Seq(S) /\ Len(SubSeq(s, 1, k)) = k /\ \A i \in 1..k : SubSeq(s, 1, k)[i] = s[i]
  BY <1>3
<1> QED
  BY <1>1, <1>2, <1>4

LEMMA WithoutIs ==
  ASSUME NEW S, NEW s \in Seq(S), NEW i \in 1..Len(s)
  PROVE  /\ Without(s, i) \in Seq(S) /\ Len(Without(s, i)) = Len(s) - 1
         /\ \A j \in 1..(Len(s) - 1) :
              Without(s, i)[j] = IF j < i THEN s[j] ELSE s[j + 1]
<1>1. /\ SubSeq(s, 1, i - 1) \in Seq(S) /\ Len(SubSeq(s, 1, i - 1)) = i - 1
      /\ \A j \in 1..(i - 1) : SubSeq(s, 1, i - 1)[j] = s[j]
  OBVIOUS
<1>2. /\ SubSeq(s, i + 1, Len(s)) \in Seq(S) /\ Len(SubSeq(s, i + 1, Len(s))) = Len(s) - i
      /\ \A j \in 1..(Len(s) - i) : SubSeq(s, i + 1, Len(s))[j] = s[i + j]
  OBVIOUS
<1>3. PICK a, b : a = SubSeq(s, 1, i - 1) /\ b = SubSeq(s, i + 1, Len(s))
  OBVIOUS
<1>4. Without(s, i) = a \o b
  BY <1>3 DEF Without
<1>5. a \in Seq(S) /\ b \in Seq(S) /\ Len(a) = i - 1 /\ Len(b) = Len(s) - i
  BY <1>1, <1>2, <1>3
<1>6. /\ a \o b \in Seq(S) /\ Len(a \o b) = Len(a) + Len(b)
      /\ \A j \in 1..(Len(a) + Len(b)) :
           (a \o b)[j] = IF j <= Len(a) THEN a[j] ELSE b[j - Len(a)]
  BY <1>5, ConcatProperties
<1>7. PICK c, n : c = a \o b /\ n = Len(s)
  OBVIOUS
<1>8. n \in Nat /\ i \in 1..n
  BY <1>7
<1>9. c \in Seq(S) /\ Len(c) = n - 1
  BY <1>5, <1>6, <1>7, <1>8
<1>10. ASSUME NEW j \in 1..(n - 1) PROVE c[j] = IF j < i THEN s[j] ELSE s[j + 1]
  <2>1. CASE j < i
    <3>1. j \in 1..(Len(a) + Len(b)) /\ j <= Len(a) /\ j \in 1..(i - 1)
      BY <1>5, <1>7, <1>8, <2>1
    <3>2. c[j] = a[j] /\ a[j] = s[j]
      BY <1>1, <1>3, <1>6, <1>7, <3>1
    <3> QED
      BY <2>1, <3>2
  <2>2. CASE ~(j < i)
    <3>1. PICK k : k = j - (i - 1)
      OBVIOUS
    <3>2. /\ j \in 1..(Len(a) + Len(b)) /\ ~(j <= Len(a)) /\ j - Len(a) = k
          /\ k \in 1..(n - i) /\ i + k = j + 1
      BY <1>5, <1>7, <1>8, <2>2, <3>1
    <3>3. c[j] = b[k] /\ b[k] = s[i + k]
      BY <1>2, <1>3, <1>6, <1>7, <3>2
    <3> QED
      BY <2>2, <3>2, <3>3
  <2> QED
    BY <2>1, <2>2
<1> QED
  BY <1>4, <1>7, <1>9, <1>10


\* What a sequence has after an element is put at its end, or taken from it.
LEMMA HasAppend ==
  ASSUME NEW S, NEW s \in Seq(S), NEW e \in S
  PROVE  /\ \A x : Has(Append(s, e), x) <=> Has(s, x) \/ x = e
         /\ Once(s) /\ ~Has(s, e) => Once(Append(s, e))
<1>1. PICK a, n : a = Append(s, e) /\ n = Len(s)
  OBVIOUS
<1>2. /\ n \in Nat /\ Len(a) = n + 1 /\ a[n + 1] = e
      /\ \A i \in 1..n : a[i] = s[i]
  BY <1>1, AppendIs
<1>3. \A i \in 1..(n + 1) : i \in 1..n \/ i = n + 1
  BY <1>2
<1>4. \A i \in 1..n : i \in 1..(n + 1)
  BY <1>2
<1>5. n + 1 \in 1..(n + 1)
  BY <1>2
<1>6. \A x : Has(a, x) <=> Has(s, x) \/ x = e
  BY <1>1, <1>2, <1>3, <1>4, <1>5 DEF Has
<1>7. ASSUME Once(s), ~Has(s, e) PROVE Once(a)
  BY <1>1, <1>2, <1>3, <1>4, <1>7 DEF Has, Once
<1> QED
  BY <1>1, <1>6, <1>7

LEMMA HasFront ==
  ASSUME NEW S, NEW s \in Seq(S), s # <<>>, Once(s)
  PROVE  /\ Has(s, s[Len(s)]) /\ Once(SubSeq(s, 1, Len(s) - 1))
         /\ \A x : Has(SubSeq(s, 1, Len(s) - 1), x) <=> Has(s, x) /\ x # s[Len(s)]
<1>1. PICK f, n : f = SubSeq(s, 1, Len(s) - 1) /\ n = Len(s)
  OBVIOUS
<1>2. /\ n \in Nat /\ n > 0 /\ Len(f) = n - 1
      /\ \A i \in 1..(n - 1) : f[i] = s[i]
  BY <1>1, FrontIs
<1>3. n \in 1..n /\ \A i \in 1..(n - 1) : i \in 1..n /\ i # n
  BY <1>2
<1>4. \A i \in 1..n : i \in 1..(n - 1) \/ i = n
  BY <1>2
<1>5. Has(s, s[n]) /\ Once(f)
  BY <1>1, <1>2, <1>3 DEF Has, Once
<1>6. \A x : Has(f, x) <=> Has(s, x) /\ x # s[n]
  BY <1>1, <1>2, <1>3, <1>4 DEF Has, Once
<1> QED
  BY <1>1, <1>5, <1>6

LEMMA HoldsAppend ==
  ASSUME NEW S, NEW s \in Seq(S), NEW e \in S
  PROVE  /\ \A x : Holds(Append(s, e), x) <=> Holds(s, x) \/ x = e.node
         /\ HoldsOnce(s) /\ (e.node = NULL \/ ~Holds(s, e.node)) => HoldsOnce(Append(s, e))
<1>1. PICK a, n : a = Append(s, e) /\ n = Len(s)
  OBVIOUS
<1>2. /\ n \in Nat /\ Len(a) = n + 1 /\ a[n + 1] = e
      /\ \A i \in 1..n : a[i] = s[i]
  BY <1>1, AppendIs
<1>3. \A i \in 1..(n + 1) : i \in 1..n \/ i = n + 1
  BY <1>2
<1>4. \A i \in 1..n : i \in 1..(n + 1)
  BY <1>2
<1>5. n + 1 \in 1..(n + 1)
  BY <1>2
<1>6. \A x : Holds(a, x) <=> Holds(s, x) \/ x = e.node
  BY <1>1, <1>2, <1>3, <1>4, <1>5 DEF Holds
<1>7. ASSUME HoldsOnce(s), e.node = NULL \/ ~Holds(s, e.node) PROVE HoldsOnce(a)
  BY <1>1, <1>2, <1>3, <1>4, <1>7 DEF Holds, HoldsOnce
<1> QED
  BY <1>1, <1>6, <1>7

LEMMA HoldsWithout ==
  ASSUME NEW S, NEW s \in Seq(S), NEW i \in 1..Len(s), HoldsOnce(s)
  PROVE  /\ Without(s, i) \in Seq(S) /\ Len(Without(s, i)) = Len(s) - 1
         /\ HoldsOnce(Without(s, i)) /\ Holds(s, s[i].node)
         /\ \A j \in 1..Len(Without(s, i)) : \E k \in 1..Len(s) : Without(s, i)[j] = s[k]
         /\ \A x : x # NULL => (Holds(Without(s, i), x) <=> Holds(s, x) /\ x # s[i].node)
<1>1. PICK w, n : w = Without(s, i) /\ n = Len(s)
  OBVIOUS
<1>2. /\ n \in Nat /\ i \in 1..n /\ w \in Seq(S) /\ Len(w) = n - 1
      /\ \A j \in 1..(n - 1) : w[j] = IF j < i THEN s[j] ELSE s[j + 1]
  BY <1>1, WithoutIs
<1> DEFINE up(j) == IF j < i THEN j ELSE j + 1
<1>3. /\ \A j \in 1..(n - 1) : up(j) \in 1..n /\ up(j) # i
      /\ \A j, k \in 1..(n - 1) : up(j) = up(k) => j = k
  BY <1>2
<1>4. \A k \in 1..n : k # i => \E j \in 1..(n - 1) : k = up(j)
  <2> TAKE k \in 1..n
  <2>1. CASE k < i
    BY <1>2, <2>1
  <2>2. CASE k > i
    <3>1. k - 1 \in 1..(n - 1) /\ up(k - 1) = k
      BY <1>2, <2>2
    <3> QED
      BY <3>1
  <2> QED
    BY <1>2, <2>1, <2>2
<1>5. \A j \in 1..(n - 1) : w[j] = s[up(j)]
  BY <1>2
<1> HIDE DEF up
<1>6. HoldsOnce(w) /\ Holds(s, s[i].node)
  BY <1>1, <1>2, <1>3, <1>5 DEF HoldsOnce, Holds
<1>7. \A j \in 1..Len(w) : \E k \in 1..Len(s) : w[j] = s[k]
  BY <1>1, <1>2, <1>3, <1>5
<1>8. ASSUME NEW x, x # NULL, Holds(w, x) PROVE Holds(s, x) /\ x # s[i].node
  BY <1>1, <1>2, <1>3, <1>5, <1>8 DEF HoldsOnce, Holds
<1>9. ASSUME NEW x, Holds(s, x), x # s[i].node PROVE Holds(w, x)
  <2>1. PICK k \in 1..n : s[k].node = x
    BY <1>1, <1>9 DEF Holds
  <2>2. PICK j \in 1..(n - 1) : k = up(j)
    BY <1>4, <1>9, <2>1
  <2> QED
    BY <1>2, <1>5, <2>1, <2>2 DEF Holds
<1> QED
  BY <1>1, <1>2, <1>6, <1>7, <1>8, <1>9

-----------------------------------------------------------------------------
(* What a step leaves alone.                                               *)

\* A list stays lined up when its nodes keep their tags and successors.
LEMMA LinedKept ==
  ASSUME NEW kind, NEW d, NEW sz, Lined(kind, d, sz), NEW k2,
         \A n \in Nodes : k2[n] = "list" <=> kind[n] = "list",
         use' = use, head' = head,
         \A n \in Nodes : kind[n] = "list" => next'[n] = next[n] /\ tag'[n] = tag[n]
  PROVE  Lined(k2, d, sz)'
<1>1. \A n \in Nodes : ListOf(n)' = ListOf(n)
  BY DEF ListOf, is_collective, collective_num
<1>2. \A n \in Nodes : kind[n] = "list" => Ref(n)' = Ref(n)
  BY DEF Ref
<1>3. ASSUME NEW h, NEW k PROVE OnTop(h, k, k2, d)' = OnTop(h, k, kind, d)
  BY <1>1 DEF OnTop
<1>4. ASSUME NEW x, NEW h, NEW k, Leads(x, h, k, kind, d) PROVE Leads(x, h, k, k2, d)'
  <2>1. CASE k > 0
    <3>1. CASE k = 0 /\ x = NULL
      BY <3>1 DEF Leads
    <3>2. CASE \E n \in OnTop(h, k - 1, kind, d) : x = Ref(n)
      <4>1. PICK n \in OnTop(h, k - 1, kind, d) : x = Ref(n)
        BY <3>2
      <4>2. n \in Nodes /\ kind[n] = "list"
        BY <4>1 DEF OnTop
      <4>3. x = Ref(n)' /\ n \in OnTop(h, k - 1, k2, d)'
        BY <1>2, <1>3, <4>1, <4>2
      <4> QED
        BY <2>1, <4>3 DEF Leads
    <3> QED
      BY <1>4, <3>1, <3>2 DEF Leads
  <2>2. CASE ~(k > 0)
    BY <1>4, <2>2 DEF Leads
  <2> QED
    BY <2>1, <2>2
<1>5. \A h \in Pools \X Lists : sz[h] \in Nat /\ Leads(head[h], h, sz[h], k2, d)'
  BY <1>4 DEF Lined
<1>6. ASSUME NEW n \in Nodes, k2[n] = "list"
      PROVE  /\ d[n] \in Nat /\ d[n] < sz[ListOf(n)'] /\ Leads(next[n], ListOf(n), d[n], k2, d)'
  <2>1. kind[n] = "list" /\ ListOf(n)' = ListOf(n) /\ next'[n] = next[n]
    BY <1>1, <1>6
  <2>2. d[n] \in Nat /\ d[n] < sz[ListOf(n)] /\ Leads(next[n], ListOf(n), d[n], kind, d)
    BY <2>1 DEF Lined
  <2>3. PICK x, h : x = next[n] /\ h = ListOf(n)
    OBVIOUS
  <2>4. Leads(x, h, d[n], k2, d)'
    BY <1>4, <2>2, <2>3
  <2>5. x = next'[n] /\ h = ListOf(n)'
    BY <2>1, <2>3
  <2> QED
    BY <2>1, <2>2, <2>4, <2>5
<1>7. \A m, n \in Nodes :
        k2[m] = "list" /\ k2[n] = "list" /\ ListOf(m)' = ListOf(n)' /\ d[m] = d[n] => m = n
  BY <1>1 DEF Lined
<1> QED
  BY <1>5, <1>6, <1>7 DEF Lined

\* What the other pushing threads know stays true.
LEMMA PushKept ==
  ASSUME NEW t \in Threads, PushKnows(t), use' = use,
         pc'[t] = pc[t], node'[t] = node[t], at'[t] = at[t],
         old_head'[t] = old_head[t], new_head'[t] = new_head[t],
         pc[t] \in PushStates => /\ tag'[node[t]] = tag[node[t]]
                                 /\ next'[node[t]] = next[node[t]]
  PROVE  PushKnows(t)'
<1>1. ListOf(node[t])' = ListOf(node[t])
  BY DEF ListOf, is_collective, collective_num
<1>2. pc[t] \in PushStates => Ref(node[t])' = Ref(node[t])
  BY DEF Ref
<1> QED
  BY <1>1, <1>2 DEF PushKnows, PushStates

\* What the other popping threads know stays true, as long as the tag of a node
\* advances before its next pointer changes.
LEMMA PopKept ==
  ASSUME NEW t \in Threads, NEW kind, NEW who, PopKnows(t, kind, who), TypeOK, NEW k2, NEW w2,
         use' = use, pc'[t] = pc[t], at'[t] = at[t],
         old_head'[t] = old_head[t], new_head'[t] = new_head[t],
         \A n \in Nodes :
           \/ /\ tag'[n] = tag[n] + 1
              /\ next'[n] = next[n]
           \/ /\ tag'[n] = tag[n]
              /\ Renewed(n, k2, w2)' => Renewed(n, kind, who)
              /\ next'[n] = next[n] \/ Renewed(n, kind, who)
  PROVE  PopKnows(t, k2, w2)'
<1>1. PICK n : n = HeadNode(t)
  OBVIOUS
<1>2. HeadNode(t)' = n
  BY <1>1 DEF HeadNode
<1>3. ListOf(n)' = ListOf(n)
  BY DEF ListOf, is_collective, collective_num
<1>4. CASE pc[t] \in {"pop_next", "pop_cas"}
  <2>1. PICK g : g = old_head[t][2]
    OBVIOUS
  <2>2. /\ old_head[t] \in Tagged /\ n \in Nodes /\ ListOf(n) = at[t] /\ g < tag[n]
        /\ Renewed(n, kind, who) => g < tag[n] - 1
        /\ pc[t] = "pop_cas" => (g = tag[n] - 1 => next[n] = new_head[t])
    BY <1>1, <1>4, <2>1 DEF PopKnows
  <2>3. g \in Nat /\ tag[n] \in Nat
    BY <2>1, <2>2, PoolAssumption DEF TypeOK, Tagged
  <2>4. /\ g < tag'[n]
        /\ Renewed(n, k2, w2)' => g < tag'[n] - 1
        /\ pc[t] = "pop_cas" => (g = tag'[n] - 1 => next'[n] = new_head[t])
    <3>1. CASE tag'[n] = tag[n] + 1
      BY <2>2, <2>3, <3>1
    <3>2. CASE /\ tag'[n] = tag[n]
               /\ Renewed(n, k2, w2)' => Renewed(n, kind, who)
               /\ next'[n] = next[n] \/ Renewed(n, kind, who)
      BY <2>2, <2>3, <3>2
    <3> QED
      BY <2>2, <3>1, <3>2
  <2> QED
    BY <1>2, <1>3, <1>4, <2>1, <2>2, <2>4 DEF PopKnows
<1>5. CASE pc[t] \notin {"pop_next", "pop_cas"}
  BY <1>5 DEF PopKnows
<1> QED
  BY <1>4, <1>5

\* Steps that move no node.
LEMMA PlacesKept ==
  ASSUME NEW kind, NEW who,
         Placed(kind, who), HeldPlaced(kind, who), CachePlaced(kind, who),
         PushPlaced(kind, who), LostPlaced(kind),
         use' = use, cache' = cache, lost' = lost, node' = node,
         \A u \in Threads : /\ HoldsOnce(held'[u])
                            /\ \A n \in Nodes : Holds(held'[u], n) <=> Holds(held[u], n)
  PROVE  /\ Placed(kind, who)' /\ HeldPlaced(kind, who)' /\ CachePlaced(kind, who)'
         /\ PushPlaced(kind, who)' /\ LostPlaced(kind)'
<1>1. Caches' = Caches
  BY DEF Caches, USE_ACC
<1>2. Placed(kind, who)'
  BY <1>1 DEF Placed
<1>3. HeldPlaced(kind, who)'
  BY DEF HeldPlaced
<1>4. CachePlaced(kind, who)'
  BY <1>1 DEF CachePlaced
<1>5. PushPlaced(kind, who)'
  BY DEF PushPlaced
<1>6. LostPlaced(kind)'
  BY DEF LostPlaced
<1> QED
  BY <1>2, <1>3, <1>4, <1>5, <1>6

LEMMA HeldUntouched ==
  ASSUME NEW kind, NEW who, HeldPlaced(kind, who), held' = held
  PROVE  \A u \in Threads : /\ HoldsOnce(held'[u])
                            /\ \A n \in Nodes : Holds(held'[u], n) <=> Holds(held[u], n)
BY DEF HeldPlaced

\* Steps that leave the objects, or the caches, alone.
LEMMA HandleKept ==
  ASSUME use' = use
  PROVE  /\ \A o : GoodHandle(o)' <=> GoodHandle(o)
         /\ \A c, n : GoodEntry(c, n)' <=> GoodEntry(c, n)
         /\ Caches' = Caches
BY DEF GoodHandle, GoodEntry, is_collective, collective_num, USE_ACC, Caches

LEMMA CachesHomeKept ==
  ASSUME CachesHome, use' = use, cache' = cache
  PROVE  CachesHome'
BY HandleKept DEF CachesHome

LEMMA HomesKept ==
  ASSUME Homes, use' = use, held' = held, cache' = cache
  PROVE  Homes'
BY HandleKept, CachesHomeKept DEF Homes, HandlesHome

\* Only the acting thread's locals change.
Acts(t) ==
  \A u \in Threads \ {t} :
    /\ pc'[u] = pc[u] /\ at'[u] = at[u] /\ node'[u] = node[u]
    /\ old_head'[u] = old_head[u] /\ new_head'[u] = new_head[u]

Renews(kind, who, k2, w2) ==
  \A n \in Nodes : Renewed(n, k2, w2)' => Renewed(n, kind, who)

\* A step of thread t that changes no tag and no next pointer.
LEMMA KnownKept ==
  ASSUME TypeOK, Pushing, NEW kind, NEW who, Popping(kind, who), use' = use,
         NEW t \in Threads, Acts(t), next' = next, tag' = tag, NEW k2, NEW w2,
         Renews(kind, who, k2, w2), PushKnows(t)', PopKnows(t, k2, w2)'
  PROVE  Pushing' /\ Popping(k2, w2)'
<1>1. ASSUME NEW u \in Threads PROVE PushKnows(u)'
  <2>1. CASE u # t
    <3>1. /\ PushKnows(u) /\ pc'[u] = pc[u] /\ at'[u] = at[u] /\ node'[u] = node[u]
          /\ old_head'[u] = old_head[u] /\ new_head'[u] = new_head[u]
      BY <2>1 DEF Pushing, Acts
    <3> QED
      BY <3>1, PushKept
  <2> QED
    BY <2>1
<1>2. ASSUME NEW u \in Threads PROVE PopKnows(u, k2, w2)'
  <2>1. CASE u # t
    <3>1. /\ PopKnows(u, kind, who) /\ pc'[u] = pc[u] /\ at'[u] = at[u]
          /\ old_head'[u] = old_head[u] /\ new_head'[u] = new_head[u]
      BY <2>1 DEF Popping, Acts
    <3>2. \A n \in Nodes : Renewed(n, k2, w2)' => Renewed(n, kind, who)
      BY DEF Renews
    <3> QED
      BY <3>1, <3>2, PopKept
  <2> QED
    BY <2>1
<1> QED
  BY <1>1, <1>2 DEF Pushing, Popping

\* A thread that neither pushes nor pops is on its way to, or from, doing so.
LEMMA StaysRenewed ==
  ASSUME NEW kind, NEW who, Placed(kind, who), PushPlaced(kind, who), TypeOK,
         NEW t \in Threads, Acts(t), pc[t] \notin {"push_load"}
  PROVE  Renews(kind, who, kind, who)
<1>1. ASSUME NEW n \in Nodes, Renewed(n, kind, who)' PROVE Renewed(n, kind, who)
  <2>1. who[n] \in Threads /\ kind[n] = "push" /\ pc'[who[n]] # "push_load"
    BY <1>1 DEF Renewed, Placed
  <2>2. pc[who[n]] # "push_load"
    BY <2>1 DEF Acts
  <2> QED
    BY <2>1, <2>2 DEF Renewed
<1> QED
  BY <1>1 DEF Renews

\* The object at the end of t's objects is new; the others are where they were.
LEMMA HandlesAppend ==
  ASSUME HandlesHome, use' = use, NEW t \in Threads, NEW s, s = held[t],
         s \in Seq(Handles), NEW e, e \in Handles, GoodHandle(e),
         held'[t] = Append(s, e), \A u \in Threads \ {t} : held'[u] = held[u]
  PROVE  HandlesHome'
<1>1. PICK a, n : a = Append(s, e) /\ n = Len(s)
  OBVIOUS
<1>2. n \in Nat /\ Len(a) = n + 1 /\ a[n + 1] = e /\ \A j \in 1..n : a[j] = s[j]
  BY <1>1, AppendIs
<1>3. \A j \in 1..n : GoodHandle(s[j])
  BY <1>1 DEF HandlesHome
<1>4. \A j \in 1..(n + 1) : j \in 1..n \/ j = n + 1
  BY <1>2
<1>5. \A j \in 1..(n + 1) : GoodHandle(a[j])
  BY <1>2, <1>3, <1>4
<1>6. ASSUME NEW u \in Threads, NEW i \in 1..Len(held'[u]) PROVE GoodHandle(held'[u][i])
  <2>1. CASE u # t
    BY <1>6, <2>1 DEF HandlesHome
  <2>2. CASE u = t
    BY <1>1, <1>2, <1>5, <1>6, <2>2
  <2> QED
    BY <2>1, <2>2
<1> QED
  BY <1>6, HandleKept DEF HandlesHome

LEMMA QuietStep ==
  ASSUME TypeOK, Pushing, NEW kind, NEW who, NEW d, NEW sz, Located(kind, who, d, sz),
         use' = use, NEW t \in Threads, Acts(t), pc[t] # "push_load",
         head' = head, next' = next, tag' = tag, cache' = cache, lost' = lost, node' = node,
         \A u \in Threads : /\ HoldsOnce(held'[u])
                            /\ \A n \in Nodes : Holds(held'[u], n) <=> Holds(held[u], n),
         PushKnows(t)', PopKnows(t, kind, who)'
  PROVE  Pushing' /\ Located(kind, who, d, sz)'
<1>1. /\ Placed(kind, who) /\ HeldPlaced(kind, who) /\ CachePlaced(kind, who)
      /\ PushPlaced(kind, who) /\ LostPlaced(kind) /\ Lined(kind, d, sz) /\ Popping(kind, who)
  BY DEF Located
<1>2. /\ Placed(kind, who)' /\ HeldPlaced(kind, who)' /\ CachePlaced(kind, who)'
      /\ PushPlaced(kind, who)' /\ LostPlaced(kind)'
  BY <1>1, PlacesKept
<1>3. Lined(kind, d, sz)'
  BY <1>1, LinedKept
<1>4. Renews(kind, who, kind, who)
  BY <1>1, StaysRenewed
<1>5. Pushing' /\ Popping(kind, who)'
  BY <1>1, <1>4, KnownKept
<1> QED
  BY <1>2, <1>3, <1>5 DEF Located

-----------------------------------------------------------------------------
(* Actions that only look at the lists.                                    *)

LEMMA GetSharedStep ==
  ASSUME PoolInv, use' = use, NEW t \in Threads, NEW p \in use.pools, GetShared(t, p)
  PROVE  PoolInv'
<1>1. TypeOK /\ Pushing /\ Homes /\ HeldBounded
  BY DEF PoolInv
<1>2. PICK kind, who, d, sz : Located(kind, who, d, sz)
  BY DEF PoolInv
<1>3. /\ pc[t] = "idle" /\ Len(held[t]) < MaxHeld
      /\ at' = [at EXCEPT ![t] = <<p, "market">>] /\ pc' = [pc EXCEPT ![t] = "pop_load"]
      /\ head' = head /\ next' = next /\ tag' = tag /\ cache' = cache /\ held' = held
      /\ lost' = lost /\ node' = node /\ old_head' = old_head /\ new_head' = new_head
  BY DEF GetShared, Goto
<1>4. p \in Pools /\ <<p, "market">> \in use.pools \X Lists /\ <<p, "market">> \in Pools \X Lists
  BY <1>1, PoolAssumption DEF TypeOK, Lists
<1>5. Caches' = Caches
  BY DEF Caches, USE_ACC
<1>6. TypeOK'
  BY <1>1, <1>3, <1>4, <1>5 DEF TypeOK
<1>7. Acts(t) /\ pc'[t] = "pop_load" /\ at'[t] = <<p, "market">>
  BY <1>1, <1>3 DEF Acts, TypeOK
<1>8. PushKnows(t)'
  BY <1>1, <1>3, <1>7 DEF PushKnows, Pushing, PushStates
<1>9. PopKnows(t, kind, who)'
  BY <1>4, <1>7 DEF PopKnows
<1>10. HeldPlaced(kind, who)
  BY <1>2 DEF Located
<1>11. Pushing' /\ Located(kind, who, d, sz)'
  BY <1>1, <1>2, <1>3, <1>7, <1>8, <1>9, <1>10, HeldUntouched, QuietStep
<1>12. Homes'
  BY <1>1, <1>3, HomesKept
<1>13. HeldBounded'
  BY <1>1, <1>3 DEF HeldBounded, TypeOK, PopStates
<1> QED
  BY <1>6, <1>11, <1>12, <1>13 DEF PoolInv

\* pop_one_node reads the head of the list, also after a failed CAS.
LEMMA HaveHeadStep ==
  ASSUME PoolInv, use' = use, NEW t \in Threads, pc[t] \in {"pop_load", "pop_cas"}, HaveHead(t),
         UNCHANGED <<head, next, tag, cache, lost>>
  PROVE  PoolInv'
<1>1. TypeOK /\ Pushing /\ Homes /\ HeldBounded
  BY DEF PoolInv
<1>2. PICK kind, who, d, sz : Located(kind, who, d, sz)
  BY DEF PoolInv
<1>3. PICK h : h = head[at[t]]
  OBVIOUS
<1>4. /\ at[t] \in use.pools \X Lists /\ at[t] \in Pools \X Lists
      /\ Len(held[t]) < MaxHeld /\ h \in Tagged \cup {NULL} /\ node[t] = NULL
  <2>1. PopKnows(t, kind, who) /\ PushKnows(t)
    BY <1>1, <1>2 DEF Located, Popping, Pushing
  <2>2. at[t] \in use.pools \X Lists
    BY <2>1 DEF PopKnows, PopStates
  <2>3. at[t] \in Pools \X Lists
    BY <1>1, <2>2, PoolAssumption DEF TypeOK
  <2>4. node[t] = NULL
    BY <2>1 DEF PushKnows, PushStates
  <2> QED
    BY <1>1, <1>3, <2>2, <2>3, <2>4 DEF TypeOK, HeldBounded, PopStates
<1>5. Caches' = Caches
  BY DEF Caches, USE_ACC
<1>6. HeldPlaced(kind, who)
  BY <1>2 DEF Located
<1>7. CASE /\ h # NULL
           /\ old_head' = [old_head EXCEPT ![t] = h] /\ pc' = [pc EXCEPT ![t] = "pop_next"]
           /\ UNCHANGED <<held, at, node, new_head>>
  <2>1. TypeOK'
    BY <1>1, <1>4, <1>5, <1>7 DEF TypeOK
  <2>2. Acts(t) /\ pc'[t] = "pop_next" /\ old_head'[t] = h
    BY <1>1, <1>7 DEF Acts, TypeOK
  <2>3. PushKnows(t)'
    BY <1>4, <1>7, <2>2 DEF PushKnows, PushStates
  <2>4. PICK n \in Nodes : kind[n] = "list" /\ ListOf(n) = at[t] /\ h = Ref(n)
    BY <1>2, <1>3, <1>4, <1>7 DEF Located, Lined, Leads, OnTop
  <2>5. HeadNode(t)' = n
    BY <1>1, <1>7, <2>2, <2>4, RefFacts, ListFacts, NodeFacts DEF HeadNode
  <2>6. PopKnows(t, kind, who)'
    <3>1. ListOf(n)' = ListOf(n)
      BY DEF ListOf, is_collective, collective_num
    <3>2. h \in Tagged /\ h[2] < tag[n] /\ ~Renewed(n, kind, who)'
      BY <1>1, <1>4, <1>7, <2>4, RefFacts, PoolAssumption DEF TypeOK, Renewed
    <3> QED
      BY <1>4, <1>7, <2>2, <2>4, <2>5, <3>1, <3>2 DEF PopKnows
  <2>7. Pushing' /\ Located(kind, who, d, sz)'
    BY <1>1, <1>2, <1>6, <1>7, <2>2, <2>3, <2>6, HeldUntouched, QuietStep
  <2>8. Homes'
    BY <1>1, <1>7, HomesKept
  <2>9. HeldBounded'
    BY <1>1, <1>4, <1>7 DEF HeldBounded, TypeOK
  <2> QED
    BY <2>1, <2>7, <2>8, <2>9 DEF PoolInv
<1>8. CASE /\ h = NULL /\ at[t][2] = "market"
           /\ at' = [at EXCEPT ![t] = <<@[1], "collective">>]
           /\ old_head' = [old_head EXCEPT ![t] = NULL] /\ new_head' = [new_head EXCEPT ![t] = NULL]
           /\ pc' = [pc EXCEPT ![t] = "pop_load"]
           /\ UNCHANGED <<held, node>>
  <2>0. PICK l : l = <<at[t][1], "collective">>
    OBVIOUS
  <2>1. l \in use.pools \X Lists /\ l \in Pools \X Lists /\ at' = [at EXCEPT ![t] = l]
    BY <1>4, <1>8, <2>0 DEF Lists
  <2>2. TypeOK'
    BY <1>1, <1>4, <1>5, <1>8, <2>1 DEF TypeOK
  <2>3. Acts(t) /\ pc'[t] = "pop_load" /\ at'[t] = l
    BY <1>1, <1>8, <2>1 DEF Acts, TypeOK
  <2>4. PushKnows(t)'
    BY <1>4, <1>8, <2>3 DEF PushKnows, PushStates
  <2>5. PopKnows(t, kind, who)'
    BY <2>1, <2>3 DEF PopKnows
  <2>6. Pushing' /\ Located(kind, who, d, sz)'
    BY <1>1, <1>2, <1>6, <1>8, <2>3, <2>4, <2>5, HeldUntouched, QuietStep
  <2>7. Homes'
    BY <1>1, <1>8, HomesKept
  <2>8. HeldBounded'
    BY <1>1, <1>4, <1>8 DEF HeldBounded, TypeOK
  <2> QED
    BY <2>2, <2>6, <2>7, <2>8 DEF PoolInv
<1>9. CASE h = NULL /\ at[t][2] = "collective" /\ Obtain(t, NULL, NULL) /\ Return(t)
  <2>1. PICK s, e : s = held[t] /\ e = HeapHandle
    OBVIOUS
  <2>2. s \in Seq(Handles) /\ e \in Handles /\ e.node = NULL
    BY <1>1, <2>1 DEF TypeOK, Handles, HeapHandle, Handle
  <2>3. held' = [held EXCEPT ![t] = Append(s, e)]
    BY <1>9, <2>1 DEF Obtain, HeapHandle
  <2>4. /\ Append(s, e) \in Seq(Handles) /\ Len(Append(s, e)) = Len(s) + 1
        /\ \A i \in 1..Len(s) : Append(s, e)[i] = s[i]
        /\ Append(s, e)[Len(s) + 1] = e
    BY <2>2, AppendIs
  <2>5. /\ pc' = [pc EXCEPT ![t] = "idle"] /\ at' = [at EXCEPT ![t] = NULL]
        /\ node' = [node EXCEPT ![t] = NULL] /\ old_head' = [old_head EXCEPT ![t] = NULL]
        /\ new_head' = [new_head EXCEPT ![t] = NULL]
    BY <1>9 DEF Return, Goto
  <2>6. TypeOK'
    BY <1>1, <1>5, <2>3, <2>4, <2>5 DEF TypeOK
  <2>7. Acts(t) /\ pc'[t] = "idle" /\ node'[t] = NULL
    BY <1>1, <2>5 DEF Acts, TypeOK
  <2>8. node' = node
    BY <1>1, <1>4, <2>5 DEF TypeOK
  <2>9. PushKnows(t)'
    BY <2>7 DEF PushKnows, PushStates
  <2>10. PopKnows(t, kind, who)'
    BY <2>7 DEF PopKnows, PopStates
  <2>11. HoldsOnce(s) /\ \A n \in Nodes : n # NULL
    BY <1>6, <2>1, NodeFacts DEF HeldPlaced
  <2>12. HoldsOnce(Append(s, e)) /\ \A n \in Nodes : Holds(Append(s, e), n) <=> Holds(s, n)
    BY <2>2, <2>11, HoldsAppend
  <2>13. /\ held'[t] = Append(s, e)
         /\ \A u \in Threads \ {t} : held'[u] = held[u]
    BY <1>1, <2>3 DEF TypeOK
  <2>14. \A u \in Threads : /\ HoldsOnce(held'[u])
                            /\ \A n \in Nodes : Holds(held'[u], n) <=> Holds(held[u], n)
    <3> TAKE u \in Threads
    <3>1. CASE u = t
      BY <2>1, <2>12, <2>13, <3>1
    <3>2. CASE u # t
      BY <1>6, <2>13, <3>2 DEF HeldPlaced
    <3> QED
      BY <3>1, <3>2
  <2>15. Pushing' /\ Located(kind, who, d, sz)'
    BY <1>1, <1>2, <2>7, <2>8, <2>9, <2>10, <2>14, QuietStep
  <2>16. HeldBounded'
    <3>1. Len(s) < MaxHeld /\ Len(s) \in Nat
      BY <1>4, <2>1, <2>2
    <3>2. ASSUME NEW u \in Threads PROVE Len(held'[u]) <= MaxHeld
      BY <1>1, <2>4, <2>13, <3>1, PoolAssumption DEF HeldBounded
    <3>3. ASSUME NEW u \in Threads, pc'[u] \in PopStates PROVE Len(held'[u]) < MaxHeld
      BY <1>1, <2>7, <2>13, <3>3 DEF HeldBounded, Acts, PopStates
    <3> QED
      BY <3>2, <3>3 DEF HeldBounded
  <2>17. Homes'
    <3>1. HandlesHome'
      BY <1>1, <2>1, <2>2, <2>13, HandlesAppend DEF GoodHandle, Homes
    <3> QED
      BY <1>1, <3>1, CachesHomeKept DEF Homes
  <2> QED
    BY <2>6, <2>15, <2>16, <2>17 DEF PoolInv
<1> QED
  BY <1>3, <1>7, <1>8, <1>9 DEF HaveHead, Goto

\* A thread gives up one of its objects.
LEMMA HandlesFewer ==
  ASSUME HandlesHome, use' = use, NEW t \in Threads, NEW w,
         \A j \in 1..Len(w) : \E k \in 1..Len(held[t]) : w[j] = held[t][k],
         held'[t] = w, \A u \in Threads \ {t} : held'[u] = held[u]
  PROVE  HandlesHome'
<1>1. ASSUME NEW u \in Threads, NEW i \in 1..Len(held'[u]) PROVE GoodHandle(held'[u][i])
  <2>1. CASE u # t
    BY <1>1, <2>1 DEF HandlesHome
  <2>2. CASE u = t
    <3>1. PICK k \in 1..Len(held[t]) : w[i] = held[t][k]
      BY <1>1, <2>2
    <3> QED
      BY <2>2, <3>1 DEF HandlesHome
  <2> QED
    BY <2>1, <2>2
<1> QED
  BY <1>1, HandleKept DEF HandlesHome

LEMMA HeldFewer ==
  ASSUME HeldBounded, TypeOK, NEW t \in Threads, NEW w, Len(w) = Len(held[t]) - 1,
         held'[t] = w, \A u \in Threads \ {t} : held'[u] = held[u] /\ pc'[u] = pc[u],
         pc'[t] \notin PopStates
  PROVE  HeldBounded'
<1>1. Len(held[t]) \in Nat /\ Len(held[t]) <= MaxHeld
  BY DEF TypeOK, HeldBounded
<1>2. Len(w) <= MaxHeld
  BY <1>1, PoolAssumption
<1>3. ASSUME NEW u \in Threads
      PROVE  Len(held'[u]) <= MaxHeld /\ (pc'[u] \in PopStates => Len(held'[u]) < MaxHeld)
  <2>1. CASE u = t
    BY <1>2, <2>1
  <2>2. CASE u # t
    BY <2>2 DEF HeldBounded
  <2> QED
    BY <2>1, <2>2
<1> QED
  BY <1>3 DEF HeldBounded

LEMMA PopNextStep ==
  ASSUME PoolInv, use' = use, NEW t \in Threads, PopNext(t)
  PROVE  PoolInv'
<1>1. TypeOK /\ Pushing /\ Homes /\ HeldBounded
  BY DEF PoolInv
<1>2. PICK kind, who, d, sz : Located(kind, who, d, sz)
  BY DEF PoolInv
<1>3. /\ pc[t] = "pop_next" /\ new_head' = [new_head EXCEPT ![t] = next[HeadNode(t)]]
      /\ pc' = [pc EXCEPT ![t] = "pop_cas"]
      /\ head' = head /\ next' = next /\ tag' = tag /\ cache' = cache /\ held' = held
      /\ lost' = lost /\ at' = at /\ node' = node /\ old_head' = old_head
  BY DEF PopNext, Goto
<1>4. PopKnows(t, kind, who) /\ PushKnows(t) /\ Placed(kind, who) /\ HeldPlaced(kind, who)
  BY <1>1, <1>2 DEF Located, Popping, Pushing
<1>5. PICK n : n = HeadNode(t)
  OBVIOUS
<1>6. /\ at[t] \in use.pools \X Lists /\ n \in Nodes /\ node[t] = NULL
      /\ old_head[t] \in Tagged /\ ListOf(n) = at[t] /\ old_head[t][2] < tag[n]
      /\ Renewed(n, kind, who) => old_head[t][2] < tag[n] - 1
  BY <1>3, <1>4, <1>5 DEF PopKnows, PushKnows, PopStates, PushStates
<1>7. Caches' = Caches
  BY DEF Caches, USE_ACC
<1>8. TypeOK'
  BY <1>1, <1>3, <1>5, <1>6, <1>7 DEF TypeOK
<1>9. Acts(t) /\ pc'[t] = "pop_cas" /\ new_head'[t] = next[n]
  BY <1>1, <1>3, <1>5 DEF Acts, TypeOK
<1>10. PushKnows(t)'
  BY <1>3, <1>6, <1>9 DEF PushKnows, PushStates
<1>11. PopKnows(t, kind, who)'
  <2>1. HeadNode(t)' = n /\ ListOf(n)' = ListOf(n)
    BY <1>3, <1>5 DEF HeadNode, ListOf, is_collective, collective_num
  <2>2. Renewed(n, kind, who)' => Renewed(n, kind, who)
    BY <1>3, <1>4, <1>6, <1>9 DEF Renewed, Placed, Acts
  <2> QED
    BY <1>3, <1>6, <1>9, <2>1, <2>2 DEF PopKnows, PopStates
<1>12. Pushing' /\ Located(kind, who, d, sz)'
  BY <1>1, <1>2, <1>3, <1>4, <1>9, <1>10, <1>11, HeldUntouched, QuietStep
<1>13. Homes'
  BY <1>1, <1>3, HomesKept
<1>14. HeldBounded'
  BY <1>1, <1>3 DEF HeldBounded, TypeOK, PopStates
<1> QED
  BY <1>8, <1>12, <1>13, <1>14 DEF PoolInv

\* A failed CAS of push_into.
LEMMA PushCasFailsStep ==
  ASSUME PoolInv, use' = use, NEW t \in Threads, PushCasFails(t)
  PROVE  PoolInv'
<1>1. TypeOK /\ Pushing /\ Homes /\ HeldBounded
  BY DEF PoolInv
<1>2. PICK kind, who, d, sz : Located(kind, who, d, sz)
  BY DEF PoolInv
<1>3. /\ pc[t] = "push_cas" /\ old_head' = [old_head EXCEPT ![t] = head[at[t]]]
      /\ pc' = [pc EXCEPT ![t] = "push_next"]
      /\ head' = head /\ next' = next /\ tag' = tag /\ cache' = cache /\ held' = held
      /\ lost' = lost /\ at' = at /\ node' = node /\ new_head' = new_head
  BY DEF PushCasFails, Goto
<1>4. PushKnows(t) /\ HeldPlaced(kind, who)
  BY <1>1, <1>2 DEF Located, Pushing
<1>5. node[t] \in Nodes /\ at[t] = ListOf(node[t]) /\ new_head[t] = Ref(node[t])
  BY <1>3, <1>4 DEF PushKnows, PushStates
<1>6. head[at[t]] \in Tagged \cup {NULL}
  BY <1>1, <1>5, ListFacts DEF TypeOK
<1>7. Caches' = Caches
  BY DEF Caches, USE_ACC
<1>8. TypeOK'
  BY <1>1, <1>3, <1>6, <1>7 DEF TypeOK
<1>9. Acts(t) /\ pc'[t] = "push_next"
  BY <1>1, <1>3 DEF Acts, TypeOK
<1>10. PushKnows(t)'
  <2>1. ListOf(node[t])' = ListOf(node[t]) /\ Ref(node[t])' = Ref(node[t])
    BY <1>3 DEF ListOf, is_collective, collective_num, Ref
  <2> QED
    BY <1>3, <1>5, <1>9, <2>1 DEF PushKnows, PushStates
<1>11. PopKnows(t, kind, who)'
  BY <1>9 DEF PopKnows, PopStates
<1>12. Pushing' /\ Located(kind, who, d, sz)'
  BY <1>1, <1>2, <1>3, <1>4, <1>9, <1>10, <1>11, HeldUntouched, QuietStep
<1>13. Homes'
  BY <1>1, <1>3, HomesKept
<1>14. HeldBounded'
  BY <1>1, <1>3 DEF HeldBounded, TypeOK, PopStates
<1> QED
  BY <1>8, <1>12, <1>13, <1>14 DEF PoolInv

\* An object from new is deleted: the nodes are where they were.
LEMMA ReleaseHeapStep ==
  ASSUME PoolInv, use' = use, NEW t \in Threads, NEW i \in 1..Len(held[t]), ReleaseHeap(t, i)
  PROVE  PoolInv'
<1>1. TypeOK /\ Pushing /\ Homes /\ HeldBounded
  BY DEF PoolInv
<1>2. PICK kind, who, d, sz : Located(kind, who, d, sz)
  BY DEF PoolInv
<1>3. PICK s : s = held[t]
  OBVIOUS
<1>4. PICK w : w = Without(s, i)
  OBVIOUS
<1>5. /\ pc[t] = "idle" /\ s[i].node = NULL /\ held' = [held EXCEPT ![t] = w]
      /\ head' = head /\ next' = next /\ tag' = tag /\ cache' = cache /\ lost' = lost
      /\ pc' = pc /\ at' = at /\ node' = node /\ old_head' = old_head /\ new_head' = new_head
  BY <1>3, <1>4 DEF ReleaseHeap, Drop, local
<1>6. s \in Seq(Handles) /\ i \in 1..Len(s) /\ HoldsOnce(s) /\ HeldPlaced(kind, who)
  BY <1>1, <1>2, <1>3 DEF TypeOK, Located, HeldPlaced
<1>7. /\ w \in Seq(Handles) /\ Len(w) = Len(s) - 1 /\ HoldsOnce(w)
      /\ \A j \in 1..Len(w) : \E k \in 1..Len(s) : w[j] = s[k]
      /\ \A n \in Nodes : Holds(w, n) <=> Holds(s, n)
  <2>1. /\ w \in Seq(Handles) /\ Len(w) = Len(s) - 1 /\ HoldsOnce(w)
        /\ \A j \in 1..Len(w) : \E k \in 1..Len(s) : w[j] = s[k]
        /\ \A x : x # NULL => (Holds(w, x) <=> Holds(s, x) /\ x # s[i].node)
    <3>1. /\ Without(s, i) \in Seq(Handles) /\ Len(Without(s, i)) = Len(s) - 1
          /\ HoldsOnce(Without(s, i))
          /\ \A j \in 1..Len(Without(s, i)) : \E k \in 1..Len(s) : Without(s, i)[j] = s[k]
          /\ \A x : x # NULL => (Holds(Without(s, i), x) <=> Holds(s, x) /\ x # s[i].node)
      BY <1>6, HoldsWithout
    <3> QED
      BY <1>4, <3>1
  <2>2. \A n \in Nodes : n # NULL
    BY NodeFacts
  <2> QED
    BY <1>5, <2>1, <2>2
<1>8. held'[t] = w /\ \A u \in Threads \ {t} : held'[u] = held[u]
  BY <1>1, <1>5 DEF TypeOK
<1>9. TypeOK'
  BY <1>1, <1>5, <1>7, HandleKept DEF TypeOK
<1>10. \A u \in Threads : /\ HoldsOnce(held'[u])
                          /\ \A n \in Nodes : Holds(held'[u], n) <=> Holds(held[u], n)
  <2> TAKE u \in Threads
  <2>1. CASE u = t
    BY <1>3, <1>7, <1>8, <2>1
  <2>2. CASE u # t
    BY <1>6, <1>8, <2>2 DEF HeldPlaced
  <2> QED
    BY <2>1, <2>2
<1>11. Acts(t)
  BY <1>5 DEF Acts
<1>12. PushKnows(t)'
  BY <1>1, <1>5 DEF PushKnows, Pushing, PushStates
<1>13. PopKnows(t, kind, who)'
  BY <1>5 DEF PopKnows, PopStates
<1>14. Pushing' /\ Located(kind, who, d, sz)'
  BY <1>1, <1>2, <1>5, <1>10, <1>11, <1>12, <1>13, QuietStep
<1>15. HandlesHome'
  <2>1. \A j \in 1..Len(w) : \E k \in 1..Len(held[t]) : w[j] = held[t][k]
    BY <1>3, <1>7
  <2> QED
    BY <1>1, <1>8, <2>1, HandlesFewer DEF Homes
<1>16. Homes'
  BY <1>1, <1>5, <1>15, CachesHomeKept DEF Homes
<1>17. HeldBounded'
  BY <1>1, <1>3, <1>5, <1>7, <1>8, HeldFewer DEF PopStates
<1> QED
  BY <1>9, <1>14, <1>16, <1>17 DEF PoolInv

-----------------------------------------------------------------------------
(* Node n goes to another place: kind K, of whom x.                        *)

Moved(kind, who, k2, w2, n, K, x) ==
  /\ k2[n] = K /\ w2[n] = x
  /\ \A m \in Nodes \ {n} : k2[m] = kind[m] /\ w2[m] = who[m]

LEMMA Movable ==
  ASSUME NEW kind, NEW who, NEW n \in Nodes, NEW K, NEW x
  PROVE  \E k2, w2 : Moved(kind, who, k2, w2, n, K, x)
<1> DEFINE k2 == [m \in Nodes |-> IF m = n THEN K ELSE kind[m]]
           w2 == [m \in Nodes |-> IF m = n THEN x ELSE who[m]]
<1>1. Moved(kind, who, k2, w2, n, K, x)
  BY DEF Moved
<1> HIDE DEF k2, w2
<1> QED
  BY <1>1

LEMMA PlacedMoved ==
  ASSUME NEW kind, NEW who, NEW k2, NEW w2, NEW n \in Nodes, NEW K, NEW x,
         Moved(kind, who, k2, w2, n, K, x), Placed(kind, who), use' = use,
         K \in Kinds, K \in {"held", "push"} => x \in Threads, K = "cache" => x \in Caches
  PROVE  Placed(k2, w2)'
<1>1. ASSUME NEW m \in Nodes
      PROVE  /\ k2[m] \in Kinds
             /\ k2[m] \in {"held", "push"} => w2[m] \in Threads
             /\ k2[m] = "cache" => w2[m] \in Caches
  <2>1. CASE m = n
    BY <2>1 DEF Moved
  <2>2. CASE m # n
    BY <2>2 DEF Moved, Placed
  <2> QED
    BY <2>1, <2>2
<1> QED
  BY <1>1, HandleKept DEF Placed

\* A place the node neither leaves nor comes to.
LEMMA OthersPlaced ==
  ASSUME NEW kind, NEW who, NEW k2, NEW w2, NEW n \in Nodes, NEW K, NEW x,
         Moved(kind, who, k2, w2, n, K, x), use' = use
  PROVE  /\ HeldPlaced(kind, who) /\ kind[n] # "held" /\ K # "held" /\ held' = held
              => HeldPlaced(k2, w2)'
         /\ CachePlaced(kind, who) /\ kind[n] # "cache" /\ K # "cache" /\ cache' = cache
              => CachePlaced(k2, w2)'
         /\ PushPlaced(kind, who) /\ kind[n] # "push" /\ K # "push" /\ node' = node
              => PushPlaced(k2, w2)'
         /\ LostPlaced(kind) /\ kind[n] # "lost" /\ K # "lost" /\ lost' = lost
              => LostPlaced(k2)'
<1>1. ASSUME HeldPlaced(kind, who), kind[n] # "held", K # "held", held' = held
      PROVE  HeldPlaced(k2, w2)'
  BY <1>1 DEF HeldPlaced, Moved
<1>2. ASSUME CachePlaced(kind, who), kind[n] # "cache", K # "cache", cache' = cache
      PROVE  CachePlaced(k2, w2)'
  BY <1>2, HandleKept DEF CachePlaced, Moved
<1>3. ASSUME PushPlaced(kind, who), kind[n] # "push", K # "push", node' = node
      PROVE  PushPlaced(k2, w2)'
  BY <1>3 DEF PushPlaced, Moved
<1>4. ASSUME LostPlaced(kind), kind[n] # "lost", K # "lost", lost' = lost
      PROVE  LostPlaced(k2)'
  BY <1>4 DEF LostPlaced, Moved
<1> QED
  BY <1>1, <1>2, <1>3, <1>4

\* A thread has one object more, or less.
LEMMA HeldAdds ==
  ASSUME NEW kind, NEW who, NEW k2, NEW w2, NEW n \in Nodes, NEW t \in Threads,
         Moved(kind, who, k2, w2, n, "held", t), HeldPlaced(kind, who), kind[n] # "held",
         NEW e \in Handles, e.node = n, held[t] \in Seq(Handles),
         held'[t] = Append(held[t], e), \A u \in Threads \ {t} : held'[u] = held[u]
  PROVE  HeldPlaced(k2, w2)'
<1>1. HoldsOnce(held[t]) /\ ~Holds(held[t], n)
  BY DEF HeldPlaced
<1>2. HoldsOnce(held'[t]) /\ \A x : Holds(held'[t], x) <=> Holds(held[t], x) \/ x = n
  BY <1>1, HoldsAppend
<1>3. ASSUME NEW u \in Threads
      PROVE  /\ HoldsOnce(held'[u])
             /\ \A m \in Nodes : Holds(held'[u], m) <=> k2[m] = "held" /\ w2[m] = u
  <2>1. CASE u = t
    <3>1. \A m \in Nodes : Holds(held[t], m) <=> kind[m] = "held" /\ who[m] = t
      BY DEF HeldPlaced
    <3>2. ASSUME NEW m \in Nodes
          PROVE  Holds(held'[t], m) <=> k2[m] = "held" /\ w2[m] = t
      <4>1. CASE m = n
        BY <1>2, <4>1 DEF Moved
      <4>2. CASE m # n
        BY <1>2, <3>1, <4>2 DEF Moved
      <4> QED
        BY <4>1, <4>2
    <3> QED
      BY <1>2, <2>1, <3>2
  <2>2. CASE u # t
    <3>1. /\ held'[u] = held[u] /\ HoldsOnce(held[u])
          /\ \A m \in Nodes : Holds(held[u], m) <=> kind[m] = "held" /\ who[m] = u
      BY <2>2 DEF HeldPlaced
    <3>2. ASSUME NEW m \in Nodes
          PROVE  (kind[m] = "held" /\ who[m] = u) <=> (k2[m] = "held" /\ w2[m] = u)
      <4>1. CASE m = n
        BY <2>2, <4>1 DEF Moved
      <4>2. CASE m # n
        BY <4>2 DEF Moved
      <4> QED
        BY <4>1, <4>2
    <3> QED
      BY <3>1, <3>2
  <2> QED
    BY <2>1, <2>2
<1> QED
  BY <1>3 DEF HeldPlaced

LEMMA HeldDrops ==
  ASSUME NEW kind, NEW who, NEW k2, NEW w2, NEW n \in Nodes, NEW t \in Threads,
         NEW K, NEW x, K # "held",
         Moved(kind, who, k2, w2, n, K, x), HeldPlaced(kind, who), kind[n] = "held", who[n] = t,
         HoldsOnce(held'[t]),
         \A m \in Nodes : Holds(held'[t], m) <=> Holds(held[t], m) /\ m # n,
         \A u \in Threads \ {t} : held'[u] = held[u]
  PROVE  HeldPlaced(k2, w2)'
<1>3. ASSUME NEW u \in Threads
      PROVE  /\ HoldsOnce(held'[u])
             /\ \A m \in Nodes : Holds(held'[u], m) <=> k2[m] = "held" /\ w2[m] = u
  <2>1. CASE u = t
    BY <2>1 DEF HeldPlaced, Moved
  <2>2. CASE u # t
    BY <2>2 DEF HeldPlaced, Moved
  <2> QED
    BY <2>1, <2>2
<1> QED
  BY <1>3 DEF HeldPlaced

\* w is what t holds without its i-th object, which was its own.
LetGo(w, t, i, kind, who) ==
  /\ w = Without(held[t], i) /\ w \in Seq(Handles) /\ Len(w) = Len(held[t]) - 1
  /\ HoldsOnce(w) /\ held[t][i] \in Handles
  /\ \A j \in 1..Len(w) : \E k \in 1..Len(held[t]) : w[j] = held[t][k]
  /\ \A n \in Nodes : Holds(w, n) <=> Holds(held[t], n) /\ n # held[t][i].node
  /\ held[t][i].node \in Nodes =>
       kind[held[t][i].node] = "held" /\ who[held[t][i].node] = t

\* What Drop leaves of a thread's objects.
LEMMA WithoutOne ==
  ASSUME TypeOK, NEW kind, NEW who, HeldPlaced(kind, who),
         NEW t \in Threads, NEW i \in 1..Len(held[t])
  PROVE  \E w : LetGo(w, t, i, kind, who)
<1>1. PICK s : s = held[t]
  OBVIOUS
<1>2. s \in Seq(Handles) /\ i \in 1..Len(s) /\ HoldsOnce(s)
  BY <1>1 DEF TypeOK, HeldPlaced
<1>3. /\ Without(s, i) \in Seq(Handles) /\ Len(Without(s, i)) = Len(s) - 1
      /\ HoldsOnce(Without(s, i)) /\ Holds(s, s[i].node)
      /\ \A j \in 1..Len(Without(s, i)) : \E k \in 1..Len(s) : Without(s, i)[j] = s[k]
      /\ \A x : x # NULL => (Holds(Without(s, i), x) <=> Holds(s, x) /\ x # s[i].node)
  BY <1>2, HoldsWithout
<1>4. s[i] \in Handles
  BY <1>2
<1>5. s[i].node \in Nodes => kind[s[i].node] = "held" /\ who[s[i].node] = t
  BY <1>1, <1>3 DEF HeldPlaced
<1>6. \A n \in Nodes : n # NULL
  BY NodeFacts
<1>7. PICK w : w = Without(s, i)
  OBVIOUS
<1>8. /\ w \in Seq(Handles) /\ Len(w) = Len(s) - 1 /\ HoldsOnce(w)
      /\ \A j \in 1..Len(w) : \E k \in 1..Len(s) : w[j] = s[k]
      /\ \A n \in Nodes : Holds(w, n) <=> Holds(s, n) /\ n # s[i].node
  BY <1>3, <1>6, <1>7
<1> QED
  <2>1. LetGo(w, t, i, kind, who)
    BY <1>1, <1>4, <1>5, <1>7, <1>8 DEF LetGo
  <2> QED
    BY <2>1

\* A node that goes anywhere but to a push past its first step.
LEMMA RenewsMoved ==
  ASSUME NEW kind, NEW who, NEW k2, NEW w2, NEW n \in Nodes, NEW K, NEW x,
         Moved(kind, who, k2, w2, n, K, x), Placed(kind, who),
         NEW t \in Threads, Acts(t), pc[t] # "push_load",
         K # "push" \/ pc'[x] = "push_load"
  PROVE  Renews(kind, who, k2, w2)
<1>1. ASSUME NEW m \in Nodes, Renewed(m, k2, w2)' PROVE Renewed(m, kind, who)
  <2>1. m # n
    BY <1>1 DEF Renewed, Moved
  <2>2. kind[m] = "push" /\ pc'[who[m]] # "push_load" /\ who[m] \in Threads
    BY <1>1, <2>1 DEF Renewed, Moved, Placed
  <2>3. pc[who[m]] # "push_load"
    BY <2>2 DEF Acts
  <2> QED
    BY <2>2, <2>3 DEF Renewed
<1> QED
  BY <1>1 DEF Renews

\* A cache has one entry more, or less.
LEMMA CacheAdds ==
  ASSUME NEW kind, NEW who, NEW k2, NEW w2, NEW n \in Nodes, NEW c \in Caches, use' = use,
         Moved(kind, who, k2, w2, n, "cache", c), CachePlaced(kind, who), kind[n] # "cache",
         cache[c] \in Seq(Nodes),
         cache'[c] = Append(cache[c], n), \A b \in Caches \ {c} : cache'[b] = cache[b]
  PROVE  CachePlaced(k2, w2)'
<1>1. Once(cache[c]) /\ ~Has(cache[c], n)
  BY DEF CachePlaced
<1>2. Once(cache'[c]) /\ \A x : Has(cache'[c], x) <=> Has(cache[c], x) \/ x = n
  BY <1>1, HasAppend
<1>3. ASSUME NEW b \in Caches
      PROVE  /\ Once(cache'[b])
             /\ \A m \in Nodes : Has(cache'[b], m) <=> k2[m] = "cache" /\ w2[m] = b
  <2>1. Once(cache'[b])
    BY <1>2 DEF CachePlaced
  <2>2. ASSUME NEW m \in Nodes PROVE Has(cache'[b], m) <=> k2[m] = "cache" /\ w2[m] = b
    <3>1. Has(cache[b], m) <=> kind[m] = "cache" /\ who[m] = b
      BY DEF CachePlaced
    <3>2. CASE m = n
      BY <1>2, <3>1, <3>2 DEF Moved
    <3>3. CASE m # n
      BY <1>2, <3>1, <3>3 DEF Moved
    <3> QED
      BY <3>2, <3>3
  <2> QED
    BY <2>1, <2>2
<1> QED
  BY <1>3, HandleKept DEF CachePlaced

LEMMA CacheDrops ==
  ASSUME NEW kind, NEW who, NEW k2, NEW w2, NEW n \in Nodes, NEW c \in Caches, use' = use,
         NEW K, NEW x, K # "cache",
         Moved(kind, who, k2, w2, n, K, x), CachePlaced(kind, who), kind[n] = "cache", who[n] = c,
         Once(cache'[c]), \A m \in Nodes : Has(cache'[c], m) <=> Has(cache[c], m) /\ m # n,
         \A b \in Caches \ {c} : cache'[b] = cache[b]
  PROVE  CachePlaced(k2, w2)'
<1>3. ASSUME NEW b \in Caches
      PROVE  /\ Once(cache'[b])
             /\ \A m \in Nodes : Has(cache'[b], m) <=> k2[m] = "cache" /\ w2[m] = b
  <2>1. Once(cache'[b])
    BY DEF CachePlaced
  <2>2. ASSUME NEW m \in Nodes PROVE Has(cache'[b], m) <=> k2[m] = "cache" /\ w2[m] = b
    <3>1. Has(cache[b], m) <=> kind[m] = "cache" /\ who[m] = b
      BY DEF CachePlaced
    <3>2. CASE m = n
      BY <3>1, <3>2 DEF Moved
    <3>3. CASE m # n
      BY <3>1, <3>3 DEF Moved
    <3> QED
      BY <3>2, <3>3
  <2> QED
    BY <2>1, <2>2
<1> QED
  BY <1>3, HandleKept DEF CachePlaced

\* The list, and what pushing and popping threads know, when a node that is not
\* on a list goes to a place that is none.
LEMMA OffList ==
  ASSUME TypeOK, Pushing, NEW kind, NEW who, NEW d, NEW sz, Located(kind, who, d, sz),
         NEW k2, NEW w2, NEW n \in Nodes, NEW K, NEW x,
         Moved(kind, who, k2, w2, n, K, x), kind[n] # "list", K # "list",
         use' = use, NEW t \in Threads, Acts(t), pc[t] # "push_load",
         K # "push" \/ pc'[x] = "push_load",
         head' = head, next' = next, tag' = tag, PushKnows(t)', PopKnows(t, k2, w2)'
  PROVE  Lined(k2, d, sz)' /\ Pushing' /\ Popping(k2, w2)'
<1>1. Placed(kind, who) /\ Lined(kind, d, sz) /\ Popping(kind, who)
  BY DEF Located
<1>2. \A m \in Nodes : k2[m] = "list" <=> kind[m] = "list"
  BY DEF Moved
<1>3. Lined(k2, d, sz)'
  BY <1>1, <1>2, LinedKept
<1>4. Renews(kind, who, k2, w2)
  BY <1>1, RenewsMoved
<1> QED
  BY <1>1, <1>3, <1>4, KnownKept

\* A thread that does nothing on the lists knows nothing of them.
LEMMA IdleKnows ==
  ASSUME NEW t \in Threads, pc[t] = "idle", Pushing, NEW k2, NEW w2,
         pc' = pc, at' = at, node' = node, old_head' = old_head, new_head' = new_head
  PROVE  Acts(t) /\ PushKnows(t)' /\ PopKnows(t, k2, w2)'
<1>1. Acts(t)
  BY DEF Acts
<1>2. PushKnows(t)'
  BY DEF Pushing, PushKnows, PushStates
<1>3. PopKnows(t, k2, w2)'
  BY DEF PopKnows, PopStates
<1> QED
  BY <1>1, <1>2, <1>3

-----------------------------------------------------------------------------
(* Actions that move a node between objects, caches and pushes.            *)

LEMMA CacheFacts ==
  ASSUME TypeOK, NEW t \in Threads, NEW p \in Pools
  PROVE  CacheOf(t, p) \in Caches /\ (USE_ACC => CacheOf(t, p)[2] = p)
BY DEF CacheOf, Caches

LEMMA GetLocalStep ==
  ASSUME PoolInv, use' = use, NEW t \in Threads, NEW p \in use.pools, GetLocal(t, p)
  PROVE  PoolInv'
<1>1. TypeOK /\ Pushing /\ Homes /\ HeldBounded
  BY DEF PoolInv
<1>2. PICK kind, who, d, sz : Located(kind, who, d, sz)
  BY DEF PoolInv
<1>3. PICK c, s : c = CacheOf(t, p) /\ s = cache[c]
  OBVIOUS
<1>4. PICK n, f : n = s[Len(s)] /\ f = SubSeq(s, 1, Len(s) - 1)
  OBVIOUS
<1>5. PICK e : e = Handle(n, p)
  OBVIOUS
<1>6. /\ pc[t] = "idle" /\ Len(held[t]) < MaxHeld /\ s # <<>>
      /\ held' = [held EXCEPT ![t] = Append(@, e)] /\ cache' = [cache EXCEPT ![c] = f]
      /\ head' = head /\ next' = next /\ tag' = tag /\ lost' = lost
      /\ pc' = pc /\ at' = at /\ node' = node /\ old_head' = old_head /\ new_head' = new_head
  BY <1>3, <1>4, <1>5 DEF GetLocal, Obtain, local
<1>7. p \in Pools
  BY <1>1, PoolAssumption DEF TypeOK
<1>8. c \in Caches /\ (USE_ACC => c[2] = p)
  BY <1>1, <1>3, <1>7, CacheFacts
<1>9. s \in Seq(Nodes) /\ Len(s) <= TC_CAPACITY /\ CachePlaced(kind, who) /\ Once(s)
  BY <1>1, <1>2, <1>3, <1>8 DEF TypeOK, Located, CachePlaced
<1>10. Has(s, n) /\ Once(f) /\ \A x : Has(f, x) <=> Has(s, x) /\ x # n
  BY <1>4, <1>6, <1>9, HasFront
<1>11. /\ n \in Nodes /\ f \in Seq(Nodes) /\ Len(s) \in Nat /\ Len(s) > 0 /\ Len(f) = Len(s) - 1
       /\ \A i \in 1..(Len(s) - 1) : f[i] = s[i]
  BY <1>4, <1>6, <1>9, FrontIs
<1>12. kind[n] = "cache" /\ who[n] = c
  BY <1>3, <1>8, <1>9, <1>10, <1>11 DEF CachePlaced
<1>13. GoodEntry(c, n)
  BY <1>1, <1>3, <1>4, <1>8, <1>11 DEF Homes, CachesHome
<1>14. n[1] = p
  <2>1. use \in Uses /\ n[1] \in use.pools
    BY <1>1, <1>13 DEF TypeOK, GoodEntry
  <2> QED
    BY <1>8, <1>13, <2>1, CacheAssumption DEF GoodEntry, USE_ACC
<1>15. e \in Handles /\ e.node = n /\ GoodHandle(e)
  BY <1>5, <1>7, <1>11, <1>14 DEF Handles, Handle, GoodHandle
<1>16. /\ held[t] \in Seq(Handles) /\ held'[t] = Append(held[t], e)
       /\ \A u \in Threads \ {t} : held'[u] = held[u]
  BY <1>1, <1>6 DEF TypeOK
<1>17. cache'[c] = f /\ \A b \in Caches \ {c} : cache'[b] = cache[b]
  BY <1>1, <1>6, <1>8 DEF TypeOK
<1>18. Append(held[t], e) \in Seq(Handles) /\ Len(Append(held[t], e)) = Len(held[t]) + 1
  BY <1>15, <1>16, AppendIs
<1>19. TypeOK'
  <2>1. held' \in [Threads -> Seq(Handles)]
    BY <1>1, <1>6, <1>18 DEF TypeOK
  <2>2. cache' \in [Caches -> Seq(Nodes)]
    BY <1>1, <1>6, <1>11 DEF TypeOK
  <2>3. \A b \in Caches : Len(cache'[b]) <= TC_CAPACITY
    <3>1. Len(cache'[c]) <= TC_CAPACITY
      BY <1>9, <1>11, <1>17, PoolAssumption
    <3> QED
      BY <1>1, <1>17, <3>1 DEF TypeOK
  <2> QED
    BY <1>1, <1>6, <2>1, <2>2, <2>3, HandleKept DEF TypeOK
<1>20. PICK k2, w2 : Moved(kind, who, k2, w2, n, "held", t)
  BY <1>11, Movable
<1>21. Acts(t) /\ PushKnows(t)' /\ PopKnows(t, k2, w2)'
  BY <1>1, <1>6, IdleKnows
<1>d. /\ kind[n] \notin {"held", "push", "lost", "list"}
      /\ "held" # "cache" /\ "held" # "push" /\ "held" # "lost" /\ "held" # "list"
      /\ pc[t] # "push_load"
  BY <1>6, <1>12
<1>22. Lined(k2, d, sz)' /\ Pushing' /\ Popping(k2, w2)'
  BY <1>1, <1>2, <1>6, <1>11, <1>d, <1>20, <1>21, OffList
<1>23. Located(k2, w2, d, sz)'
  <2>1. /\ Placed(kind, who) /\ HeldPlaced(kind, who) /\ PushPlaced(kind, who) /\ LostPlaced(kind)
    BY <1>2 DEF Located
  <2>2. Placed(k2, w2)'
    BY <1>11, <1>20, <2>1, PlacedMoved DEF Kinds
  <2>3. HeldPlaced(k2, w2)'
    BY <1>11, <1>d, <1>15, <1>16, <1>20, <2>1, HeldAdds
  <2>4. Once(cache'[c]) /\ \A m \in Nodes : Has(cache'[c], m) <=> Has(cache[c], m) /\ m # n
    BY <1>3, <1>10, <1>17
  <2>5. CachePlaced(k2, w2)'
    BY <1>8, <1>9, <1>11, <1>12, <1>17, <1>20, <2>4, CacheDrops
  <2>6. PushPlaced(k2, w2)' /\ LostPlaced(k2)'
    BY <1>6, <1>11, <1>d, <1>20, <2>1, OthersPlaced
  <2> QED
    BY <1>22, <2>2, <2>3, <2>5, <2>6 DEF Located
<1>24. HandlesHome'
  BY <1>1, <1>15, <1>16, HandlesAppend DEF Homes
<1>25. CachesHome'
  <2>1. \A i \in 1..(Len(s) - 1) : GoodEntry(c, s[i])
    BY <1>1, <1>3, <1>8, <1>11 DEF Homes, CachesHome
  <2>2. \A i \in 1..Len(f) : GoodEntry(c, f[i])
    BY <1>11, <2>1
  <2>3. \A b \in Caches : \A i \in 1..Len(cache'[b]) : GoodEntry(b, cache'[b][i])
    BY <1>1, <1>17, <2>2 DEF Homes, CachesHome
  <2> QED
    BY <2>3, HandleKept DEF CachesHome
<1>26. HeldBounded'
  <2>1. Len(held[t]) \in Nat /\ Len(held'[t]) <= MaxHeld
    BY <1>6, <1>16, <1>18, PoolAssumption
  <2>2. pc'[t] \notin PopStates
    BY <1>6 DEF PopStates
  <2> QED
    BY <1>1, <1>6, <1>16, <2>1, <2>2 DEF HeldBounded
<1> QED
  BY <1>19, <1>22, <1>23, <1>24, <1>25, <1>26 DEF PoolInv, Homes

LEMMA ReleaseLocalStep ==
  ASSUME PoolInv, use' = use, NEW t \in Threads, NEW i \in 1..Len(held[t]), ReleaseLocal(t, i)
  PROVE  PoolInv'
<1>1. TypeOK /\ Pushing /\ Homes /\ HeldBounded
  BY DEF PoolInv
<1>2. PICK kind, who, d, sz : Located(kind, who, d, sz)
  BY DEF PoolInv
<1>3. /\ Placed(kind, who) /\ HeldPlaced(kind, who) /\ CachePlaced(kind, who)
      /\ PushPlaced(kind, who) /\ LostPlaced(kind)
  BY <1>2 DEF Located
<1>4. PICK n, c : n = held[t][i].node /\ c = CacheOf(t, held[t][i].pool)
  OBVIOUS
<1>w. PICK w : LetGo(w, t, i, kind, who)
  BY <1>1, <1>3, WithoutOne
<1>5. /\ w = Without(held[t], i) /\ w \in Seq(Handles) /\ Len(w) = Len(held[t]) - 1
      /\ HoldsOnce(w)
      /\ \A j \in 1..Len(w) : \E k \in 1..Len(held[t]) : w[j] = held[t][k]
      /\ \A m \in Nodes : Holds(w, m) <=> Holds(held[t], m) /\ m # n
      /\ n \in Nodes => kind[n] = "held" /\ who[n] = t
  BY <1>4, <1>w DEF LetGo
<1>6. /\ pc[t] = "idle" /\ n # NULL /\ ~is_collective(n) /\ Len(cache[c]) < TC_CAPACITY
      /\ cache' = [cache EXCEPT ![c] = Append(@, n)] /\ held' = [held EXCEPT ![t] = w]
      /\ head' = head /\ next' = next /\ tag' = tag /\ lost' = lost
      /\ pc' = pc /\ at' = at /\ node' = node /\ old_head' = old_head /\ new_head' = new_head
  BY <1>4, <1>5 DEF ReleaseLocal, Keeps, Fits, Drop, local
<1>7. n \in Nodes /\ held[t][i].pool = n[1] /\ n[1] \in use.pools
  BY <1>1, <1>4, <1>6 DEF Homes, HandlesHome, GoodHandle
<1>8. kind[n] = "held" /\ who[n] = t
  BY <1>5, <1>7
<1>9. c \in Caches /\ (USE_ACC => c[2] = n[1])
  BY <1>1, <1>4, <1>7, CacheFacts, NodeFacts
<1>10. GoodEntry(c, n)
  BY <1>6, <1>7, <1>9 DEF GoodEntry
<1>11. held'[t] = w /\ \A u \in Threads \ {t} : held'[u] = held[u]
  BY <1>1, <1>6 DEF TypeOK
<1>12. PICK s, a : s = cache[c] /\ a = Append(s, n)
  OBVIOUS
<1>13. /\ s \in Seq(Nodes) /\ cache' = [cache EXCEPT ![c] = a]
       /\ cache'[c] = a /\ \A b \in Caches \ {c} : cache'[b] = cache[b]
  BY <1>1, <1>6, <1>9, <1>12 DEF TypeOK
<1>14. /\ a \in Seq(Nodes) /\ Len(s) \in Nat /\ Len(a) = Len(s) + 1 /\ a[Len(s) + 1] = n
       /\ \A j \in 1..Len(s) : a[j] = s[j]
  BY <1>7, <1>12, <1>13, AppendIs
<1>15. TypeOK'
  <2>1. held' \in [Threads -> Seq(Handles)]
    BY <1>1, <1>5, <1>6 DEF TypeOK
  <2>2. cache' \in [Caches -> Seq(Nodes)]
    BY <1>1, <1>13, <1>14 DEF TypeOK
  <2>3. \A b \in Caches : Len(cache'[b]) <= TC_CAPACITY
    <3>1. Len(cache'[c]) <= TC_CAPACITY
      BY <1>6, <1>12, <1>13, <1>14, PoolAssumption
    <3> QED
      BY <1>1, <1>13, <3>1 DEF TypeOK
  <2> QED
    BY <1>1, <1>6, <2>1, <2>2, <2>3, HandleKept DEF TypeOK
<1>16. PICK k2, w2 : Moved(kind, who, k2, w2, n, "cache", c)
  BY <1>7, Movable
<1>17. Acts(t) /\ PushKnows(t)' /\ PopKnows(t, k2, w2)'
  BY <1>1, <1>6, IdleKnows
<1>18. /\ kind[n] \notin {"cache", "push", "lost", "list"}
       /\ "cache" # "held" /\ "cache" # "push" /\ "cache" # "lost" /\ "cache" # "list"
       /\ pc[t] # "push_load"
  BY <1>6, <1>8
<1>19. Lined(k2, d, sz)' /\ Pushing' /\ Popping(k2, w2)'
  BY <1>1, <1>2, <1>6, <1>7, <1>16, <1>17, <1>18, OffList
<1>20. Located(k2, w2, d, sz)'
  <2>1. Placed(k2, w2)'
    BY <1>3, <1>7, <1>9, <1>16, PlacedMoved DEF Kinds
  <2>2. HoldsOnce(held'[t]) /\ \A m \in Nodes : Holds(held'[t], m) <=> Holds(held[t], m) /\ m # n
    BY <1>5, <1>11
  <2>3. HeldPlaced(k2, w2)'
    BY <1>3, <1>7, <1>8, <1>11, <1>16, <1>18, <2>2, HeldDrops
  <2>4. CachePlaced(k2, w2)'
    BY <1>3, <1>7, <1>9, <1>12, <1>13, <1>16, <1>18, CacheAdds
  <2>5. PushPlaced(k2, w2)' /\ LostPlaced(k2)'
    BY <1>3, <1>6, <1>7, <1>16, <1>18, OthersPlaced
  <2> QED
    BY <1>19, <2>1, <2>3, <2>4, <2>5 DEF Located
<1>21. HandlesHome'
  BY <1>1, <1>5, <1>11, HandlesFewer DEF Homes
<1>22. CachesHome'
  <2>1. \A j \in 1..Len(s) : GoodEntry(c, s[j])
    BY <1>1, <1>9, <1>12 DEF Homes, CachesHome
  <2>2. \A j \in 1..(Len(s) + 1) : j \in 1..Len(s) \/ j = Len(s) + 1
    BY <1>14
  <2>3. \A j \in 1..Len(a) : GoodEntry(c, a[j])
    BY <1>10, <1>14, <2>1, <2>2
  <2>4. \A b \in Caches : \A j \in 1..Len(cache'[b]) : GoodEntry(b, cache'[b][j])
    BY <1>1, <1>13, <2>3 DEF Homes, CachesHome
  <2> QED
    BY <2>4, HandleKept DEF CachesHome
<1>23. HeldBounded'
  BY <1>1, <1>5, <1>6, <1>11, HeldFewer DEF PopStates
<1> QED
  BY <1>15, <1>19, <1>20, <1>21, <1>22, <1>23 DEF PoolInv, Homes

LEMMA ReleaseSharedStep ==
  ASSUME PoolInv, use' = use, NEW t \in Threads, NEW i \in 1..Len(held[t]), ReleaseShared(t, i)
  PROVE  PoolInv'
<1>1. TypeOK /\ Pushing /\ Homes /\ HeldBounded
  BY DEF PoolInv
<1>2. PICK kind, who, d, sz : Located(kind, who, d, sz)
  BY DEF PoolInv
<1>3. /\ Placed(kind, who) /\ HeldPlaced(kind, who) /\ CachePlaced(kind, who)
      /\ PushPlaced(kind, who) /\ LostPlaced(kind)
  BY <1>2 DEF Located
<1>4. PICK n : n = held[t][i].node
  OBVIOUS
<1>w. PICK w : LetGo(w, t, i, kind, who)
  BY <1>1, <1>3, WithoutOne
<1>5. /\ w = Without(held[t], i) /\ w \in Seq(Handles) /\ Len(w) = Len(held[t]) - 1
      /\ HoldsOnce(w)
      /\ \A j \in 1..Len(w) : \E k \in 1..Len(held[t]) : w[j] = held[t][k]
      /\ \A m \in Nodes : Holds(w, m) <=> Holds(held[t], m) /\ m # n
      /\ n \in Nodes => kind[n] = "held" /\ who[n] = t
  BY <1>4, <1>w DEF LetGo
<1>6. PICK l : l = <<held[t][i].pool, IF is_collective(n) THEN "collective" ELSE "market">>
  OBVIOUS
<1>7. /\ pc[t] = "idle" /\ n # NULL /\ tag[n] <= MaxTag /\ held' = [held EXCEPT ![t] = w]
      /\ at' = [at EXCEPT ![t] = l] /\ node' = [node EXCEPT ![t] = n]
      /\ pc' = [pc EXCEPT ![t] = "push_load"]
      /\ head' = head /\ next' = next /\ tag' = tag /\ cache' = cache /\ lost' = lost
      /\ old_head' = old_head /\ new_head' = new_head
  BY <1>4, <1>5, <1>6 DEF ReleaseShared, Drop, Goto
<1>8. n \in Nodes /\ held[t][i].pool = n[1]
  BY <1>1, <1>4, <1>7 DEF Homes, HandlesHome, GoodHandle
<1>9. kind[n] = "held" /\ who[n] = t
  BY <1>5, <1>8
<1>10. l = ListOf(n) /\ l \in Pools \X Lists
  BY <1>6, <1>8, ListFacts DEF ListOf
<1>11. held'[t] = w /\ \A u \in Threads \ {t} : held'[u] = held[u]
  BY <1>1, <1>7 DEF TypeOK
<1>12. Acts(t) /\ pc'[t] = "push_load" /\ at'[t] = l /\ node'[t] = n
  BY <1>1, <1>7 DEF Acts, TypeOK
<1>13. TypeOK'
  <2>1. held' \in [Threads -> Seq(Handles)]
    BY <1>1, <1>5, <1>7 DEF TypeOK
  <2> QED
    BY <1>1, <1>7, <1>8, <1>10, <2>1, HandleKept DEF TypeOK
<1>14. PICK k2, w2 : Moved(kind, who, k2, w2, n, "push", t)
  BY <1>8, Movable
<1>15. PushKnows(t)'
  <2>1. ListOf(n)' = ListOf(n)
    BY DEF ListOf, is_collective, collective_num
  <2> QED
    BY <1>7, <1>8, <1>10, <1>12, <2>1 DEF PushKnows, PushStates
<1>16. PopKnows(t, k2, w2)'
  BY <1>12 DEF PopKnows, PopStates
<1>17. /\ kind[n] \notin {"cache", "push", "lost", "list"}
       /\ "push" # "held" /\ "push" # "cache" /\ "push" # "lost" /\ "push" # "list"
       /\ pc[t] # "push_load"
  BY <1>7, <1>9
<1>18. Lined(k2, d, sz)' /\ Pushing' /\ Popping(k2, w2)'
  <2>1. Lined(kind, d, sz) /\ Popping(kind, who)
    BY <1>2 DEF Located
  <2>2. \A m \in Nodes : k2[m] = "list" <=> kind[m] = "list"
    BY <1>14, <1>17 DEF Moved
  <2>3. Lined(k2, d, sz)'
    BY <1>7, <2>1, <2>2, LinedKept
  <2>4. PICK K : K = "push"
    OBVIOUS
  <2>5. Moved(kind, who, k2, w2, n, K, t) /\ (K # "push" \/ pc'[t] = "push_load")
    BY <1>12, <1>14, <2>4
  <2>6. Renews(kind, who, k2, w2)
    BY <1>3, <1>8, <1>12, <1>17, <2>5, RenewsMoved
  <2> QED
    BY <1>1, <1>7, <1>12, <1>15, <1>16, <2>1, <2>3, <2>6, KnownKept
<1>19. Located(k2, w2, d, sz)'
  <2>1. Placed(k2, w2)'
    BY <1>3, <1>8, <1>14, PlacedMoved DEF Kinds
  <2>2. HoldsOnce(held'[t]) /\ \A m \in Nodes : Holds(held'[t], m) <=> Holds(held[t], m) /\ m # n
    BY <1>5, <1>11
  <2>3. HeldPlaced(k2, w2)'
    BY <1>3, <1>8, <1>9, <1>11, <1>14, <1>17, <2>2, HeldDrops
  <2>4. CachePlaced(k2, w2)' /\ LostPlaced(k2)'
    BY <1>3, <1>7, <1>8, <1>14, <1>17, OthersPlaced
  <2>5. ASSUME NEW u \in Threads, NEW m \in Nodes
        PROVE  node'[u] = m <=> k2[m] = "push" /\ w2[m] = u
    <3>1. node[u] = m <=> kind[m] = "push" /\ who[m] = u
      BY <1>3 DEF PushPlaced
    <3>2. node[t] = NULL /\ m # NULL
      BY <1>1, <1>7, NodeFacts DEF Pushing, PushKnows, PushStates
    <3>3. u # t => node'[u] = node[u]
      BY <1>12 DEF Acts
    <3>4. CASE m = n
      BY <1>12, <1>14, <1>17, <3>1, <3>3, <3>4 DEF Moved
    <3>5. CASE m # n
      <4>1. k2[m] = kind[m] /\ w2[m] = who[m]
        BY <1>14, <3>5 DEF Moved
      <4> QED
        BY <1>12, <3>1, <3>2, <3>3, <3>5, <4>1
    <3> QED
      BY <3>4, <3>5
  <2>6. PushPlaced(k2, w2)'
    BY <2>5 DEF PushPlaced
  <2> QED
    BY <1>18, <2>1, <2>3, <2>4, <2>6 DEF Located
<1>20. HandlesHome'
  BY <1>1, <1>5, <1>11, HandlesFewer DEF Homes
<1>21. CachesHome'
  BY <1>1, <1>7, CachesHomeKept DEF Homes
<1>22. HeldBounded'
  <2>1. \A u \in Threads \ {t} : pc'[u] = pc[u]
    BY <1>12 DEF Acts
  <2> QED
    BY <1>1, <1>5, <1>11, <1>12, <2>1, HeldFewer DEF PopStates
<1> QED
  BY <1>13, <1>18, <1>19, <1>20, <1>21, <1>22 DEF PoolInv, Homes

LEMMA MoveStep ==
  ASSUME PoolInv, use' = use, NEW t \in Threads, NEW i \in 1..Len(held[t]),
         NEW u \in Threads, Move(t, i, u)
  PROVE  PoolInv'
<1>1. TypeOK /\ Pushing /\ Homes /\ HeldBounded
  BY DEF PoolInv
<1>2. PICK kind, who, d, sz : Located(kind, who, d, sz)
  BY DEF PoolInv
<1>3. /\ Placed(kind, who) /\ HeldPlaced(kind, who) /\ CachePlaced(kind, who)
      /\ PushPlaced(kind, who) /\ LostPlaced(kind)
  BY <1>2 DEF Located
<1>4. PICK e, n, s : e = held[t][i] /\ n = e.node /\ s = held[u]
  OBVIOUS
<1>w. PICK w : LetGo(w, t, i, kind, who)
  BY <1>1, <1>3, WithoutOne
<1>5. /\ w = Without(held[t], i) /\ w \in Seq(Handles) /\ Len(w) = Len(held[t]) - 1
      /\ HoldsOnce(w) /\ e \in Handles
      /\ \A j \in 1..Len(w) : \E k \in 1..Len(held[t]) : w[j] = held[t][k]
      /\ \A m \in Nodes : Holds(w, m) <=> Holds(held[t], m) /\ m # n
      /\ n \in Nodes => kind[n] = "held" /\ who[n] = t
  BY <1>4, <1>w DEF LetGo
<1>6. /\ pc[t] = "idle" /\ pc[u] = "idle" /\ t # u /\ Len(s) < MaxHeld
      /\ held' = [held EXCEPT ![t] = w, ![u] = Append(@, e)]
      /\ head' = head /\ next' = next /\ tag' = tag /\ cache' = cache /\ lost' = lost
      /\ pc' = pc /\ at' = at /\ node' = node /\ old_head' = old_head /\ new_head' = new_head
  BY <1>4, <1>5 DEF Move, local
<1>7. PICK a : a = Append(s, e)
  OBVIOUS
<1>8. /\ held'[t] = w /\ held'[u] = a /\ s \in Seq(Handles) /\ Len(s) \in Nat
      /\ \A v \in Threads \ {t, u} : held'[v] = held[v]
  BY <1>1, <1>4, <1>6, <1>7 DEF TypeOK
<1>9. /\ a \in Seq(Handles) /\ Len(a) = Len(s) + 1 /\ a[Len(s) + 1] = e
      /\ \A j \in 1..Len(s) : a[j] = s[j]
  BY <1>5, <1>7, <1>8, AppendIs
<1>10. n = NULL \/ n \in Nodes
  BY <1>1, <1>4 DEF Homes, HandlesHome, GoodHandle
<1>11. GoodHandle(e)
  BY <1>1, <1>4 DEF Homes, HandlesHome
<1>12. TypeOK'
  <2>1. held' \in [Threads -> Seq(Handles)]
    BY <1>1, <1>4, <1>5, <1>6, <1>7, <1>9 DEF TypeOK
  <2> QED
    BY <1>1, <1>6, <2>1, HandleKept DEF TypeOK
<1>13. HoldsOnce(s) /\ \A m \in Nodes : m # NULL /\ (Holds(s, m) <=> kind[m] = "held" /\ who[m] = u)
  BY <1>3, <1>4, NodeFacts DEF HeldPlaced
<1>14. n \in Nodes => ~Holds(s, n)
  BY <1>5, <1>6, <1>13
<1>15. HoldsOnce(a) /\ \A x : Holds(a, x) <=> Holds(s, x) \/ x = n
  BY <1>4, <1>5, <1>7, <1>8, <1>10, <1>13, <1>14, HoldsAppend
<1>16. HandlesHome'
  <2>1. \A j \in 1..Len(s) : GoodHandle(s[j])
    BY <1>1, <1>4 DEF Homes, HandlesHome
  <2>2. \A j \in 1..(Len(s) + 1) : j \in 1..Len(s) \/ j = Len(s) + 1
    BY <1>8
  <2>3. \A j \in 1..Len(a) : GoodHandle(a[j])
    BY <1>9, <1>11, <2>1, <2>2
  <2>4. \A j \in 1..Len(w) : GoodHandle(w[j])
    <3> TAKE j \in 1..Len(w)
    <3>1. PICK k \in 1..Len(held[t]) : w[j] = held[t][k]
      BY <1>5
    <3> QED
      BY <1>1, <3>1 DEF Homes, HandlesHome
  <2>5. \A v \in Threads : \A j \in 1..Len(held'[v]) : GoodHandle(held'[v][j])
    <3> TAKE v \in Threads
    <3>1. CASE v = t
      BY <1>8, <2>4, <3>1
    <3>2. CASE v = u
      BY <1>8, <2>3, <3>2
    <3>3. CASE v \in Threads \ {t, u}
      BY <1>1, <1>8, <3>3 DEF Homes, HandlesHome
    <3> QED
      BY <3>1, <3>2, <3>3
  <2> QED
    BY <2>5, HandleKept DEF HandlesHome
<1>17. CachesHome'
  BY <1>1, <1>6, CachesHomeKept DEF Homes
<1>18. HeldBounded'
  <2>1. Len(w) <= MaxHeld /\ Len(a) <= MaxHeld
    <3>1. Len(held[t]) \in Nat /\ Len(held[t]) <= MaxHeld
      BY <1>1 DEF TypeOK, HeldBounded
    <3> QED
      BY <1>5, <1>6, <1>8, <1>9, <3>1, PoolAssumption
  <2>2. pc'[t] \notin PopStates /\ pc'[u] \notin PopStates
    BY <1>6 DEF PopStates
  <2>3. ASSUME NEW v \in Threads
        PROVE  Len(held'[v]) <= MaxHeld /\ (pc'[v] \in PopStates => Len(held'[v]) < MaxHeld)
    <3>1. CASE v \in {t, u}
      BY <1>8, <2>1, <2>2, <3>1
    <3>2. CASE v \in Threads \ {t, u}
      BY <1>1, <1>6, <1>8, <3>2 DEF HeldBounded
    <3> QED
      BY <3>1, <3>2
  <2> QED
    BY <2>3 DEF HeldBounded
<1>19. Acts(t) /\ PushKnows(t)' /\ \A k2, w2 : PopKnows(t, k2, w2)'
  BY <1>1, <1>6, IdleKnows
<1>20. CASE n = NULL
  <2>1. \A v \in Threads : /\ HoldsOnce(held'[v])
                           /\ \A m \in Nodes : Holds(held'[v], m) <=> Holds(held[v], m)
    <3> TAKE v \in Threads
    <3>1. CASE v = t
      BY <1>5, <1>8, <1>13, <1>20, <3>1
    <3>2. CASE v = u
      BY <1>4, <1>8, <1>13, <1>15, <1>20, <3>2
    <3>3. CASE v \in Threads \ {t, u}
      BY <1>3, <1>8, <3>3 DEF HeldPlaced
    <3> QED
      BY <3>1, <3>2, <3>3
  <2>2. Pushing' /\ Located(kind, who, d, sz)'
    BY <1>1, <1>2, <1>6, <1>19, <2>1, QuietStep
  <2> QED
    BY <1>12, <1>16, <1>17, <1>18, <2>2 DEF PoolInv, Homes
<1>21. CASE n \in Nodes
  <2>1. PICK k2, w2 : Moved(kind, who, k2, w2, n, "held", u)
    BY <1>21, Movable
  <2>2. /\ kind[n] \notin {"cache", "push", "lost", "list"}
        /\ "held" # "push" /\ "held" # "cache" /\ "held" # "lost" /\ "held" # "list"
        /\ pc[t] # "push_load"
    BY <1>5, <1>6, <1>21
  <2>3. Lined(k2, d, sz)' /\ Pushing' /\ Popping(k2, w2)'
    BY <1>1, <1>2, <1>6, <1>19, <1>21, <2>1, <2>2, OffList
  <2>4. Placed(k2, w2)'
    BY <1>3, <1>21, <2>1, PlacedMoved DEF Kinds
  <2>5. CachePlaced(k2, w2)' /\ PushPlaced(k2, w2)' /\ LostPlaced(k2)'
    BY <1>3, <1>6, <1>21, <2>1, <2>2, OthersPlaced
  <2>6. ASSUME NEW v \in Threads
        PROVE  /\ HoldsOnce(held'[v])
               /\ \A m \in Nodes : Holds(held'[v], m) <=> k2[m] = "held" /\ w2[m] = v
    <3>1. HoldsOnce(held'[v])
      <4>1. CASE v \in {t, u}
        BY <1>5, <1>8, <1>15, <4>1
      <4>2. CASE v \in Threads \ {t, u}
        BY <1>3, <1>8, <4>2 DEF HeldPlaced
      <4> QED
        BY <4>1, <4>2
    <3>2. ASSUME NEW m \in Nodes PROVE Holds(held'[v], m) <=> k2[m] = "held" /\ w2[m] = v
      <4>1. Holds(held[v], m) <=> kind[m] = "held" /\ who[m] = v
        BY <1>3 DEF HeldPlaced
      <4>2. m # n => k2[m] = kind[m] /\ w2[m] = who[m]
        BY <2>1 DEF Moved
      <4>3. m = n => k2[m] = "held" /\ w2[m] = u /\ kind[m] = "held" /\ who[m] = t
        BY <1>5, <1>21, <2>1 DEF Moved
      <4>4. CASE v = t
        BY <1>5, <1>6, <1>8, <4>1, <4>2, <4>3, <4>4
      <4>5. CASE v = u
        BY <1>4, <1>8, <1>15, <4>1, <4>2, <4>3, <4>5
      <4>6. CASE v \in Threads \ {t, u}
        BY <1>8, <4>1, <4>2, <4>3, <4>6
      <4> QED
        BY <4>4, <4>5, <4>6
    <3> QED
      BY <3>1, <3>2
  <2>7. HeldPlaced(k2, w2)'
    BY <2>6 DEF HeldPlaced
  <2>8. Located(k2, w2, d, sz)'
    BY <2>3, <2>4, <2>5, <2>7 DEF Located
  <2> QED
    BY <1>12, <1>16, <1>17, <1>18, <2>3, <2>8 DEF PoolInv, Homes
<1> QED
  BY <1>10, <1>20, <1>21

-----------------------------------------------------------------------------
(* push_into and the CAS of pop_one_node.                                  *)

LEMMA PushLoadStep ==
  ASSUME PoolInv, use' = use, NEW t \in Threads, PushLoad(t)
  PROVE  PoolInv'
<1>1. TypeOK /\ Pushing /\ Homes /\ HeldBounded
  BY DEF PoolInv
<1>2. PICK kind, who, d, sz : Located(kind, who, d, sz)
  BY DEF PoolInv
<1>3. /\ Placed(kind, who) /\ HeldPlaced(kind, who) /\ CachePlaced(kind, who)
      /\ PushPlaced(kind, who) /\ LostPlaced(kind) /\ Lined(kind, d, sz) /\ Popping(kind, who)
  BY <1>2 DEF Located
<1>4. PICK n, r : n = node[t] /\ r = make_tagged_index(n[2], tag[n])
  OBVIOUS
<1>5. /\ pc[t] = "push_load" /\ old_head' = [old_head EXCEPT ![t] = head[at[t]]]
      /\ new_head' = [new_head EXCEPT ![t] = r] /\ tag' = [tag EXCEPT ![n] = @ + 1]
      /\ pc' = [pc EXCEPT ![t] = "push_next"]
      /\ head' = head /\ next' = next /\ cache' = cache /\ held' = held
      /\ lost' = lost /\ at' = at /\ node' = node
  BY <1>4 DEF PushLoad, advance_tag, Goto
<1>6. n \in Nodes /\ at[t] = ListOf(n) /\ tag[n] <= MaxTag
  BY <1>1, <1>4, <1>5 DEF Pushing, PushKnows, PushStates
<1>7. tag[n] \in Nat /\ tag[n] >= 1 /\ tag'[n] = tag[n] + 1 /\ \A m \in Nodes \ {n} : tag'[m] = tag[m]
  BY <1>1, <1>5, <1>6, PoolAssumption DEF TypeOK
<1>8. r = <<n[2], tag[n]>>
  BY <1>4, <1>6, <1>7, MakeRef
<1>9. r = Ref(n)'
  BY <1>7, <1>8 DEF Ref
<1>10. kind[n] = "push" /\ who[n] = t
  BY <1>3, <1>4, <1>6 DEF PushPlaced
<1>11. head[at[t]] \in Tagged \cup {NULL}
  BY <1>1, <1>6, ListFacts DEF TypeOK
<1>12. r \in Tagged
  BY <1>6, <1>7, <1>8, NodeFacts, PoolAssumption, TagAssumption DEF Tagged, Indices
<1>13. TypeOK'
  <2>1. tag' \in [Nodes -> 1..(MaxTag + 1)]
    BY <1>1, <1>5, <1>6, <1>7, PoolAssumption DEF TypeOK
  <2> QED
    BY <1>1, <1>5, <1>11, <1>12, <2>1, HandleKept DEF TypeOK
<1>14. Acts(t) /\ pc'[t] = "push_next" /\ new_head'[t] = r
  BY <1>1, <1>5 DEF Acts, TypeOK
<1>15. /\ Placed(kind, who)' /\ HeldPlaced(kind, who)' /\ CachePlaced(kind, who)'
       /\ PushPlaced(kind, who)' /\ LostPlaced(kind)'
  BY <1>3, <1>5, HeldUntouched, PlacesKept
<1>16. Lined(kind, d, sz)'
  <2>1. \A m \in Nodes : kind[m] = "list" => next'[m] = next[m] /\ tag'[m] = tag[m]
    BY <1>5, <1>7, <1>10
  <2> QED
    BY <1>3, <1>5, <2>1, LinedKept
<1>17. Pushing'
  <2>1. ASSUME NEW u \in Threads PROVE PushKnows(u)'
    <3>1. CASE u = t
      <4>1. ListOf(n)' = ListOf(n)
        BY DEF ListOf, is_collective, collective_num
      <4> QED
        BY <1>4, <1>5, <1>6, <1>9, <1>14, <3>1, <4>1 DEF PushKnows, PushStates
    <3>2. CASE u # t
      <4>1. PushKnows(u) /\ pc'[u] = pc[u] /\ at'[u] = at[u] /\ node'[u] = node[u]
            /\ old_head'[u] = old_head[u] /\ new_head'[u] = new_head[u]
        BY <1>1, <1>14, <3>2 DEF Pushing, Acts
      <4>2. node[u] # n
        BY <1>3, <1>6, <1>10, <3>2 DEF PushPlaced
      <4>3. pc[u] \in PushStates => node[u] \in Nodes
        BY <4>1 DEF PushKnows
      <4>4. pc[u] \in PushStates => /\ tag'[node[u]] = tag[node[u]]
                                    /\ next'[node[u]] = next[node[u]]
        BY <1>5, <1>7, <4>2, <4>3
      <4> QED
        BY <4>1, <4>4, PushKept
    <3> QED
      BY <3>1, <3>2
  <2> QED
    BY <2>1 DEF Pushing
<1>18. Popping(kind, who)'
  <2>1. ASSUME NEW u \in Threads PROVE PopKnows(u, kind, who)'
    <3>1. CASE u = t
      BY <1>14, <3>1 DEF PopKnows, PopStates
    <3>2. CASE u # t
      <4>1. /\ PopKnows(u, kind, who) /\ pc'[u] = pc[u] /\ at'[u] = at[u]
            /\ old_head'[u] = old_head[u] /\ new_head'[u] = new_head[u]
        BY <1>3, <1>14, <3>2 DEF Popping, Acts
      <4>2. ASSUME NEW m \in Nodes
            PROVE  \/ tag'[m] = tag[m] + 1 /\ next'[m] = next[m]
                   \/ /\ tag'[m] = tag[m]
                      /\ Renewed(m, kind, who)' => Renewed(m, kind, who)
                      /\ next'[m] = next[m] \/ Renewed(m, kind, who)
        <5>1. CASE m = n
          BY <1>5, <1>7, <5>1
        <5>2. CASE m # n
          <6>1. kind[m] = "push" => who[m] \in Threads \ {t}
            BY <1>3, <1>4, <5>2 DEF Placed, PushPlaced
          <6>2. Renewed(m, kind, who)' => Renewed(m, kind, who)
            BY <1>14, <6>1 DEF Renewed, Acts
          <6> QED
            BY <1>5, <1>7, <5>2, <6>2
        <5> QED
          BY <5>1, <5>2
      <4> QED
        BY <1>1, <4>1, <4>2, PopKept
    <3> QED
      BY <3>1, <3>2
  <2> QED
    BY <2>1 DEF Popping
<1>19. Homes'
  BY <1>1, <1>5, HomesKept
<1>20. HeldBounded'
  BY <1>1, <1>5 DEF HeldBounded, TypeOK, PopStates
<1>21. Located(kind, who, d, sz)'
  BY <1>15, <1>16, <1>18 DEF Located
<1> QED
  BY <1>13, <1>17, <1>19, <1>20, <1>21 DEF PoolInv

LEMMA PushNextStep ==
  ASSUME PoolInv, use' = use, NEW t \in Threads, PushNext(t)
  PROVE  PoolInv'
<1>1. TypeOK /\ Pushing /\ Homes /\ HeldBounded
  BY DEF PoolInv
<1>2. PICK kind, who, d, sz : Located(kind, who, d, sz)
  BY DEF PoolInv
<1>3. /\ Placed(kind, who) /\ HeldPlaced(kind, who) /\ CachePlaced(kind, who)
      /\ PushPlaced(kind, who) /\ LostPlaced(kind) /\ Lined(kind, d, sz) /\ Popping(kind, who)
  BY <1>2 DEF Located
<1>4. PICK n : n = node[t]
  OBVIOUS
<1>5. /\ pc[t] = "push_next" /\ next' = [next EXCEPT ![n] = old_head[t]]
      /\ pc' = [pc EXCEPT ![t] = "push_cas"]
      /\ head' = head /\ tag' = tag /\ cache' = cache /\ held' = held /\ lost' = lost
      /\ at' = at /\ node' = node /\ old_head' = old_head /\ new_head' = new_head
  BY <1>4 DEF PushNext, Goto
<1>6. n \in Nodes /\ at[t] = ListOf(n) /\ new_head[t] = Ref(n)
  BY <1>1, <1>4, <1>5 DEF Pushing, PushKnows, PushStates
<1>7. next'[n] = old_head[t] /\ \A m \in Nodes \ {n} : next'[m] = next[m]
  BY <1>1, <1>5, <1>6 DEF TypeOK
<1>10. kind[n] = "push" /\ who[n] = t
  BY <1>3, <1>4, <1>6 DEF PushPlaced
<1>13. TypeOK'
  BY <1>1, <1>5, HandleKept DEF TypeOK
<1>14. Acts(t) /\ pc'[t] = "push_cas"
  BY <1>1, <1>5 DEF Acts, TypeOK
<1>15. /\ Placed(kind, who)' /\ HeldPlaced(kind, who)' /\ CachePlaced(kind, who)'
       /\ PushPlaced(kind, who)' /\ LostPlaced(kind)'
  BY <1>3, <1>5, HeldUntouched, PlacesKept
<1>16. Lined(kind, d, sz)'
  <2>1. \A m \in Nodes : kind[m] = "list" => next'[m] = next[m] /\ tag'[m] = tag[m]
    BY <1>5, <1>7, <1>10
  <2> QED
    BY <1>3, <1>5, <2>1, LinedKept
<1>17. Pushing'
  <2>1. ASSUME NEW u \in Threads PROVE PushKnows(u)'
    <3>1. CASE u = t
      <4>1. ListOf(n)' = ListOf(n) /\ Ref(n)' = Ref(n)
        BY <1>5 DEF ListOf, is_collective, collective_num, Ref
      <4> QED
        BY <1>4, <1>5, <1>6, <1>7, <1>14, <3>1, <4>1 DEF PushKnows, PushStates
    <3>2. CASE u # t
      <4>1. PushKnows(u) /\ pc'[u] = pc[u] /\ at'[u] = at[u] /\ node'[u] = node[u]
            /\ old_head'[u] = old_head[u] /\ new_head'[u] = new_head[u]
        BY <1>1, <1>14, <3>2 DEF Pushing, Acts
      <4>2. node[u] # n
        BY <1>3, <1>6, <1>10, <3>2 DEF PushPlaced
      <4>3. pc[u] \in PushStates => node[u] \in Nodes
        BY <4>1 DEF PushKnows
      <4>4. pc[u] \in PushStates => /\ tag'[node[u]] = tag[node[u]]
                                    /\ next'[node[u]] = next[node[u]]
        BY <1>5, <1>7, <4>2, <4>3
      <4> QED
        BY <4>1, <4>4, PushKept
    <3> QED
      BY <3>1, <3>2
  <2> QED
    BY <2>1 DEF Pushing
<1>18. Popping(kind, who)'
  <2>1. ASSUME NEW u \in Threads PROVE PopKnows(u, kind, who)'
    <3>1. CASE u = t
      BY <1>14, <3>1 DEF PopKnows, PopStates
    <3>2. CASE u # t
      <4>1. /\ PopKnows(u, kind, who) /\ pc'[u] = pc[u] /\ at'[u] = at[u]
            /\ old_head'[u] = old_head[u] /\ new_head'[u] = new_head[u]
        BY <1>3, <1>14, <3>2 DEF Popping, Acts
      <4>2. Renewed(n, kind, who)
        BY <1>5, <1>10 DEF Renewed
      <4>3. Renews(kind, who, kind, who)
        BY <1>1, <1>3, <1>5, <1>14, StaysRenewed
      <4>4. ASSUME NEW m \in Nodes
            PROVE  /\ tag'[m] = tag[m]
                   /\ Renewed(m, kind, who)' => Renewed(m, kind, who)
                   /\ next'[m] = next[m] \/ Renewed(m, kind, who)
        BY <1>5, <1>7, <4>2, <4>3 DEF Renews
      <4> QED
        BY <1>1, <4>1, <4>4, PopKept
    <3> QED
      BY <3>1, <3>2
  <2> QED
    BY <2>1 DEF Popping
<1>19. Homes'
  BY <1>1, <1>5, HomesKept
<1>20. HeldBounded'
  BY <1>1, <1>5 DEF HeldBounded, TypeOK, PopStates
<1>21. Located(kind, who, d, sz)'
  BY <1>15, <1>16, <1>18 DEF Located
<1> QED
  BY <1>13, <1>17, <1>19, <1>20, <1>21 DEF PoolInv

\* A node put before the head of its list.
LEMMA LinedPush ==
  ASSUME TypeOK, NEW kind, NEW d, NEW sz, Lined(kind, d, sz), NEW n \in Nodes, NEW h,
         kind[n] # "list", h = ListOf(n), next[n] = head[h],
         use' = use, next' = next, tag' = tag,
         head'[h] = Ref(n), \A g \in (Pools \X Lists) \ {h} : head'[g] = head[g],
         NEW k2, k2[n] = "list", \A m \in Nodes \ {n} : k2[m] = kind[m],
         NEW d2, d2[n] = sz[h], \A m \in Nodes \ {n} : d2[m] = d[m],
         NEW s2, s2[h] = sz[h] + 1, \A g \in (Pools \X Lists) \ {h} : s2[g] = sz[g]
  PROVE  Lined(k2, d2, s2)'
<1>1. \A m \in Nodes : ListOf(m)' = ListOf(m) /\ Ref(m)' = Ref(m)
  BY DEF ListOf, is_collective, collective_num, Ref
<1>2. h \in Pools \X Lists /\ sz[h] \in Nat /\ Leads(head[h], h, sz[h], kind, d)
  BY ListFacts DEF Lined
<1>3. ASSUME NEW x, NEW g, NEW k, Leads(x, g, k, kind, d) PROVE Leads(x, g, k, k2, d2)'
  <2>1. CASE k = 0 /\ x = NULL
    BY <2>1 DEF Leads
  <2>2. CASE k > 0 /\ \E m \in OnTop(g, k - 1, kind, d) : x = Ref(m)
    <3>1. PICK m \in OnTop(g, k - 1, kind, d) : x = Ref(m)
      BY <2>2
    <3>2. m \in Nodes /\ kind[m] = "list" /\ ListOf(m) = g /\ d[m] = k - 1
      BY <3>1 DEF OnTop
    <3>3. m # n
      BY <3>2
    <3>4. m \in OnTop(g, k - 1, k2, d2)'
      BY <1>1, <3>2, <3>3 DEF OnTop
    <3>5. x = Ref(m)'
      BY <1>1, <3>1, <3>2
    <3> QED
      BY <2>2, <3>4, <3>5 DEF Leads
  <2> QED
    BY <1>3, <2>1, <2>2 DEF Leads
<1>4. ASSUME NEW g \in Pools \X Lists PROVE s2[g] \in Nat /\ Leads(head[g], g, s2[g], k2, d2)'
  <2>1. CASE g # h
    <3>1. sz[g] \in Nat /\ Leads(head[g], g, sz[g], kind, d) /\ s2[g] = sz[g] /\ head'[g] = head[g]
      BY <2>1 DEF Lined
    <3>2. PICK x : x = head[g]
      OBVIOUS
    <3>3. Leads(x, g, sz[g], k2, d2)'
      BY <1>3, <3>1, <3>2
    <3> QED
      BY <3>1, <3>2, <3>3
  <2>2. CASE g = h
    <3>1. n \in OnTop(h, s2[h] - 1, k2, d2)'
      BY <1>1, <1>2 DEF OnTop
    <3>2. s2[h] \in Nat /\ s2[h] > 0 /\ head'[h] = Ref(n)'
      BY <1>1, <1>2
    <3>3. Leads(head[h], h, s2[h], k2, d2)'
      BY <3>1, <3>2 DEF Leads
    <3> QED
      BY <2>2, <3>2, <3>3
  <2> QED
    BY <2>1, <2>2
<1>5. ASSUME NEW m \in Nodes, k2[m] = "list"
      PROVE  d2[m] \in Nat /\ d2[m] < s2[ListOf(m)] /\ Leads(next[m], ListOf(m), d2[m], k2, d2)'
  <2>1. CASE m # n
    <3>1. kind[m] = "list" /\ d2[m] = d[m]
      BY <1>5, <2>1
    <3>2. PICK x, g, k : x = next[m] /\ g = ListOf(m) /\ k = d[m]
      OBVIOUS
    <3>3. g \in Pools \X Lists /\ sz[g] \in Nat /\ k \in Nat /\ k < sz[g] /\ Leads(x, g, k, kind, d)
      BY <3>1, <3>2, ListFacts DEF Lined
    <3>4. k < s2[g]
      BY <3>3
    <3>5. Leads(x, g, k, k2, d2)'
      BY <1>3, <3>3
    <3>6. next'[m] = x /\ ListOf(m)' = g
      BY <1>1, <3>2
    <3> QED
      BY <3>1, <3>2, <3>3, <3>4, <3>5, <3>6
  <2>2. CASE m = n
    <3>1. PICK x : x = head[h]
      OBVIOUS
    <3>2. Leads(x, h, sz[h], k2, d2)'
      BY <1>2, <1>3, <3>1
    <3>3. next'[m] = x /\ ListOf(m)' = h /\ d2[m] = sz[h]
      BY <1>1, <2>2, <3>1
    <3>4. sz[h] < s2[h]
      BY <1>2
    <3> QED
      BY <1>2, <2>2, <3>2, <3>3, <3>4
  <2> QED
    BY <2>1, <2>2
<1>6. ASSUME NEW l \in Nodes, NEW m \in Nodes,
             k2[l] = "list", k2[m] = "list", ListOf(l) = ListOf(m), d2[l] = d2[m]
      PROVE  l = m
  <2>1. \A q \in Nodes : q # n /\ k2[q] = "list" /\ ListOf(q) = h => d2[q] \in Nat /\ d2[q] < sz[h]
    BY DEF Lined
  <2>2. CASE l = n /\ m # n
    BY <1>2, <1>6, <2>1, <2>2
  <2>3. CASE l # n /\ m = n
    BY <1>2, <1>6, <2>1, <2>3
  <2>4. CASE l # n /\ m # n
    BY <1>6, <2>4 DEF Lined
  <2> QED
    BY <2>2, <2>3, <2>4
<1> QED
  BY <1>1, <1>4, <1>5, <1>6 DEF Lined

\* The head of a list taken off.
LEMMA LinedPop ==
  ASSUME TypeOK, NEW kind, NEW d, NEW sz, Lined(kind, d, sz), NEW n \in Nodes, NEW h,
         kind[n] = "list", h = ListOf(n), d[n] = sz[h] - 1,
         use' = use, next' = next, tag' = tag,
         head'[h] = next[n], \A g \in (Pools \X Lists) \ {h} : head'[g] = head[g],
         NEW k2, k2[n] # "list", \A m \in Nodes \ {n} : k2[m] = kind[m],
         NEW s2, s2[h] = sz[h] - 1, \A g \in (Pools \X Lists) \ {h} : s2[g] = sz[g]
  PROVE  Lined(k2, d, s2)'
<1>1. \A m \in Nodes : ListOf(m)' = ListOf(m) /\ Ref(m)' = Ref(m)
  BY DEF ListOf, is_collective, collective_num, Ref
<1>2. /\ h \in Pools \X Lists /\ sz[h] \in Nat /\ d[n] \in Nat
      /\ Leads(next[n], h, d[n], kind, d)
  BY ListFacts DEF Lined
<1>3. ASSUME NEW x, NEW g, NEW k \in Nat, g = h => k < sz[h], Leads(x, g, k, kind, d)
      PROVE  Leads(x, g, k, k2, d)'
  <2>1. CASE k = 0 /\ x = NULL
    BY <2>1 DEF Leads
  <2>2. CASE k > 0 /\ \E m \in OnTop(g, k - 1, kind, d) : x = Ref(m)
    <3>1. PICK m \in OnTop(g, k - 1, kind, d) : x = Ref(m)
      BY <2>2
    <3>2. m \in Nodes /\ kind[m] = "list" /\ ListOf(m) = g /\ d[m] = k - 1
      BY <3>1 DEF OnTop
    <3>3. m # n
      BY <1>2, <1>3, <3>2
    <3>4. m \in OnTop(g, k - 1, k2, d)'
      BY <1>1, <3>2, <3>3 DEF OnTop
    <3>5. x = Ref(m)'
      BY <1>1, <3>1, <3>2
    <3> QED
      BY <2>2, <3>4, <3>5 DEF Leads
  <2> QED
    BY <1>3, <2>1, <2>2 DEF Leads
<1>4. ASSUME NEW g \in Pools \X Lists PROVE s2[g] \in Nat /\ Leads(head[g], g, s2[g], k2, d)'
  <2>1. CASE g # h
    <3>1. sz[g] \in Nat /\ Leads(head[g], g, sz[g], kind, d) /\ s2[g] = sz[g] /\ head'[g] = head[g]
      BY <2>1 DEF Lined
    <3>2. PICK x : x = head[g]
      OBVIOUS
    <3>3. Leads(x, g, sz[g], k2, d)'
      BY <1>3, <2>1, <3>1, <3>2
    <3> QED
      BY <3>1, <3>2, <3>3
  <2>2. CASE g = h
    <3>1. PICK x, k : x = next[n] /\ k = d[n]
      OBVIOUS
    <3>2. k \in Nat /\ k < sz[h] /\ s2[h] = k /\ head'[h] = x
      BY <1>2, <3>1
    <3>3. Leads(x, h, k, k2, d)'
      BY <1>2, <1>3, <3>1, <3>2
    <3> QED
      BY <2>2, <3>2, <3>3
  <2> QED
    BY <2>1, <2>2
<1>5. ASSUME NEW m \in Nodes, k2[m] = "list"
      PROVE  d[m] \in Nat /\ d[m] < s2[ListOf(m)] /\ Leads(next[m], ListOf(m), d[m], k2, d)'
  <2>1. m # n /\ kind[m] = "list"
    BY <1>5
  <2>2. PICK x, g, k : x = next[m] /\ g = ListOf(m) /\ k = d[m]
    OBVIOUS
  <2>3. g \in Pools \X Lists /\ sz[g] \in Nat /\ k \in Nat /\ k < sz[g] /\ Leads(x, g, k, kind, d)
    BY <2>1, <2>2, ListFacts DEF Lined
  <2>4. g = h => k # d[n]
    BY <2>1, <2>2 DEF Lined
  <2>5. k < s2[g]
    <3>1. CASE g = h
      BY <1>2, <2>3, <2>4, <3>1
    <3>2. CASE g # h
      BY <2>3, <3>2
    <3> QED
      BY <3>1, <3>2
  <2>6. Leads(x, g, k, k2, d)'
    BY <1>3, <2>3
  <2>7. next'[m] = x /\ ListOf(m)' = g
    BY <1>1, <2>2
  <2> QED
    BY <2>2, <2>3, <2>5, <2>6, <2>7
<1>6. ASSUME NEW l \in Nodes, NEW m \in Nodes,
             k2[l] = "list", k2[m] = "list", ListOf(l) = ListOf(m), d[l] = d[m]
      PROVE  l = m
  BY <1>6 DEF Lined
<1> QED
  BY <1>1, <1>4, <1>5, <1>6 DEF Lined

\* The locals after Return.
LEMMA Returned ==
  ASSUME TypeOK, NEW t \in Threads, Return(t), NEW k2, NEW w2
  PROVE  /\ Acts(t) /\ pc'[t] = "idle" /\ node'[t] = NULL
         /\ PushKnows(t)' /\ PopKnows(t, k2, w2)'
<1>1. Acts(t) /\ pc'[t] = "idle" /\ node'[t] = NULL
  BY DEF Return, Goto, Acts, TypeOK
<1>2. PushKnows(t)'
  BY <1>1 DEF PushKnows, PushStates
<1>3. PopKnows(t, k2, w2)'
  BY <1>1 DEF PopKnows, PopStates
<1> QED
  BY <1>1, <1>2, <1>3

LEMMA PushCasStep ==
  ASSUME PoolInv, use' = use, NEW t \in Threads, PushCas(t)
  PROVE  PoolInv'
<1>1. TypeOK /\ Pushing /\ Homes /\ HeldBounded
  BY DEF PoolInv
<1>2. PICK kind, who, d, sz : Located(kind, who, d, sz)
  BY DEF PoolInv
<1>3. /\ Placed(kind, who) /\ HeldPlaced(kind, who) /\ CachePlaced(kind, who)
      /\ PushPlaced(kind, who) /\ LostPlaced(kind) /\ Lined(kind, d, sz) /\ Popping(kind, who)
  BY <1>2 DEF Located
<1>4. PICK n, h : n = node[t] /\ h = at[t]
  OBVIOUS
<1>5. /\ pc[t] = "push_cas" /\ head[h] = old_head[t]
      /\ head' = [head EXCEPT ![h] = new_head[t]] /\ Return(t)
      /\ next' = next /\ tag' = tag /\ cache' = cache /\ held' = held /\ lost' = lost
  BY <1>4 DEF PushCas
<1>6. n \in Nodes /\ h = ListOf(n) /\ new_head[t] = Ref(n) /\ next[n] = head[h]
  BY <1>1, <1>4, <1>5 DEF Pushing, PushKnows, PushStates
<1>7. kind[n] = "push" /\ who[n] = t
  BY <1>3, <1>4, <1>6 DEF PushPlaced
<1>8. h \in Pools \X Lists
  BY <1>6, ListFacts
<1>9. head'[h] = Ref(n) /\ \A g \in (Pools \X Lists) \ {h} : head'[g] = head[g]
  BY <1>1, <1>5, <1>6, <1>8 DEF TypeOK
<1>10. TypeOK'
  BY <1>1, <1>5, <1>8, HandleKept DEF TypeOK, Return, Goto
<1>11. PICK k2, w2 : Moved(kind, who, k2, w2, n, "list", NULL)
  BY <1>6, Movable
<1>12. Acts(t) /\ pc'[t] = "idle" /\ node'[t] = NULL /\ PushKnows(t)' /\ PopKnows(t, k2, w2)'
  BY <1>1, <1>5, Returned
<1>13. PICK d2 : d2[n] = sz[h] /\ \A m \in Nodes \ {n} : d2[m] = d[m]
  <2>1. PICK f : f = [m \in Nodes |-> IF m = n THEN sz[h] ELSE d[m]]
    OBVIOUS
  <2>2. f[n] = sz[h] /\ \A m \in Nodes \ {n} : f[m] = d[m]
    BY <1>6, <2>1
  <2> QED
    BY <2>2
<1>14. PICK s2 : s2[h] = sz[h] + 1 /\ \A g \in (Pools \X Lists) \ {h} : s2[g] = sz[g]
  <2>1. PICK f : f = [g \in Pools \X Lists |-> IF g = h THEN sz[h] + 1 ELSE sz[g]]
    OBVIOUS
  <2>2. f[h] = sz[h] + 1 /\ \A g \in (Pools \X Lists) \ {h} : f[g] = sz[g]
    BY <1>8, <2>1
  <2> QED
    BY <2>2
<1>15. /\ kind[n] \notin {"held", "cache", "lost", "list"}
       /\ "list" # "held" /\ "list" # "cache" /\ "list" # "lost" /\ "list" # "push"
       /\ pc[t] # "push_load"
  BY <1>5, <1>7
<1>16. k2[n] = "list" /\ \A m \in Nodes \ {n} : k2[m] = kind[m] /\ w2[m] = who[m]
  BY <1>11 DEF Moved
<1>17. Lined(k2, d2, s2)'
  BY <1>1, <1>3, <1>5, <1>6, <1>9, <1>13, <1>14, <1>15, <1>16, LinedPush
<1>18. Renews(kind, who, k2, w2)
  BY <1>3, <1>6, <1>11, <1>12, <1>15, RenewsMoved
<1>19. Pushing' /\ Popping(k2, w2)'
  BY <1>1, <1>3, <1>5, <1>12, <1>18, KnownKept
<1>20. Placed(k2, w2)'
  BY <1>3, <1>6, <1>11, <1>15, PlacedMoved DEF Kinds
<1>21. HeldPlaced(k2, w2)' /\ CachePlaced(k2, w2)' /\ LostPlaced(k2)'
  BY <1>3, <1>5, <1>6, <1>11, <1>15, OthersPlaced
<1>22. ASSUME NEW u \in Threads, NEW m \in Nodes
       PROVE  node'[u] = m <=> k2[m] = "push" /\ w2[m] = u
  <2>1. node[u] = m <=> kind[m] = "push" /\ who[m] = u
    BY <1>3 DEF PushPlaced
  <2>2. m # NULL
    BY NodeFacts
  <2>3. u # t => node'[u] = node[u]
    BY <1>12 DEF Acts
  <2>4. CASE m = n
    BY <1>7, <1>12, <1>15, <1>16, <2>1, <2>2, <2>3, <2>4
  <2>5. CASE m # n
    BY <1>4, <1>12, <1>16, <2>1, <2>2, <2>3, <2>5
  <2> QED
    BY <2>4, <2>5
<1>23. PushPlaced(k2, w2)'
  BY <1>22 DEF PushPlaced
<1>24. Homes'
  BY <1>1, <1>5, HomesKept
<1>25. HeldBounded'
  <2>1. \A u \in Threads : pc'[u] \in PopStates => pc[u] \in PopStates
    BY <1>12 DEF Acts, PopStates
  <2> QED
    BY <1>1, <1>5, <2>1 DEF HeldBounded
<1>26. Located(k2, w2, d2, s2)'
  BY <1>17, <1>19, <1>20, <1>21, <1>23 DEF Located
<1> QED
  BY <1>10, <1>19, <1>24, <1>25, <1>26 DEF PoolInv

\* The CAS of pop_one_node succeeds only on a head whose successor it has read.
LEMMA PopCasStep ==
  ASSUME PoolInv, use' = use, NEW t \in Threads, PopCas(t)
  PROVE  PoolInv'
<1>1. TypeOK /\ Pushing /\ Homes /\ HeldBounded
  BY DEF PoolInv
<1>2. PICK kind, who, d, sz : Located(kind, who, d, sz)
  BY DEF PoolInv
<1>3. /\ Placed(kind, who) /\ HeldPlaced(kind, who) /\ CachePlaced(kind, who)
      /\ PushPlaced(kind, who) /\ LostPlaced(kind) /\ Lined(kind, d, sz) /\ Popping(kind, who)
  BY <1>2 DEF Located
<1>4. PICK n, h, e : n = HeadNode(t) /\ h = at[t] /\ e = Handle(n, at[t][1])
  OBVIOUS
<1>5. /\ pc[t] = "pop_cas" /\ head[h] = old_head[t]
      /\ head' = [head EXCEPT ![h] = new_head[t]]
      /\ held' = [held EXCEPT ![t] = Append(@, e)] /\ Return(t)
      /\ next' = next /\ tag' = tag /\ cache' = cache /\ lost' = lost
  BY <1>4 DEF PopCas, Obtain
<1>6. /\ h \in use.pools \X Lists /\ n \in Nodes /\ ListOf(n) = h /\ old_head[t] \in Tagged
      /\ old_head[t][2] = tag[n] - 1 => next[n] = new_head[t]
  BY <1>3, <1>4, <1>5 DEF Popping, PopKnows, PopStates
<1>7. h \in Pools \X Lists /\ h[1] = n[1] /\ h[1] \in use.pools /\ node[t] = NULL
  BY <1>1, <1>5, <1>6, ListFacts DEF Pushing, PushKnows, PushStates
<1>8. PICK m \in Nodes : /\ kind[m] = "list" /\ ListOf(m) = h /\ d[m] = sz[h] - 1
                         /\ head[h] = Ref(m)
  <2>1. head[h] # NULL
    BY <1>5, <1>6, PoolAssumption
  <2> QED
    BY <1>3, <1>7, <2>1 DEF Lined, Leads, OnTop
<1>9. m[2] = n[2]
  BY <1>1, <1>4, <1>5, <1>6, <1>7, <1>8, RefFacts, NodeFacts DEF HeadNode
<1>10. m = n
  BY <1>1, <1>6, <1>8, <1>9, RefFacts
<1>11. new_head[t] = next[n]
  BY <1>1, <1>5, <1>6, <1>8, <1>10, RefFacts
<1>12. head'[h] = next[n] /\ \A g \in (Pools \X Lists) \ {h} : head'[g] = head[g]
  BY <1>1, <1>5, <1>7, <1>11 DEF TypeOK
<1>13. e \in Handles /\ e.node = n /\ GoodHandle(e)
  BY <1>4, <1>6, <1>7, NodeFacts DEF Handles, Handle, GoodHandle
<1>14. /\ held[t] \in Seq(Handles) /\ Len(held[t]) \in Nat /\ held'[t] = Append(held[t], e)
       /\ \A u \in Threads \ {t} : held'[u] = held[u]
  BY <1>1, <1>5 DEF TypeOK
<1>15. Append(held[t], e) \in Seq(Handles) /\ Len(Append(held[t], e)) = Len(held[t]) + 1
  BY <1>13, <1>14, AppendIs
<1>16. TypeOK'
  <2>1. held' \in [Threads -> Seq(Handles)]
    BY <1>1, <1>5, <1>15 DEF TypeOK
  <2> QED
    BY <1>1, <1>5, <1>7, <2>1, HandleKept DEF TypeOK, Return, Goto
<1>17. PICK k2, w2 : Moved(kind, who, k2, w2, n, "held", t)
  BY <1>6, Movable
<1>18. Acts(t) /\ pc'[t] = "idle" /\ node'[t] = NULL /\ PushKnows(t)' /\ PopKnows(t, k2, w2)'
  BY <1>1, <1>5, Returned
<1>19. PICK s2 : s2[h] = sz[h] - 1 /\ \A g \in (Pools \X Lists) \ {h} : s2[g] = sz[g]
  <2>1. PICK f : f = [g \in Pools \X Lists |-> IF g = h THEN sz[h] - 1 ELSE sz[g]]
    OBVIOUS
  <2>2. f[h] = sz[h] - 1 /\ \A g \in (Pools \X Lists) \ {h} : f[g] = sz[g]
    BY <1>7, <2>1
  <2> QED
    BY <2>2
<1>20. /\ kind[n] = "list" /\ kind[n] \notin {"held", "cache", "lost", "push"}
       /\ "held" # "cache" /\ "held" # "lost" /\ "held" # "push" /\ "held" # "list"
       /\ pc[t] # "push_load"
  BY <1>5, <1>8, <1>10
<1>21. k2[n] # "list" /\ \A q \in Nodes \ {n} : k2[q] = kind[q] /\ w2[q] = who[q]
  BY <1>17, <1>20 DEF Moved
<1>22. Lined(k2, d, s2)'
  BY <1>1, <1>3, <1>5, <1>6, <1>8, <1>10, <1>12, <1>19, <1>20, <1>21, LinedPop
<1>23. Renews(kind, who, k2, w2)
  BY <1>3, <1>6, <1>17, <1>18, <1>20, RenewsMoved
<1>24. Pushing' /\ Popping(k2, w2)'
  BY <1>1, <1>3, <1>5, <1>18, <1>23, KnownKept
<1>25. Placed(k2, w2)'
  BY <1>3, <1>6, <1>17, PlacedMoved DEF Kinds
<1>26. node' = node
  BY <1>1, <1>5, <1>7 DEF TypeOK, Return
<1>27. CachePlaced(k2, w2)' /\ PushPlaced(k2, w2)' /\ LostPlaced(k2)'
  BY <1>3, <1>5, <1>6, <1>17, <1>20, <1>26, OthersPlaced
<1>28. HeldPlaced(k2, w2)'
  <2>1. HeldPlaced(kind, who) /\ kind[n] # "held"
    BY <1>3, <1>20
  <2>2. n \in Nodes
    BY <1>6
  <2> QED
    BY <1>13, <1>14, <1>17, <2>1, <2>2, HeldAdds
<1>29. Homes'
  <2>1. HandlesHome'
    BY <1>1, <1>13, <1>14, HandlesAppend DEF Homes
  <2> QED
    BY <1>1, <1>5, <2>1, CachesHomeKept DEF Homes
<1>30. HeldBounded'
  <2>1. Len(held[t]) < MaxHeld
    BY <1>1, <1>5 DEF HeldBounded, PopStates
  <2>2. Len(held'[t]) <= MaxHeld /\ pc'[t] \notin PopStates
    BY <1>14, <1>15, <1>18, <2>1, PoolAssumption DEF PopStates
  <2>3. \A u \in Threads \ {t} : pc'[u] = pc[u]
    BY <1>18 DEF Acts
  <2> QED
    BY <1>1, <1>14, <2>2, <2>3 DEF HeldBounded
<1>31. Located(k2, w2, d, s2)'
  BY <1>22, <1>24, <1>25, <1>27, <1>28 DEF Located
<1> QED
  BY <1>16, <1>24, <1>29, <1>30, <1>31 DEF PoolInv

\* The nodes in the cache of a thread that ends are lost.
LEMMA ThreadExitStep ==
  ASSUME PoolInv, use' = use, NEW t \in Threads, ThreadExit(t)
  PROVE  PoolInv'
<1>1. TypeOK /\ Pushing /\ Homes /\ HeldBounded
  BY DEF PoolInv
<1>2. PICK kind, who, d, sz : Located(kind, who, d, sz)
  BY DEF PoolInv
<1>3. /\ Placed(kind, who) /\ HeldPlaced(kind, who) /\ CachePlaced(kind, who)
      /\ PushPlaced(kind, who) /\ LostPlaced(kind) /\ Lined(kind, d, sz) /\ Popping(kind, who)
  BY <1>2 DEF Located
<1>4. PICK c, s : c = <<t, NULL>> /\ s = cache[c]
  OBVIOUS
<1>5. /\ ~USE_ACC /\ pc[t] = "idle"
      /\ lost' = lost \cup {s[i] : i \in 1..Len(s)} /\ cache' = [cache EXCEPT ![c] = <<>>]
      /\ head' = head /\ next' = next /\ tag' = tag /\ held' = held
      /\ pc' = pc /\ at' = at /\ node' = node /\ old_head' = old_head /\ new_head' = new_head
  BY <1>4 DEF ThreadExit, local
<1>6. c \in Caches
  BY <1>4, <1>5 DEF Caches
<1>7. s \in Seq(Nodes) /\ \A n \in Nodes : Has(s, n) <=> kind[n] = "cache" /\ who[n] = c
  BY <1>1, <1>3, <1>4, <1>6 DEF TypeOK, CachePlaced
<1>8. cache'[c] = <<>> /\ \A b \in Caches \ {c} : cache'[b] = cache[b]
  BY <1>1, <1>5, <1>6 DEF TypeOK
<1>9. \A n \in Nodes : n \in lost' <=> n \in lost \/ Has(s, n)
  BY <1>5 DEF Has
<1>10. TypeOK'
  <2>1. lost' \subseteq Nodes
    BY <1>1, <1>5, <1>7 DEF TypeOK
  <2>2. cache' \in [Caches -> Seq(Nodes)]
    <3>1. PICK z : z = <<>>
      OBVIOUS
    <3>2. z \in Seq(Nodes) /\ cache' = [cache EXCEPT ![c] = z]
      BY <1>5, <3>1
    <3> QED
      BY <1>1, <3>2 DEF TypeOK
  <2>3. \A b \in Caches : Len(cache'[b]) <= TC_CAPACITY
    <3>1. Len(cache'[c]) <= TC_CAPACITY
      BY <1>8, PoolAssumption
    <3> QED
      BY <1>1, <1>8, <3>1 DEF TypeOK
  <2> QED
    BY <1>1, <1>5, <2>1, <2>2, <2>3, HandleKept DEF TypeOK
<1>11. PICK k2 : k2 = [n \in Nodes |-> IF Has(s, n) THEN "lost" ELSE kind[n]]
  OBVIOUS
<1>12. \A n \in Nodes : /\ Has(s, n) => k2[n] = "lost" /\ kind[n] = "cache" /\ who[n] = c
                        /\ ~Has(s, n) => k2[n] = kind[n]
  BY <1>7, <1>11
<1> HIDE <1>11
<1>13. \A n \in Nodes : /\ k2[n] = "list" <=> kind[n] = "list"
                        /\ k2[n] = "held" <=> kind[n] = "held"
                        /\ k2[n] = "push" <=> kind[n] = "push"
                        /\ k2[n] = "lost" <=> kind[n] = "lost" \/ Has(s, n)
                        /\ k2[n] = "cache" <=> kind[n] = "cache" /\ ~Has(s, n)
                        /\ k2[n] \in Kinds
  BY <1>3, <1>12 DEF Placed, Kinds
<1>14. Placed(k2, who)'
  BY <1>3, <1>13, HandleKept DEF Placed
<1>15. HeldPlaced(k2, who)'
  BY <1>3, <1>5, <1>13 DEF HeldPlaced
<1>16. PushPlaced(k2, who)'
  BY <1>3, <1>5, <1>13 DEF PushPlaced
<1>17. LostPlaced(k2)'
  BY <1>3, <1>9, <1>13 DEF LostPlaced
<1>18. CachePlaced(k2, who)'
  <2>1. ASSUME NEW b \in Caches
        PROVE  /\ Once(cache'[b])
               /\ \A n \in Nodes : Has(cache'[b], n) <=> k2[n] = "cache" /\ who[n] = b
    <3>1. CASE b = c
      <4>1. Once(<<>>) /\ \A n : ~Has(<<>>, n)
        BY DEF Once, Has
      <4>2. \A n \in Nodes : ~(k2[n] = "cache" /\ who[n] = c)
        BY <1>7, <1>13
      <4> QED
        BY <1>8, <3>1, <4>1, <4>2
    <3>2. CASE b # c
      <4>1. cache'[b] = cache[b] /\ Once(cache[b])
        BY <1>3, <1>8, <3>2 DEF CachePlaced
      <4>2. ASSUME NEW n \in Nodes PROVE Has(cache[b], n) <=> k2[n] = "cache" /\ who[n] = b
        <5>1. Has(cache[b], n) <=> kind[n] = "cache" /\ who[n] = b
          BY <1>3 DEF CachePlaced
        <5> QED
          BY <1>7, <1>13, <3>2, <5>1
      <4> QED
        BY <4>1, <4>2
    <3> QED
      BY <3>1, <3>2
  <2> QED
    BY <2>1, HandleKept DEF CachePlaced
<1>19. Lined(k2, d, sz)'
  BY <1>3, <1>5, <1>13, LinedKept
<1>20. Acts(t) /\ PushKnows(t)' /\ PopKnows(t, k2, who)'
  BY <1>1, <1>5, IdleKnows
<1>21. Renews(kind, who, k2, who)
  BY <1>5, <1>13 DEF Renews, Renewed
<1>22. Pushing' /\ Popping(k2, who)'
  BY <1>1, <1>3, <1>5, <1>20, <1>21, KnownKept
<1>23. Homes'
  <2>1. HandlesHome'
    BY <1>1, <1>5, HandleKept DEF Homes, HandlesHome
  <2>2. \A b \in Caches : \A i \in 1..Len(cache'[b]) : GoodEntry(b, cache'[b][i])
    <3> TAKE b \in Caches
    <3>1. CASE b = c
      <4>1. \A i \in 1..Len(cache'[b]) : FALSE
        BY <1>8, <3>1
      <4> QED
        BY <4>1
    <3>2. CASE b # c
      BY <1>1, <1>8, <3>2 DEF Homes, CachesHome
    <3> QED
      BY <3>1, <3>2
  <2>3. CachesHome'
    BY <2>2, HandleKept DEF CachesHome
  <2> QED
    BY <2>1, <2>3 DEF Homes
<1>24. HeldBounded'
  BY <1>1, <1>5 DEF HeldBounded
<1>25. Located(k2, who, d, sz)'
  BY <1>14, <1>15, <1>16, <1>17, <1>18, <1>19, <1>22 DEF Located
<1> QED
  BY <1>10, <1>22, <1>23, <1>24, <1>25 DEF PoolInv

-----------------------------------------------------------------------------
(* The initial states, and the invariant.                                  *)

\* A list set up by init, whose nodes are first .. last in the order of indices.
LEMMA PoolInit == Init => PoolInv
<1> SUFFICES ASSUME Init PROVE PoolInv
  OBVIOUS
<1>1. PICK cn : cn = collective_num
  OBVIOUS
<1>2. use \in Uses /\ cn \in 1..(num - 1) /\ num \in Nat
  BY <1>1, PoolAssumption DEF Init, collective_num
<1>3. make_tagged_index(0, 0) = <<0, 0>> /\ \A i : make_tagged_index(i, 0) = <<i, 0>>
  BY MakeRef, PoolAssumption
<1>4. /\ \A h \in Pools \X Lists : head[h] = <<IF h[2] = "collective" THEN 0 ELSE cn, 0>>
      /\ \A n \in Nodes : next[n] = IF n[2] \in {cn - 1, num - 1} THEN NULL ELSE <<n[2] + 1, 0>>
      /\ \A n \in Nodes : tag[n] = 1
  BY <1>1, <1>3 DEF Init
<1>5. \A n \in Nodes : Ref(n) = <<n[2], 0>>
  BY <1>4 DEF Ref
<1>6. \A n \in Nodes : ListOf(n) = <<n[1], IF n[2] < cn THEN "collective" ELSE "market">>
  BY <1>1 DEF ListOf, is_collective
<1>7. \A i \in 0..(num - 1) : <<i, 0>> \in Tagged
  BY PoolAssumption DEF Tagged, Indices
<1>8. TypeOK
  <2>1. head \in [Pools \X Lists -> Tagged \cup {NULL}]
    <3>1. \A h \in Pools \X Lists : head[h] \in Tagged
      BY <1>2, <1>4, <1>7
    <3> QED
      BY <3>1 DEF Init
  <2>2. next \in [Nodes -> Tagged \cup {NULL}]
    <3>1. ASSUME NEW n \in Nodes PROVE next[n] \in Tagged \cup {NULL}
      <4>1. n[2] \in 0..(num - 1)
        BY NodeFacts
      <4>2. n[2] # num - 1 => n[2] + 1 \in 0..(num - 1)
        BY <1>2, <4>1
      <4> QED
        BY <1>4, <1>7, <4>2
    <3> QED
      BY <3>1 DEF Init
  <2>3. tag \in [Nodes -> 1..(MaxTag + 1)]
    BY PoolAssumption DEF Init
  <2>4. cache \in [Caches -> Seq(Nodes)] /\ \A c \in Caches : Len(cache[c]) <= TC_CAPACITY
    BY PoolAssumption DEF Init
  <2>5. held \in [Threads -> Seq(Handles)]
    BY DEF Init
  <2> QED
    BY <2>1, <2>2, <2>3, <2>4, <2>5 DEF Init, TypeOK
<1>9. Pushing
  BY DEF Init, Pushing, PushKnows, PushStates
<1>10. Homes
  BY DEF Init, Homes, HandlesHome, CachesHome
<1>11. HeldBounded
  BY PoolAssumption DEF Init, HeldBounded, PopStates
<1>12. PICK kind, d, sz :
         /\ kind = [n \in Nodes |-> "list"]
         /\ d = [n \in Nodes |-> (IF n[2] < cn THEN cn ELSE num) - 1 - n[2]]
         /\ sz = [h \in Pools \X Lists |-> IF h[2] = "collective" THEN cn ELSE num - cn]
  OBVIOUS
<1>13. /\ Placed(kind, NULL) /\ PushPlaced(kind, NULL) /\ LostPlaced(kind)
  BY <1>12, NodeFacts DEF Init, Placed, PushPlaced, LostPlaced, Kinds
<1>14. HeldPlaced(kind, NULL) /\ CachePlaced(kind, NULL)
  <2>1. /\ Once(<<>>) /\ HoldsOnce(<<>>) /\ \A n : ~Has(<<>>, n) /\ ~Holds(<<>>, n)
    BY DEF Once, HoldsOnce, Has, Holds
  <2>2. (\A t \in Threads : held[t] = <<>>) /\ (\A c \in Caches : cache[c] = <<>>)
    BY DEF Init
  <2> QED
    BY <1>12, <2>1, <2>2 DEF HeldPlaced, CachePlaced
<1>15. Popping(kind, NULL)
  BY DEF Init, Popping, PopKnows, PopStates
<1>16. ASSUME NEW n \in Nodes, NEW x, NEW k \in Nat,
             k = (IF n[2] < cn THEN cn ELSE num) - 1 - n[2], x = <<n[2], 0>>
       PROVE  Leads(x, ListOf(n), k + 1, kind, d)
  <2>1. n \in OnTop(ListOf(n), (k + 1) - 1, kind, d)
    BY <1>12, <1>16 DEF OnTop
  <2> QED
    BY <1>5, <1>16, <2>1 DEF Leads
<1>17. ASSUME NEW h \in Pools \X Lists PROVE sz[h] \in Nat /\ Leads(head[h], h, sz[h], kind, d)
  <2>1. PICK i : i = IF h[2] = "collective" THEN 0 ELSE cn
    OBVIOUS
  <2>2. i \in 0..(num - 1) /\ h[1] \in Pools /\ h[2] \in {"collective", "market"}
        /\ h = <<h[1], h[2]>>
    BY <1>2, <2>1 DEF Lists
  <2>3. PICK n \in Nodes : n = <<h[1], i>> /\ n[1] = h[1] /\ n[2] = i
    <3>1. <<h[1], i>> \in Nodes
      BY <2>2 DEF Nodes, Indices
    <3> QED
      BY <3>1
  <2>4. ListOf(n) = h
    BY <1>2, <1>6, <2>1, <2>2, <2>3
  <2>5. PICK k \in Nat : k = (IF n[2] < cn THEN cn ELSE num) - 1 - n[2] /\ sz[h] = k + 1
    BY <1>2, <1>12, <2>1, <2>2, <2>3
  <2>6. head[h] = <<n[2], 0>>
    BY <1>4, <2>1, <2>3
  <2>7. Leads(head[h], ListOf(n), k + 1, kind, d)
    BY <1>16, <2>5, <2>6
  <2> QED
    BY <2>4, <2>5, <2>7
<1>18. ASSUME NEW n \in Nodes
       PROVE  d[n] \in Nat /\ d[n] < sz[ListOf(n)] /\ Leads(next[n], ListOf(n), d[n], kind, d)
  <2>1. n[2] \in 0..(num - 1) /\ n[1] \in Pools /\ d[n] = (IF n[2] < cn THEN cn ELSE num) - 1 - n[2]
    BY <1>12, NodeFacts
  <2>2. d[n] \in Nat
    BY <1>2, <2>1
  <2>3. sz[ListOf(n)] = IF n[2] < cn THEN cn ELSE num - cn
    <3>1. ListOf(n) \in Pools \X Lists /\ ListOf(n)[2] = IF n[2] < cn THEN "collective" ELSE "market"
      BY <1>6, ListFacts
    <3> QED
      BY <1>12, <3>1
  <2>4. d[n] < sz[ListOf(n)]
    BY <1>2, <2>1, <2>3
  <2>5. CASE n[2] \in {cn - 1, num - 1}
    <3>1. next[n] = NULL
      BY <1>4, <2>5
    <3>2. d[n] = 0
      <4>1. CASE n[2] = cn - 1
        BY <1>2, <2>1, <4>1
      <4>2. CASE n[2] = num - 1
        BY <1>2, <2>1, <4>2
      <4> QED
        BY <2>5, <4>1, <4>2
    <3> QED
      BY <2>2, <2>4, <3>1, <3>2 DEF Leads
  <2>6. CASE n[2] \notin {cn - 1, num - 1}
    <3>1. n[2] + 1 \in 0..(num - 1) /\ (n[2] + 1 < cn <=> n[2] < cn)
      BY <1>2, <2>1, <2>6
    <3>2. PICK m \in Nodes : m = <<n[1], n[2] + 1>> /\ m[1] = n[1] /\ m[2] = n[2] + 1
      BY <2>1, <3>1, NodeFacts
    <3>3. ListOf(m) = ListOf(n)
      BY <1>6, <3>1, <3>2
    <3>4. PICK k \in Nat : k = (IF m[2] < cn THEN cn ELSE num) - 1 - m[2] /\ d[n] = k + 1
      BY <1>2, <2>1, <2>6, <3>1, <3>2
    <3>5. next[n] = <<m[2], 0>>
      BY <1>4, <2>6, <3>2
    <3>6. Leads(next[n], ListOf(m), k + 1, kind, d)
      BY <1>16, <3>4, <3>5
    <3> QED
      BY <2>2, <2>4, <3>3, <3>4, <3>6
  <2> QED
    BY <2>5, <2>6
<1>19. ASSUME NEW m \in Nodes, NEW n \in Nodes, ListOf(m) = ListOf(n), d[m] = d[n] PROVE m = n
  <2>1. m[2] \in Nat /\ n[2] \in Nat
    BY NodeFacts
  <2>2. m[2] < cn <=> n[2] < cn
    BY <1>6, <1>19
  <2>3. m[2] = n[2]
    BY <1>2, <1>12, <1>19, <2>1, <2>2
  <2> QED
    BY <1>8, <1>19, <2>3, RefFacts
<1>20. Lined(kind, d, sz)
  BY <1>17, <1>18, <1>19 DEF Lined
<1>21. Located(kind, NULL, d, sz)
  BY <1>13, <1>14, <1>15, <1>20 DEF Located
<1> QED
  BY <1>8, <1>9, <1>10, <1>11, <1>21 DEF PoolInv

LEMMA PoolStutter ==
  ASSUME PoolInv, UNCHANGED vars
  PROVE  PoolInv'
<1>1. TypeOK /\ Pushing /\ Homes /\ HeldBounded
  BY DEF PoolInv
<1>2. PICK kind, who, d, sz : Located(kind, who, d, sz)
  BY DEF PoolInv
<1>3. /\ use' = use /\ head' = head /\ next' = next /\ tag' = tag /\ cache' = cache
      /\ held' = held /\ lost' = lost /\ pc' = pc /\ at' = at /\ node' = node
      /\ old_head' = old_head /\ new_head' = new_head
  BY DEF vars
<1>4. TypeOK' /\ HeldBounded'
  BY <1>1, <1>3, HandleKept DEF TypeOK, HeldBounded
<1>5. Homes'
  BY <1>1, <1>3, HomesKept
<1>6. /\ Placed(kind, who) /\ HeldPlaced(kind, who) /\ CachePlaced(kind, who)
      /\ PushPlaced(kind, who) /\ LostPlaced(kind) /\ Lined(kind, d, sz) /\ Popping(kind, who)
  BY <1>2 DEF Located
<1>7. /\ Placed(kind, who)' /\ HeldPlaced(kind, who)' /\ CachePlaced(kind, who)'
      /\ PushPlaced(kind, who)' /\ LostPlaced(kind)'
  BY <1>3, <1>6, HeldUntouched, PlacesKept
<1>8. Lined(kind, d, sz)'
  BY <1>3, <1>6, LinedKept
<1>9. Pushing'
  BY <1>1, <1>3, PushKept DEF Pushing
<1>10. Popping(kind, who)'
  <2>1. \A n \in Nodes : Renewed(n, kind, who)' => Renewed(n, kind, who)
    BY <1>3 DEF Renewed
  <2>2. ASSUME NEW t \in Threads PROVE PopKnows(t, kind, who)'
    <3>1. PopKnows(t, kind, who)
      BY <1>6 DEF Popping
    <3> QED
      BY <1>1, <1>3, <2>1, <3>1, PopKept
  <2> QED
    BY <2>2 DEF Popping
<1>11. Located(kind, who, d, sz)'
  BY <1>7, <1>8, <1>10 DEF Located
<1> QED
  BY <1>4, <1>5, <1>9, <1>11 DEF PoolInv

LEMMA PoolStep == PoolInv /\ [Next]_vars => PoolInv'
<1> SUFFICES ASSUME PoolInv, [Next]_vars PROVE PoolInv'
  OBVIOUS
<1>1. CASE UNCHANGED vars
  BY <1>1, PoolStutter
<1>2. CASE Next
  <2>1. use' = use
    BY <1>2 DEF Next
  <2>2. PICK t \in Threads :
          \/ \E p \in use.pools : GetLocal(t, p) \/ GetShared(t, p)
          \/ PopLoad(t) \/ PopNext(t) \/ PopCas(t) \/ PopCasFails(t)
          \/ \E i \in 1..Len(held[t]) :
               \/ ReleaseHeap(t, i) \/ ReleaseLocal(t, i) \/ ReleaseShared(t, i)
               \/ \E u \in Threads : Move(t, i, u)
          \/ PushLoad(t) \/ PushNext(t) \/ PushCas(t) \/ PushCasFails(t)
          \/ ThreadExit(t)
    BY <1>2 DEF Next
  <2>3. ASSUME NEW p \in use.pools, GetLocal(t, p) \/ GetShared(t, p) PROVE PoolInv'
    BY <2>1, <2>3, GetLocalStep, GetSharedStep
  <2>4. CASE PopLoad(t) \/ PopCasFails(t)
    BY <2>1, <2>4, HaveHeadStep DEF PopLoad, PopCasFails
  <2>5. CASE PopNext(t)
    BY <2>1, <2>5, PopNextStep
  <2>6. CASE PopCas(t)
    BY <2>1, <2>6, PopCasStep
  <2>7. ASSUME NEW i \in 1..Len(held[t]),
               ReleaseHeap(t, i) \/ ReleaseLocal(t, i) \/ ReleaseShared(t, i)
        PROVE  PoolInv'
    BY <2>1, <2>7, ReleaseHeapStep, ReleaseLocalStep, ReleaseSharedStep
  <2>8. ASSUME NEW i \in 1..Len(held[t]), NEW u \in Threads, Move(t, i, u) PROVE PoolInv'
    BY <2>1, <2>8, MoveStep
  <2>9. CASE PushLoad(t)
    BY <2>1, <2>9, PushLoadStep
  <2>10. CASE PushNext(t)
    BY <2>1, <2>10, PushNextStep
  <2>11. CASE PushCas(t)
    BY <2>1, <2>11, PushCasStep
  <2>12. CASE PushCasFails(t)
    BY <2>1, <2>12, PushCasFailsStep
  <2>13. CASE ThreadExit(t)
    BY <2>1, <2>13, ThreadExitStep
  <2> QED
    BY <2>2, <2>3, <2>4, <2>5, <2>6, <2>7, <2>8, <2>9, <2>10, <2>11, <2>12, <2>13
<1> QED
  BY <1>1, <1>2

\* The invariant of the pool: every node has a place, the lists are lined up, and
\* what a thread read before its CAS is still so if the CAS succeeds.
THEOREM PoolInvariance == Spec => []PoolInv
<1>1. Init => PoolInv
  BY PoolInit
<1>2. PoolInv /\ [Next]_vars => PoolInv'
  BY PoolStep
<1> QED
  BY <1>1, <1>2, PTL DEF Spec

-----------------------------------------------------------------------------
(* What the walk over a list finds, from the depths of its nodes.          *)

\* There is a node at every depth below the size of the list.
LEMMA DepthsTaken ==
  ASSUME NEW kind, NEW d, NEW sz, Lined(kind, d, sz), NEW h \in Pools \X Lists,
         NEW k \in Nat, k < sz[h]
  PROVE  OnTop(h, k, kind, d) # {}
<1>1. sz[h] \in Nat /\ Leads(head[h], h, sz[h], kind, d)
  BY DEF Lined
<1>2. PICK s : s = sz[h]
  OBVIOUS
<1>3. s \in Nat /\ k < s /\ Leads(head[h], h, s, kind, d)
  BY <1>1, <1>2
<1> DEFINE Gap == {j \in Nat : j < s /\ OnTop(h, s - 1 - j, kind, d) = {}}
<1>4. SUFFICES Gap = {}
  <2>1. s - 1 - k \in Nat /\ s - 1 - k < s /\ s - 1 - (s - 1 - k) = k
    BY <1>3
  <2> QED
    BY <1>4, <2>1
<1>5. SUFFICES ASSUME NEW x \in Gap, \A y \in Gap : x <= y PROVE FALSE
  <2>1. Gap \in SUBSET Nat
    OBVIOUS
  <2> HIDE DEF Gap
  <2> QED
    BY <1>5, <2>1, LeastNatural
<1>6. x \in Nat /\ x < s /\ OnTop(h, s - 1 - x, kind, d) = {}
  OBVIOUS
<1>7. CASE x = 0
  <2>1. s - 1 - x = s - 1 /\ s > 0
    BY <1>3, <1>6, <1>7
  <2>2. OnTop(h, s - 1, kind, d) # {}
    BY <1>3, <2>1 DEF Leads
  <2> QED
    BY <1>6, <2>1, <2>2
<1>8. CASE x # 0
  <2>1. x - 1 \in Nat /\ x - 1 < s /\ ~(x <= x - 1)
    BY <1>3, <1>6, <1>8
  <2>2. OnTop(h, s - 1 - (x - 1), kind, d) # {}
    <3>1. PICK y : y = x - 1
      OBVIOUS
    <3>2. y \in Nat /\ y < s /\ y \notin Gap
      <4> HIDE DEF Gap
      <4> QED
        BY <1>5, <2>1, <3>1
    <3>3. OnTop(h, s - 1 - y, kind, d) # {}
      BY <3>2
    <3> QED
      BY <3>1, <3>3
  <2>3. PICK e : e = s - x
    OBVIOUS
  <2>4. e \in Nat /\ e > 0 /\ s - 1 - (x - 1) = e /\ s - 1 - x = e - 1
    BY <1>3, <1>6, <2>3
  <2>5. PICK n \in OnTop(h, e, kind, d) : TRUE
    BY <2>2, <2>4
  <2>6. n \in Nodes /\ kind[n] = "list" /\ ListOf(n) = h /\ d[n] = e
    BY <2>5 DEF OnTop
  <2>7. Leads(next[n], ListOf(n), d[n], kind, d)
    BY <2>6 DEF Lined
  <2>8. Leads(next[n], h, e, kind, d)
    BY <2>6, <2>7
  <2>9. OnTop(h, e - 1, kind, d) # {}
    BY <2>4, <2>8 DEF Leads
  <2> QED
    BY <1>6, <2>4, <2>9
<1> QED
  BY <1>7, <1>8

\* The node at a depth of a list.
NodeAt(h, k, kind, d) == CHOOSE n \in Nodes : n \in OnTop(h, k, kind, d)

LEMMA NodeAtIs ==
  ASSUME TypeOK, NEW kind, NEW d, NEW sz, Lined(kind, d, sz), NEW h \in Pools \X Lists,
         NEW k \in Nat, k < sz[h]
  PROVE  /\ NodeAt(h, k, kind, d) \in Nodes
         /\ NodeAt(h, k, kind, d) \in OnTop(h, k, kind, d)
         /\ \A n \in OnTop(h, k, kind, d) : n = NodeAt(h, k, kind, d)
<1>1. \E n \in Nodes : n \in OnTop(h, k, kind, d)
  BY DepthsTaken DEF OnTop
<1>2. PICK m : m = NodeAt(h, k, kind, d)
  OBVIOUS
<1>3. m \in Nodes /\ m \in OnTop(h, k, kind, d)
  BY <1>1, <1>2 DEF NodeAt
<1>4. ASSUME NEW n \in OnTop(h, k, kind, d) PROVE n = m
  <2>1. /\ n \in Nodes /\ kind[n] = "list" /\ ListOf(n) = h /\ d[n] = k
        /\ kind[m] = "list" /\ ListOf(m) = h /\ d[m] = k
    BY <1>3 DEF OnTop
  <2> QED
    BY <1>3, <2>1 DEF Lined
<1> QED
  BY <1>2, <1>3, <1>4

\* The list is no longer than the pool has nodes.
LEMMA ListsFit ==
  ASSUME TypeOK, NEW kind, NEW d, NEW sz, Lined(kind, d, sz), NEW h \in Pools \X Lists
  PROVE  sz[h] \in Nat /\ sz[h] <= num
<1>1. sz[h] \in Nat /\ num \in Nat
  BY PoolAssumption DEF Lined
<1>2. SUFFICES ASSUME num < sz[h] PROVE FALSE
  BY <1>1
<1> DEFINE F == [k \in 0..num |-> NodeAt(h, k, kind, d)[2]]
<1>3. ASSUME NEW k \in 0..num
      PROVE  /\ NodeAt(h, k, kind, d) \in Nodes /\ ListOf(NodeAt(h, k, kind, d)) = h
             /\ d[NodeAt(h, k, kind, d)] = k
  <2>1. k \in Nat /\ k < sz[h]
    BY <1>1, <1>2
  <2> QED
    BY <2>1, NodeAtIs DEF OnTop
<1>4. F \in [0..num -> 0..(num - 1)]
  BY <1>3, NodeFacts
<1>5. \A i, j \in 0..num : F[i] = F[j] => i = j
  BY <1>3, RefFacts
<1>6. /\ IsFiniteSet(0..num) /\ Cardinality(0..num) = num + 1
      /\ IsFiniteSet(0..(num - 1)) /\ Cardinality(0..(num - 1)) <= num
  <2>1. CASE num = 0
    <3>1. 0..(num - 1) = {} /\ 0..num = {0}
      BY <2>1
    <3>2. IsFiniteSet({}) /\ Cardinality({}) = 0 /\ IsFiniteSet({0}) /\ Cardinality({0}) = 1
      BY FS_EmptySet, FS_Singleton
    <3> QED
      BY <2>1, <3>1, <3>2
  <2>2. CASE num # 0
    <3>1. 0 \in Int /\ num \in Int /\ num - 1 \in Int /\ 0 <= num /\ 0 <= num - 1
      BY <1>1, <2>2
    <3>2. num - 0 + 1 = num + 1 /\ (num - 1) - 0 + 1 = num
      BY <1>1
    <3>3. /\ IsFiniteSet(0..num) /\ Cardinality(0..num) = num - 0 + 1
          /\ IsFiniteSet(0..(num - 1)) /\ Cardinality(0..(num - 1)) = (num - 1) - 0 + 1
      BY <3>1, FS_Interval
    <3> QED
      BY <1>1, <3>2, <3>3
  <2> QED
    BY <2>1, <2>2
<1> HIDE DEF F
<1>7. ~(Cardinality(0..num) <= Cardinality(0..(num - 1)))
  BY <1>1, <1>6, FS_CardinalityType
<1>8. Cardinality(0..(num - 1)) < Cardinality(0..num)
  BY <1>6, <1>7, FS_CardinalityType
<1>9. \E x, y \in 0..num : x # y /\ F[x] = F[y]
  BY <1>4, <1>6, <1>8, FS_PigeonHole
<1> QED
  BY <1>5, <1>9

\* What the walk finds after k steps.
Found(h, k, kind, d, sz) ==
  IF k < sz[h] THEN Ref(NodeAt(h, sz[h] - 1 - k, kind, d)) ELSE NULL

\* What is found leads on along the list.
LEMMA FoundNext ==
  ASSUME TypeOK, NEW kind, NEW d, NEW sz, Lined(kind, d, sz), NEW h \in Pools \X Lists
  PROVE  /\ Found(h, 0, kind, d, sz) = head[h]
         /\ \A k \in Nat \ {0} :
              Found(h, k, kind, d, sz) =
                IF Found(h, k - 1, kind, d, sz) = NULL THEN NULL
                ELSE next[<<h[1], Found(h, k - 1, kind, d, sz)[1]>>]
<1>1. PICK s : s = sz[h]
  OBVIOUS
<1>2. s \in Nat /\ Leads(head[h], h, s, kind, d)
  BY <1>1 DEF Lined
<1>3. ASSUME NEW x, NEW e \in Nat, e < s, Leads(x, h, e + 1, kind, d)
      PROVE  x = Ref(NodeAt(h, e, kind, d))
  <2>1. e + 1 > 0 /\ e + 1 # 0 /\ e + 1 - 1 = e
    BY <1>3
  <2>2. PICK n \in OnTop(h, e, kind, d) : x = Ref(n)
    BY <1>3, <2>1 DEF Leads
  <2>3. n = NodeAt(h, e, kind, d)
    BY <1>1, <1>3, <2>2, NodeAtIs
  <2> QED
    BY <2>2, <2>3
<1>4. Found(h, 0, kind, d, sz) = head[h]
  <2>1. CASE s = 0
    BY <1>1, <1>2, <2>1 DEF Found, Leads
  <2>2. CASE s # 0
    <3>1. PICK e : e = s - 1
      OBVIOUS
    <3>2. e \in Nat /\ e < s /\ e + 1 = s /\ s - 1 - 0 = e /\ 0 < s
      BY <1>2, <2>2, <3>1
    <3>3. head[h] = Ref(NodeAt(h, e, kind, d))
      BY <1>2, <1>3, <3>2
    <3> QED
      BY <1>1, <3>2, <3>3 DEF Found
  <2> QED
    BY <2>1, <2>2
<1>5. ASSUME NEW k \in Nat \ {0}
      PROVE  Found(h, k, kind, d, sz) =
               IF Found(h, k - 1, kind, d, sz) = NULL THEN NULL
               ELSE next[<<h[1], Found(h, k - 1, kind, d, sz)[1]>>]
  <2>1. PICK b : b = k - 1
    OBVIOUS
  <2>2. b \in Nat /\ k = b + 1
    BY <2>1
  <2>3. CASE ~(b < s)
    <3>1. ~(k < s)
      BY <1>2, <2>2, <2>3
    <3> QED
      BY <1>1, <2>1, <2>3, <3>1 DEF Found
  <2>4. CASE b < s
    <3>1. PICK e : e = s - 1 - b
      OBVIOUS
    <3>2. e \in Nat /\ e < s /\ (k < s <=> e > 0) /\ s - 1 - k = e - 1
      BY <1>2, <2>2, <2>4, <3>1
    <3>3. PICK m : m = NodeAt(h, e, kind, d)
      OBVIOUS
    <3>4. m \in Nodes /\ m \in OnTop(h, e, kind, d)
      BY <1>1, <3>2, <3>3, NodeAtIs
    <3>5. kind[m] = "list" /\ ListOf(m) = h /\ d[m] = e
      BY <3>4 DEF OnTop
    <3>6. Leads(next[m], ListOf(m), d[m], kind, d)
      BY <3>4, <3>5 DEF Lined
    <3>7. Leads(next[m], h, e, kind, d)
      BY <3>5, <3>6
    <3>8. Found(h, b, kind, d, sz) = Ref(m)
      BY <1>1, <2>4, <3>1, <3>3 DEF Found
    <3>9. Ref(m) # NULL /\ Ref(m)[1] = m[2]
      BY <3>4, RefFacts
    <3>10. h[1] = m[1] /\ <<m[1], m[2]>> = m
      BY <3>4, <3>5, ListFacts, NodeFacts
    <3>11. Found(h, k, kind, d, sz) = next[m]
      <4>1. CASE e = 0
        <5>1. ~(k < s)
          BY <3>2, <4>1
        <5>2. next[m] = NULL
          BY <3>7, <4>1 DEF Leads
        <5> QED
          BY <1>1, <5>1, <5>2 DEF Found
      <4>2. CASE e # 0
        <5>1. PICK f : f = e - 1
          OBVIOUS
        <5>2. f \in Nat /\ f < s /\ f + 1 = e /\ k < s /\ s - 1 - k = f
          BY <1>2, <3>2, <4>2, <5>1
        <5>3. next[m] = Ref(NodeAt(h, f, kind, d))
          BY <1>3, <3>7, <5>2
        <5> QED
          BY <1>1, <5>2, <5>3 DEF Found
      <4> QED
        BY <4>1, <4>2
    <3> QED
      BY <2>1, <3>8, <3>9, <3>10, <3>11
  <2> QED
    BY <2>3, <2>4
<1> QED
  BY <1>4, <1>5

\* The walk finds the nodes of the list, from the last pushed one to the end.
LEMMA WalkIs ==
  ASSUME TypeOK, NEW kind, NEW d, NEW sz, Lined(kind, d, sz), NEW h \in Pools \X Lists
  PROVE  \A k \in 0..num : Walk(h)[k] = Found(h, k, kind, d, sz)
<1> DEFINE Step(w, k) == IF k = 0 THEN head[h]
                         ELSE IF w[k - 1] = NULL THEN NULL
                         ELSE next[<<h[1], w[k - 1][1]>>]
           f == [k \in 0..num |-> Found(h, k, kind, d, sz)]
<1>1. num \in Nat
  BY PoolAssumption
<1>2. \A k \in 0..num : f[k] = Step(f, k)
  <2> TAKE k \in 0..num
  <2>1. CASE k = 0
    BY <2>1, FoundNext
  <2>2. CASE k # 0
    <3>1. k \in Nat \ {0} /\ k - 1 \in 0..num
      BY <1>1, <2>2
    <3> QED
      BY <2>2, <3>1, FoundNext
  <2> QED
    BY <2>1, <2>2
<1>3. f = [k \in 0..num |-> Step(f, k)]
  <2> HIDE DEF Step
  <2> QED
    BY <1>2
<1>4. Walk(h) = CHOOSE w : w = [k \in 0..num |-> Step(w, k)]
  BY DEF Walk
<1>5. PICK g : g = Walk(h)
  OBVIOUS
<1>6. g = [k \in 0..num |-> Step(g, k)]
  <2> HIDE DEF Step, f
  <2> QED
    BY <1>3, <1>4, <1>5
<1>7. \A k \in 0..num : g[k] = Step(g, k)
  <2> HIDE DEF Step
  <2> QED
    BY <1>6
<1> DEFINE Off == {k \in 0..num : g[k] # f[k]}
<1>8. SUFFICES Off = {}
  BY <1>5, <1>8
<1>9. SUFFICES ASSUME NEW x \in Off, \A y \in Off : x <= y PROVE FALSE
  <2>1. Off \in SUBSET Nat
    OBVIOUS
  <2> HIDE DEF Off
  <2> QED
    BY <1>9, <2>1, LeastNatural
<1>10. x \in 0..num /\ g[x] # f[x]
  OBVIOUS
<1> HIDE DEF f
<1>11. CASE x = 0
  BY <1>2, <1>7, <1>10, <1>11
<1>12. CASE x # 0
  <2>1. PICK y : y = x - 1
    OBVIOUS
  <2>2. y \in 0..num /\ ~(x <= y)
    BY <1>1, <1>10, <1>12, <2>1
  <2>3. y \notin Off
    <3> HIDE DEF Off
    <3> QED
      BY <1>9, <2>2
  <2>4. g[y] = f[y]
    BY <2>2, <2>3
  <2>5. Step(g, x) = Step(f, x)
    BY <1>12, <2>1, <2>4
  <2> HIDE DEF Step
  <2> QED
    BY <1>2, <1>7, <1>10, <2>5
<1> QED
  BY <1>11, <1>12

\* The walk comes to an end, and finds the nodes whose place is the list.
LEMMA OnListIs ==
  ASSUME TypeOK, NEW kind, NEW d, NEW sz, Lined(kind, d, sz), NEW h \in Pools \X Lists
  PROVE  /\ Terminated(h)
         /\ OnList(h) \subseteq Nodes
         /\ \A n \in Nodes : n \in OnList(h) <=> kind[n] = "list" /\ ListOf(n) = h
<1>1. PICK s : s = sz[h]
  OBVIOUS
<1>2. s \in Nat /\ num \in Nat /\ s <= num
  BY <1>1, ListsFit, PoolAssumption
<1>3. Terminated(h)
  <2>1. num \in 0..num /\ ~(num < s)
    BY <1>2
  <2> QED
    BY <1>1, <2>1, WalkIs DEF Found, Terminated
<1>4. ASSUME NEW k \in 0..num, Walk(h)[k] # NULL
      PROVE  /\ <<h[1], Walk(h)[k][1]>> \in Nodes
             /\ kind[<<h[1], Walk(h)[k][1]>>] = "list" /\ ListOf(<<h[1], Walk(h)[k][1]>>) = h
  <2>1. Walk(h)[k] = Found(h, k, kind, d, sz)
    BY WalkIs
  <2>2. k < s
    BY <1>1, <1>4, <2>1 DEF Found
  <2>3. PICK e : e = s - 1 - k
    OBVIOUS
  <2>4. e \in Nat /\ e < s
    BY <1>2, <2>2, <2>3
  <2>5. PICK m : m = NodeAt(h, e, kind, d)
    OBVIOUS
  <2>6. m \in Nodes /\ kind[m] = "list" /\ ListOf(m) = h
    BY <1>1, <2>4, <2>5, NodeAtIs DEF OnTop
  <2>7. Walk(h)[k] = Ref(m)
    BY <1>1, <2>1, <2>2, <2>3, <2>5 DEF Found
  <2>8. <<h[1], Walk(h)[k][1]>> = m
    BY <2>6, <2>7, RefFacts, ListFacts, NodeFacts
  <2> QED
    BY <2>6, <2>8
<1>5. ASSUME NEW n \in Nodes, kind[n] = "list", ListOf(n) = h
      PROVE  n \in OnList(h)
  <2>1. d[n] \in Nat /\ d[n] < s
    BY <1>1, <1>5 DEF Lined
  <2>2. PICK k : k = s - 1 - d[n]
    OBVIOUS
  <2>3. k \in 0..num /\ k < s /\ s - 1 - k = d[n]
    BY <1>2, <2>1, <2>2
  <2>4. n \in OnTop(h, d[n], kind, d)
    BY <1>5 DEF OnTop
  <2>5. n = NodeAt(h, d[n], kind, d)
    BY <1>1, <2>1, <2>4, NodeAtIs
  <2>6. Walk(h)[k] = Ref(n)
    BY <1>1, <2>3, <2>5, WalkIs DEF Found
  <2>7. Walk(h)[k] # NULL /\ <<h[1], Walk(h)[k][1]>> = n
    BY <1>5, <2>6, RefFacts, ListFacts, NodeFacts
  <2> QED
    BY <2>3, <2>7 DEF OnList
<1>6. OnList(h) \subseteq Nodes /\ \A n \in OnList(h) : kind[n] = "list" /\ ListOf(n) = h
  BY <1>4 DEF OnList
<1> QED
  BY <1>3, <1>5, <1>6

-----------------------------------------------------------------------------
(* The properties of the pool.                                             *)

\* Every place counts a node once, or not at all, by the node's kind.
LEMMA OwnedOnce ==
  ASSUME TypeOK, HeldBounded, NEW kind, NEW who, NEW d, NEW sz, Located(kind, who, d, sz),
         NEW n \in Nodes
  PROVE  Owners(n) = 1
<1> DEFINE Held == {x \in Threads \X (1..MaxHeld) :
                      x[2] <= Len(held[x[1]]) /\ held[x[1]][x[2]].node = n}
           Cached == {x \in Caches \X (1..TC_CAPACITY) :
                        x[2] <= Len(cache[x[1]]) /\ cache[x[1]][x[2]] = n}
           Listed == {h \in Pools \X Lists : n \in OnList(h)}
           Pushed == {t \in Threads : node[t] = n}
<1>1. /\ Placed(kind, who) /\ HeldPlaced(kind, who) /\ CachePlaced(kind, who)
      /\ PushPlaced(kind, who) /\ LostPlaced(kind) /\ Lined(kind, d, sz)
  BY DEF Located
<1>2. kind[n] \in Kinds
  BY <1>1 DEF Placed
<1>3. n # NULL
  BY NodeFacts
<1>4. Cardinality(Held) = IF kind[n] = "held" THEN 1 ELSE 0
  <2>1. ASSUME NEW t \in Threads, NEW i \in 1..MaxHeld, i <= Len(held[t]), held[t][i].node = n
        PROVE  kind[n] = "held" /\ who[n] = t
    <3>1. held[t] \in Seq(Handles) /\ MaxHeld \in Nat
      BY PoolAssumption DEF TypeOK
    <3>2. i \in 1..Len(held[t])
      BY <2>1, <3>1
    <3>3. Holds(held[t], n)
      BY <2>1, <3>2 DEF Holds
    <3> QED
      BY <1>1, <3>3 DEF HeldPlaced
  <2>2. CASE kind[n] = "held"
    <3>1. PICK t : t = who[n]
      OBVIOUS
    <3>2. t \in Threads /\ HoldsOnce(held[t]) /\ Holds(held[t], n)
      BY <1>1, <2>2, <3>1 DEF Placed, HeldPlaced
    <3>3. PICK i \in 1..Len(held[t]) : held[t][i].node = n
      BY <3>2 DEF Holds
    <3>4. Len(held[t]) \in Nat /\ Len(held[t]) <= MaxHeld /\ MaxHeld \in Nat
      BY <3>2, PoolAssumption DEF HeldBounded, TypeOK
    <3>5. i \in 1..MaxHeld /\ i <= Len(held[t])
      BY <3>3, <3>4
    <3>6. <<t, i>> \in Held
      BY <3>2, <3>3, <3>5
    <3>7. ASSUME NEW y \in Held PROVE y = <<t, i>>
      <4>1. y[1] \in Threads /\ y[2] \in 1..MaxHeld /\ y = <<y[1], y[2]>>
        OBVIOUS
      <4>2. y[2] <= Len(held[y[1]]) /\ held[y[1]][y[2]].node = n
        OBVIOUS
      <4>3. y[1] = t
        BY <2>1, <3>1, <4>1, <4>2
      <4>4. y[2] \in 1..Len(held[t]) /\ held[t][y[2]].node = n
        BY <3>4, <4>1, <4>2, <4>3
      <4>5. y[2] = i
        BY <1>3, <3>2, <3>3, <4>4 DEF HoldsOnce
      <4> QED
        BY <4>1, <4>3, <4>5
    <3> HIDE DEF Held
    <3>8. Held = {<<t, i>>}
      BY <3>6, <3>7
    <3> QED
      BY <2>2, <3>8, FS_Singleton
  <2>3. CASE kind[n] # "held"
    <3>1. ASSUME NEW y \in Held PROVE FALSE
      <4>1. /\ y[1] \in Threads /\ y[2] \in 1..MaxHeld
            /\ y[2] <= Len(held[y[1]]) /\ held[y[1]][y[2]].node = n
        OBVIOUS
      <4> QED
        BY <2>1, <2>3, <4>1
    <3> HIDE DEF Held
    <3>2. Held = {}
      BY <3>1
    <3> QED
      BY <2>3, <3>2, FS_EmptySet
  <2> QED
    BY <2>2, <2>3
<1>5. Cardinality(Cached) = IF kind[n] = "cache" THEN 1 ELSE 0
  <2>1. ASSUME NEW c \in Caches, NEW i \in 1..TC_CAPACITY, i <= Len(cache[c]), cache[c][i] = n
        PROVE  kind[n] = "cache" /\ who[n] = c
    <3>1. cache[c] \in Seq(Nodes) /\ TC_CAPACITY \in Nat
      BY PoolAssumption DEF TypeOK
    <3>2. i \in 1..Len(cache[c])
      BY <2>1, <3>1
    <3>3. Has(cache[c], n)
      BY <2>1, <3>2 DEF Has
    <3> QED
      BY <1>1, <3>3 DEF CachePlaced
  <2>2. CASE kind[n] = "cache"
    <3>1. PICK c : c = who[n]
      OBVIOUS
    <3>2. c \in Caches /\ Once(cache[c]) /\ Has(cache[c], n)
      BY <1>1, <2>2, <3>1 DEF Placed, CachePlaced
    <3>3. PICK i \in 1..Len(cache[c]) : cache[c][i] = n
      BY <3>2 DEF Has
    <3>4. Len(cache[c]) \in Nat /\ Len(cache[c]) <= TC_CAPACITY /\ TC_CAPACITY \in Nat
      BY <3>2, PoolAssumption DEF TypeOK
    <3>5. i \in 1..TC_CAPACITY /\ i <= Len(cache[c])
      BY <3>3, <3>4
    <3>6. <<c, i>> \in Cached
      BY <3>2, <3>3, <3>5
    <3>7. ASSUME NEW y \in Cached PROVE y = <<c, i>>
      <4>1. y[1] \in Caches /\ y[2] \in 1..TC_CAPACITY /\ y = <<y[1], y[2]>>
        OBVIOUS
      <4>2. y[2] <= Len(cache[y[1]]) /\ cache[y[1]][y[2]] = n
        OBVIOUS
      <4>3. y[1] = c
        BY <2>1, <3>1, <4>1, <4>2
      <4>4. y[2] \in 1..Len(cache[c]) /\ cache[c][y[2]] = n
        BY <3>4, <4>1, <4>2, <4>3
      <4>5. y[2] = i
        BY <3>2, <3>3, <4>4 DEF Once
      <4> QED
        BY <4>1, <4>3, <4>5
    <3> HIDE DEF Cached
    <3>8. Cached = {<<c, i>>}
      BY <3>6, <3>7
    <3> QED
      BY <2>2, <3>8, FS_Singleton
  <2>3. CASE kind[n] # "cache"
    <3>1. ASSUME NEW y \in Cached PROVE FALSE
      <4>1. /\ y[1] \in Caches /\ y[2] \in 1..TC_CAPACITY
            /\ y[2] <= Len(cache[y[1]]) /\ cache[y[1]][y[2]] = n
        OBVIOUS
      <4> QED
        BY <2>1, <2>3, <4>1
    <3> HIDE DEF Cached
    <3>2. Cached = {}
      BY <3>1
    <3> QED
      BY <2>3, <3>2, FS_EmptySet
  <2> QED
    BY <2>2, <2>3
<1>6. Cardinality(Listed) = IF kind[n] = "list" THEN 1 ELSE 0
  <2>1. \A h \in Pools \X Lists : n \in OnList(h) <=> kind[n] = "list" /\ ListOf(n) = h
    BY <1>1, OnListIs
  <2>2. ListOf(n) \in Pools \X Lists
    BY ListFacts
  <2>3. kind[n] = "list" => ListOf(n) \in Listed
    BY <2>1, <2>2
  <2>4. \A y \in Listed : kind[n] = "list" /\ y = ListOf(n)
    BY <2>1
  <2> HIDE DEF Listed
  <2>5. CASE kind[n] = "list"
    <3>1. Listed = {ListOf(n)}
      BY <2>3, <2>4, <2>5
    <3> QED
      BY <2>5, <3>1, FS_Singleton
  <2>6. CASE kind[n] # "list"
    <3>1. Listed = {}
      BY <2>4, <2>6
    <3> QED
      BY <2>6, <3>1, FS_EmptySet
  <2> QED
    BY <2>5, <2>6
<1>7. Cardinality(Pushed) = IF kind[n] = "push" THEN 1 ELSE 0
  <2>1. kind[n] = "push" => who[n] \in Pushed
    BY <1>1 DEF Placed, PushPlaced
  <2>2. \A y \in Pushed : kind[n] = "push" /\ y = who[n]
    BY <1>1 DEF PushPlaced
  <2> HIDE DEF Pushed
  <2>3. CASE kind[n] = "push"
    <3>1. Pushed = {who[n]}
      BY <2>1, <2>2, <2>3
    <3> QED
      BY <2>3, <3>1, FS_Singleton
  <2>4. CASE kind[n] # "push"
    <3>1. Pushed = {}
      BY <2>2, <2>4
    <3> QED
      BY <2>4, <3>1, FS_EmptySet
  <2> QED
    BY <2>3, <2>4
<1>8. (IF n \in lost THEN 1 ELSE 0) = IF kind[n] = "lost" THEN 1 ELSE 0
  BY <1>1 DEF LostPlaced
<1>9. Owners(n) = Cardinality(Held) + Cardinality(Cached) + Cardinality(Listed)
                    + Cardinality(Pushed) + (IF n \in lost THEN 1 ELSE 0)
  BY DEF Owners
<1> HIDE DEF Held, Cached, Listed, Pushed
<1>10. Owners(n) = (IF kind[n] = "held" THEN 1 ELSE 0) + (IF kind[n] = "cache" THEN 1 ELSE 0)
                     + (IF kind[n] = "list" THEN 1 ELSE 0) + (IF kind[n] = "push" THEN 1 ELSE 0)
                     + (IF kind[n] = "lost" THEN 1 ELSE 0)
  BY <1>4, <1>5, <1>6, <1>7, <1>8, <1>9
<1> QED
  BY <1>2, <1>10 DEF Kinds

\* No node is lost from the lists or handed out twice: every node is held, cached,
\* being pushed or on one list of pool.h, exactly once, and every list ends.
THEOREM NodesAreOwnedOnce == Spec => []NodeOwnedOnce
<1>1. PoolInv => NodeOwnedOnce
  BY OwnedOnce, OnListIs DEF PoolInv, Located, NodeOwnedOnce
<1> QED
  BY <1>1, PoolInvariance, PTL

\* Collective nodes go back to the collective list and market nodes never get
\* there, whatever other threads push and pop meanwhile.
THEOREM CollectiveStaysApart == Spec => []CollectiveApart
<1>1. ASSUME PoolInv PROVE CollectiveApart
  <2>1. TypeOK /\ Homes
    BY <1>1 DEF PoolInv
  <2>2. PICK kind, who, d, sz : Located(kind, who, d, sz)
    BY <1>1 DEF PoolInv
  <2>3. Lined(kind, d, sz)
    BY <2>2 DEF Located
  <2>4. \A c \in Caches : \A i \in 1..Len(cache[c]) : ~is_collective(cache[c][i])
    BY <2>1 DEF Homes, CachesHome, GoodEntry
  <2>5. ASSUME NEW p \in Pools, NEW l \in Lists, NEW n \in OnList(<<p, l>>)
        PROVE  n \in Nodes /\ ListOf(n) = <<p, l>>
    <3>1. <<p, l>> \in Pools \X Lists
      OBVIOUS
    <3>2. n \in Nodes /\ (n \in OnList(<<p, l>>) <=> kind[n] = "list" /\ ListOf(n) = <<p, l>>)
      BY <2>1, <2>3, <3>1, OnListIs
    <3> QED
      BY <3>2
  <2>6. \A n \in Nodes, p \in Pools :
          /\ ListOf(n) = <<p, "market">> => ~is_collective(n)
          /\ ListOf(n) = <<p, "collective">> => is_collective(n)
    <3>1. "market" # "collective"
      OBVIOUS
    <3> QED
      BY <3>1 DEF ListOf
  <2>7. "market" \in Lists /\ "collective" \in Lists
    BY DEF Lists
  <2>8. \A p \in Pools : \A n \in OnList(<<p, "market">>) : ~is_collective(n)
    BY <2>5, <2>6, <2>7
  <2>9. \A p \in Pools : \A n \in OnList(<<p, "collective">>) : is_collective(n)
    BY <2>5, <2>6, <2>7
  <2> QED
    BY <2>1, <2>4, <2>8, <2>9 DEF CollectiveApart
<1> QED
  BY <1>1, PoolInvariance, PTL
=============================================================================
