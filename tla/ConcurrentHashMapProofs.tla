----------------------- MODULE ConcurrentHashMapProofs -----------------------
(***************************************************************************)
(* Proofs about module ConcurrentHashMap, for any number of writers,       *)
(* finders, keys, nodes and bucket lists.                                  *)
(***************************************************************************)
EXTENDS ConcurrentHashMap, ModularArithmetic, FiniteSetTheorems

-----------------------------------------------------------------------------
(* Walks along next pointers.                                              *)

\* No pointer of a node in S leads out of S.
Closed(next, S) == \A n \in S : next[n] # None => next[n] \in S

\* What a walk from H comes to has H in it, is closed, and is the least such set.
LEMMA ReachIs ==
  ASSUME NEW next \in [Nodes -> Maybe(Nodes)], NEW H \in SUBSET Maybe(Nodes)
  PROVE  /\ Reach(next, H) \subseteq Nodes
         /\ \A h \in H : h # None => h \in Reach(next, H)
         /\ Closed(next, Reach(next, H))
<1> DEFINE from == H \ {None}
           around == {S \in SUBSET Nodes :
                        from \subseteq S /\ \A n \in S : next[n] \in S \/ next[n] = None}
<1>1. Reach(next, H) = {n \in Nodes : \A S \in around : n \in S}
  BY DEF Reach
<1>2. \A h \in H : h # None => h \in Nodes
  BY DEF Maybe
<1>3. \A n \in Nodes : next[n] # None => next[n] \in Nodes
  BY DEF Maybe
<1>4. ASSUME NEW h \in H, h # None PROVE h \in Reach(next, H)
  BY <1>1, <1>2, <1>4
<1>5. ASSUME NEW n \in Reach(next, H), next[n] # None PROVE next[n] \in Reach(next, H)
  BY <1>1, <1>3, <1>5
<1> QED
  BY <1>1, <1>4, <1>5 DEF Closed

\* A closed set with H in it has the whole walk in it.
LEMMA ReachLeast ==
  ASSUME NEW next \in [Nodes -> Maybe(Nodes)], NEW H \in SUBSET Maybe(Nodes),
         NEW S \in SUBSET Nodes, \A h \in H : h # None => h \in S, Closed(next, S)
  PROVE  Reach(next, H) \subseteq S
BY DEF Reach, Closed

\* Pointers no walk from H meets do not matter to it.
LEMMA ReachSame ==
  ASSUME NEW next \in [Nodes -> Maybe(Nodes)], NEW next2 \in [Nodes -> Maybe(Nodes)],
         NEW H \in SUBSET Maybe(Nodes),
         \A n \in Reach(next, H) : next2[n] = next[n]
  PROVE  Reach(next2, H) = Reach(next, H)
<1>1. Reach(next2, H) \subseteq Reach(next, H)
  <2>1. Closed(next2, Reach(next, H))
    BY ReachIs DEF Closed
  <2> QED
    BY <2>1, ReachIs, ReachLeast
<1>2. Reach(next, H) \subseteq Reach(next2, H)
  <2> DEFINE S == Reach(next, H) \cap Reach(next2, H)
  <2>1. S \in SUBSET Nodes /\ \A h \in H : h # None => h \in S
    BY ReachIs
  <2>2. Closed(next, S)
    BY ReachIs DEF Closed
  <2> HIDE DEF S
  <2>3. Reach(next, H) \subseteq S
    BY <2>1, <2>2, ReachLeast
  <2> QED
    BY <2>3 DEF S
<1> QED
  BY <1>1, <1>2

\* A walk from a node meets the node and what a walk from its successor meets.
LEMMA ReachStep ==
  ASSUME NEW next \in [Nodes -> Maybe(Nodes)], NEW n \in Nodes, None \notin Nodes
  PROVE  /\ Reach(next, {next[n]}) \subseteq Reach(next, {n})
         /\ Reach(next, {n}) \subseteq {n} \cup Reach(next, {next[n]})
         /\ n \in Reach(next, {n})
<1>1. {n} \in SUBSET Maybe(Nodes) /\ {next[n]} \in SUBSET Maybe(Nodes) /\ n # None
  BY DEF Maybe
<1>2. n \in Reach(next, {n}) /\ Closed(next, Reach(next, {n})) /\ Reach(next, {n}) \subseteq Nodes
  BY <1>1, ReachIs
<1>3. \A h \in {next[n]} : h # None => h \in Reach(next, {n})
  BY <1>2 DEF Closed
<1>4. Reach(next, {next[n]}) \subseteq Reach(next, {n})
  BY <1>1, <1>2, <1>3, ReachLeast
<1> DEFINE S == {n} \cup Reach(next, {next[n]})
<1>5. S \in SUBSET Nodes /\ Closed(next, S) /\ \A h \in {n} : h # None => h \in S
  BY <1>1, ReachIs DEF Closed
<1> HIDE DEF S
<1>6. Reach(next, {n}) \subseteq S
  BY <1>1, <1>5, ReachLeast
<1> QED
  BY <1>2, <1>4, <1>6 DEF S

\* A walk from nothing meets nothing.
LEMMA ReachNone ==
  ASSUME NEW next \in [Nodes -> Maybe(Nodes)]
  PROVE  Reach(next, {None}) = {} /\ Reach(next, {}) = {}
<1>1. {None} \in SUBSET Maybe(Nodes) /\ {} \in SUBSET Maybe(Nodes) /\ Closed(next, {})
  BY DEF Maybe, Closed
<1> QED
  BY <1>1, ReachLeast

-----------------------------------------------------------------------------
(* Highest elements of finite sets.                                        *)

\* Of finitely many numbers one is the highest.
LEMMA FiniteHighest ==
  ASSUME NEW S, IsFiniteSet(S), S # {}, NEW r, \A x \in S : r[x] \in Nat
  PROVE  \E m \in S : \A p \in S : r[p] <= r[m]
<1>1. PICK k \in Nat : k = Cardinality(S) /\ ExistsBijection(1..k, S)
  BY FS_CardinalityType
<1>2. PICK f \in [1..k -> S] : \A x \in S : \E i \in 1..k : f[i] = x
  BY <1>1 DEF ExistsBijection, Bijection, Injection, Surjection
<1> DEFINE Bounds(j) == {b \in Nat : \A i \in 1..j : r[f[i]] <= b}
           Bad == {j \in 0..k : Bounds(j) = {}}
<1>3. Bad = {}
  <2>1. SUFFICES ASSUME Bad # {} PROVE FALSE
    OBVIOUS
  <2>2. Bad \in SUBSET Nat
    OBVIOUS
  <2>3. PICK j \in Bad : \A i \in Bad : j <= i
    <3> HIDE DEF Bad
    <3> QED
      BY <2>1, <2>2, LeastNatural
  <2>4. j \in 0..k /\ Bounds(j) = {}
    OBVIOUS
  <2>5. j # 0
    <3>1. 0 \in Bounds(0)
      OBVIOUS
    <3> QED
      BY <2>4, <3>1
  <2>6. PICK i \in 0..k : j = i + 1 /\ ~(j <= i)
    BY <2>4, <2>5
  <2>7. Bounds(i) # {}
    <3>1. i \notin Bad
      <4> HIDE DEF Bad
      <4> QED
        BY <2>3, <2>6
    <3> QED
      BY <3>1
  <2>8. PICK b \in Nat : \A e \in 1..i : r[f[e]] <= b
    BY <2>7
  <2>9. j \in 1..k /\ f[j] \in S /\ r[f[j]] \in Nat
    BY <2>4, <2>5
  <2>10. PICK v \in Nat : v = r[f[j]]
    BY <2>9
  <2>11. ASSUME NEW e \in 1..j PROVE r[f[e]] <= b + v
    <3>1. CASE e = j
      BY <2>10, <3>1
    <3>2. CASE e # j
      <4>1. e \in 1..i /\ e \in 1..k
        BY <2>4, <2>6, <3>2
      <4>2. r[f[e]] \in Nat /\ r[f[e]] <= b
        BY <2>8, <4>1
      <4> QED
        BY <4>2
    <3> QED
      BY <3>1, <3>2
  <2>12. b + v \in Nat
    OBVIOUS
  <2> QED
    BY <2>4, <2>11, <2>12
<1>4. PICK b \in Nat : \A x \in S : r[x] <= b
  <2>1. k \in 0..k
    OBVIOUS
  <2>2. PICK b \in Nat : \A i \in 1..k : r[f[i]] <= b
    BY <1>3, <2>1
  <2> QED
    BY <1>2, <2>2
<1> DEFINE Over == {c \in Nat : \A x \in S : r[x] <= c}
<1>5. PICK c \in Over : \A d \in Over : c <= d
  <2>1. Over \in SUBSET Nat /\ Over # {}
    BY <1>4
  <2> HIDE DEF Over
  <2> QED
    BY <2>1, LeastNatural
<1>6. c \in Nat /\ \A x \in S : r[x] <= c
  OBVIOUS
<1>7. PICK x \in S : r[x] \in Nat
  OBVIOUS
<1>8. \E m \in S : r[m] = c
  <2>1. SUFFICES ASSUME \A m \in S : r[m] # c PROVE FALSE
    OBVIOUS
  <2>2. \A m \in S : r[m] < c
    BY <1>6, <2>1
  <2>3. PICK d \in Nat : c = d + 1
    <3>1. c > 0
      BY <1>6, <1>7, <2>2
    <3>2. c - 1 \in Nat /\ c = (c - 1) + 1
      BY <1>6, <3>1
    <3> QED
      BY <3>2
  <2>4. \A m \in S : r[m] <= d
    BY <2>2, <2>3
  <2>5. d \in Over /\ ~(c <= d)
    BY <2>3, <2>4
  <2> HIDE DEF Over
  <2> QED
    BY <1>5, <2>5
<1> QED
  BY <1>6, <1>8

\* A set of numbers that is finite and not empty has a highest one.
LEMMA HighestIs ==
  ASSUME NEW S \in SUBSET Nat, IsFiniteSet(S), S # {}
  PROVE  Highest(S) \in S /\ \A m \in S : m <= Highest(S)
<1> DEFINE r == [x \in S |-> x]
<1>1. \A x \in S : r[x] \in Nat
  OBVIOUS
<1>2. PICK m \in S : \A p \in S : r[p] <= r[m]
  <2> HIDE DEF r
  <2> QED
    BY <1>1, FiniteHighest
<1>3. \A p \in S : p <= m
  BY <1>2
<1> QED
  BY <1>3 DEF Highest

\* And a lowest one above a bound, if any is above it.
LEMMA LowestAbove ==
  ASSUME NEW S \in SUBSET Nat, NEW n \in Nat, \E m \in S : n < m
  PROVE  \E m \in S : n < m /\ \A p \in S : n < p => m <= p
<1> DEFINE T == {m \in S : n < m}
<1>1. T \in SUBSET Nat /\ T # {}
  OBVIOUS
<1>2. PICK m \in T : \A p \in T : m <= p
  <2> HIDE DEF T
  <2> QED
    BY <1>1, LeastNatural
<1> QED
  BY <1>2
-----------------------------------------------------------------------------
(* Bucket lists.                                                           *)

\* None is nothing else, and addresses of nodes, lists and writers differ.
LEMMA Constants ==
  /\ None \notin Nodes /\ None \notin Lists /\ None \notin Writers /\ None \notin Keys
  /\ None \notin Values
  /\ \A n \in Nodes : n \in Nat /\ n \notin Lists /\ n \notin Writers
  /\ \A l \in Lists : l \in Nat /\ l \notin Nodes /\ l \notin Writers
  /\ IsFiniteSet(Nodes) /\ IsFiniteSet(Lists) /\ IsFiniteSet(Writers) /\ IsFiniteSet(Keys)
BY HashMapAssumption DEF Values

\* The bucket of a key is one of the list's.
LEMMA BucketRange ==
  ASSUME NEW k \in Keys, NEW c \in Nat \ {0}
  PROVE  BucketId(k, c) \in 1..c
<1>1. Hash[k] \in Nat
  BY HashMapAssumption
<1>2. Hash[k] % c \in 0..(c - 1)
  BY <1>1, ModRange
<1> QED
  BY <1>2 DEF BucketId

\* A number for every node that goes down along the next pointers: no walk
\* comes back to where it was.
Ranked(next, rank) ==
  /\ rank \in [Nodes -> Nat]
  /\ \A n \in Nodes : next[n] # None => rank[next[n]] < rank[n]

\* Then every set of nodes has one that no other one points to.
LEMMA Source ==
  ASSUME NEW next, NEW rank, Ranked(next, rank), NEW S \in SUBSET Nodes, S # {}
  PROVE  \E m \in S : \A p \in S : next[p] # m
<1>1. IsFiniteSet(S)
  BY Constants, FS_Subset
<1>2. \A x \in S : rank[x] \in Nat
  BY DEF Ranked
<1>3. PICK m \in S : \A p \in S : rank[p] <= rank[m]
  BY <1>1, <1>2, FiniteHighest
<1>4. ASSUME NEW p \in S, next[p] = m PROVE FALSE
  <2>1. m # None
    BY Constants
  <2>2. rank[m] < rank[p] /\ rank[m] \in Nat /\ rank[p] \in Nat
    BY <1>2, <1>4, <2>1 DEF Ranked
  <2> QED
    BY <1>3, <2>2
<1> QED
  BY <1>4

Bucket(vh, n, c) == BucketId(vh[n].key, c)
HeadsOf(L) == {L.heads[b] : b \in 1..L.count}
IsList(L) == L.count \in Nat \ {0} /\ L.heads \in [1..L.count -> Maybe(Nodes)]

\* M are the nodes of list L: nodes with different keys, each on the chain of
\* its bucket, and each pointed to by one bucket or by one of them.
HeadsIn(L, vh, M) ==
  \A b \in 1..L.count : L.heads[b] # None => L.heads[b] \in M /\ Bucket(vh, L.heads[b], L.count) = b
ChainsIn(L, next, vh, M) ==
  \A n \in M : next[n] # None => /\ next[n] \in M
                                 /\ Bucket(vh, next[n], L.count) = Bucket(vh, n, L.count)
HasPrev(L, next, M) ==
  \A n \in M : (\E b \in 1..L.count : L.heads[b] = n) \/ (\E m \in M : next[m] = n)
OnePrev(L, next, M) ==
  /\ \A m, n \in M : next[m] # None /\ next[m] = next[n] => m = n
  /\ \A n \in M : \A b \in 1..L.count : next[n] # None => L.heads[b] # next[n]
KeysOnce(vh, M) ==
  /\ \A n \in M : vh[n].key \in Keys
  /\ \A m, n \in M : vh[m].key = vh[n].key => m = n
Wired(L, next, vh, M) ==
  /\ M \in SUBSET Nodes
  /\ HeadsIn(L, vh, M) /\ ChainsIn(L, next, vh, M)
  /\ HasPrev(L, next, M) /\ OnePrev(L, next, M) /\ KeysOnce(vh, M)

\* A list's buckets hold nodes or nothing.
LEMMA HeadsType ==
  ASSUME NEW L, IsList(L)
  PROVE  /\ HeadsOf(L) \in SUBSET Maybe(Nodes)
         /\ \A b \in 1..L.count : {L.heads[b]} \in SUBSET Maybe(Nodes)
BY DEF IsList, HeadsOf

\* A walk of the whole list meets them and no others.
LEMMA WiredReach ==
  ASSUME NEW L, IsList(L), NEW next \in [Nodes -> Maybe(Nodes)], NEW vh, NEW M,
         Wired(L, next, vh, M), NEW rank, Ranked(next, rank)
  PROVE  Reach(next, HeadsOf(L)) = M
<1>1. HeadsOf(L) \in SUBSET Maybe(Nodes) /\ M \in SUBSET Nodes
  BY HeadsType DEF Wired
<1>2. Reach(next, HeadsOf(L)) \subseteq M
  <2>1. Closed(next, M) /\ \A h \in HeadsOf(L) : h # None => h \in M
    BY DEF Wired, HeadsIn, ChainsIn, HeadsOf, Closed
  <2> QED
    BY <1>1, <2>1, ReachLeast
<1> DEFINE R == Reach(next, HeadsOf(L))
<1>3. R \subseteq Nodes /\ Closed(next, R) /\ \A h \in HeadsOf(L) : h # None => h \in R
  BY <1>1, ReachIs
<1>4. ASSUME M \ R # {} PROVE FALSE
  <2>1. PICK m \in M \ R : \A p \in M \ R : next[p] # m
    <3>1. M \ R \in SUBSET Nodes
      BY <1>1
    <3> HIDE DEF R
    <3> QED
      BY <1>4, <3>1, Source
  <2>2. m # None
    BY <1>1, Constants
  <2>3. CASE \E b \in 1..L.count : L.heads[b] = m
    BY <1>3, <2>1, <2>2, <2>3 DEF HeadsOf
  <2>4. CASE \E p \in M : next[p] = m
    <3>1. PICK p \in M : next[p] = m
      BY <2>4
    <3>2. p \in R
      BY <2>1, <3>1
    <3> HIDE DEF R
    <3> QED
      BY <1>3, <2>1, <2>2, <3>1, <3>2 DEF Closed
  <2> QED
    BY <2>1, <2>3, <2>4 DEF Wired, HasPrev
<1> QED
  BY <1>2, <1>4

\* A walk of a bucket meets those whose keys belong there.
LEMMA WiredChain ==
  ASSUME NEW L, IsList(L), NEW next \in [Nodes -> Maybe(Nodes)], NEW vh, NEW M,
         Wired(L, next, vh, M), NEW rank, Ranked(next, rank), NEW b \in 1..L.count
  PROVE  Reach(next, {L.heads[b]}) = {n \in M : Bucket(vh, n, L.count) = b}
<1> DEFINE B == {n \in M : Bucket(vh, n, L.count) = b}
           R == Reach(next, {L.heads[b]})
<1>1. {L.heads[b]} \in SUBSET Maybe(Nodes) /\ M \in SUBSET Nodes
  BY HeadsType DEF Wired
<1>2. R \subseteq B
  <2>1. Closed(next, B) /\ B \in SUBSET Nodes
    BY <1>1 DEF Wired, ChainsIn, Closed
  <2>2. \A h \in {L.heads[b]} : h # None => h \in B
    BY DEF Wired, HeadsIn
  <2> HIDE DEF B
  <2> QED
    BY <1>1, <2>1, <2>2, ReachLeast
<1>3. R \subseteq Nodes /\ Closed(next, R) /\ (L.heads[b] # None => L.heads[b] \in R)
  BY <1>1, ReachIs
<1>4. ASSUME B \ R # {} PROVE FALSE
  <2>1. PICK m \in B \ R : \A p \in B \ R : next[p] # m
    <3>1. B \ R \in SUBSET Nodes
      BY <1>1
    <3> HIDE DEF R, B
    <3> QED
      BY <1>4, <3>1, Source
  <2>2. m # None /\ m \in M /\ Bucket(vh, m, L.count) = b /\ m \notin R
    BY <1>1, <2>1, Constants
  <2>3. CASE \E d \in 1..L.count : L.heads[d] = m
    <3>1. PICK d \in 1..L.count : L.heads[d] = m
      BY <2>3
    <3>2. d = b
      BY <2>2, <3>1 DEF Wired, HeadsIn
    <3> HIDE DEF R
    <3> QED
      BY <1>3, <2>2, <3>1, <3>2
  <2>4. CASE \E p \in M : next[p] = m
    <3>1. PICK p \in M : next[p] = m
      BY <2>4
    <3>2. Bucket(vh, p, L.count) = b
      BY <2>2, <3>1 DEF Wired, ChainsIn
    <3>3. p \in R
      BY <2>1, <3>1, <3>2
    <3> HIDE DEF R
    <3> QED
      BY <1>3, <2>2, <3>1, <3>3 DEF Closed
  <2> QED
    BY <2>2, <2>3, <2>4 DEF Wired, HasPrev
<1> QED
  BY <1>2, <1>4

\* What the list's nodes do not change keeps it as it is.
LEMMA WiredKept ==
  ASSUME NEW L, NEW next, NEW next2, NEW vh, NEW vh2, NEW M,
         Wired(L, next, vh, M), \A n \in M : next2[n] = next[n] /\ vh2[n] = vh[n]
  PROVE  Wired(L, next2, vh2, M)
BY DEF Wired, HeadsIn, ChainsIn, HasPrev, OnePrev, KeysOnce, Bucket
\* A list without heads has no nodes.
LEMMA WiredEmpty ==
  ASSUME NEW L, NEW next, NEW vh, \A b \in 1..L.count : L.heads[b] = None
  PROVE  Wired(L, next, vh, {})
BY DEF Wired, HeadsIn, ChainsIn, HasPrev, OnePrev, KeysOnce

\* A new node with a new key is pushed on its bucket.
LEMMA WiredPush ==
  ASSUME NEW L, NEW L2, NEW next, NEW next2, NEW vh, NEW vh2, NEW M, NEW n \in Nodes, NEW b \in 1..L.count,
         IsList(L), Wired(L, next, vh, M), n \notin M,
         L2.count = L.count,
         \A d \in 1..L.count : L2.heads[d] = IF d = b THEN n ELSE L.heads[d],
         \A m \in M : next2[m] = next[m] /\ vh2[m] = vh[m],
         next2[n] = L.heads[b], vh2[n].key \in Keys, b = Bucket(vh2, n, L.count),
         \A m \in M : vh2[m].key # vh2[n].key
  PROVE  Wired(L2, next2, vh2, M \cup {n})
<1>0. None \notin Nodes /\ M \in SUBSET Nodes
  BY Constants DEF Wired
<1>1. HeadsIn(L2, vh2, M \cup {n})
  BY DEF Wired, HeadsIn, Bucket
<1>2. ChainsIn(L2, next2, vh2, M \cup {n})
  BY <1>0 DEF Wired, HeadsIn, ChainsIn, Bucket
<1>3. HasPrev(L2, next2, M \cup {n})
  <2>1. L2.heads[b] = n
    OBVIOUS
  <2>2. ASSUME NEW m \in M
        PROVE (\E d \in 1..L2.count : L2.heads[d] = m) \/ (\E p \in M \cup {n} : next2[p] = m)
    <3>1. CASE \E d \in 1..L.count : L.heads[d] = m
      <4>1. PICK d \in 1..L.count : L.heads[d] = m
        BY <3>1
      <4>2. CASE d = b
        BY <4>1, <4>2
      <4>3. CASE d # b
        BY <4>1, <4>3
      <4> QED
        BY <4>2, <4>3
    <3>2. CASE \E p \in M : next[p] = m
      BY <3>2
    <3> QED
      BY <3>1, <3>2 DEF Wired, HasPrev
  <2> QED
    BY <2>1, <2>2 DEF HasPrev
<1>4. OnePrev(L2, next2, M \cup {n})
  <2>1. ASSUME NEW m \in M, next[m] # None PROVE next[m] # n /\ \A d \in 1..L.count : L.heads[d] # next[m]
    BY <2>1 DEF Wired, ChainsIn, OnePrev
  <2>2. ASSUME L.heads[b] # None
        PROVE  /\ L.heads[b] # n
               /\ \A d \in 1..L.count : d # b => L.heads[d] # L.heads[b]
               /\ \A m \in M : next[m] # L.heads[b]
    BY <2>2 DEF Wired, HeadsIn, OnePrev
  <2> QED
    BY <2>1, <2>2 DEF Wired, OnePrev
<1>5. KeysOnce(vh2, M \cup {n})
  BY DEF Wired, KeysOnce
<1> QED
  BY <1>0, <1>1, <1>2, <1>3, <1>4, <1>5 DEF Wired

\* Pointers to a node of the list, by name.
Points(L, next, M, x) == (\E b \in 1..L.count : L.heads[b] = x) \/ (\E m \in M : next[m] = x)

\* A node is taken out: the pointer to it leads on to its successor.
LEMMA WiredUnlink ==
  ASSUME NEW L, NEW L2, NEW next, NEW next2, NEW vh, NEW M, NEW x \in M, NEW b \in 1..L.count,
         Wired(L, next, vh, M), b = Bucket(vh, x, L.count), next[x] # x,
         L2.count = L.count,
         \A d \in 1..L.count : L2.heads[d] = IF d = b /\ L.heads[d] = x THEN next[x] ELSE L.heads[d],
         \A m \in M : next2[m] = IF next[m] = x THEN next[x] ELSE next[m]
  PROVE  Wired(L2, next2, vh, M \ {x})
<1>0. None \notin Nodes /\ M \in SUBSET Nodes /\ x # None
  BY Constants DEF Wired
<1>1. \A d \in 1..L.count : L.heads[d] = x => d = b
  BY <1>0 DEF Wired, HeadsIn
<1>2. \A m \in M : next[m] # None => next[m] \in M /\ Bucket(vh, next[m], L.count) = Bucket(vh, m, L.count)
  BY DEF Wired, ChainsIn
<1>3. HeadsIn(L2, vh, M \ {x})
  <2>1. ASSUME NEW d \in 1..L.count, L2.heads[d] # None
        PROVE  L2.heads[d] \in M \ {x} /\ Bucket(vh, L2.heads[d], L.count) = d
    <3>1. CASE L.heads[d] = x
      BY <1>1, <1>2, <2>1, <3>1
    <3>2. CASE L.heads[d] # x
      BY <2>1, <3>2 DEF Wired, HeadsIn
    <3> QED
      BY <3>1, <3>2
  <2> QED
    BY <2>1 DEF HeadsIn
<1>4. ChainsIn(L2, next2, vh, M \ {x})
  <2>1. ASSUME NEW m \in M \ {x}, next2[m] # None
        PROVE  next2[m] \in M \ {x} /\ Bucket(vh, next2[m], L.count) = Bucket(vh, m, L.count)
    <3>1. CASE next[m] = x
      BY <1>0, <1>2, <2>1, <3>1
    <3>2. CASE next[m] # x
      BY <1>2, <2>1, <3>2
    <3> QED
      BY <3>1, <3>2
  <2> QED
    BY <2>1 DEF ChainsIn
<1>5. HasPrev(L2, next2, M \ {x})
  <2>1. ASSUME NEW n \in M \ {x} PROVE Points(L2, next2, M \ {x}, n)
    <3>1. CASE \E d \in 1..L.count : L.heads[d] = n
      BY <3>1 DEF Points
    <3>2. CASE \E m \in M : m # x /\ next[m] = n
      BY <3>2 DEF Points
    <3>3. CASE next[x] = n
      <4>1. CASE \E d \in 1..L.count : L.heads[d] = x
        BY <1>1, <3>3, <4>1 DEF Points
      <4>2. CASE \E m \in M : next[m] = x
        BY <3>3, <4>2 DEF Points
      <4> QED
        BY <4>1, <4>2 DEF Wired, HasPrev
    <3> QED
      BY <3>1, <3>2, <3>3 DEF Wired, HasPrev
  <2> QED
    BY <2>1 DEF HasPrev, Points
<1>6. OnePrev(L2, next2, M \ {x})
  <2>1. ASSUME NEW m \in M \ {x}, NEW n \in M \ {x}, next2[m] # None, next2[m] = next2[n]
        PROVE  m = n
    <3>1. CASE next[m] = x /\ next[n] = x
      BY <1>0, <3>1 DEF Wired, OnePrev
    <3>2. CASE next[m] # x /\ next[n] # x
      BY <2>1, <3>2 DEF Wired, OnePrev
    <3>3. CASE next[m] = x /\ next[n] # x
      BY <2>1, <3>3 DEF Wired, OnePrev
    <3>4. CASE next[m] # x /\ next[n] = x
      BY <2>1, <3>4 DEF Wired, OnePrev
    <3> QED
      BY <3>1, <3>2, <3>3, <3>4
  <2>2. ASSUME NEW n \in M \ {x}, NEW d \in 1..L.count, next2[n] # None
        PROVE  L2.heads[d] # next2[n]
    <3>1. CASE next[n] = x
      <4>1. L.heads[d] # x
        BY <1>0, <3>1 DEF Wired, OnePrev
      <4> QED
        BY <2>2, <3>1, <4>1 DEF Wired, OnePrev
    <3>2. CASE next[n] # x
      <4>1. CASE L.heads[d] = x
        BY <1>1, <2>2, <3>2, <4>1 DEF Wired, OnePrev
      <4>2. CASE L.heads[d] # x
        BY <2>2, <3>2, <4>2 DEF Wired, OnePrev
      <4> QED
        BY <4>1, <4>2
    <3> QED
      BY <3>1, <3>2
  <2> QED
    BY <2>1, <2>2 DEF OnePrev
<1>7. KeysOnce(vh, M \ {x})
  BY DEF Wired, KeysOnce
<1> QED
  BY <1>0, <1>3, <1>4, <1>5, <1>6, <1>7 DEF Wired

\* A node is replaced by a new one with the same key and the same successor.
LEMMA WiredReplace ==
  ASSUME NEW L, NEW L2, NEW next, NEW next2, NEW vh, NEW vh2, NEW M, NEW x \in M, NEW b \in 1..L.count,
         NEW n \in Nodes, n \notin M,
         Wired(L, next, vh, M), b = Bucket(vh, x, L.count), next[x] # x,
         L2.count = L.count,
         \A d \in 1..L.count : L2.heads[d] = IF d = b /\ L.heads[d] = x THEN n ELSE L.heads[d],
         \A m \in M : next2[m] = IF next[m] = x THEN n ELSE next[m],
         next2[n] = next[x],
         \A m \in M : vh2[m] = vh[m], vh2[n].key = vh[x].key
  PROVE  Wired(L2, next2, vh2, (M \ {x}) \cup {n})
<1> DEFINE N == (M \ {x}) \cup {n}
<1>0. None \notin Nodes /\ M \in SUBSET Nodes /\ x # None /\ n # None /\ n # x
  BY Constants DEF Wired
<1>1. \A d \in 1..L.count : L.heads[d] = x => d = b
  BY <1>0 DEF Wired, HeadsIn
<1>2. \A m \in M : next[m] # None => next[m] \in M /\ Bucket(vh, next[m], L.count) = Bucket(vh, m, L.count)
  BY DEF Wired, ChainsIn
<1>b. /\ \A m \in M : Bucket(vh2, m, L.count) = Bucket(vh, m, L.count)
      /\ Bucket(vh2, n, L.count) = b
  BY DEF Bucket
<1>3. HeadsIn(L2, vh2, N)
  <2>1. ASSUME NEW d \in 1..L.count, L2.heads[d] # None
        PROVE  L2.heads[d] \in N /\ Bucket(vh2, L2.heads[d], L.count) = d
    <3>1. CASE L.heads[d] = x
      BY <1>1, <1>b, <2>1, <3>1
    <3>2. CASE L.heads[d] # x
      BY <1>b, <2>1, <3>2 DEF Wired, HeadsIn
    <3> QED
      BY <3>1, <3>2
  <2> QED
    BY <2>1 DEF HeadsIn
<1>4. ChainsIn(L2, next2, vh2, N)
  <2>1. ASSUME NEW m \in M \ {x}, next2[m] # None
        PROVE  next2[m] \in N /\ Bucket(vh2, next2[m], L.count) = Bucket(vh2, m, L.count)
    <3>1. CASE next[m] = x
      BY <1>0, <1>2, <1>b, <2>1, <3>1
    <3>2. CASE next[m] # x
      BY <1>2, <1>b, <2>1, <3>2
    <3> QED
      BY <3>1, <3>2
  <2>2. ASSUME next2[n] # None
        PROVE  next2[n] \in N /\ Bucket(vh2, next2[n], L.count) = Bucket(vh2, n, L.count)
    BY <1>2, <1>b, <2>2
  <2> QED
    BY <2>1, <2>2 DEF ChainsIn
<1>5. HasPrev(L2, next2, N)
  <2>1. ASSUME NEW p \in M \ {x} PROVE Points(L2, next2, N, p)
    <3>1. CASE \E d \in 1..L.count : L.heads[d] = p
      BY <3>1 DEF Points
    <3>2. CASE \E m \in M : m # x /\ next[m] = p
      BY <3>2 DEF Points
    <3>3. CASE next[x] = p
      BY <3>3 DEF Points
    <3> QED
      BY <3>1, <3>2, <3>3 DEF Wired, HasPrev
  <2>2. Points(L2, next2, N, n)
    <3>1. CASE \E d \in 1..L.count : L.heads[d] = x
      BY <1>1, <3>1 DEF Points
    <3>2. CASE \E m \in M : next[m] = x
      BY <3>2 DEF Points
    <3> QED
      BY <3>1, <3>2 DEF Wired, HasPrev
  <2> QED
    BY <2>1, <2>2 DEF HasPrev, Points
<1>6. OnePrev(L2, next2, N)
  <2>0. \A m \in M : next[m] # n
    BY <1>0, <1>2
  <2>h. \A d \in 1..L.count : L.heads[d] # n
    BY <1>0 DEF Wired, HeadsIn
  <2>1. ASSUME NEW m \in M \ {x}, NEW p \in M \ {x}, next2[m] # None, next2[m] = next2[p]
        PROVE  m = p
    <3>1. CASE next[m] = x /\ next[p] = x
      BY <1>0, <3>1 DEF Wired, OnePrev
    <3>2. CASE next[m] # x /\ next[p] # x
      BY <2>1, <3>2 DEF Wired, OnePrev
    <3> QED
      BY <2>0, <2>1, <3>1, <3>2
  <2>2. ASSUME NEW m \in M \ {x}, next2[m] # None PROVE next2[m] # next2[n]
    <3>1. CASE next[m] = x
      BY <2>0, <3>1
    <3>2. CASE next[m] # x
      BY <2>2, <3>2 DEF Wired, OnePrev
    <3> QED
      BY <3>1, <3>2
  <2>3. ASSUME NEW p \in N, NEW d \in 1..L.count, next2[p] # None
        PROVE  L2.heads[d] # next2[p]
    <3>1. CASE p = n
      <4>1. next2[p] = next[x] /\ next[x] # None /\ next[x] # n
        BY <2>0, <2>3, <3>1
      <4> QED
        BY <4>1 DEF Wired, OnePrev
    <3>2. CASE p # n /\ next[p] = x
      <4>1. L.heads[d] # x
        BY <1>0, <3>2 DEF Wired, OnePrev
      <4> QED
        BY <2>h, <3>2, <4>1
    <3>3. CASE p # n /\ next[p] # x
      <4>1. next2[p] = next[p] /\ L.heads[d] # next[p] /\ next[p] # n
        BY <2>0, <2>3, <3>3 DEF Wired, OnePrev
      <4> QED
        BY <4>1
    <3> QED
      BY <3>1, <3>2, <3>3
  <2> QED
    BY <2>1, <2>2, <2>3 DEF OnePrev
<1>7. KeysOnce(vh2, N)
  BY DEF Wired, KeysOnce
<1> QED
  BY <1>0, <1>3, <1>4, <1>5, <1>6, <1>7 DEF Wired
\* What Highest yields for a set of nodes.
LEMMA HighestNode ==
  ASSUME NEW D \in SUBSET Nodes
  PROVE  /\ D = {} => Highest(D) = None
         /\ D # {} => Highest(D) \in D /\ Highest(D) # None /\ \A m \in D : m <= Highest(D)
<1>1. D \in SUBSET Nat /\ IsFiniteSet(D) /\ None \notin D
  BY Constants, FS_Subset
<1>2. D = {} => Highest(D) = None
  BY DEF Highest
<1>3. D # {} => Highest(D) \in D /\ \A m \in D : m <= Highest(D)
  BY <1>1, HighestIs
<1> QED
  BY <1>1, <1>2, <1>3

\* Nodes pushed one after the other on empty buckets make a list of them.
Stacked(L, next, vh, S) ==
  /\ L.count \in Nat \ {0} /\ L.heads = TopOf(S, vh, L.count)
  /\ \A n \in S : next[n] = Below(S, vh, L.count, n)

\* Then every node is on the chain of its bucket, and addresses fall along a
\* chain.
LEMMA WiredCopy ==
  ASSUME NEW L, NEW next, NEW vh, NEW S \in SUBSET Nodes, KeysOnce(vh, S), Stacked(L, next, vh, S)
  PROVE  /\ Wired(L, next, vh, S)
         /\ \A n \in S : next[n] # None => next[n] < n
<1> DEFINE c == L.count
           P(b) == {n \in S : Bucket(vh, n, c) = b}
           D(n) == {m \in P(Bucket(vh, n, c)) : m < n}
<1>0. S \in SUBSET Nat /\ None \notin S
  BY Constants
<1>1. \A b \in 1..c : L.heads[b] = Highest(P(b))
  BY DEF TopOf, Pushed, Bucket, Stacked
<1>2. \A n \in S : next[n] = Highest(D(n))
  BY DEF Below, Pushed, Bucket, Stacked
<1>3. \A b : P(b) \in SUBSET Nodes
  OBVIOUS
<1>4. \A n : D(n) \in SUBSET Nodes
  OBVIOUS
<1>5. ASSUME NEW b \in 1..c
      PROVE  /\ P(b) = {} => L.heads[b] = None
             /\ P(b) # {} => /\ L.heads[b] \in S /\ Bucket(vh, L.heads[b], c) = b
                             /\ L.heads[b] # None
                             /\ \A m \in S : Bucket(vh, m, c) = b => m <= L.heads[b]
  <2>1. P(b) = {} => Highest(P(b)) = None
    BY DEF Highest
  <2>2. P(b) # {} => /\ Highest(P(b)) \in P(b) /\ Highest(P(b)) # None
                     /\ \A m \in P(b) : m <= Highest(P(b))
    <3>1. P(b) \in SUBSET Nodes
      OBVIOUS
    <3> HIDE DEF P
    <3> QED
      BY <3>1, HighestNode
  <2> QED
    BY <1>1, <2>1, <2>2
<1>6. ASSUME NEW n \in S
      PROVE  /\ D(n) = {} => next[n] = None
             /\ D(n) # {} => /\ next[n] \in S /\ Bucket(vh, next[n], c) = Bucket(vh, n, c)
                             /\ next[n] # None /\ next[n] < n
                             /\ \A m \in S : Bucket(vh, m, c) = Bucket(vh, n, c) /\ m < n => m <= next[n]
  <2>1. D(n) = {} => Highest(D(n)) = None
    BY DEF Highest
  <2>2. D(n) # {} => /\ Highest(D(n)) \in D(n) /\ Highest(D(n)) # None
                     /\ \A m \in D(n) : m <= Highest(D(n))
    <3>1. D(n) \in SUBSET Nodes
      OBVIOUS
    <3> HIDE DEF D
    <3> QED
      BY <3>1, HighestNode
  <2> QED
    BY <1>2, <2>1, <2>2
<1>7. \A n \in S : Bucket(vh, n, c) \in 1..c
  BY BucketRange DEF KeysOnce, Bucket, Stacked
<1> HIDE DEF c, P, D
<1>8. HeadsIn(L, vh, S)
  BY <1>5 DEF HeadsIn, c
<1>9. ChainsIn(L, next, vh, S)
  BY <1>6 DEF ChainsIn, c
<1>10. HasPrev(L, next, S)
  <2>1. ASSUME NEW n \in S PROVE Points(L, next, S, n)
    <3>1. PICK b \in 1..c : b = Bucket(vh, n, c)
      BY <1>7
    <3>2. n \in P(b)
      BY <3>1 DEF P
    <3>3. CASE \A m \in P(b) : m <= n
      <4>1. L.heads[b] \in P(b)
        BY <1>5, <3>2 DEF P
      <4>2. L.heads[b] <= n /\ n <= L.heads[b]
        BY <1>5, <3>1, <3>2, <3>3, <4>1
      <4>3. L.heads[b] \in Nat /\ n \in Nat
        BY <1>0, <4>1 DEF P
      <4>4. L.heads[b] = n
        BY <4>2, <4>3
      <4> QED
        BY <4>4 DEF Points, c
    <3>4. CASE ~\A m \in P(b) : m <= n
      <4>1. P(b) \in SUBSET Nat /\ n \in Nat
        BY <1>0 DEF P
      <4>2. \E m \in P(b) : n < m
        BY <3>4, <4>1
      <4>3. PICK m \in P(b) : n < m /\ \A p \in P(b) : n < p => m <= p
        BY <4>1, <4>2, LowestAbove
      <4>4. m \in S /\ Bucket(vh, m, c) = b
        BY DEF P
      <4>5. n \in D(m)
        BY <3>2, <4>3, <4>4 DEF D
      <4>6. next[m] \in P(b) /\ next[m] < m /\ n <= next[m]
        BY <1>6, <3>1, <4>3, <4>4, <4>5 DEF P
      <4>7. ~(n < next[m])
        <5>1. m \in Nat /\ next[m] \in Nat
          BY <4>1, <4>6
        <5> QED
          BY <4>3, <4>6, <5>1
      <4>8. next[m] = n
        <5>1. next[m] \in Nat
          BY <4>1, <4>6
        <5> QED
          BY <4>1, <4>6, <4>7, <5>1
      <4> QED
        BY <4>4, <4>8 DEF Points
    <3> QED
      BY <3>3, <3>4
  <2> QED
    BY <2>1 DEF HasPrev, Points
<1>11. OnePrev(L, next, S)
  <2>1. ASSUME NEW m \in S, NEW n \in S, next[m] # None, next[m] = next[n] PROVE ~(m < n)
    <3>1. D(m) # {} /\ D(n) # {}
      BY <1>6, <2>1
    <3>2. Bucket(vh, m, c) = Bucket(vh, n, c) /\ next[m] < m
      BY <1>6, <2>1, <3>1
    <3>3. m < n => m <= next[n]
      BY <1>6, <3>1, <3>2
    <3>4. next[n] \in Nat /\ m \in Nat /\ n \in Nat
      BY <1>0, <1>6, <3>1
    <3> QED
      BY <2>1, <3>2, <3>3, <3>4
  <2>2. ASSUME NEW m \in S, NEW n \in S, next[m] # None, next[m] = next[n] PROVE m = n
    <3>1. ~(m < n) /\ ~(n < m)
      BY <2>1, <2>2
    <3>2. m \in Nat /\ n \in Nat
      BY <1>0
    <3> QED
      BY <3>1, <3>2
  <2>3. ASSUME NEW n \in S, NEW b \in 1..c, next[n] # None, L.heads[b] = next[n] PROVE FALSE
    <3>1. D(n) # {}
      BY <1>6, <2>3
    <3>2. next[n] \in S /\ Bucket(vh, next[n], c) = Bucket(vh, n, c) /\ next[n] < n
      BY <1>6, <3>1
    <3>3. P(b) # {}
      BY <1>5, <2>3
    <3>4. Bucket(vh, n, c) = b /\ n <= L.heads[b]
      BY <1>5, <2>3, <3>2, <3>3
    <3>5. n \in Nat /\ next[n] \in Nat
      BY <1>0, <3>2
    <3> QED
      BY <2>3, <3>2, <3>4, <3>5
  <2> QED
    BY <2>2, <2>3 DEF OnePrev, c
<1> QED
  BY <1>6, <1>8, <1>9, <1>10, <1>11 DEF Wired
-----------------------------------------------------------------------------
(* The inductive invariant.                                                *)

Members(l) == Reach(next_, Heads(l))
Linked(l) == Wired(list[l], next_, value_holder_, Members(l))
Bare(l) == \A b \in 1..list[l].count : list[l].heads[b] = None

\* Memory: no cycles, exact counts, a node is live as long as it is counted.
Acyclic == \E rank : Ranked(next_, rank)
Living == \A n \in Nodes : state[n] = "live" <=> refcount_[n] # 0
Contents == \A n \in Nodes : /\ state[n] = "free" => next_[n] = None
                             /\ state[n] # "free" => /\ value_holder_[n].key \in Keys
                                                     /\ value_holder_[n].value \in Values
Memory == Acyclic /\ RefcountExact /\ Living /\ Contents

\* The map: its list is live and in order, and has size_ nodes.
Current ==
  /\ bucket_list_ # None => state[bucket_list_] = "live" /\ Linked(bucket_list_)
  /\ size_ = Cardinality(InList)

\* The lists M and N hold the same values under the same keys.
SameContents(M, N, vh) ==
  /\ \A m \in M : \E n \in N : vh[m] = vh[n]
  /\ \A n \in N : \E m \in M : vh[m] = vh[n]

\* What a writer has in hand, by the step it is about to take.
Fresh(l) == l \in Lists /\ l # bucket_list_ /\ state[l] = "live"
CopyFits(t) ==
  /\ Fresh(writer[t].new) /\ writer[t].old = bucket_list_
  /\ Linked(writer[t].new) /\ SameContents(Members(writer[t].new), InList, value_holder_)
  /\ Cardinality(Members(writer[t].new)) = size_
  /\ m_ # t => use = "single"
WriterFits(t) ==
  /\ writer[t].at = "idle" => writer[t].new = None /\ writer[t].old = None
  /\ writer[t].at \notin {"idle", "cas"} => bucket_list_ # None
  /\ writer[t].at = "cas" => Fresh(writer[t].new) /\ Bare(writer[t].new)
  /\ writer[t].at \in {"lock", "link", "release", "retire"} => writer[t].new = None
  /\ writer[t].at \in {"cas", "lock", "link"} => writer[t].old = None
  /\ \/ writer[t].at \in {"cas", "lock", "link"}
     \/ writer[t].at = "swap" /\ m_ = t
     => writer[t].key \in Keys /\ writer[t].value \in Values
  /\ writer[t].at = "link" => m_ = t
  /\ writer[t].at = "swap" => CopyFits(t)
  /\ writer[t].at = "release" => writer[t].old \in Nodes
  /\ writer[t].at = "clear" => /\ Fresh(writer[t].new) /\ Bare(writer[t].new)
                               /\ writer[t].old = bucket_list_ /\ use = "single"
  /\ writer[t].at = "retire" => Fresh(writer[t].old) /\ use = "single"
WritersFit == \A t \in Writers : WriterFits(t)

\* Who excludes whom: the mutex, and the single user.
Only == CHOOSE w \in Writers : TRUE
Exclusive ==
  /\ m_ # None => writer[m_].at \in {"swap", "link"}
  /\ use = "single" => \A t \in Writers : writer[t].at # "idle" => t = Only
  /\ \A t, u \in Writers : writer[t].new # None /\ writer[t].new = writer[u].new => t = u

\* A copy not yet installed, or a list not yet retired.
InWork(l) ==
  \E t \in Writers : \/ writer[t].at = "swap" /\ writer[t].new = l
                     \/ writer[t].at = "retire" /\ writer[t].old = l
\* A live list is the map's, or in a writer's hand, or has nothing in it.
Accounted ==
  \A l \in Lists : state[l] = "live" /\ l # bucket_list_ =>
    Bare(l) \/ InWork(l)

\* The nodes in S answer a search for k with something in known.
Answered(S, k, vh, known) ==
  /\ \A n \in S : vh[n].key = k => vh[n].value \in known
  /\ (\A n \in S : vh[n].key # k) => None \in known
ChainFor(l, k) == Chain(l, BucketId(k, list[l].count))
Finding(r) == reader[r].at \in {"list", "head", "next"}
\* What a finder has in hand, and that it will answer in time.
ReaderHolds(r) ==
  /\ reader[r].at # "idle" => bucket_list_ # None /\ reader[r].key \in Keys
  /\ reader[r].list # None => /\ reader[r].holder_bucket = reader[r].list
                              /\ state[reader[r].list] # "free"
  /\ reader[r].node # None => /\ reader[r].holder_node = reader[r].node
                              /\ state[reader[r].node] # "free"
  /\ reader[r].at = "list" => reader[r].list = None
  /\ reader[r].at \in {"list", "head"} => reader[r].node = None
  /\ reader[r].at = "head" => reader[r].list # None
  /\ reader[r].at \in {"next", "found"} => reader[r].node # None
ReaderKnows(r) ==
  /\ Finding(r) => Answered(ChainFor(bucket_list_, reader[r].key), reader[r].key, value_holder_, seen[r])
  /\ reader[r].at = "head" =>
        Answered(ChainFor(reader[r].list, reader[r].key), reader[r].key, value_holder_, seen[r])
  /\ reader[r].at = "next" =>
        Answered(Reach(next_, {next_[reader[r].node]}), reader[r].key, value_holder_, seen[r])
  /\ reader[r].at = "found" => value_holder_[reader[r].node].value \in seen[r]
  /\ reader[r].at = "missed" => None \in seen[r]
ReadersFit == \A r \in Readers : ReaderHolds(r) /\ ReaderKnows(r)

MapInv ==
  /\ TypeOK /\ Memory /\ Current
  /\ WritersFit /\ Exclusive /\ Accounted
  /\ ReadersFit
-----------------------------------------------------------------------------
(* Types.                                                                  *)

\* The type of the bucket lists.
ListsTyped ==
  /\ list = [l \in Lists |-> list[l]]
  /\ \A l \in Lists : \E c \in 1..MaxBuckets :
        list[l] \in [count : {c}, heads : [1..c -> Maybe(Nodes)]]

\* What TypeOK says of one list.
LEMMA ListTypes ==
  ASSUME TypeOK, NEW l \in Lists
  PROVE  /\ IsList(list[l]) /\ list[l].count \in 1..MaxBuckets
         /\ Heads(l) = HeadsOf(list[l]) /\ Heads(l) \in SUBSET Maybe(Nodes)
<1>1. PICK c \in 1..MaxBuckets : list[l] \in [count : {c}, heads : [1..c -> Maybe(Nodes)]]
  BY DEF TypeOK
<1>2. list[l].count = c /\ list[l].heads \in [1..c -> Maybe(Nodes)] /\ c \in Nat \ {0}
  BY <1>1, HashMapAssumption
<1> QED
  BY <1>2 DEF IsList, Heads, HeadsOf

\* Nodes with different keys are no more than the keys.
LEMMA SizeFits ==
  ASSUME NEW vh, NEW M \in SUBSET Nodes, KeysOnce(vh, M)
  PROVE  Cardinality(M) \in 0..Cardinality(Keys)
<1> DEFINE f == [n \in M |-> vh[n].key]
<1>1. f \in Injection(M, Keys)
  BY DEF KeysOnce, Injection, IsInjective
<1>2. IsFiniteSet(M) /\ IsFiniteSet(Keys)
  BY Constants, FS_Subset
<1>3. Cardinality(M) <= Cardinality(Keys)
  <2> HIDE DEF f
  <2> QED
    BY <1>1, <1>2, FS_Injection
<1> QED
  BY <1>2, <1>3, FS_CardinalityType

\* insert and emplace keep the types; so do the other operations below.
LEMMA InsertType ==
  ASSUME TypeOK, NEW t \in Writers, NEW k \in Keys, Insert(t, k) PROVE TypeOK'
<1>1. MaxCalls \in Nat /\ InitBuckets \subseteq 1..MaxBuckets /\ calls' \in 0..MaxCalls /\ calls' \in Values
  BY HashMapAssumption DEF TypeOK, Insert, Call, Values
<1>2. CASE bucket_list_ # None
  <2>1. writer' = [writer EXCEPT ![t] = [at |-> "lock", key |-> k, value |-> calls', new |-> None, old |-> None]]
        /\ UNCHANGED <<state, list>>
    BY <1>2 DEF Insert, Goto
  <2> QED
    BY <1>1, <2>1 DEF TypeOK, Insert, Maybe, nodeVars, mapVars
<1>3. CASE bucket_list_ = None
  <2>1. PICK l \in New(Lists), c \in InitBuckets :
                /\ state' = [state EXCEPT ![l] = "live"]
                /\ list' = [list EXCEPT ![l] = Buckets(c)]
                /\ writer' = [writer EXCEPT ![t] =
                        [at |-> "cas", key |-> k, value |-> calls', new |-> l, old |-> None]]
    BY <1>3 DEF Insert, Goto
  <2>2. l \in Lists
    BY DEF New, Free
  <2>3. Buckets(c) \in [count : {c}, heads : [1..c -> Maybe(Nodes)]] /\ c \in 1..MaxBuckets
    BY <1>1 DEF Buckets, Maybe
  <2>4. ListsTyped'
    BY <2>1, <2>2, <2>3 DEF TypeOK, ListsTyped
  <2> QED
    BY <1>1, <2>1, <2>2, <2>4 DEF TypeOK, Insert, Maybe, nodeVars, mapVars, ListsTyped
<1> QED
  BY <1>2, <1>3
\* A list is put in place of another.
LEMMA ListPut ==
  ASSUME TypeOK, NEW l \in Lists, NEW c \in 1..MaxBuckets, NEW h \in [1..c -> Maybe(Nodes)],
         list' = [list EXCEPT ![l] = [count |-> c, heads |-> h]]
  PROVE  ListsTyped'
BY DEF TypeOK, ListsTyped

WriterStates ==
  [at : {"idle", "cas", "lock", "swap", "link", "release", "clear", "retire"},
   key : Maybe(Keys), value : Maybe(Values), new : Maybe(Lists), old : Maybe(Nodes \cup Lists)]

\* ensureSegment's compare-and-swap.
LEMMA CasType ==
  ASSUME TypeOK, NEW t \in Writers, CasSegment(t), writer[t].new \in Lists PROVE TypeOK'
<1>1. load_factor_cnt_threshold_' \in Nat /\ bucket_list_' \in Maybe(Lists)
  <2>1. list[writer[t].new].count \in Nat
    BY ListTypes DEF IsList
  <2> QED
    BY <2>1 DEF CasSegment, Threshold, TypeOK, Maybe
<1>2. writer' = [writer EXCEPT ![t] = [at |-> "lock", key |-> writer[t].key, value |-> writer[t].value,
                                       new |-> None, old |-> None]]
  BY DEF CasSegment, Goto
<1>3. writer' \in [Writers -> WriterStates]
  BY <1>2 DEF TypeOK, WriterStates, Maybe
<1> QED
  BY <1>1, <1>3 DEF TypeOK, CasSegment, Maybe, nodeVars, WriterStates

\* What Copy does: nodes N, copies of those of the list by f, and a list l.
Copied(t, c, l, f, N) ==
  /\ l \in Lists /\ state[l] = "free"
  /\ f \in [InList -> N] /\ N \in SUBSET Nodes /\ \A n \in N : state[n] = "free"
  /\ \A m, n \in InList : f[m] = f[n] => m = n
  /\ \A n \in N : \E m \in InList : f[m] = n
  /\ state' = [o \in Nodes \cup Lists |-> IF o \in N \cup {l} THEN "live" ELSE state[o]]
  /\ refcount_' = [n \in Nodes |-> IF n \in N THEN 1 ELSE refcount_[n]]
  /\ DOMAIN value_holder_' = Nodes /\ value_holder_' = [n \in Nodes |-> value_holder_'[n]]
  /\ \A n \in Nodes \ N : value_holder_'[n] = value_holder_[n]
  /\ \A n \in InList : value_holder_'[f[n]] = value_holder_[n]
  /\ next_' = [n \in Nodes |-> IF n \in N THEN Below(N, value_holder_', c, n) ELSE next_[n]]
  /\ list' = [list EXCEPT ![l] = [count |-> c, heads |-> TopOf(N, value_holder_', c)]]
  /\ writer' = [writer EXCEPT ![t] = [at |-> "swap", key |-> writer[t].key, value |-> writer[t].value,
                                      new |-> l, old |-> bucket_list_]]

\* rehash up to the store, in the terms above.
LEMMA CopyDoes ==
  ASSUME TypeOK, NEW t \in Writers, NEW c, Copy(t, c)
  PROVE  \E l, f, N : Copied(t, c, l, f, N)
<1>1. PICK l \in New(Lists), f \in Copies :
        /\ state' = [o \in DOMAIN state |-> IF o \in Range(f) \cup {l} THEN "live" ELSE state[o]]
        /\ refcount_' = [n \in Nodes |-> IF n \in Range(f) THEN 1 ELSE refcount_[n]]
        /\ value_holder_' = [n \in Nodes |-> IF n \in Range(f)
                THEN value_holder_[CHOOSE o \in InList : f[o] = n] ELSE value_holder_[n]]
        /\ next_' = [n \in Nodes |-> IF n \in Range(f) THEN Below(Range(f), value_holder_', c, n) ELSE next_[n]]
        /\ list' = [list EXCEPT ![l] = [count |-> c, heads |-> TopOf(Range(f), value_holder_', c)]]
        /\ writer' = [writer EXCEPT ![t] = [at |-> "swap", key |-> writer[t].key, value |-> writer[t].value,
                                            new |-> l, old |-> bucket_list_]]
  BY Zenon DEF Copy, Goto
<1>2. PICK N : N = Range(f)
  OBVIOUS
<1>3. l \in Lists /\ state[l] = "free"
  BY DEF New, Free
<1>4. f \in [InList -> Free(Nodes)] /\ \A m, n \in InList : f[m] = f[n] => m = n
  BY DEF Copies, Injection, IsInjective
<1>5. f \in [InList -> N] /\ N \in SUBSET Nodes /\ \A n \in N : state[n] = "free" /\ \E m \in InList : f[m] = n
  BY <1>2, <1>4 DEF Range, Free
<1>6. ASSUME NEW n \in InList PROVE value_holder_'[f[n]] = value_holder_[n]
  <2>1. (CHOOSE o \in InList : f[o] = f[n]) = n
    BY <1>4
  <2>2. f[n] \in Nodes /\ f[n] \in N
    BY <1>5
  <2> QED
    BY <1>1, <1>2, <2>1, <2>2
<1>7. \A n \in Nodes \ N : value_holder_'[n] = value_holder_[n]
  BY <1>1, <1>2
<1>8. DOMAIN value_holder_' = Nodes /\ value_holder_' = [n \in Nodes |-> value_holder_'[n]]
  BY <1>1
<1>9. state' = [o \in Nodes \cup Lists |-> IF o \in N \cup {l} THEN "live" ELSE state[o]]
  BY <1>1, <1>2 DEF TypeOK
<1>10. Copied(t, c, l, f, N)
  BY <1>1, <1>2, <1>3, <1>4, <1>5, <1>6, <1>7, <1>8, <1>9 DEF Copied
<1> QED
  BY <1>10

\* What a pushed node points to is a node or nothing.
LEMMA BelowType ==
  ASSUME NEW N \in SUBSET Nodes, NEW vh, NEW c \in Nat
  PROVE  /\ TopOf(N, vh, c) \in [1..c -> Maybe(Nodes)]
         /\ \A n \in N : Below(N, vh, c, n) \in Maybe(Nodes)
<1>1. \A D \in SUBSET Nodes : Highest(D) \in Maybe(Nodes)
  BY HighestNode DEF Maybe
<1>2. \A b : Pushed(N, vh, b, c) \in SUBSET Nodes
  BY DEF Pushed
<1>3. ASSUME NEW n \in N
      PROVE  {m \in Pushed(N, vh, BucketId(vh[n].key, c), c) : m < n} \in SUBSET Nodes
  BY <1>2
<1> QED
  BY <1>1, <1>2, <1>3 DEF TopOf, Below

\* rehash builds lists and nodes of the right types.
LEMMA CopyType ==
  ASSUME TypeOK, NEW t \in Writers, NEW c \in 1..MaxBuckets, NEW l, NEW f, NEW N, Copied(t, c, l, f, N),
         bucket_list_ # None
  PROVE  /\ state' \in [Nodes \cup Lists -> {"free", "live", "retired"}]
         /\ next_' \in [Nodes -> Maybe(Nodes)]
         /\ refcount_' \in [Nodes -> Nat]
         /\ value_holder_' \in [Nodes -> [key : Maybe(Keys), value : Maybe(Values)]]
         /\ ListsTyped'
         /\ writer'[t] \in [at : {"swap"}, key : Maybe(Keys), value : Maybe(Values),
                            new : Lists, old : Lists]
         /\ writer' = [writer EXCEPT ![t] = writer'[t]]
<1>0. c \in Nat /\ l \in Lists /\ N \in SUBSET Nodes
  BY HashMapAssumption DEF Copied
<1>1. InList \subseteq Nodes
  BY DEF InList, Reach
<1>2. value_holder_' \in [Nodes -> [key : Maybe(Keys), value : Maybe(Values)]]
  <2>1. ASSUME NEW n \in Nodes PROVE value_holder_'[n] \in [key : Maybe(Keys), value : Maybe(Values)]
    <3>1. CASE n \in N
      <4>1. PICK m \in InList : f[m] = n
        BY <3>1 DEF Copied
      <4> QED
        BY <1>1, <4>1 DEF Copied, TypeOK
    <3>2. CASE n \notin N
      BY <3>2 DEF Copied, TypeOK
    <3> QED
      BY <3>1, <3>2
  <2> QED
    BY <2>1 DEF Copied
<1>3. next_' \in [Nodes -> Maybe(Nodes)]
  BY <1>0, BelowType DEF Copied, TypeOK
<1>4. TopOf(N, value_holder_', c) \in [1..c -> Maybe(Nodes)]
  BY <1>0, BelowType
<1>5. ListsTyped'
  BY <1>0, <1>4, ListPut DEF Copied
<1>6. bucket_list_ \in Lists
  BY DEF TypeOK, Maybe
<1>7. writer[t] \in [at : {"idle", "cas", "lock", "swap", "link", "release", "clear", "retire"},
                     key : Maybe(Keys), value : Maybe(Values),
                     new : Maybe(Lists), old : Maybe(Nodes \cup Lists)]
  BY DEF TypeOK
<1>8. writer'[t] = [at |-> "swap", key |-> writer[t].key, value |-> writer[t].value,
                    new |-> l, old |-> bucket_list_]
      /\ writer' = [writer EXCEPT ![t] = writer'[t]]
  BY DEF Copied, TypeOK
<1>9. state' \in [Nodes \cup Lists -> {"free", "live", "retired"}] /\ refcount_' \in [Nodes -> Nat]
  BY DEF Copied, TypeOK
<1> QED
  BY <1>0, <1>2, <1>3, <1>5, <1>6, <1>7, <1>8, <1>9
-----------------------------------------------------------------------------
(* Memory.                                                                 *)

InUse == {o \in Nodes : state[o] # "free"}

\* The references to a node can be counted.
LEMMA HoldersFinite ==
  ASSUME NEW n PROVE IsFiniteSet(Holders(n)) /\ Cardinality(Holders(n)) \in Nat
<1>1. Holders(n) \in SUBSET (Nodes \cup Lists \cup Writers)
  BY DEF Holders
<1>2. IsFiniteSet(Nodes \cup Lists \cup Writers)
  BY Constants, FS_Union
<1>3. IsFiniteSet(Holders(n))
  BY <1>1, <1>2, FS_Subset
<1> QED
  BY <1>3, FS_CardinalityType

\* A node that anything refers to is counted and live.
LEMMA HeldLives ==
  ASSUME TypeOK, Memory, NEW n \in Nodes
  PROVE  /\ Holders(n) # {} => state[n] = "live" /\ refcount_[n] \in Nat \ {0}
         /\ Holders(n) = {} => refcount_[n] = 0
<1>1. refcount_[n] = Cardinality(Holders(n)) /\ refcount_[n] \in Nat
  BY DEF Memory, RefcountExact, TypeOK
<1>2. Holders(n) # {} => refcount_[n] # 0
  BY <1>1, HoldersFinite, FS_EmptySet
<1>3. Holders(n) = {} => refcount_[n] = 0
  BY <1>1, FS_EmptySet
<1> QED
  BY <1>1, <1>2, <1>3 DEF Memory, Living

\* What is in use refers to live nodes only.
LEMMA Targets ==
  ASSUME TypeOK, Memory
  PROVE  /\ \A m \in InUse : next_[m] # None => next_[m] \in Nodes /\ state[next_[m]] = "live"
         /\ \A l \in Lists : state[l] # "free" =>
              \A h \in Heads(l) : h # None => h \in Nodes /\ state[h] = "live"
         /\ \A t \in Writers : writer[t].old \in Nodes => state[writer[t].old] = "live"
         /\ Closed(next_, InUse)
<1>1. ASSUME NEW m \in InUse, next_[m] # None
      PROVE  next_[m] \in Nodes /\ state[next_[m]] = "live"
  <2>1. next_[m] \in Nodes
    BY <1>1 DEF TypeOK, Maybe, InUse
  <2>2. m \in Holders(next_[m])
    BY DEF Holders, InUse
  <2> QED
    BY <2>1, <2>2, HeldLives
<1>2. ASSUME NEW l \in Lists, state[l] # "free", NEW h \in Heads(l), h # None
      PROVE  h \in Nodes /\ state[h] = "live"
  <2>1. h \in Nodes
    BY <1>2, ListTypes DEF Maybe
  <2>2. l \in Holders(h)
    BY <1>2 DEF Holders
  <2> QED
    BY <2>1, <2>2, HeldLives
<1>3. ASSUME NEW t \in Writers, writer[t].old \in Nodes PROVE state[writer[t].old] = "live"
  <2>1. t \in Holders(writer[t].old)
    BY DEF Holders
  <2> QED
    BY <1>3, <2>1, HeldLives
<1>4. Closed(next_, InUse)
  BY <1>1 DEF Closed, InUse
<1> QED
  BY <1>1, <1>2, <1>3, <1>4

\* Nothing refers to a free node.
LEMMA FreeUnheld ==
  ASSUME TypeOK, Memory, NEW n \in Nodes, state[n] # "live"
  PROVE  Holders(n) = {} /\ refcount_[n] = 0
BY HeldLives

\* The lists in use and what they lead to are in use.
LEMMA MembersInUse ==
  ASSUME TypeOK, Memory, NEW l \in Lists, state[l] # "free"
  PROVE  /\ Members(l) \subseteq InUse
         /\ \A b \in 1..list[l].count : Chain(l, b) \subseteq InUse
<1>0. next_ \in [Nodes -> Maybe(Nodes)] /\ InUse \in SUBSET Nodes
  BY DEF TypeOK, InUse
<1>1. Heads(l) \in SUBSET Maybe(Nodes) /\ \A h \in Heads(l) : h # None => h \in InUse
  BY ListTypes, Targets DEF InUse
<1>2. Closed(next_, InUse)
  BY Targets
<1>3. Members(l) \subseteq InUse
  BY <1>0, <1>1, <1>2, ReachLeast DEF Members
<1>4. ASSUME NEW b \in 1..list[l].count PROVE Chain(l, b) \subseteq InUse
  <2>1. list[l].heads[b] \in Heads(l)
    BY DEF Heads
  <2>2. {list[l].heads[b]} \in SUBSET Maybe(Nodes) /\ \A h \in {list[l].heads[b]} : h # None => h \in InUse
    BY <1>1, <2>1
  <2> QED
    BY <1>0, <1>2, <2>2, ReachLeast DEF Chain
<1> QED
  BY <1>3, <1>4
-----------------------------------------------------------------------------
(* Types, continued: the steps that change nodes or readers.               *)

\* A bucket of the map's list is overwritten.
LEMMA HeadPut ==
  ASSUME TypeOK, NEW l \in Lists, NEW b \in 1..list[l].count, NEW y \in Maybe(Nodes),
         list' = [list EXCEPT ![l].heads[b] = y]
  PROVE  /\ ListsTyped'
         /\ \A x \in Lists : x # l => list'[x] = list[x]
         /\ list'[l].count = list[l].count
         /\ \A d \in 1..list[l].count : list'[l].heads[d] = IF d = b THEN y ELSE list[l].heads[d]
<1>1. PICK c \in 1..MaxBuckets : list[l] \in [count : {c}, heads : [1..c -> Maybe(Nodes)]]
  BY DEF TypeOK
<1>2. list = [x \in Lists |-> list[x]]
  BY DEF TypeOK
<1>3. list'[l] = [list[l] EXCEPT !.heads = [list[l].heads EXCEPT ![b] = y]]
      /\ \A x \in Lists : x # l => list'[x] = list[x]
  BY <1>2
<1>4. list' = [x \in Lists |-> list'[x]]
  BY <1>2
<1>5. list'[l] \in [count : {c}, heads : [1..c -> Maybe(Nodes)]]
  <2>1. PICK h : h = [list[l].heads EXCEPT ![b] = y]
    OBVIOUS
  <2>2. h \in [1..c -> Maybe(Nodes)]
    BY <1>1, <2>1
  <2>3. list'[l] = [list[l] EXCEPT !.heads = h]
    BY <1>3, <2>1
  <2> QED
    BY <1>1, <2>2, <2>3
<1>6. list'[l].count = list[l].count
      /\ \A d \in 1..list[l].count : list'[l].heads[d] = IF d = b THEN y ELSE list[l].heads[d]
  BY <1>1, <1>3
<1>7. \A x \in Lists : \E d \in 1..MaxBuckets :
              list'[x] \in [count : {d}, heads : [1..d -> Maybe(Nodes)]]
  BY <1>3, <1>5 DEF TypeOK
<1> QED
  BY <1>3, <1>4, <1>6, <1>7 DEF ListsTyped

\* insert_internal with its rehash.
LEMMA RehashType ==
  ASSUME MapInv, NEW t \in Writers, InsertRehash(t) PROVE TypeOK'
<1>0. TypeOK /\ bucket_list_ # None
  BY DEF MapInv, WritersFit, WriterFits, InsertRehash
<1>1. bucket_list_ \in Lists
  BY <1>0 DEF TypeOK, Maybe
<1> DEFINE c == 2 * list[bucket_list_].count
<1>2. c \in 1..MaxBuckets /\ c \in Nat
  <2>1. list[bucket_list_].count \in 1..MaxBuckets /\ MaxBuckets \in Nat
    BY <1>0, <1>1, ListTypes, HashMapAssumption
  <2>2. c <= MaxBuckets
    BY DEF InsertRehash, Copy
  <2> QED
    BY <2>1, <2>2
<1> HIDE DEF c
<1>3. Copy(t, c)
  BY DEF InsertRehash, c
<1>4. PICK l, f, N : Copied(t, c, l, f, N)
  BY <1>0, <1>3, CopyDoes
<1>5. load_factor_cnt_threshold_' \in Nat
  BY <1>2, <1>3 DEF Copy, Threshold
<1>6. writer' \in [Writers -> WriterStates]
  <2>1. writer'[t] \in WriterStates /\ writer' = [writer EXCEPT ![t] = writer'[t]]
    BY <1>0, <1>2, <1>4, CopyType DEF WriterStates, Maybe
  <2> QED
    BY <1>0, <2>1 DEF TypeOK, WriterStates
<1> QED
  BY <1>0, <1>2, <1>4, <1>5, <1>6, CopyType DEF TypeOK, InsertRehash, WriterStates, Maybe, ListsTyped

\* reserve.
LEMMA ReserveType ==
  ASSUME MapInv, NEW t \in Writers, NEW c \in Reserves, Reserve(t, c) PROVE TypeOK'
<1>0. TypeOK /\ bucket_list_ # None /\ Copy(t, c)
  BY DEF MapInv, Reserve
<1>2. c \in 1..MaxBuckets /\ c \in Nat
  BY HashMapAssumption
<1>4. PICK l, f, N : Copied(t, c, l, f, N)
  BY <1>0, CopyDoes
<1>5. load_factor_cnt_threshold_' \in Nat
  BY <1>0, <1>2 DEF Copy, Threshold
<1>6. writer' \in [Writers -> WriterStates]
  <2>1. writer'[t] \in WriterStates /\ writer' = [writer EXCEPT ![t] = writer'[t]]
    BY <1>0, <1>2, <1>4, CopyType DEF WriterStates, Maybe
  <2> QED
    BY <1>0, <2>1 DEF TypeOK, WriterStates
<1>7. calls' \in 0..MaxCalls
  BY <1>0, HashMapAssumption DEF Reserve, Call, TypeOK
<1> QED
  BY <1>0, <1>2, <1>4, <1>5, <1>6, <1>7, CopyType DEF TypeOK, Reserve, WriterStates, Maybe, ListsTyped

\* A writer with nothing to do has the type of a writer.
LEMMA IdleType == Idle \in WriterStates
BY DEF Idle, WriterStates, Maybe

\* The store at the end of rehash.
LEMMA SwapType ==
  ASSUME MapInv, NEW t \in Writers, Swap(t) PROVE TypeOK'
<1>1. TypeOK /\ writer[t].new \in Lists /\ writer[t].old \in Lists
  BY DEF MapInv, WritersFit, WriterFits, CopyFits, Fresh, Swap, TypeOK, Maybe
<1>2. writer[t] \in WriterStates
  BY <1>1 DEF TypeOK, WriterStates
<1>3. writer' \in [Writers -> WriterStates]
  <2>1. \/ writer' = [writer EXCEPT ![t] = [at |-> "link", key |-> writer[t].key, value |-> writer[t].value,
                                            new |-> None, old |-> None]]
        \/ writer' = [writer EXCEPT ![t] = Idle]
    BY DEF Swap, Goto
  <2>2. [at |-> "link", key |-> writer[t].key, value |-> writer[t].value, new |-> None, old |-> None] \in WriterStates
    BY <1>2 DEF WriterStates, Maybe
  <2> QED
    BY <1>1, <2>1, <2>2, IdleType DEF TypeOK, WriterStates
<1>4. state' \in [Nodes \cup Lists -> {"free", "live", "retired"}]
  BY <1>1 DEF Swap, TypeOK
<1> QED
  BY <1>1, <1>3, <1>4 DEF TypeOK, Swap, nodeVars, WriterStates, Maybe

\* With(k) is a node of the list, the only one with its key.
LEMMA WithIs ==
  ASSUME MapInv, NEW k \in Keys, bucket_list_ # None
  PROVE  /\ bucket_list_ \in Lists /\ list[bucket_list_].count \in Nat \ {0}
         /\ BucketId(k, list[bucket_list_].count) \in 1..list[bucket_list_].count
         /\ InList = Members(bucket_list_) /\ InList \subseteq InUse
         /\ With(k) = {n \in InList : value_holder_[n].key = k}
         /\ \A m, n \in InList : value_holder_[m].key = value_holder_[n].key => m = n
<1>1. TypeOK /\ Memory /\ Linked(bucket_list_) /\ state[bucket_list_] = "live" /\ bucket_list_ \in Lists
  BY DEF MapInv, Current, TypeOK, Maybe
<1> DEFINE l == bucket_list_
           L == list[bucket_list_]
           b == BucketId(k, list[bucket_list_].count)
<1>2. IsList(L) /\ next_ \in [Nodes -> Maybe(Nodes)]
  BY <1>1, ListTypes DEF TypeOK
<1>3. L.count \in Nat \ {0} /\ b \in 1..L.count
  BY <1>2, BucketRange DEF IsList
<1>4. InList = Members(l) /\ InList \subseteq InUse
  BY <1>1, MembersInUse DEF InList, Members
<1>5. Wired(L, next_, value_holder_, InList)
  BY <1>1, <1>4 DEF Linked
<1>6. PICK rank : Ranked(next_, rank)
  BY <1>1 DEF Memory, Acyclic
<1>7. Chain(l, b) = {n \in InList : Bucket(value_holder_, n, L.count) = b}
  <2> HIDE DEF b
  <2> QED
    BY <1>2, <1>3, <1>5, <1>6, WiredChain DEF Chain
<1>8. With(k) = {n \in InList : value_holder_[n].key = k}
  BY <1>7 DEF With, Bucket
<1>9. \A m, n \in InList : value_holder_[m].key = value_holder_[n].key => m = n
  BY <1>5 DEF Wired, KeysOnce
<1> QED
  BY <1>1, <1>3, <1>4, <1>8, <1>9

\* The pointer to x is stored over.
LEMMA StorePrevDoes ==
  ASSUME MapInv, NEW k \in Keys, bucket_list_ # None, NEW x, NEW y \in Maybe(Nodes), NEW next, 
         \A n \in Nodes : next[n] \in Maybe(Nodes), StorePrev(k, x, y, next)
  PROVE  /\ ListsTyped'
         /\ \A l \in Lists : l # bucket_list_ => list'[l] = list[l]
         /\ list'[bucket_list_].count = list[bucket_list_].count
         /\ \A d \in 1..list[bucket_list_].count : list'[bucket_list_].heads[d] =
              IF d = BucketId(k, list[bucket_list_].count) /\ list[bucket_list_].heads[d] = x
              THEN y ELSE list[bucket_list_].heads[d]
         /\ next_' \in [Nodes -> Maybe(Nodes)]
         /\ \A n \in Nodes : next_'[n] = IF n \in InList /\ next_[n] = x THEN y ELSE next[n]
<1>1. TypeOK /\ bucket_list_ \in Lists /\ BucketId(k, list[bucket_list_].count) \in 1..list[bucket_list_].count
  BY WithIs DEF MapInv
<1>2. PICK b \in 1..list[bucket_list_].count : b = BucketId(k, list[bucket_list_].count)
  BY <1>1
<1>3. PICK z : z = IF list[bucket_list_].heads[b] = x THEN y ELSE list[bucket_list_].heads[b]
  OBVIOUS
<1>4. z \in Maybe(Nodes)
  BY <1>1, <1>3, ListTypes DEF IsList
<1>5. list' = [list EXCEPT ![bucket_list_].heads[b] = z]
  BY <1>2, <1>3 DEF StorePrev
<1>6. /\ next_' \in [Nodes -> Maybe(Nodes)]
      /\ \A n \in Nodes : next_'[n] = IF n \in InList /\ next_[n] = x THEN y ELSE next[n]
  BY DEF StorePrev
<1>7. /\ ListsTyped'
      /\ \A v \in Lists : v # bucket_list_ => list'[v] = list[v]
      /\ list'[bucket_list_].count = list[bucket_list_].count
      /\ \A d \in 1..list[bucket_list_].count :
            list'[bucket_list_].heads[d] = IF d = b THEN z ELSE list[bucket_list_].heads[d]
  BY <1>1, <1>4, <1>5, HeadPut
<1>8. \A d \in 1..list[bucket_list_].count : list'[bucket_list_].heads[d] =
              IF d = BucketId(k, list[bucket_list_].count) /\ list[bucket_list_].heads[d] = x
              THEN y ELSE list[bucket_list_].heads[d]
  BY <1>2, <1>3, <1>7
<1> QED
  BY <1>6, <1>7, <1>8

\* Finders only ever note values, or None.
LEMMA SeenType ==
  ASSUME seen \in [Readers -> SUBSET Maybe(Values)], Observe,
         value_holder_' \in [Nodes -> [key : Maybe(Keys), value : Maybe(Values)]]
  PROVE  seen' \in [Readers -> SUBSET Maybe(Values)]
<1>1. ASSUME NEW k PROVE Lookup(k)' \in Maybe(Values)
  <2>1. With(k)' \subseteq Nodes
    BY DEF With, Chain, Reach
  <2>2. PICK S : S = With(k)'
    OBVIOUS
  <2>3. Lookup(k)' = IF S = {} THEN None ELSE value_holder_'[CHOOSE n \in S : TRUE].value
    BY <2>2 DEF Lookup
  <2> QED
    BY <2>1, <2>2, <2>3 DEF Maybe
<1> QED
  BY <1>1 DEF Observe

\* A writer goes on, the others stay where they are.
LEMMA WriterPut ==
  ASSUME TypeOK, NEW t \in Writers, NEW at, NEW k, NEW v, NEW new, NEW old, Goto(t, at, k, v, new, old),
         at \in {"idle", "cas", "lock", "swap", "link", "release", "clear", "retire"},
         k \in Maybe(Keys), v \in Maybe(Values), new \in Maybe(Lists), old \in Maybe(Nodes \cup Lists)
  PROVE  /\ writer' \in [Writers -> WriterStates]
         /\ writer'[t] = [at |-> at, key |-> k, value |-> v, new |-> new, old |-> old]
         /\ \A u \in Writers : u # t => writer'[u] = writer[u]
BY DEF Goto, TypeOK, WriterStates

\* A writer returns, the others stay where they are.
LEMMA WriterIdle ==
  ASSUME TypeOK, NEW t \in Writers, writer' = [writer EXCEPT ![t] = Idle]
  PROVE  /\ writer' \in [Writers -> WriterStates]
         /\ writer'[t] = Idle
         /\ \A u \in Writers : u # t => writer'[u] = writer[u]
BY IdleType DEF TypeOK, WriterStates

\* Nothing but an existing node is acquired.
LEMMA AcquireIs ==
  ASSUME TypeOK, NEW y
  PROVE  /\ Acquire(y) \in [Nodes -> Nat]
         /\ \A m \in Nodes : Acquire(y)[m] = IF m = y THEN refcount_[m] + 1 ELSE refcount_[m]
BY DEF Acquire, TypeOK

\* What the allocator hands out is used nowhere.
LEMMA NewNode ==
  ASSUME TypeOK, Memory, NEW n \in New(Nodes)
  PROVE  /\ n \in Nodes /\ state[n] = "free" /\ n \notin InUse /\ n # None /\ next_[n] = None
         /\ refcount_[n] = 0 /\ Holders(n) = {}
<1>1. n \in Nodes /\ state[n] = "free"
  BY DEF New, Free
<1> QED
  BY <1>1, FreeUnheld, Constants DEF InUse, Memory, Contents
-----------------------------------------------------------------------------
(* What insert and erase do to the list.                                   *)

\* The pointer to x in its bucket now leads to y.
Redirected(x, y) ==
  /\ \A l \in Lists : l # bucket_list_ => list'[l] = list[l]
  /\ list'[bucket_list_].count = list[bucket_list_].count
  /\ \A d \in 1..list[bucket_list_].count : list'[bucket_list_].heads[d] =
        IF d = Bucket(value_holder_, x, list[bucket_list_].count) /\ list[bucket_list_].heads[d] = x
        THEN y ELSE list[bucket_list_].heads[d]
Unlinking(t, x) ==
  /\ x \in InList /\ bucket_list_ # None
  /\ writer'[t] = [at |-> "release", key |-> None, value |-> None, new |-> None, old |-> x]
  /\ \A u \in Writers : u # t => writer'[u] = writer[u]
Replaced(t, n, x) ==
  /\ Unlinking(t, x) /\ Redirected(x, n)
  /\ value_holder_[x].key = writer[t].key
  /\ value_holder_' = [value_holder_ EXCEPT ![n] = [key |-> writer[t].key, value |-> writer[t].value]]
  /\ \A m \in Nodes : refcount_'[m] = IF m = n THEN 1 ELSE IF m = next_[x] THEN refcount_[m] + 1 ELSE refcount_[m]
  /\ \A m \in Nodes : next_'[m] = IF m = n THEN next_[x]
                                  ELSE IF m \in InList /\ next_[m] = x THEN n ELSE next_[m]
  /\ size_' = size_
PushedOn(t, n) ==
  LET b == BucketId(writer[t].key, list[bucket_list_].count) IN
  /\ \A m \in InList : value_holder_[m].key # writer[t].key
  /\ value_holder_' = [value_holder_ EXCEPT ![n] = [key |-> writer[t].key, value |-> writer[t].value]]
  /\ refcount_' = [refcount_ EXCEPT ![n] = 1]
  /\ next_' = [next_ EXCEPT ![n] = list[bucket_list_].heads[b]]
  /\ \A l \in Lists : l # bucket_list_ => list'[l] = list[l]
  /\ list'[bucket_list_].count = list[bucket_list_].count
  /\ \A d \in 1..list[bucket_list_].count : list'[bucket_list_].heads[d] =
        IF d = b THEN n ELSE list[bucket_list_].heads[d]
  /\ size_' = size_ + 1
  /\ writer' = [writer EXCEPT ![t] = Idle]

\* insert_internal replaces the key's node or pushes a new one.
LEMMA LinkDoes ==
  ASSUME MapInv, NEW t \in Writers, Link(t)
  PROVE  \E n \in New(Nodes) :
           /\ writer[t].key \in Keys /\ writer[t].value \in Values /\ bucket_list_ # None
           /\ state' = [state EXCEPT ![n] = "live"]
           /\ value_holder_' \in [Nodes -> [key : Maybe(Keys), value : Maybe(Values)]]
           /\ next_' \in [Nodes -> Maybe(Nodes)] /\ refcount_' \in [Nodes -> Nat]
           /\ writer' \in [Writers -> WriterStates]
           /\ ListsTyped'
           /\ (\E x \in Nodes : Replaced(t, n, x)) \/ PushedOn(t, n)
<1>1. TypeOK /\ Memory
  BY DEF MapInv
<1>2. writer[t].key \in Keys /\ writer[t].value \in Values /\ bucket_list_ # None
  BY DEF MapInv, WritersFit, WriterFits, Link
<1> DEFINE k == writer[t].key
           b == BucketId(writer[t].key, list[bucket_list_].count)
           L == list[bucket_list_]
<1>3. PICK n \in New(Nodes) :
        /\ state' = [state EXCEPT ![n] = "live"]
        /\ value_holder_' = [value_holder_ EXCEPT ![n] = [key |-> k, value |-> writer[t].value]]
        /\ \/ \E x \in With(k) :
                /\ refcount_' = [Acquire(next_[x]) EXCEPT ![n] = 1]
                /\ StorePrev(k, x, n, [next_ EXCEPT ![n] = next_[x]])
                /\ size_' = size_
                /\ Goto(t, "release", None, None, None, x)
           \/ /\ With(k) = {}
              /\ refcount_' = [refcount_ EXCEPT ![n] = 1]
              /\ next_' = [next_ EXCEPT ![n] = L.heads[b]]
              /\ list' = [list EXCEPT ![bucket_list_].heads[b] = n]
              /\ size_' = size_ + 1
              /\ writer' = [writer EXCEPT ![t] = Idle]
  BY DEF Link
<1>4. n \in Nodes /\ n \notin InUse /\ next_[n] = None
  BY <1>1, NewNode
<1>5. /\ bucket_list_ \in Lists /\ b \in 1..L.count /\ InList \subseteq InUse
      /\ With(k) = {m \in InList : value_holder_[m].key = k}
  BY <1>2, WithIs
<1>6. value_holder_' \in [Nodes -> [key : Maybe(Keys), value : Maybe(Values)]]
  BY <1>1, <1>2, <1>3, <1>4 DEF TypeOK, Maybe
<1> HIDE DEF b, k
<1>7. CASE With(k) = {}
  <2>1. /\ refcount_' = [refcount_ EXCEPT ![n] = 1]
        /\ next_' = [next_ EXCEPT ![n] = L.heads[b]]
        /\ list' = [list EXCEPT ![bucket_list_].heads[b] = n]
        /\ size_' = size_ + 1
        /\ writer' = [writer EXCEPT ![t] = Idle]
    BY <1>3, <1>7
  <2>2. n \in Maybe(Nodes) /\ L.heads[b] \in Maybe(Nodes)
    BY <1>1, <1>4, <1>5, ListTypes DEF Maybe, IsList
  <2>3. /\ ListsTyped'
        /\ \A x \in Lists : x # bucket_list_ => list'[x] = list[x]
        /\ list'[bucket_list_].count = L.count
        /\ \A d \in 1..L.count : list'[bucket_list_].heads[d] = IF d = b THEN n ELSE L.heads[d]
    BY <1>1, <1>5, <2>1, <2>2, HeadPut
  <2>4. next_' \in [Nodes -> Maybe(Nodes)] /\ refcount_' \in [Nodes -> Nat]
    BY <1>1, <2>1, <2>2 DEF TypeOK
  <2>5. writer' \in [Writers -> WriterStates]
    BY <1>1, <2>1, WriterIdle
  <2>6. \A m \in InList : value_holder_[m].key # k
    BY <1>5, <1>7
  <2>7. PushedOn(t, n)
    BY <1>3, <2>1, <2>3, <2>6 DEF PushedOn, b, k
  <2> QED
    BY <1>2, <1>3, <1>6, <2>3, <2>4, <2>5, <2>7
<1>8. CASE With(k) # {}
  <2>1. PICK x \in With(k) :
                /\ refcount_' = [Acquire(next_[x]) EXCEPT ![n] = 1]
                /\ StorePrev(k, x, n, [next_ EXCEPT ![n] = next_[x]])
                /\ size_' = size_
                /\ Goto(t, "release", None, None, None, x)
    BY <1>3, <1>8
  <2>2. x \in InList /\ value_holder_[x].key = k /\ x \in Nodes /\ n \notin InList
    BY <1>4, <1>5 DEF InUse
  <2>3. n \in Maybe(Nodes) /\ \A m \in Nodes : [next_ EXCEPT ![n] = next_[x]][m] \in Maybe(Nodes)
    BY <1>1, <1>4, <2>2 DEF Maybe, TypeOK
  <2>4. /\ ListsTyped'
        /\ \A l \in Lists : l # bucket_list_ => list'[l] = list[l]
        /\ list'[bucket_list_].count = list[bucket_list_].count
        /\ \A d \in 1..list[bucket_list_].count : list'[bucket_list_].heads[d] =
              IF d = BucketId(k, list[bucket_list_].count) /\ list[bucket_list_].heads[d] = x
              THEN n ELSE list[bucket_list_].heads[d]
        /\ next_' \in [Nodes -> Maybe(Nodes)]
        /\ \A m \in Nodes : next_'[m] = IF m \in InList /\ next_[m] = x THEN n
                                        ELSE [next_ EXCEPT ![n] = next_[x]][m]
    <3>1. k \in Keys
      BY <1>2 DEF k
    <3>2. PICK nx : nx = [next_ EXCEPT ![n] = next_[x]]
      OBVIOUS
    <3>3. (\A m \in Nodes : nx[m] \in Maybe(Nodes)) /\ StorePrev(k, x, n, nx)
      BY <2>1, <2>3, <3>2
    <3>4. PICK y \in Maybe(Nodes) : y = n
      BY <2>3
    <3>5. StorePrev(k, x, y, nx)
      BY <3>3, <3>4
    <3>6. /\ ListsTyped'
          /\ \A l \in Lists : l # bucket_list_ => list'[l] = list[l]
          /\ list'[bucket_list_].count = list[bucket_list_].count
          /\ \A d \in 1..list[bucket_list_].count : list'[bucket_list_].heads[d] =
                IF d = BucketId(k, list[bucket_list_].count) /\ list[bucket_list_].heads[d] = x
                THEN y ELSE list[bucket_list_].heads[d]
          /\ next_' \in [Nodes -> Maybe(Nodes)]
          /\ \A m \in Nodes : next_'[m] = IF m \in InList /\ next_[m] = x THEN y ELSE nx[m]
      BY <1>2, <3>1, <3>3, <3>5, StorePrevDoes
    <3> QED
      BY <3>2, <3>4, <3>6
  <2>5. /\ writer' \in [Writers -> WriterStates]
        /\ writer'[t] = [at |-> "release", key |-> None, value |-> None, new |-> None, old |-> x]
        /\ \A u \in Writers : u # t => writer'[u] = writer[u]
    <3>1. None \in Maybe(Keys) /\ None \in Maybe(Values) /\ None \in Maybe(Lists) /\ x \in Maybe(Nodes \cup Lists)
      BY <2>2 DEF Maybe
    <3> QED
      BY <1>1, <2>1, <3>1, WriterPut
  <2>6. /\ refcount_' \in [Nodes -> Nat]
        /\ \A m \in Nodes : refcount_'[m] = IF m = n THEN 1 ELSE IF m = next_[x] THEN refcount_[m] + 1 ELSE refcount_[m]
    BY <1>1, <2>1, AcquireIs
  <2>7. Unlinking(t, x)
    BY <1>2, <2>2, <2>5 DEF Unlinking
  <2>8. Redirected(x, n)
    BY <2>2, <2>4 DEF Redirected, Bucket
  <2>9. \A m \in Nodes : next_'[m] = IF m = n THEN next_[x]
                                     ELSE IF m \in InList /\ next_[m] = x THEN n ELSE next_[m]
    BY <1>1, <2>2, <2>4 DEF TypeOK
  <2>10. Replaced(t, n, x)
    BY <1>3, <2>1, <2>2, <2>6, <2>7, <2>8, <2>9 DEF Replaced, k
  <2> QED
    BY <1>2, <1>3, <1>6, <2>2, <2>4, <2>5, <2>6, <2>10
<1> QED
  BY <1>7, <1>8

Erased(t, k, x) ==
  /\ Unlinking(t, x) /\ Redirected(x, next_[x])
  /\ value_holder_[x].key = k
  /\ \A m \in Nodes : refcount_'[m] = IF m = next_[x] THEN refcount_[m] + 1 ELSE refcount_[m]
  /\ \A m \in Nodes : next_'[m] = IF m \in InList /\ next_[m] = x THEN next_[x] ELSE next_[m]
  /\ size_' = size_ - 1

\* erase takes out the key's node.
LEMMA EraseDoes ==
  ASSUME MapInv, NEW t \in Writers, NEW k \in Keys, Erase(t, k), With(k) # {}
  PROVE  \E x \in Nodes :
           /\ next_' \in [Nodes -> Maybe(Nodes)] /\ refcount_' \in [Nodes -> Nat]
           /\ writer' \in [Writers -> WriterStates]
           /\ ListsTyped'
           /\ Erased(t, k, x)
<1>1. TypeOK /\ Memory
  BY DEF MapInv
<1>2. bucket_list_ # None
  BY DEF Erase
<1>3. PICK x \in With(k) :
            /\ size_' = size_ - 1
            /\ refcount_' = Acquire(next_[x])
            /\ StorePrev(k, x, next_[x], NextKept(x))
            /\ Goto(t, "release", None, None, None, x)
  BY DEF Erase
<1>4. /\ bucket_list_ \in Lists /\ InList \subseteq InUse
      /\ With(k) = {m \in InList : value_holder_[m].key = k}
  BY <1>2, WithIs
<1>5. x \in InList /\ value_holder_[x].key = k /\ x \in Nodes
  BY <1>4 DEF InUse
<1>6. PICK y \in Maybe(Nodes) : y = next_[x]
  BY <1>1, <1>5 DEF TypeOK
<1>n. PICK nx : nx = next_
  OBVIOUS
<1>7. StorePrev(k, x, y, nx)
  BY <1>3, <1>6, <1>n DEF NextKept
<1>8. \A m \in Nodes : nx[m] \in Maybe(Nodes)
  BY <1>1, <1>n DEF TypeOK
<1>9. /\ ListsTyped'
      /\ \A l \in Lists : l # bucket_list_ => list'[l] = list[l]
      /\ list'[bucket_list_].count = list[bucket_list_].count
      /\ \A d \in 1..list[bucket_list_].count : list'[bucket_list_].heads[d] =
              IF d = BucketId(k, list[bucket_list_].count) /\ list[bucket_list_].heads[d] = x
              THEN y ELSE list[bucket_list_].heads[d]
      /\ next_' \in [Nodes -> Maybe(Nodes)]
      /\ \A m \in Nodes : next_'[m] = IF m \in InList /\ next_[m] = x THEN y ELSE nx[m]
  BY <1>2, <1>7, <1>8, StorePrevDoes
<1>10. /\ writer' \in [Writers -> WriterStates]
       /\ writer'[t] = [at |-> "release", key |-> None, value |-> None, new |-> None, old |-> x]
       /\ \A u \in Writers : u # t => writer'[u] = writer[u]
  <2>1. None \in Maybe(Keys) /\ None \in Maybe(Values) /\ None \in Maybe(Lists) /\ x \in Maybe(Nodes \cup Lists)
    BY <1>5 DEF Maybe
  <2> QED
    BY <1>1, <1>3, <2>1, WriterPut
<1>11. /\ refcount_' \in [Nodes -> Nat]
       /\ \A m \in Nodes : refcount_'[m] = IF m = next_[x] THEN refcount_[m] + 1 ELSE refcount_[m]
  BY <1>1, <1>3, AcquireIs
<1>12. Unlinking(t, x) /\ Redirected(x, next_[x])
  BY <1>2, <1>5, <1>6, <1>9, <1>10 DEF Unlinking, Redirected, Bucket
<1>13. \A m \in Nodes : next_'[m] = IF m \in InList /\ next_[m] = x THEN next_[x] ELSE next_[m]
  BY <1>6, <1>9, <1>n
<1>14. Erased(t, k, x)
  BY <1>3, <1>5, <1>11, <1>12, <1>13 DEF Erased
<1> QED
  BY <1>5, <1>9, <1>10, <1>11, <1>14

\* The facts about the map's list that the steps start from.
LEMMA CurrentIs ==
  ASSUME MapInv, bucket_list_ # None
  PROVE  /\ bucket_list_ \in Lists /\ state[bucket_list_] = "live" /\ IsList(list[bucket_list_])
         /\ Wired(list[bucket_list_], next_, value_holder_, InList)
         /\ InList = Members(bucket_list_) /\ InList \in SUBSET InUse /\ InList \in SUBSET Nodes
         /\ IsFiniteSet(InList) /\ size_ = Cardinality(InList)
<1>1. TypeOK /\ Memory /\ Linked(bucket_list_) /\ state[bucket_list_] = "live" /\ bucket_list_ \in Lists
      /\ size_ = Cardinality(InList)
  BY DEF MapInv, Current, TypeOK, Maybe
<1>2. InList = Members(bucket_list_) /\ InList \in SUBSET InUse
  BY <1>1, MembersInUse DEF InList, Members
<1>3. InList \in SUBSET Nodes /\ IsFiniteSet(InList)
  BY <1>2, Constants, FS_Subset DEF InUse
<1> QED
  BY <1>1, <1>2, <1>3, ListTypes DEF Linked

\* Nothing points to a free node.
LEMMA Unpointed ==
  ASSUME TypeOK, Memory, NEW n \in Nodes, state[n] # "live"
  PROVE  /\ \A m \in Nodes : next_[m] # n
         /\ \A l \in Lists : state[l] # "free" => n \notin Heads(l)
         /\ \A t \in Writers : writer[t].old # n
<1>1. Holders(n) = {}
  BY FreeUnheld
<1>2. \A m \in Nodes : next_[m] # n
  <2>1. \A m \in Nodes : state[m] = "free" => next_[m] = None
    BY DEF Memory, Contents
  <2> QED
    BY <1>1, <2>1, Constants DEF Holders
<1> QED
  BY <1>1, <1>2 DEF Holders

\* A list after a step has a bucket count and buckets.
LEMMA NextListTyped ==
  ASSUME ListsTyped', NEW l \in Lists
  PROVE  /\ IsList(list'[l]) /\ Heads(l)' = HeadsOf(list'[l])
<1>1. PICK c \in 1..MaxBuckets : list'[l] \in [count : {c}, heads : [1..c -> Maybe(Nodes)]]
  BY DEF ListsTyped
<1>2. list'[l].count = c /\ list'[l].heads \in [1..c -> Maybe(Nodes)] /\ c \in Nat \ {0}
  BY <1>1, HashMapAssumption
<1> QED
  BY <1>2 DEF IsList, Heads, HeadsOf

\* What a list is made of after a step.
LEMMA NextList ==
  ASSUME ListsTyped', next_' \in [Nodes -> Maybe(Nodes)], NEW l \in Lists, NEW M, NEW rank, Ranked(next_', rank),
         Wired(list'[l], next_', value_holder_', M)
  PROVE  Members(l)' = M /\ Linked(l)'
<1>1. IsList(list'[l]) /\ Heads(l)' = HeadsOf(list'[l])
  BY NextListTyped
<1>2. Members(l)' = Reach(next_', HeadsOf(list'[l]))
  BY <1>1 DEF Members
<1>3. Reach(next_', HeadsOf(list'[l])) = M
  BY <1>1, WiredReach
<1> QED
  BY <1>2, <1>3 DEF Linked
-----------------------------------------------------------------------------
(* The map's list behind insert and erase.                                 *)

\* A push leaves a list in order, with one node more and no cycle.
LEMMA PushList ==
  ASSUME MapInv, NEW t \in Writers, NEW n \in New(Nodes), PushedOn(t, n), writer[t].key \in Keys,
         bucket_list_ # None, ListsTyped', next_' \in [Nodes -> Maybe(Nodes)], bucket_list_' = bucket_list_
  PROVE  /\ Linked(bucket_list_)' /\ Members(bucket_list_)' = InList \cup {n} /\ InList' = InList \cup {n}
         /\ n \notin InList /\ size_' = Cardinality(InList \cup {n}) /\ size_' \in 0..Cardinality(Keys)
         /\ Acyclic'
<1> DEFINE L == list[bucket_list_]
           L2 == list'[bucket_list_]
           b == BucketId(writer[t].key, list[bucket_list_].count)
<1>1. TypeOK /\ Memory
  BY DEF MapInv
<1>2. n \in Nodes /\ state[n] = "free" /\ n \notin InUse /\ n # None /\ next_[n] = None
  BY <1>1, NewNode
<1>3. /\ bucket_list_ \in Lists /\ state[bucket_list_] = "live" /\ IsList(L)
      /\ Wired(L, next_, value_holder_, InList)
      /\ InList = Members(bucket_list_) /\ InList \in SUBSET InUse /\ InList \in SUBSET Nodes
      /\ IsFiniteSet(InList) /\ size_ = Cardinality(InList)
  BY CurrentIs
<1>4. b \in 1..L.count /\ n \notin InList /\ value_holder_ \in [Nodes -> [key : Maybe(Keys), value : Maybe(Values)]]
  BY <1>1, <1>2, <1>3, WithIs DEF TypeOK
<1>5. /\ L2.count = L.count
      /\ \A d \in 1..L.count : L2.heads[d] = IF d = b THEN n ELSE L.heads[d]
      /\ \A m \in InList : next_'[m] = next_[m] /\ value_holder_'[m] = value_holder_[m]
      /\ next_'[n] = L.heads[b]
      /\ value_holder_'[n].key = writer[t].key
      /\ \A m \in InList : value_holder_'[m].key # value_holder_'[n].key
  BY <1>1, <1>2, <1>3, <1>4 DEF PushedOn, TypeOK
<1>6. value_holder_'[n].key \in Keys /\ b = Bucket(value_holder_', n, L.count)
  BY <1>5 DEF Bucket
<1>7. Wired(L2, next_', value_holder_', InList \cup {n})
  <2> HIDE DEF b, L, L2
  <2>1. PICK c \in 1..L.count : c = b
    BY <1>4
  <2> QED
    BY <1>2, <1>3, <1>4, <1>5, <1>6, <2>1, WiredPush
<1>8. PICK rank : Ranked(next_, rank)
  BY <1>1 DEF Memory, Acyclic
<1>9. PICK h \in Maybe(Nodes) : h = L.heads[b]
  BY <1>3, <1>4 DEF IsList
<1>10. PICK top \in Nat : top = IF h = None THEN 0 ELSE rank[h] + 1
  BY <1>8, <1>9 DEF Ranked, Maybe
<1>11. Ranked(next_', [rank EXCEPT ![n] = top])
  <2>1. \A m \in Nodes : next_[m] # n
    BY <1>1, <1>2, Unpointed
  <2>2. next_' = [next_ EXCEPT ![n] = h]
    BY <1>9 DEF PushedOn
  <2>3. h # n
    <3>1. h \in Heads(bucket_list_)
      BY <1>4, <1>9 DEF Heads
    <3> QED
      BY <1>1, <1>2, <1>3, <3>1, Unpointed
  <2>4. next_ \in [Nodes -> Maybe(Nodes)]
    BY <1>1 DEF TypeOK
  <2>5. [rank EXCEPT ![n] = top] \in [Nodes -> Nat]
    BY <1>8 DEF Ranked
  <2>6. ASSUME NEW m \in Nodes, next_'[m] # None
        PROVE  [rank EXCEPT ![n] = top][next_'[m]] < [rank EXCEPT ![n] = top][m]
    <3>1. CASE m = n
      BY <1>2, <1>8, <1>9, <1>10, <2>2, <2>3, <2>4, <2>6, <3>1 DEF Ranked, Maybe
    <3>2. CASE m # n
      BY <1>2, <1>8, <2>1, <2>2, <2>4, <2>6, <3>2 DEF Ranked, Maybe
    <3> QED
      BY <3>1, <3>2
  <2> QED
    BY <2>5, <2>6 DEF Ranked
<1>12. Members(bucket_list_)' = InList \cup {n} /\ Linked(bucket_list_)'
  <2>1. PICK l \in Lists : l = bucket_list_
    BY <1>3
  <2>2. Wired(list'[l], next_', value_holder_', InList \cup {n})
    BY <1>7, <2>1
  <2>3. Members(l)' = InList \cup {n} /\ Linked(l)'
    BY <1>11, <2>2, NextList
  <2>4. l = bucket_list_'
    BY <2>1
  <2> QED
    BY <2>3, <2>4
<1>13. InList' = InList \cup {n}
  BY <1>3, <1>12, Constants DEF InList, Members
<1>14. size_' = Cardinality(InList \cup {n})
  BY <1>3, <1>4, FS_AddElement DEF PushedOn
<1>15. size_' \in 0..Cardinality(Keys)
  <2>1. InList \cup {n} \in SUBSET Nodes /\ KeysOnce(value_holder_', InList \cup {n})
    BY <1>7 DEF Wired
  <2> QED
    BY <1>14, <2>1, SizeFits
<1> QED
  BY <1>4, <1>11, <1>12, <1>13, <1>14, <1>15 DEF Acyclic

\* A replacement leaves a list in order, with the new node for the old one.
LEMMA ReplaceList ==
  ASSUME MapInv, NEW t \in Writers, NEW n \in New(Nodes), NEW x \in Nodes, Replaced(t, n, x),
         writer[t].key \in Keys,
         ListsTyped', next_' \in [Nodes -> Maybe(Nodes)], bucket_list_' = bucket_list_
  PROVE  /\ Linked(bucket_list_)' /\ Members(bucket_list_)' = (InList \ {x}) \cup {n}
         /\ InList' = (InList \ {x}) \cup {n} /\ n \notin InList
         /\ size_' = Cardinality((InList \ {x}) \cup {n})
         /\ Acyclic' /\ next_[x] # x
<1> DEFINE L == list[bucket_list_]
           L2 == list'[bucket_list_]
           N == (InList \ {x}) \cup {n}
<1>1. TypeOK /\ Memory /\ bucket_list_ # None
  BY DEF MapInv, Replaced, Unlinking
<1>2. n \in Nodes /\ state[n] = "free" /\ n \notin InUse /\ n # None /\ next_[n] = None
  BY <1>1, NewNode
<1>3. /\ bucket_list_ \in Lists /\ state[bucket_list_] = "live" /\ IsList(L)
      /\ Wired(L, next_, value_holder_, InList)
      /\ InList = Members(bucket_list_) /\ InList \in SUBSET InUse /\ InList \in SUBSET Nodes
      /\ IsFiniteSet(InList) /\ size_ = Cardinality(InList)
  BY <1>1, CurrentIs
<1>4. n \notin InList /\ x \in InList /\ value_holder_ \in [Nodes -> [key : Maybe(Keys), value : Maybe(Values)]]
      /\ next_ \in [Nodes -> Maybe(Nodes)] /\ n # x
  BY <1>1, <1>2, <1>3 DEF TypeOK, Replaced, Unlinking
<1>5. PICK rank : Ranked(next_, rank)
  BY <1>1 DEF Memory, Acyclic
<1>6. next_[x] # x
  BY <1>4, <1>5, Constants DEF Ranked
<1>7. PICK b \in 1..L.count : b = Bucket(value_holder_, x, L.count)
  <2>1. BucketId(writer[t].key, L.count) \in 1..L.count
    BY <1>1, WithIs
  <2> QED
    BY <2>1 DEF Bucket, Replaced
<1>8. /\ L2.count = L.count
      /\ \A d \in 1..L.count : L2.heads[d] = IF d = b /\ L.heads[d] = x THEN n ELSE L.heads[d]
  BY <1>7 DEF Replaced, Redirected
<1>9. /\ \A m \in InList : next_'[m] = IF next_[m] = x THEN n ELSE next_[m]
      /\ next_'[n] = next_[x]
  BY <1>2, <1>3, <1>4 DEF Replaced
<1>10. /\ \A m \in InList : value_holder_'[m] = value_holder_[m]
       /\ value_holder_'[n].key = value_holder_[x].key
  BY <1>2, <1>3, <1>4 DEF Replaced
<1>11. Wired(L2, next_', value_holder_', N)
  <2>1. Wired(L2, next_', value_holder_', (InList \ {x}) \cup {n})
    <3> HIDE DEF L, L2, N
    <3>1. x \in InList /\ n \in Nodes /\ n \notin InList /\ Wired(L, next_, value_holder_, InList)
      BY <1>2, <1>3, <1>4
    <3> QED
      BY <1>6, <1>7, <1>8, <1>9, <1>10, <3>1, WiredReplace
  <2> QED
    BY <2>1
<1>12. Ranked(next_', [rank EXCEPT ![n] = rank[x]])
  <2>1. \A m \in Nodes : next_[m] # n
    BY <1>1, <1>2, Unpointed
  <2>2. [rank EXCEPT ![n] = rank[x]] \in [Nodes -> Nat]
    BY <1>4, <1>5 DEF Ranked
  <2>3. ASSUME NEW m \in Nodes, next_'[m] # None
        PROVE  [rank EXCEPT ![n] = rank[x]][next_'[m]] < [rank EXCEPT ![n] = rank[x]][m]
    <3>1. CASE m = n
      <4>1. next_'[m] = next_[x] /\ next_[x] # None /\ next_[x] # n /\ next_[x] \in Nodes
        BY <1>2, <1>4, <2>1, <2>3, <3>1 DEF Replaced, Maybe
      <4> QED
        BY <1>2, <1>5, <2>1, <3>1, <4>1 DEF Ranked
    <3>2. CASE m # n /\ m \in InList /\ next_[m] = x
      <4>1. next_'[m] = n /\ rank[x] < rank[m]
        BY <1>4, <1>5, <3>2, Constants DEF Ranked, Replaced
      <4> QED
        BY <1>2, <1>5, <3>2, <4>1 DEF Ranked
    <3>3. CASE m # n /\ ~(m \in InList /\ next_[m] = x)
      <4>1. next_'[m] = next_[m] /\ next_[m] # None /\ next_[m] # n /\ next_[m] \in Nodes
        BY <1>4, <2>1, <2>3, <3>3 DEF Replaced, Maybe
      <4> QED
        BY <1>5, <3>3, <4>1 DEF Ranked
    <3> QED
      BY <3>1, <3>2, <3>3
  <2> QED
    BY <2>2, <2>3 DEF Ranked
<1>13. Members(bucket_list_)' = N /\ Linked(bucket_list_)'
  <2>1. PICK l \in Lists : l = bucket_list_
    BY <1>3
  <2>2. Wired(list'[l], next_', value_holder_', N)
    BY <1>11, <2>1
  <2> HIDE DEF N
  <2>3. Members(l)' = N /\ Linked(l)'
    BY <1>12, <2>2, NextList
  <2>4. l = bucket_list_'
    BY <2>1
  <2> QED
    BY <2>3, <2>4
<1>14. InList' = N
  BY <1>3, <1>13, Constants DEF InList, Members
<1>15. size_' = Cardinality(N)
  <2>1. IsFiniteSet(InList \ {x}) /\ Cardinality(InList \ {x}) = Cardinality(InList) - 1
    BY <1>3, <1>4, FS_RemoveElement
  <2>2. Cardinality(N) = Cardinality(InList \ {x}) + 1
    BY <1>4, <2>1, FS_AddElement
  <2>3. Cardinality(InList) \in Nat
    BY <1>3, FS_CardinalityType
  <2>4. size_' = size_
    BY DEF Replaced
  <2> QED
    BY <1>3, <2>1, <2>2, <2>3, <2>4
<1> QED
  BY <1>4, <1>6, <1>12, <1>13, <1>14, <1>15 DEF Acyclic

\* erase leaves a list in order, with one node less.
LEMMA EraseList ==
  ASSUME MapInv, NEW t \in Writers, NEW k \in Keys, NEW x \in Nodes, Erased(t, k, x),
         ListsTyped', next_' \in [Nodes -> Maybe(Nodes)], bucket_list_' = bucket_list_,
         value_holder_' = value_holder_
  PROVE  /\ Linked(bucket_list_)' /\ Members(bucket_list_)' = InList \ {x}
         /\ InList' = InList \ {x}
         /\ size_' = Cardinality(InList \ {x}) /\ size_' \in 0..Cardinality(Keys)
         /\ Acyclic' /\ next_[x] # x
<1> DEFINE L == list[bucket_list_]
           L2 == list'[bucket_list_]
           N == InList \ {x}
<1>1. TypeOK /\ Memory /\ bucket_list_ # None
  BY DEF MapInv, Erased, Unlinking
<1>3. /\ bucket_list_ \in Lists /\ state[bucket_list_] = "live" /\ IsList(L)
      /\ Wired(L, next_, value_holder_, InList)
      /\ InList = Members(bucket_list_) /\ InList \in SUBSET InUse /\ InList \in SUBSET Nodes
      /\ IsFiniteSet(InList) /\ size_ = Cardinality(InList)
  BY <1>1, CurrentIs
<1>4. x \in InList /\ next_ \in [Nodes -> Maybe(Nodes)]
  BY <1>1, <1>3 DEF TypeOK, Erased, Unlinking
<1>5. PICK rank : Ranked(next_, rank)
  BY <1>1 DEF Memory, Acyclic
<1>6. next_[x] # x
  BY <1>4, <1>5, Constants DEF Ranked
<1>7. PICK b \in 1..L.count : b = Bucket(value_holder_, x, L.count)
  <2>1. BucketId(k, L.count) \in 1..L.count
    BY <1>1, WithIs
  <2> QED
    BY <2>1 DEF Bucket, Erased
<1>8. /\ L2.count = L.count
      /\ \A d \in 1..L.count : L2.heads[d] = IF d = b /\ L.heads[d] = x THEN next_[x] ELSE L.heads[d]
  BY <1>7 DEF Erased, Redirected
<1>9. \A m \in InList : next_'[m] = IF next_[m] = x THEN next_[x] ELSE next_[m]
  BY <1>3, <1>4 DEF Erased
<1>11. Wired(L2, next_', value_holder_', N)
  <2> HIDE DEF L, L2
  <2> QED
    BY <1>3, <1>4, <1>6, <1>7, <1>8, <1>9, WiredUnlink
<1>12. Ranked(next_', rank)
  <2>1. ASSUME NEW m \in Nodes, next_'[m] # None PROVE rank[next_'[m]] < rank[m]
    <3>1. CASE m \in InList /\ next_[m] = x
      <4>1. next_'[m] = next_[x] /\ next_[x] # None /\ next_[x] \in Nodes
        BY <1>4, <2>1, <3>1 DEF Erased, Maybe
      <4>2. rank[x] < rank[m] /\ rank[next_[x]] < rank[x]
        BY <1>5, <3>1, <4>1, Constants DEF Ranked
      <4>3. rank[x] \in Nat /\ rank[m] \in Nat /\ rank[next_[x]] \in Nat
        BY <1>5, <4>1 DEF Ranked
      <4> QED
        BY <4>1, <4>2, <4>3
    <3>2. CASE ~(m \in InList /\ next_[m] = x)
      BY <1>5, <2>1, <3>2 DEF Ranked, Erased
    <3> QED
      BY <3>1, <3>2
  <2> QED
    BY <1>5, <2>1 DEF Ranked
<1>13. Members(bucket_list_)' = N /\ Linked(bucket_list_)'
  <2>1. PICK l \in Lists : l = bucket_list_
    BY <1>3
  <2>2. Wired(list'[l], next_', value_holder_', N)
    BY <1>11, <2>1
  <2> HIDE DEF N
  <2>3. Members(l)' = N /\ Linked(l)'
    BY <1>12, <2>2, NextList
  <2>4. l = bucket_list_'
    BY <2>1
  <2> QED
    BY <2>3, <2>4
<1>14. InList' = N
  BY <1>3, <1>13, Constants DEF InList, Members
<1>15. size_' = Cardinality(N)
  BY <1>3, <1>4, FS_RemoveElement DEF Erased
<1>16. size_' \in 0..Cardinality(Keys)
  <2>1. N \in SUBSET Nodes /\ KeysOnce(value_holder_', N)
    BY <1>11 DEF Wired
  <2> HIDE DEF N
  <2> QED
    BY <1>15, <2>1, SizeFits
<1> QED
  BY <1>6, <1>12, <1>13, <1>14, <1>15, <1>16 DEF Acyclic
-----------------------------------------------------------------------------
(* Types, concluded.                                                       *)

\* insert_internal behind the rehash keeps the types.
LEMMA LinkType ==
  ASSUME MapInv, NEW t \in Writers, Link(t) PROVE TypeOK'
<1>1. TypeOK /\ Memory /\ UNCHANGED <<use, bucket_list_, load_factor_cnt_threshold_, reader, calls>>
      /\ m_' = None /\ Observe
  BY DEF MapInv, Link
<1>2. PICK n \in New(Nodes) :
           /\ writer[t].key \in Keys /\ writer[t].value \in Values /\ bucket_list_ # None
           /\ state' = [state EXCEPT ![n] = "live"]
           /\ value_holder_' \in [Nodes -> [key : Maybe(Keys), value : Maybe(Values)]]
           /\ next_' \in [Nodes -> Maybe(Nodes)] /\ refcount_' \in [Nodes -> Nat]
           /\ writer' \in [Writers -> WriterStates]
           /\ ListsTyped'
           /\ (\E x \in Nodes : Replaced(t, n, x)) \/ PushedOn(t, n)
  BY LinkDoes
<1>3. size_' \in 0..Cardinality(Keys)
  <2>1. CASE PushedOn(t, n)
    BY <1>1, <1>2, <2>1, PushList
  <2>2. CASE \E x \in Nodes : Replaced(t, n, x)
    BY <1>1, <2>2 DEF Replaced, TypeOK
  <2> QED
    BY <1>2, <2>1, <2>2
<1>4. seen' \in [Readers -> SUBSET Maybe(Values)]
  BY <1>1, <1>2, SeenType DEF TypeOK
<1>5. state' \in [Nodes \cup Lists -> {"free", "live", "retired"}]
  BY <1>1, <1>2 DEF TypeOK
<1> QED
  BY <1>1, <1>2, <1>3, <1>4, <1>5 DEF TypeOK, ListsTyped, WriterStates, Maybe

\* erase.
LEMMA EraseType ==
  ASSUME MapInv, NEW t \in Writers, NEW k \in Keys, Erase(t, k) PROVE TypeOK'
<1>1. TypeOK /\ Memory
      /\ UNCHANGED <<use, state, value_holder_, bucket_list_, load_factor_cnt_threshold_, m_, reader>>
      /\ Observe
  BY DEF MapInv, Erase
<1>2. calls' \in 0..MaxCalls
  BY <1>1, HashMapAssumption DEF Erase, Call, TypeOK
<1>3. seen' \in [Readers -> SUBSET Maybe(Values)]
  BY <1>1, SeenType DEF TypeOK
<1>4. CASE With(k) = {}
  <2>1. UNCHANGED <<list, next_, refcount_, size_, writer>>
    BY <1>4 DEF Erase
  <2> QED
    BY <1>1, <1>2, <1>3, <2>1 DEF TypeOK
<1>5. CASE With(k) # {}
  <2>1. PICK x \in Nodes :
           /\ next_' \in [Nodes -> Maybe(Nodes)] /\ refcount_' \in [Nodes -> Nat]
           /\ writer' \in [Writers -> WriterStates]
           /\ ListsTyped'
           /\ Erased(t, k, x)
    BY <1>5, EraseDoes
  <2>2. size_' \in 0..Cardinality(Keys)
    BY <1>1, <2>1, EraseList
  <2> QED
    BY <1>1, <1>2, <1>3, <2>1, <2>2 DEF TypeOK, ListsTyped, WriterStates
<1> QED
  BY <1>4, <1>5

\* The references given up are counted ones.
LEMMA DropType ==
  ASSUME TypeOK, NEW S, NEW st \in [Nodes \cup Lists -> {"free", "live", "retired"}], Drop(S, st),
         \A n \in S \cap Nodes : refcount_[n] \in Nat \ {0}
  PROVE  /\ refcount_' \in [Nodes -> Nat]
         /\ state' \in [Nodes \cup Lists -> {"free", "live", "retired"}]
BY DEF Drop, TypeOK

\* node->release() behind the unlock.
LEMMA ReleaseType ==
  ASSUME MapInv, NEW t \in Writers, Release(t) PROVE TypeOK'
<1>1. TypeOK /\ Memory /\ writer[t].old \in Nodes
  BY DEF MapInv, WritersFit, WriterFits, Release
<1>2. refcount_[writer[t].old] \in Nat \ {0}
  <2>1. t \in Holders(writer[t].old)
    BY DEF Holders
  <2> QED
    BY <1>1, <2>1, HeldLives
<1>3. refcount_' \in [Nodes -> Nat] /\ state' \in [Nodes \cup Lists -> {"free", "live", "retired"}]
  BY <1>1, <1>2, DropType DEF Release, TypeOK
<1>4. writer' \in [Writers -> WriterStates]
  BY <1>1, WriterIdle DEF Release
<1> QED
  BY <1>1, <1>3, <1>4 DEF Release, TypeOK, mapVars, WriterStates

\* clear up to the mutex.
LEMMA ClearType ==
  ASSUME MapInv, NEW t \in Writers, Clear(t) PROVE TypeOK'
<1>1. TypeOK /\ bucket_list_ \in Lists
  BY DEF MapInv, Clear, TypeOK, Maybe
<1>2. PICK l \in New(Lists) :
        /\ state' = [state EXCEPT ![l] = "live"]
        /\ list' = [list EXCEPT ![l] = Buckets(list[bucket_list_].count)]
        /\ Goto(t, "clear", None, None, l, bucket_list_)
  BY DEF Clear
<1>3. l \in Lists
  BY DEF New, Free
<1>4. PICK c \in 1..MaxBuckets : c = list[bucket_list_].count
  BY <1>1, ListTypes
<1>5. Buckets(c) \in [count : {c}, heads : [1..c -> Maybe(Nodes)]]
  BY DEF Buckets, Maybe
<1>6. ListsTyped'
  BY <1>1, <1>2, <1>3, <1>4, <1>5 DEF TypeOK, ListsTyped
<1>7. writer' \in [Writers -> WriterStates]
  <2>1. None \in Maybe(Keys) /\ None \in Maybe(Values) /\ l \in Maybe(Lists)
        /\ bucket_list_ \in Maybe(Nodes \cup Lists)
    BY <1>1, <1>3 DEF Maybe
  <2> QED
    BY <1>1, <1>2, <2>1, WriterPut
<1>8. calls' \in 0..MaxCalls
  BY <1>1, HashMapAssumption DEF Clear, Call, TypeOK
<1>9. state' \in [Nodes \cup Lists -> {"free", "live", "retired"}]
  BY <1>1, <1>2, <1>3 DEF TypeOK
<1> QED
  BY <1>1, <1>6, <1>7, <1>8, <1>9 DEF Clear, TypeOK, ListsTyped, WriterStates, nodeVars, mapVars

\* clear under the mutex.
LEMMA ClearStoreType ==
  ASSUME MapInv, NEW t \in Writers, ClearStore(t) PROVE TypeOK'
<1>1. TypeOK /\ writer[t].new \in Lists /\ writer[t].old \in Maybe(Nodes \cup Lists)
  BY DEF MapInv, WritersFit, WriterFits, Fresh, ClearStore, TypeOK
<1>2. writer' \in [Writers -> WriterStates]
  <2>1. None \in Maybe(Keys) /\ None \in Maybe(Values) /\ None \in Maybe(Lists)
    BY DEF Maybe
  <2> QED
    BY <1>1, <2>1, WriterPut DEF ClearStore
<1>3. seen' \in [Readers -> SUBSET Maybe(Values)]
  BY <1>1, SeenType DEF TypeOK, ClearStore, nodeVars
<1>4. size_' \in 0..Cardinality(Keys)
  BY Constants, FS_CardinalityType DEF ClearStore, SizeCleared
<1> QED
  BY <1>1, <1>2, <1>3, <1>4 DEF ClearStore, TypeOK, WriterStates, nodeVars, Maybe

\* clear behind the mutex.
LEMMA ClearRetireType ==
  ASSUME MapInv, NEW t \in Writers, ClearRetire(t) PROVE TypeOK'
<1>1. TypeOK /\ writer' \in [Writers -> WriterStates]
  BY WriterIdle DEF MapInv, ClearRetire
<1>2. state' \in [Nodes \cup Lists -> {"free", "live", "retired"}]
  BY <1>1 DEF ClearRetire, TypeOK
<1> QED
  BY <1>1, <1>2 DEF ClearRetire, TypeOK, WriterStates, nodeVars, mapVars

\* ~NodeT and ~BucketList.
LEMMA DeleteType ==
  ASSUME MapInv, NEW o \in Nodes \cup Lists, Delete(o) PROVE TypeOK'
<1>1. TypeOK /\ Memory /\ state[o] = "retired"
  BY DEF MapInv, Delete
<1>2. \A n \in References(o) : n \in Nodes /\ refcount_[n] \in Nat \ {0}
  <2>1. ASSUME NEW n \in References(o) PROVE n \in Nodes /\ o \in Holders(n)
    <3>1. CASE o \in Nodes
      BY <1>1, <2>1, <3>1 DEF References, Holders, TypeOK, Maybe
    <3>2. CASE o \in Lists
      <4>1. o \notin Nodes /\ n \in Heads(o) /\ n # None
        BY <2>1, <3>2, Constants DEF References
      <4> QED
        BY <1>1, <3>2, <4>1, ListTypes DEF Holders, Maybe
    <3> QED
      BY <3>1, <3>2
  <2> QED
    BY <1>1, <2>1, HeldLives
<1>3. refcount_' \in [Nodes -> Nat] /\ state' \in [Nodes \cup Lists -> {"free", "live", "retired"}]
  <2>1. PICK st \in [Nodes \cup Lists -> {"free", "live", "retired"}] : st = [state EXCEPT ![o] = "free"]
    BY <1>1 DEF TypeOK
  <2>2. PICK S : S = References(o)
    OBVIOUS
  <2>3. Drop(S, st) /\ \A n \in S \cap Nodes : refcount_[n] \in Nat \ {0}
    BY <1>2, <2>1, <2>2 DEF Delete
  <2> QED
    BY <1>1, <2>3, DropType
<1>4. ListsTyped' /\ next_' \in [Nodes -> Maybe(Nodes)]
      /\ value_holder_' \in [Nodes -> [key : Maybe(Keys), value : Maybe(Values)]]
  <2>1. CASE o \in Nodes
    <3>1. /\ next_' = [next_ EXCEPT ![o] = None] /\ list' = list
          /\ value_holder_' = [value_holder_ EXCEPT ![o] = NoValue]
      BY <2>1, Constants DEF Delete
    <3> QED
      BY <1>1, <2>1, <3>1 DEF TypeOK, ListsTyped, NoValue, Maybe
  <2>2. CASE o \in Lists
    <3>1. next_' = next_ /\ value_holder_' = value_holder_ /\ list' = [list EXCEPT ![o] = Blank]
      BY <2>2, Constants DEF Delete
    <3>2. Blank \in [count : {1}, heads : [1..1 -> Maybe(Nodes)]] /\ 1 \in 1..MaxBuckets
      BY HashMapAssumption DEF Blank, Maybe
    <3> QED
      BY <1>1, <2>2, <3>1, <3>2 DEF TypeOK, ListsTyped
  <2> QED
    BY <2>1, <2>2
<1> QED
  BY <1>1, <1>3, <1>4 DEF Delete, TypeOK, ListsTyped, mapVars

ReaderStates ==
  [at : {"idle", "list", "head", "next", "found", "missed"},
   key : Maybe(Keys), ptr : Maybe(Nodes \cup Lists), list : Maybe(Lists), node : Maybe(Nodes),
   holder_bucket : Maybe(Lists), holder_node : Maybe(Nodes), holder_next : Maybe(Nodes)]

\* A finder goes on, the others stay where they are.
LEMMA ReaderPut ==
  ASSUME TypeOK, NEW r \in Readers, NEW rd \in ReaderStates, reader' = [reader EXCEPT ![r] = rd]
  PROVE  /\ reader' \in [Readers -> ReaderStates] /\ reader'[r] = rd
         /\ \A q \in Readers : q # r => reader'[q] = reader[q]
BY DEF TypeOK, ReaderStates

\* find begins.
LEMMA FindDoes ==
  ASSUME MapInv, NEW r \in Readers, NEW k \in Keys, Find(r, k)
  PROVE  /\ TypeOK'
         /\ reader'[r].at = "list" /\ reader'[r].key = k /\ reader'[r].list = None /\ reader'[r].node = None
         /\ \A q \in Readers : q # r => reader'[q] = reader[q]
<1>1. TypeOK /\ bucket_list_ \in Lists
  BY DEF MapInv, Find, TypeOK, Maybe
<1>2. PICK rd : rd = [Away EXCEPT !.at = "list", !.key = k, !.ptr = bucket_list_]
  OBVIOUS
<1>3. /\ rd \in ReaderStates
      /\ rd.at = "list" /\ rd.key = k /\ rd.list = None /\ rd.node = None
  BY <1>1, <1>2 DEF Away, ReaderStates, Maybe
<1>4. /\ reader' \in [Readers -> ReaderStates] /\ reader'[r] = rd
      /\ \A q \in Readers : q # r => reader'[q] = reader[q]
  BY <1>1, <1>2, <1>3, ReaderPut DEF Find
<1>5. Lookup(k) \in Maybe(Values)
  <2>1. With(k) \subseteq Nodes
    BY DEF With, Chain, Reach
  <2>2. PICK S : S = With(k)
    OBVIOUS
  <2>3. Lookup(k) = IF S = {} THEN None ELSE value_holder_[CHOOSE n \in S : TRUE].value
    BY <2>2 DEF Lookup
  <2> QED
    BY <1>1, <2>1, <2>2, <2>3 DEF Maybe, TypeOK
<1>6. seen' \in [Readers -> SUBSET Maybe(Values)]
  BY <1>1, <1>5 DEF Find, TypeOK
<1>7. TypeOK'
  BY <1>1, <1>4, <1>6 DEF Find, TypeOK, ReaderStates, nodeVars, mapVars
<1> QED
  BY <1>3, <1>4, <1>7

\* An iterator is destroyed.
LEMMA DropIteratorDoes ==
  ASSUME MapInv, NEW r \in Readers, DropIterator(r)
  PROVE  /\ TypeOK'
         /\ reader'[r].at = "idle" /\ reader'[r].list = None /\ reader'[r].node = None
         /\ \A q \in Readers : q # r => reader'[q] = reader[q]
<1>1. TypeOK
  BY DEF MapInv
<1>2. Away \in ReaderStates /\ Away.at = "idle" /\ Away.list = None /\ Away.node = None
  BY DEF Away, ReaderStates, Maybe
<1>3. /\ reader' \in [Readers -> ReaderStates] /\ reader'[r] = Away
      /\ \A q \in Readers : q # r => reader'[q] = reader[q]
  BY <1>1, <1>2, ReaderPut DEF DropIterator
<1>4. TypeOK'
  BY <1>1, <1>3 DEF DropIterator, TypeOK, ReaderStates, nodeVars, mapVars
<1> QED
  BY <1>2, <1>3, <1>4

\* The pointer has changed under the finder, which tries again.
Retried(old, rd) ==
  /\ rd.at = old.at /\ rd.key = old.key /\ rd.list = old.list /\ rd.node = old.node
  /\ old.at # "list" => rd.holder_bucket = old.holder_bucket
  /\ old.at # "head" => rd.holder_node = old.holder_node
\* It goes on to node p.
Came(old, rd, p) ==
  /\ rd.key = old.key /\ rd.list = old.list /\ rd.holder_bucket = old.holder_bucket
  /\ rd.holder_node = p
  /\ p = None => rd.at = "missed" /\ rd.node = None
  /\ p # None /\ value_holder_[p].key = old.key => rd.at = "found" /\ rd.node = p
  /\ p # None /\ value_holder_[p].key # old.key => rd.at = "next" /\ rd.node = p
\* It goes on to the bucket list.
Entered(old, rd) ==
  /\ old.at = "list" /\ rd.at = "head" /\ rd.key = old.key
  /\ rd.list = bucket_list_ /\ rd.holder_bucket = bucket_list_ /\ rd.node = old.node

\* What get_protected loads is the address of a list or a node, or nothing.
LEMMA SrcType ==
  ASSUME MapInv, NEW r \in Readers, Finding(r)
  PROVE  /\ reader[r].at = "list" => Src(r) = bucket_list_ /\ bucket_list_ \in Lists
         /\ reader[r].at = "head" =>
              /\ reader[r].list \in Lists /\ state[reader[r].list] # "free"
              /\ BucketId(reader[r].key, list[reader[r].list].count) \in 1..list[reader[r].list].count
              /\ Src(r) = list[reader[r].list].heads[BucketId(reader[r].key, list[reader[r].list].count)]
              /\ Src(r) \in Heads(reader[r].list)
         /\ reader[r].at = "next" =>
              /\ reader[r].node \in InUse /\ Src(r) = next_[reader[r].node]
         /\ reader[r].at # "list" => Src(r) \in Maybe(InUse)
<1>1. TypeOK /\ Memory /\ ReaderHolds(r) /\ reader[r] \in ReaderStates
  BY DEF MapInv, ReadersFit, TypeOK, ReaderStates
<1>2. reader[r].key \in Keys /\ bucket_list_ \in Lists
  BY <1>1 DEF ReaderHolds, Finding, TypeOK, Maybe
<1>3. reader[r].at = "list" => Src(r) = bucket_list_ /\ bucket_list_ \in Lists
  BY <1>2 DEF Src
<1>4. ASSUME reader[r].at = "head"
      PROVE  /\ reader[r].list \in Lists /\ state[reader[r].list] # "free"
             /\ BucketId(reader[r].key, list[reader[r].list].count) \in 1..list[reader[r].list].count
             /\ Src(r) = list[reader[r].list].heads[BucketId(reader[r].key, list[reader[r].list].count)]
             /\ Src(r) \in Heads(reader[r].list) /\ Src(r) \in Maybe(InUse)
  <2>1. reader[r].list \in Lists /\ state[reader[r].list] # "free"
    BY <1>1, <1>4 DEF ReaderHolds, ReaderStates, Maybe
  <2>2. list[reader[r].list].count \in Nat \ {0}
    BY <1>1, <2>1, ListTypes DEF IsList
  <2>3. BucketId(reader[r].key, list[reader[r].list].count) \in 1..list[reader[r].list].count
    BY <1>2, <2>2, BucketRange
  <2>4. Src(r) = list[reader[r].list].heads[BucketId(reader[r].key, list[reader[r].list].count)]
    BY <1>4 DEF Src
  <2>5. Src(r) \in Heads(reader[r].list)
    BY <2>3, <2>4 DEF Heads
  <2>6. Src(r) \in Maybe(InUse)
    BY <1>1, <2>1, <2>5, Targets DEF Maybe, InUse
  <2> QED
    BY <2>1, <2>3, <2>4, <2>5, <2>6
<1>5. ASSUME reader[r].at = "next"
      PROVE  reader[r].node \in InUse /\ Src(r) = next_[reader[r].node] /\ Src(r) \in Maybe(InUse)
  <2>1. reader[r].node \in InUse
    BY <1>1, <1>5 DEF ReaderHolds, ReaderStates, Maybe, InUse
  <2>2. Src(r) = next_[reader[r].node]
    BY <1>5 DEF Src
  <2> QED
    BY <1>1, <2>1, <2>2, Targets DEF Maybe, InUse
<1> QED
  BY <1>3, <1>4, <1>5 DEF Finding

\* The loop of find with one node protected.
LEMMA AtDoes ==
  ASSUME TypeOK, NEW r, NEW rd \in ReaderStates, NEW p \in Maybe(Nodes), rd.holder_node = p
  PROVE  At(r, rd, p) \in ReaderStates /\ Came(rd, At(r, rd, p), p)
<1>0. next_ \in [Nodes -> Maybe(Nodes)] /\ None \notin Nodes
  BY Constants DEF TypeOK
<1>1. CASE p = None
  <2>1. At(r, rd, p) = [rd EXCEPT !.at = "missed", !.node = None, !.holder_next = None]
    BY <1>1 DEF At
  <2> QED
    BY <1>1, <2>1 DEF ReaderStates, Came, Maybe
<1>2. CASE p # None /\ value_holder_[p].key = rd.key
  <2>1. At(r, rd, p) = [rd EXCEPT !.at = "found", !.node = p, !.ptr = None,
                                    !.holder_next = None]
    BY <1>2 DEF At
  <2> QED
    BY <1>2, <2>1 DEF ReaderStates, Came, Maybe
<1>3. CASE p # None /\ value_holder_[p].key # rd.key
  <2>1. At(r, rd, p) = [rd EXCEPT !.at = "next", !.node = p, !.ptr = next_[p]]
    BY <1>3 DEF At
  <2>2. next_[p] \in Maybe(Nodes \cup Lists)
    BY <1>0, <1>3 DEF Maybe
  <2> QED
    BY <1>3, <2>1, <2>2 DEF ReaderStates, Came, Maybe
<1> QED
  BY <1>1, <1>2, <1>3

\* One round of get_protected: what the finder stands on afterwards.
LEMMA ProtectDoes ==
  ASSUME MapInv, NEW r \in Readers, Protect(r)
  PROVE  /\ TypeOK'
         /\ \/ Retried(reader[r], reader'[r])
            \/ Entered(reader[r], reader'[r])
            \/ reader[r].at \in {"head", "next"} /\ Came(reader[r], reader'[r], Src(r))
         /\ \A q \in Readers : q # r => reader'[q] = reader[q]
<1>1. TypeOK /\ Memory /\ Finding(r) /\ reader[r] \in ReaderStates
  BY DEF MapInv, TypeOK, ReaderStates, Protect, Finding
<1>2. PICK old \in ReaderStates : old = reader[r]
  BY <1>1
<1>3. PICK rd : rd = IF Src(r) = old.ptr THEN Step(r) ELSE Lost(r)
  OBVIOUS
<1>4. reader' = [reader EXCEPT ![r] = rd]
  BY <1>2, <1>3 DEF Protect
<1>5. /\ rd \in ReaderStates
      /\ \/ Retried(old, rd)
         \/ Entered(old, rd)
         \/ old.at \in {"head", "next"} /\ Came(old, rd, Src(r))
  <2>1. CASE Src(r) # old.ptr
    <3>1. Src(r) \in Maybe(Nodes \cup Lists)
      BY <1>1, SrcType DEF Maybe, InUse, Finding
    <3>2. CASE old.at = "list"
      <4>1. rd = [[old EXCEPT !.ptr = Src(r)] EXCEPT !.holder_bucket = None]
        BY <1>2, <1>3, <2>1, <3>2 DEF Lost, ReaderStates
      <4> QED
        BY <3>1, <3>2, <4>1 DEF Retried, ReaderStates, Maybe
    <3>3. CASE old.at = "head"
      <4>1. rd = [[old EXCEPT !.ptr = Src(r)] EXCEPT !.holder_node = None]
        BY <1>2, <1>3, <2>1, <3>3 DEF Lost, ReaderStates
      <4> QED
        BY <3>1, <3>3, <4>1 DEF Retried, ReaderStates, Maybe
    <3>4. CASE old.at = "next"
      <4>1. rd = [[old EXCEPT !.ptr = Src(r)] EXCEPT !.holder_next = None]
        BY <1>2, <1>3, <2>1, <3>4 DEF Lost, ReaderStates
      <4> QED
        BY <3>1, <3>4, <4>1 DEF Retried, ReaderStates, Maybe
    <3> QED
      BY <1>1, <1>2, <3>2, <3>3, <3>4 DEF Finding
  <2>2. CASE Src(r) = old.ptr
    <3>1. rd = Step(r)
      BY <1>3, <2>2
    <3>2. CASE old.at = "list"
      <4>1. PICK l : l = bucket_list_ /\ l = old.ptr
        BY <1>1, <1>2, <2>2, <3>2, SrcType
      <4>2. PICK h : h = list[l].heads[BucketId(old.key, list[l].count)]
        OBVIOUS
      <4>3. rd = [old EXCEPT !.at = "head", !.list = l, !.holder_bucket = l, !.ptr = h]
        BY <1>2, <3>1, <3>2, <4>1, <4>2 DEF Step
      <4>4. l \in Maybe(Lists) /\ h \in Maybe(Nodes \cup Lists)
        <5>1. l \in Lists
          BY <1>1, <1>2, <3>2, <4>1, SrcType
        <5>2. old.key \in Keys
          BY <1>2, <3>2 DEF MapInv, ReadersFit, ReaderHolds
        <5>3. IsList(list[l])
          BY <1>1, <5>1, ListTypes
        <5>4. BucketId(old.key, list[l].count) \in 1..list[l].count
          BY <5>2, <5>3, BucketRange DEF IsList
        <5> QED
          BY <4>2, <5>1, <5>3, <5>4 DEF IsList, Maybe
      <4> QED
        BY <3>2, <4>1, <4>3, <4>4 DEF Entered, ReaderStates
    <3>3. CASE old.at \in {"head", "next"}
      <4>1. PICK p \in Maybe(Nodes) : p = Src(r) /\ p = old.ptr
        BY <1>1, <1>2, <2>2, <3>3, SrcType DEF Maybe, InUse
      <4>2. PICK mid : mid = IF old.at = "head" THEN [old EXCEPT !.holder_node = p]
                             ELSE [old EXCEPT !.holder_next = old.holder_node, !.holder_node = p]
        OBVIOUS
      <4>3. /\ mid \in ReaderStates /\ mid.holder_node = p /\ mid.key = old.key
            /\ mid.list = old.list /\ mid.holder_bucket = old.holder_bucket
        BY <3>3, <4>2 DEF ReaderStates, Maybe
      <4>4. rd = At(r, mid, p)
        BY <1>2, <3>1, <3>3, <4>1, <4>2 DEF Step
      <4>5. rd \in ReaderStates /\ Came(mid, rd, p)
        BY <1>1, <4>3, <4>4, AtDoes
      <4> QED
        BY <3>3, <4>1, <4>3, <4>5 DEF Came
    <3> QED
      BY <1>1, <1>2, <3>2, <3>3 DEF Finding
  <2> QED
    BY <2>1, <2>2
<1>6. /\ reader' \in [Readers -> ReaderStates] /\ reader'[r] = rd
      /\ \A q \in Readers : q # r => reader'[q] = reader[q]
  BY <1>1, <1>4, <1>5, ReaderPut
<1>7. TypeOK'
  BY <1>1, <1>6 DEF Protect, TypeOK, ReaderStates, nodeVars, mapVars
<1> QED
  BY <1>2, <1>5, <1>6, <1>7
-----------------------------------------------------------------------------
(* What a step leaves alone.                                               *)

\* Nothing happens to what is in use, but for o, which the step may change: a
\* bucket list, or a retired node.
Steady(o) ==
  /\ \A n \in Nodes : state[n] # "free" /\ n # o => next_'[n] = next_[n] /\ value_holder_'[n] = value_holder_[n]
  /\ \A l \in Lists : state[l] # "free" /\ l # o => list'[l] = list[l]
  /\ o \in Nodes => state[o] # "live"

\* Walks that stay within U are not changed by what happens outside.
LEMMA ReachFrame ==
  ASSUME NEW next \in [Nodes -> Maybe(Nodes)], NEW next2 \in [Nodes -> Maybe(Nodes)],
         NEW U \in SUBSET Nodes, Closed(next, U), \A n \in U : next2[n] = next[n],
         NEW H \in SUBSET Maybe(Nodes), \A h \in H : h # None => h \in U
  PROVE  Reach(next, H) \subseteq U /\ Reach(next2, H) = Reach(next, H)
<1>1. Reach(next, H) \subseteq U
  BY ReachLeast
<1> QED
  BY <1>1, ReachSame

\* Then walks of what is in use stay what they are.
LEMMA SteadyWalks ==
  ASSUME TypeOK, TypeOK', Memory, NEW o, Steady(o)
  PROVE  /\ \A H \in SUBSET Maybe(Nodes) : (\A h \in H : h # None => h \in InUse \ {o})
              => /\ Reach(next_', H) = Reach(next_, H)
                 /\ \A n \in Reach(next_, H) : n \in InUse /\ value_holder_'[n] = value_holder_[n]
         /\ \A l \in Lists : state[l] # "free" /\ l # o =>
              /\ list'[l] = list[l] /\ Members(l)' = Members(l)
              /\ Linked(l) => Linked(l)'
              /\ Bare(l) => Bare(l)'
              /\ \A n \in Members(l) : value_holder_'[n] = value_holder_[n]
              /\ \A b \in 1..list[l].count :
                    /\ Chain(l, b)' = Chain(l, b)
                    /\ \A n \in Chain(l, b) : value_holder_'[n] = value_holder_[n]
         /\ \A n \in InUse \ {o} : next_'[n] = next_[n]
              /\ Reach(next_', {next_'[n]}) = Reach(next_, {next_[n]})
              /\ \A m \in Reach(next_, {next_[n]}) : value_holder_'[m] = value_holder_[m]
<1> DEFINE U == InUse \ {o}
<1>1. next_ \in [Nodes -> Maybe(Nodes)] /\ next_' \in [Nodes -> Maybe(Nodes)]
  BY DEF TypeOK
<1>2. U \in SUBSET Nodes /\ \A n \in U : next_'[n] = next_[n] /\ value_holder_'[n] = value_holder_[n]
  BY DEF InUse, Steady
<1>3. \A n \in Nodes : state[n] = "live" => n \in U
  BY DEF InUse, Steady
<1>4. Closed(next_, U)
  BY <1>3, Targets DEF Closed
<1>5. ASSUME NEW H \in SUBSET Maybe(Nodes), \A h \in H : h # None => h \in U
      PROVE  /\ Reach(next_', H) = Reach(next_, H)
             /\ \A n \in Reach(next_, H) : n \in InUse /\ value_holder_'[n] = value_holder_[n]
  <2>1. Reach(next_, H) \subseteq U /\ Reach(next_', H) = Reach(next_, H)
    <3> HIDE DEF U
    <3> QED
      BY <1>1, <1>2, <1>4, <1>5, ReachFrame
  <2> QED
    BY <1>2, <2>1
<1>6. ASSUME NEW l \in Lists, state[l] # "free", l # o
      PROVE  /\ list'[l] = list[l] /\ Members(l)' = Members(l)
             /\ Linked(l) => Linked(l)'
             /\ Bare(l) => Bare(l)'
             /\ \A n \in Members(l) : value_holder_'[n] = value_holder_[n]
             /\ \A b \in 1..list[l].count :
                   /\ Chain(l, b)' = Chain(l, b)
                   /\ \A n \in Chain(l, b) : value_holder_'[n] = value_holder_[n]
  <2>1. list'[l] = list[l]
    BY <1>6 DEF Steady
  <2>2. Heads(l) \in SUBSET Maybe(Nodes) /\ \A h \in Heads(l) : h # None => h \in U
    BY <1>3, <1>6, ListTypes, Targets
  <2>3. Heads(l)' = Heads(l)
    BY <2>1 DEF Heads
  <2>4. Members(l)' = Members(l) /\ \A n \in Members(l) : value_holder_'[n] = value_holder_[n]
    BY <1>5, <2>2, <2>3 DEF Members
  <2>5. \A n \in Members(l) : next_'[n] = next_[n]
    <3>1. Members(l) \subseteq U
      <4> HIDE DEF U
      <4> QED
        BY <1>1, <1>2, <1>4, <2>2, ReachLeast DEF Members
    <3> QED
      BY <1>2, <3>1
  <2>6. Linked(l) => Linked(l)'
    <3>1. SUFFICES ASSUME Wired(list[l], next_, value_holder_, Members(l))
                   PROVE  Wired(list[l], next_', value_holder_', Members(l))
      BY <2>1, <2>4 DEF Linked
    <3>2. \A n \in Members(l) : next_'[n] = next_[n] /\ value_holder_'[n] = value_holder_[n]
      BY <2>4, <2>5
    <3> QED
      BY <3>1, <3>2, WiredKept
  <2>7. Bare(l) => Bare(l)'
    BY <2>1 DEF Bare
  <2>8. ASSUME NEW b \in 1..list[l].count
        PROVE  /\ Chain(l, b)' = Chain(l, b)
               /\ \A n \in Chain(l, b) : value_holder_'[n] = value_holder_[n]
    <3>1. list[l].heads[b] \in Heads(l)
      BY DEF Heads
    <3>2. {list[l].heads[b]} \in SUBSET Maybe(Nodes) /\ \A h \in {list[l].heads[b]} : h # None => h \in U
      BY <2>2, <3>1
    <3> HIDE DEF U
    <3> QED
      BY <1>5, <2>1, <3>2 DEF Chain
  <2> QED
    BY <2>1, <2>4, <2>6, <2>7, <2>8
<1>7. ASSUME NEW n \in U
      PROVE  /\ next_'[n] = next_[n] /\ Reach(next_', {next_'[n]}) = Reach(next_, {next_[n]})
             /\ \A m \in Reach(next_, {next_[n]}) : value_holder_'[m] = value_holder_[m]
  <2>1. {next_[n]} \in SUBSET Maybe(Nodes) /\ \A h \in {next_[n]} : h # None => h \in U
    BY <1>1, <1>2, <1>4 DEF Closed
  <2> HIDE DEF U
  <2> QED
    BY <1>2, <1>5, <2>1
<1> QED
  BY <1>5, <1>6, <1>7

\* The map's list is in order if a step leaves it alone.
LEMMA SteadyCurrent ==
  ASSUME MapInv, TypeOK', NEW o, Steady(o), bucket_list_ # None => bucket_list_ # o,
         bucket_list_' = bucket_list_, size_' = size_,
         bucket_list_ # None => state'[bucket_list_] = "live"
  PROVE  Current' /\ InList' = InList /\ \A n \in InList : value_holder_'[n] = value_holder_[n]
<1>1. TypeOK /\ Memory /\ Current
  BY DEF MapInv
<1>2. CASE bucket_list_ = None
  BY <1>1, <1>2 DEF Current, InList
<1>3. CASE bucket_list_ # None
  <2>1. PICK l \in Lists : l = bucket_list_
    BY <1>1, <1>3 DEF TypeOK, Maybe
  <2>2. l = bucket_list_'
    BY <2>1
  <2>3. state[l] = "live" /\ Linked(l) /\ size_ = Cardinality(InList)
    BY <1>1, <1>3, <2>1 DEF Current
  <2>4. Members(l)' = Members(l) /\ Linked(l)' /\ \A n \in Members(l) : value_holder_'[n] = value_holder_[n]
    BY <1>1, <1>3, <2>1, <2>3, SteadyWalks
  <2>5. InList = Members(l) /\ InList' = Members(l)'
    BY <1>3, <2>1, <2>2 DEF InList, Members
  <2> QED
    BY <1>3, <2>1, <2>2, <2>3, <2>4, <2>5 DEF Current
<1> QED
  BY <1>2, <1>3
-----------------------------------------------------------------------------
(* Finders.                                                                *)

\* Nodes that do not change go on answering, the more so if more is known.
LEMMA AnsweredKept ==
  ASSUME NEW S, NEW k, NEW vh, NEW vh2, NEW known, NEW known2, Answered(S, k, vh, known),
         \A n \in S : vh2[n] = vh[n], known \subseteq known2
  PROVE  Answered(S, k, vh2, known2)
BY DEF Answered

\* A list in order answers with what Lookup yields.
LEMMA LookupAnswers ==
  ASSUME NEW L, IsList(L), NEW next \in [Nodes -> Maybe(Nodes)], NEW vh, NEW M, Wired(L, next, vh, M),
         NEW rank, Ranked(next, rank), NEW k \in Keys, NEW known,
         NEW S, S = Reach(next, {L.heads[BucketId(k, L.count)]}), NEW with, with = {n \in S : vh[n].key = k},
         (IF with = {} THEN None ELSE vh[CHOOSE n \in with : TRUE].value) \in known
  PROVE  Answered(S, k, vh, known)
<1>1. PICK b \in 1..L.count : b = BucketId(k, L.count)
  BY BucketRange DEF IsList
<1>2. S = {n \in M : Bucket(vh, n, L.count) = b}
  BY <1>1, WiredChain
<1>3. \A m, n \in S : vh[m].key = vh[n].key => m = n
  BY <1>2 DEF Wired, KeysOnce
<1>4. ASSUME NEW n \in S, vh[n].key = k PROVE vh[n].value \in known
  <2>1. n \in with /\ \A m \in with : m = n
    BY <1>3, <1>4
  <2>2. (CHOOSE m \in with : TRUE) = n
    BY <2>1
  <2> QED
    BY <2>1, <2>2
<1>5. ASSUME \A n \in S : vh[n].key # k PROVE None \in known
  BY <1>5
<1> QED
  BY <1>4, <1>5 DEF Answered

CurrentAnswer(r) ==
  Finding(r) => Answered(ChainFor(bucket_list_, reader[r].key), reader[r].key, value_holder_, seen[r])

\* Finders under way learn what a step makes of their key.
LEMMA ObserveAnswers ==
  ASSUME MapInv, TypeOK', Observe, bucket_list_' # None => Linked(bucket_list_)', Acyclic',
         bucket_list_ # None => bucket_list_' # None, NEW r \in Readers, reader'[r] = reader[r]
  PROVE  CurrentAnswer(r)' /\ seen[r] \subseteq seen'[r]
         /\ (Finding(r) => Lookup(reader[r].key)' \in seen'[r])
<1>0. seen[r] \subseteq seen'[r] /\ (Finding(r) => Lookup(reader[r].key)' \in seen'[r])
  BY DEF Observe, Finding
<1>1. SUFFICES ASSUME Finding(r)
               PROVE  Answered(ChainFor(bucket_list_, reader[r].key), reader[r].key, value_holder_, seen[r])'
  BY <1>0 DEF CurrentAnswer, Finding
<1>2. bucket_list_' # None /\ reader[r].key \in Keys
  BY <1>1 DEF MapInv, ReadersFit, ReaderHolds, Finding
<1>3. PICK l \in Lists : l = bucket_list_'
  BY <1>2 DEF TypeOK, Maybe
<1>4. PICK k \in Keys : k = reader[r].key /\ k = reader'[r].key
  BY <1>2
<1>5. IsList(list'[l]) /\ next_' \in [Nodes -> Maybe(Nodes)]
  BY NextListTyped DEF TypeOK, ListsTyped
<1>6. PICK rank : Ranked(next_', rank)
  BY DEF Acyclic
<1>7. PICK M : Wired(list'[l], next_', value_holder_', M)
  BY <1>2, <1>3 DEF Linked
<1>8. PICK S : S = Reach(next_', {list'[l].heads[BucketId(k, list'[l].count)]})
  OBVIOUS
<1>9. PICK with : with = {n \in S : value_holder_'[n].key = k}
  OBVIOUS
<1>10. With(k)' = with
  BY <1>3, <1>8, <1>9 DEF With, Chain
<1>11. (IF with = {} THEN None ELSE value_holder_'[CHOOSE n \in with : TRUE].value) \in seen'[r]
  <2>1. Lookup(k)' \in seen'[r]
    BY <1>0, <1>1, <1>4
  <2> QED
    BY <1>10, <2>1 DEF Lookup
<1>12. Answered(S, k, value_holder_', seen'[r])
  BY <1>5, <1>6, <1>7, <1>8, <1>9, <1>11, LookupAnswers
<1> QED
  BY <1>3, <1>4, <1>8, <1>12 DEF ChainFor, Chain

\* A finder still gets its answer from the map's list.
LEMMA SteadyAnswers ==
  ASSUME MapInv, TypeOK', NEW o, Steady(o), bucket_list_' = bucket_list_, bucket_list_ # None => bucket_list_ # o,
         NEW r \in Readers, reader'[r] = reader[r], seen[r] \subseteq seen'[r]
  PROVE  CurrentAnswer(r)'
<1>1. SUFFICES ASSUME Finding(r)
               PROVE  Answered(ChainFor(bucket_list_, reader[r].key), reader[r].key, value_holder_, seen[r])'
  BY DEF CurrentAnswer, Finding
<1>2. bucket_list_ # None /\ reader[r].key \in Keys /\ TypeOK /\ Memory
  BY <1>1 DEF MapInv, ReadersFit, ReaderHolds, Finding
<1>3. PICK l \in Lists : l = bucket_list_ /\ l = bucket_list_' /\ state[l] # "free" /\ l # o
  BY <1>2 DEF TypeOK, Maybe, MapInv, Current
<1>4. PICK k \in Keys : k = reader[r].key /\ k = reader'[r].key
  BY <1>2
<1>5. list[l].count \in Nat \ {0}
  BY <1>2, ListTypes DEF IsList
<1>6. PICK b \in 1..list[l].count : b = BucketId(k, list[l].count)
  BY <1>5, BucketRange
<1>7. list'[l] = list[l] /\ Chain(l, b)' = Chain(l, b)
      /\ \A n \in Chain(l, b) : value_holder_'[n] = value_holder_[n]
  BY <1>2, <1>3, SteadyWalks
<1>8. Answered(Chain(l, b), k, value_holder_, seen[r])
  BY <1>1, <1>3, <1>4, <1>6 DEF MapInv, ReadersFit, ReaderKnows, ChainFor
<1>9. Answered(Chain(l, b), k, value_holder_', seen'[r])
  BY <1>7, <1>8, AnsweredKept
<1> QED
  BY <1>3, <1>4, <1>6, <1>7, <1>9 DEF ChainFor

\* A finder that does nothing, with what it has in hand in place.
Undisturbed(r) ==
  /\ reader'[r] = reader[r] /\ seen[r] \subseteq seen'[r]
  /\ bucket_list_ # None => bucket_list_' # None
  /\ reader[r].list # None => state'[reader[r].list] # "free"
  /\ reader[r].node # None => state'[reader[r].node] # "free"

\* A finder whose walk is left alone keeps what it has.
LEMMA SteadyReader ==
  ASSUME MapInv, TypeOK', NEW o, Steady(o), NEW r \in Readers, Undisturbed(r), CurrentAnswer(r)',
         reader[r].node # None => reader[r].node # o,
         reader[r].at = "head" => reader[r].list # o \/ reader[r].list = bucket_list_'
  PROVE  ReaderHolds(r)' /\ ReaderKnows(r)'
<1>1. TypeOK /\ Memory /\ ReaderHolds(r) /\ ReaderKnows(r)
  BY DEF MapInv, ReadersFit
<1>2. ReaderHolds(r)'
  BY <1>1 DEF ReaderHolds, Undisturbed
<1>3. reader[r] \in ReaderStates /\ reader'[r] = reader[r] /\ seen[r] \subseteq seen'[r]
  BY <1>1 DEF TypeOK, ReaderStates, Undisturbed
<1>4. Finding(r)' => Answered(ChainFor(bucket_list_, reader[r].key), reader[r].key, value_holder_, seen[r])'
  BY DEF CurrentAnswer
<1>5. ASSUME reader[r].at = "head"
      PROVE  Answered(ChainFor(reader[r].list, reader[r].key), reader[r].key, value_holder_, seen[r])'
  <2>1. CASE reader[r].list = bucket_list_'
    BY <1>3, <1>4, <1>5, <2>1 DEF Finding
  <2>2. CASE reader[r].list # bucket_list_'
    <3>1. PICK l \in Lists : l = reader[r].list /\ state[l] # "free" /\ l # o
      BY <1>1, <1>3, <1>5, <2>2 DEF ReaderHolds, ReaderStates, Maybe
    <3>2. PICK k \in Keys : k = reader[r].key
      BY <1>1, <1>5 DEF ReaderHolds
    <3>3. list[l].count \in Nat \ {0}
      BY <1>1, ListTypes DEF IsList
    <3>4. PICK b \in 1..list[l].count : b = BucketId(k, list[l].count)
      BY <3>3, BucketRange
    <3>5. list'[l] = list[l] /\ Chain(l, b)' = Chain(l, b)
          /\ \A n \in Chain(l, b) : value_holder_'[n] = value_holder_[n]
      BY <1>1, <3>1, SteadyWalks
    <3>6. Answered(Chain(l, b), k, value_holder_, seen[r])
      BY <1>1, <1>5, <3>1, <3>2, <3>4 DEF ReaderKnows, ChainFor
    <3>7. Answered(Chain(l, b), k, value_holder_', seen'[r])
      BY <1>3, <3>5, <3>6, AnsweredKept
    <3> QED
      BY <1>3, <3>1, <3>2, <3>4, <3>5, <3>7 DEF ChainFor
  <2> QED
    BY <2>1, <2>2
<1>6. ASSUME reader[r].at = "next"
      PROVE  Answered(Reach(next_, {next_[reader[r].node]}), reader[r].key, value_holder_, seen[r])'
  <2>1. PICK n \in InUse \ {o} : n = reader[r].node
    BY <1>1, <1>3, <1>6 DEF ReaderHolds, ReaderStates, Maybe, InUse
  <2>2. /\ Reach(next_', {next_'[n]}) = Reach(next_, {next_[n]})
        /\ \A m \in Reach(next_, {next_[n]}) : value_holder_'[m] = value_holder_[m]
    BY <1>1, SteadyWalks
  <2>3. Answered(Reach(next_, {next_[n]}), reader[r].key, value_holder_, seen[r])
    BY <1>1, <1>6, <2>1 DEF ReaderKnows
  <2>4. Answered(Reach(next_, {next_[n]}), reader[r].key, value_holder_', seen'[r])
    BY <1>3, <2>2, <2>3, AnsweredKept
  <2> QED
    BY <1>3, <2>1, <2>2, <2>4
<1>7. ASSUME reader[r].at = "found" PROVE value_holder_'[reader[r].node].value \in seen'[r]
  <2>1. PICK n \in Nodes : n = reader[r].node /\ state[n] # "free" /\ n # o
    BY <1>1, <1>3, <1>7 DEF ReaderHolds, ReaderStates, Maybe
  <2> QED
    BY <1>1, <1>3, <1>7, <2>1 DEF ReaderKnows, Steady
<1>8. reader[r].at = "missed" => None \in seen'[r]
  BY <1>1, <1>3 DEF ReaderKnows
<1> QED
  BY <1>2, <1>3, <1>4, <1>5, <1>6, <1>7, <1>8 DEF ReaderKnows

\* Finders under way are at their lists' and nodes' side.
LEMMA Settled ==
  ASSUME MapInv, NEW r \in Readers
  PROVE  /\ reader[r].list # None => reader[r].list \in Lists /\ state[reader[r].list] # "free"
                                     /\ reader[r].holder_bucket = reader[r].list
         /\ reader[r].node # None => reader[r].node \in InUse /\ reader[r].holder_node = reader[r].node
BY DEF MapInv, ReadersFit, ReaderHolds, TypeOK, Maybe, InUse
-----------------------------------------------------------------------------
(* Counts and writers that a step leaves alone.                            *)

\* Counts stay exact if no reference changes.
LEMMA SameMemory ==
  ASSUME Memory, UNCHANGED nodeVars, \A n \in Nodes : state'[n] = state[n],
         \A l \in Lists : \A n \in Nodes : state'[l] # "free" /\ n \in Heads(l)' <=> state[l] # "free" /\ n \in Heads(l),
         \A t \in Writers : \A n \in Nodes : writer'[t].old = n <=> writer[t].old = n
  PROVE  Memory'
<1>1. next_' = next_ /\ refcount_' = refcount_ /\ value_holder_' = value_holder_
  BY DEF nodeVars
<1>2. \A n \in Nodes : Holders(n)' = Holders(n)
  BY <1>1 DEF Holders
<1>3. RefcountExact'
  BY <1>1, <1>2 DEF Memory, RefcountExact
<1>4. Acyclic'
  BY <1>1 DEF Memory, Acyclic
<1> QED
  BY <1>1, <1>3, <1>4 DEF Memory, Living, Contents

\* A writer that does nothing, with its lists left alone.
Untouched(u, o) ==
  /\ writer'[u] = writer[u] /\ (m_ = u <=> m_' = u)
  /\ \A l \in Lists : l = writer[u].new \/ (l = writer[u].old /\ writer[u].at = "retire")
        => l # o /\ l # bucket_list_' /\ state'[l] = "live"
  /\ writer[u].at \in {"swap", "clear"} =>
        /\ bucket_list_' = bucket_list_ /\ size_' = size_
        /\ bucket_list_ # None => bucket_list_ # o

\* Then what it has in hand still fits.
LEMMA SteadyWriter ==
  ASSUME MapInv, TypeOK', NEW o, Steady(o), use' = use, bucket_list_ # None => bucket_list_' # None,
         bucket_list_ # None /\ bucket_list_' = bucket_list_ => state'[bucket_list_] = state[bucket_list_],
         NEW u \in Writers, Untouched(u, o)
  PROVE  WriterFits(u)'
<1>1. TypeOK /\ Memory /\ WriterFits(u)
  BY DEF MapInv, WritersFit
<1>2. writer'[u] = writer[u] /\ (m_ = u <=> m_' = u)
  BY DEF Untouched
<1>3. ASSUME NEW l \in Lists, Fresh(l), l = writer[u].new \/ (l = writer[u].old /\ writer[u].at = "retire")
      PROVE  Fresh(l)' /\ (Bare(l) => Bare(l)') /\ (Linked(l) => Linked(l)') /\ Members(l)' = Members(l)
             /\ \A n \in Members(l) : value_holder_'[n] = value_holder_[n]
  <2>1. l # o /\ l # bucket_list_' /\ state'[l] = "live" /\ state[l] # "free"
    BY <1>3 DEF Untouched, Fresh
  <2>2. /\ Members(l)' = Members(l) /\ (Linked(l) => Linked(l)') /\ (Bare(l) => Bare(l)')
        /\ \A n \in Members(l) : value_holder_'[n] = value_holder_[n]
    BY <1>1, <2>1, SteadyWalks
  <2> QED
    BY <2>1, <2>2 DEF Fresh
<1>4. ASSUME writer[u].at = "cas" PROVE Fresh(writer[u].new)' /\ Bare(writer[u].new)'
  <2>1. PICK l \in Lists : l = writer[u].new /\ Fresh(l) /\ Bare(l)
    BY <1>1, <1>4 DEF WriterFits, Fresh
  <2>2. Fresh(l)' /\ Bare(l)'
    BY <1>3, <2>1
  <2> QED
    BY <1>2, <2>1, <2>2
<1>5. ASSUME writer[u].at = "clear"
      PROVE  Fresh(writer[u].new)' /\ Bare(writer[u].new)' /\ writer'[u].old = bucket_list_' /\ use' = "single"
  <2>1. PICK l \in Lists : l = writer[u].new /\ Fresh(l) /\ Bare(l)
    BY <1>1, <1>5 DEF WriterFits, Fresh
  <2>2. Fresh(l)' /\ Bare(l)'
    BY <1>3, <2>1
  <2>3. l = writer'[u].new
    BY <1>2, <2>1
  <2>4. writer[u].old = bucket_list_ /\ use = "single" /\ bucket_list_' = bucket_list_
    BY <1>1, <1>5 DEF WriterFits, Untouched
  <2> QED
    BY <1>2, <2>2, <2>3, <2>4
<1>6. ASSUME writer[u].at = "retire" PROVE Fresh(writer[u].old)' /\ use' = "single"
  <2>1. PICK l \in Lists : l = writer[u].old /\ Fresh(l)
    BY <1>1, <1>6 DEF WriterFits, Fresh
  <2>2. Fresh(l)'
    BY <1>3, <1>6, <2>1
  <2>3. l = writer'[u].old /\ use = "single"
    BY <1>1, <1>2, <1>6, <2>1 DEF WriterFits
  <2> QED
    BY <2>2, <2>3
<1>7. ASSUME writer[u].at = "swap" PROVE CopyFits(u)'
  <2>0. CopyFits(u) /\ bucket_list_' = bucket_list_ /\ (bucket_list_ # None => bucket_list_ # o) /\ size_' = size_
    BY <1>1, <1>7 DEF WriterFits, Untouched
  <2>1. PICK l \in Lists : l = writer[u].new /\ Fresh(l) /\ Linked(l)
    BY <2>0 DEF CopyFits, Fresh
  <2>2. Fresh(l)' /\ Linked(l)' /\ Members(l)' = Members(l)
        /\ \A n \in Members(l) : value_holder_'[n] = value_holder_[n]
    BY <1>3, <2>1
  <2>3. InList' = InList /\ \A n \in InList : value_holder_'[n] = value_holder_[n]
    BY <2>0, SteadyCurrent DEF MapInv, Current
  <2>4. SameContents(Members(l), InList, value_holder_) /\ Cardinality(Members(l)) = size_
        /\ writer[u].old = bucket_list_ /\ (m_ # u => use = "single")
    BY <2>0, <2>1 DEF CopyFits
  <2>5. SameContents(Members(l), InList, value_holder_')
    BY <2>2, <2>3, <2>4 DEF SameContents
  <2>6. l = writer'[u].new
    BY <1>2, <2>1
  <2> QED
    BY <1>2, <2>0, <2>2, <2>3, <2>4, <2>5, <2>6 DEF CopyFits
<1> QED
  BY <1>1, <1>2, <1>4, <1>5, <1>6, <1>7 DEF WriterFits

\* The lists writers have in hand.
LEMMA InHand ==
  ASSUME MapInv, NEW u \in Writers
  PROVE  /\ writer[u].new # None => Fresh(writer[u].new) /\ writer[u].at \in {"cas", "swap", "clear"}
         /\ writer[u].at = "retire" => Fresh(writer[u].old)
         /\ writer[u].at \in {"idle", "cas", "lock", "swap", "link", "release", "clear", "retire"}
BY DEF MapInv, WritersFit, WriterFits, CopyFits, TypeOK

\* What other writers can be doing while t is at work.
LEMMA Others ==
  ASSUME MapInv, NEW t \in Writers, NEW u \in Writers, u # t,
         writer[t].at # "idle" \/ (use = "single" => t = Only)
  PROVE  /\ writer[u].at \in {"idle", "cas", "lock", "swap", "link", "release"}
         /\ writer[u].at # "idle" => use = "shared"
         /\ writer[u].at \in {"swap", "link"} => m_ = u
<1>1. use = "single" => writer[u].at = "idle"
  BY DEF MapInv, Exclusive
<1>2. use \in {"shared", "single"}
  BY DEF MapInv, TypeOK
<1> QED
  BY <1>1, <1>2, InHand DEF MapInv, WritersFit, WriterFits, CopyFits

\* One writer moves and the exclusion rules still hold.
LEMMA ExclusiveStep ==
  ASSUME MapInv, NEW t \in Writers, \A u \in Writers : u # t => writer'[u] = writer[u], use' = use,
         \/ m_' = None
         \/ m_' = t /\ writer'[t].at \in {"swap", "link"}
         \/ m_' = m_ /\ m_ # t,
         use = "single" /\ writer'[t].at # "idle" => t = Only,
         writer'[t].new = None \/ \A u \in Writers : u # t => writer[u].new # writer'[t].new
  PROVE  Exclusive'
<1>1. m_ \in Maybe(Writers)
  BY DEF MapInv, TypeOK
<1>2. m_' # None => writer'[m_'].at \in {"swap", "link"}
  BY <1>1 DEF MapInv, Exclusive, Maybe
<1>3. use' = "single" => \A u \in Writers : writer'[u].at # "idle" => u = Only
  BY DEF MapInv, Exclusive
<1>4. \A w, u \in Writers : writer'[w].new # None /\ writer'[w].new = writer'[u].new => w = u
  BY DEF MapInv, Exclusive
<1>5. Only' = Only
  BY DEF Only
<1> QED
  BY <1>2, <1>3, <1>4, <1>5 DEF Exclusive

\* The writers that do not move keep what they have in hand.
LEMMA OthersKept ==
  ASSUME MapInv, TypeOK', NEW o, Steady(o), NEW t \in Writers,
         writer[t].at # "idle" \/ (use = "single" => t = Only),
         use' = use, bucket_list_ # None => bucket_list_' # None,
         bucket_list_ # None /\ bucket_list_' = bucket_list_ => state'[bucket_list_] = state[bucket_list_],
         \A u \in Writers : u # t => writer'[u] = writer[u] /\ (m_ = u <=> m_' = u),
         use = "shared" =>
            \A l \in Lists : Fresh(l) /\ l # writer[t].new => l # o /\ l # bucket_list_' /\ state'[l] = "live",
         m_ \notin {t, None} => bucket_list_' = bucket_list_ /\ size_' = size_ /\ bucket_list_ # o
  PROVE  \A u \in Writers : u # t => WriterFits(u)'
<1>1. SUFFICES ASSUME NEW u \in Writers, u # t PROVE WriterFits(u)'
  OBVIOUS
<1>2. /\ writer[u].at \in {"idle", "cas", "lock", "swap", "link", "release"}
      /\ writer[u].at # "idle" => use = "shared"
      /\ writer[u].at \in {"swap", "link"} => m_ = u
  BY <1>1, Others
<1>3. writer[u].new # None => Fresh(writer[u].new) /\ writer[u].new # writer[t].new /\ writer[u].at # "idle"
  BY <1>1, InHand DEF MapInv, Exclusive
<1>4. writer[u].at = "swap" => m_ \notin {t, None}
  BY <1>1, <1>2, Constants
<1>5. Untouched(u, o)
  <2>1. \A l \in Lists : l = writer[u].new => l # o /\ l # bucket_list_' /\ state'[l] = "live"
    BY <1>2, <1>3, Constants
  <2> QED
    BY <1>1, <1>2, <1>4, <2>1 DEF Untouched
<1> QED
  BY <1>5, SteadyWriter

\* Finders keep what they have if nothing they stand on is freed.
LEMMA ReadersKept ==
  ASSUME MapInv, TypeOK', NEW o, Steady(o), reader' = reader,
         \A r \in Readers : seen[r] \subseteq seen'[r] /\ CurrentAnswer(r)',
         bucket_list_ # None => bucket_list_' # None,
         \A x \in Nodes \cup Lists : state[x] # "free" /\ x # o => state'[x] # "free",
         \A r \in Readers : /\ reader[r].list = o /\ o # None => o = bucket_list_' /\ state'[o] # "free"
                            /\ reader[r].node = o => o = None
  PROVE  ReadersFit'
<1>1. SUFFICES ASSUME NEW r \in Readers PROVE ReaderHolds(r)' /\ ReaderKnows(r)'
  BY DEF ReadersFit
<1>2. /\ reader[r].list # None => reader[r].list \in Lists /\ state[reader[r].list] # "free"
      /\ reader[r].node # None => reader[r].node \in Nodes /\ state[reader[r].node] # "free"
  BY Settled DEF InUse
<1>3. Undisturbed(r)
  BY <1>2 DEF Undisturbed
<1>4. reader[r].at = "head" => reader[r].list # o \/ reader[r].list = bucket_list_'
  BY DEF MapInv, ReadersFit, ReaderHolds
<1> QED
  BY <1>3, <1>4, SteadyReader

\* A free list is no writer's.
LEMMA NewList ==
  ASSUME MapInv, NEW l \in New(Lists)
  PROVE  /\ l \in Lists /\ state[l] = "free" /\ l # None /\ l # bucket_list_ /\ ~Fresh(l)
         /\ \A u \in Writers : writer[u].new # l
         /\ \A r \in Readers : reader[r].list # l
<1>1. l \in Lists /\ state[l] = "free" /\ l # None
  BY Constants DEF New, Free
<1>2. l # bucket_list_ /\ ~Fresh(l)
  BY <1>1 DEF MapInv, Current, Fresh
<1>3. \A u \in Writers : writer[u].new # l
  BY <1>1, <1>2, InHand
<1>4. \A r \in Readers : reader[r].list # l
  BY <1>1, Settled
<1> QED
  BY <1>1, <1>2, <1>3, <1>4

\* Who calls is idle, holds nothing, and is the only user if there is only one.
LEMMA Caller ==
  ASSUME MapInv, NEW t \in Writers, NEW ops, Call(t, ops)
  PROVE  /\ writer[t].at = "idle" /\ writer[t].old = None /\ writer[t].new = None
         /\ (use = "single" => t = Only) /\ m_ # t
<1>1. writer[t].at = "idle" /\ (use = "single" => t = Only)
  BY DEF Call, Only
<1>2. WriterFits(t) /\ Exclusive
  BY DEF MapInv, WritersFit
<1>3. m_ # t
  BY <1>1, <1>2, Constants DEF Exclusive
<1> QED
  BY <1>1, <1>2, <1>3 DEF WriterFits

\* insert and ensureSegment up to the compare-and-swap preserve the
\* invariant.
LEMMA InsertStep ==
  ASSUME MapInv, NEW t \in Writers, NEW k \in Keys, Insert(t, k) PROVE MapInv'
<1>1. TypeOK /\ Memory /\ Current /\ WriterFits(t) /\ Accounted
  BY DEF MapInv, WritersFit
<1>2. TypeOK'
  BY <1>1, InsertType
<1>3. /\ writer[t].at = "idle" /\ writer[t].old = None /\ writer[t].new = None
      /\ (use = "single" => t = Only) /\ m_ # t /\ calls' \in Values
      /\ UNCHANGED <<use, nodeVars, mapVars, m_, reader, seen>>
  <2>1. Call(t, "keyed") /\ UNCHANGED <<use, nodeVars, mapVars, m_, reader, seen>>
    BY DEF Insert
  <2> QED
    BY <1>2, <2>1, Caller DEF TypeOK, Values
<1>4. /\ use' = use /\ m_' = m_ /\ reader' = reader /\ seen' = seen /\ bucket_list_' = bucket_list_ /\ size_' = size_
      /\ next_' = next_ /\ value_holder_' = value_holder_ /\ refcount_' = refcount_
  BY <1>3 DEF nodeVars, mapVars
<1>5. PICK at, new :
        /\ writer'[t] = [at |-> at, key |-> k, value |-> calls', new |-> new, old |-> None]
        /\ \A u \in Writers : u # t => writer'[u] = writer[u]
        /\ \/ at = "lock" /\ new = None /\ bucket_list_ # None /\ state' = state /\ list' = list
           \/ /\ at = "cas" /\ new \in New(Lists) /\ bucket_list_ = None
              /\ state' = [state EXCEPT ![new] = "live"]
              /\ \E c \in InitBuckets : list' = [list EXCEPT ![new] = Buckets(c)]
  <2>1. PICK wr : wr = writer
    OBVIOUS
  <2>2. wr \in [Writers -> WriterStates]
    BY <1>1, <2>1 DEF TypeOK, WriterStates
  <2>3. CASE bucket_list_ # None
    <3>1. writer' = [wr EXCEPT ![t] = [at |-> "lock", key |-> k, value |-> calls', new |-> None, old |-> None]]
          /\ state' = state /\ list' = list
      BY <2>1, <2>3 DEF Insert, Goto
    <3>2. writer'[t] = [at |-> "lock", key |-> k, value |-> calls', new |-> None, old |-> None]
          /\ \A u \in Writers : u # t => writer'[u] = writer[u]
      BY <2>1, <2>2, <3>1
    <3> QED
      BY <2>3, <3>1, <3>2
  <2>4. CASE bucket_list_ = None
    <3>1. PICK l \in New(Lists), c \in InitBuckets :
            /\ state' = [state EXCEPT ![l] = "live"]
            /\ list' = [list EXCEPT ![l] = Buckets(c)]
            /\ writer' = [wr EXCEPT ![t] = [at |-> "cas", key |-> k, value |-> calls', new |-> l, old |-> None]]
      BY <2>1, <2>4 DEF Insert, Goto
    <3>2. writer'[t] = [at |-> "cas", key |-> k, value |-> calls', new |-> l, old |-> None]
          /\ \A u \in Writers : u # t => writer'[u] = writer[u]
      BY <2>1, <2>2, <3>1
    <3> QED
      BY <2>4, <3>1, <3>2
  <2> QED
    BY <2>3, <2>4
<1>6. new # None => new \in New(Lists) /\ new \in Lists /\ state[new] = "free"
  BY <1>5, NewList
<1>7. \A o \in Nodes \cup Lists : o # new => state'[o] = state[o]
  BY <1>1, <1>5, <1>6 DEF TypeOK
<1>8. \A l \in Lists : l # new => list'[l] = list[l]
  BY <1>1, <1>5, <1>6 DEF TypeOK
<1>9. new # None => Bare(new)' /\ state'[new] = "live" /\ new # bucket_list_
  <2>1. ASSUME new # None PROVE Bare(new)' /\ state'[new] = "live"
    <3>1. PICK c \in InitBuckets : list' = [list EXCEPT ![new] = Buckets(c)] /\ state' = [state EXCEPT ![new] = "live"]
      BY <1>5, <2>1
    <3>2. list'[new] = Buckets(c) /\ state'[new] = "live"
      BY <1>1, <1>6, <2>1, <3>1 DEF TypeOK
    <3> QED
      BY <3>2 DEF Bare, Buckets
  <2> QED
    BY <1>5, <2>1, NewList
<1>10. Steady(None)
  BY <1>4, <1>6, <1>8, Constants DEF Steady
<1>11. Memory'
  <2>1. \A n \in Nodes : state'[n] = state[n]
    BY <1>6, <1>7, Constants
  <2>2. \A l \in Lists : \A n \in Nodes : state'[l] # "free" /\ n \in Heads(l)' <=> state[l] # "free" /\ n \in Heads(l)
    BY <1>6, <1>7, <1>8, <1>9, Constants DEF Heads, Bare
  <2>3. \A u \in Writers : \A n \in Nodes : writer'[u].old = n <=> writer[u].old = n
    BY <1>3, <1>5
  <2> QED
    BY <1>1, <1>3, <2>1, <2>2, <2>3, SameMemory
<1>12. bucket_list_ # None => bucket_list_ \in Lists /\ state'[bucket_list_] = "live" /\ state[bucket_list_] = "live"
  BY <1>1, <1>7, <1>9, <1>6 DEF Current, TypeOK, Maybe
<1>13. Current'
  BY <1>2, <1>4, <1>10, <1>12, Constants, SteadyCurrent
<1>14. \A u \in Writers : u # t => WriterFits(u)'
  <2>1. \A l \in Lists : Fresh(l) => l # None /\ l # bucket_list_' /\ state'[l] = "live"
    BY <1>4, <1>6, <1>7, Constants DEF Fresh
  <2>2. bucket_list_ = None => m_ \in {t, None}
    BY <1>1 DEF MapInv, Exclusive, WritersFit, WriterFits, TypeOK, Maybe
  <2> QED
    BY <1>2, <1>3, <1>4, <1>5, <1>10, <1>12, <2>1, <2>2, OthersKept
<1>15. WriterFits(t)'
  <2>1. writer'[t].at = at /\ writer'[t].key = k /\ writer'[t].value = calls' /\ writer'[t].new = new
        /\ writer'[t].old = None
    BY <1>5
  <2>2. new # None => Fresh(new)'
    BY <1>4, <1>6, <1>9 DEF Fresh
  <2>3. at = "cas" => new # None
    BY <1>5, NewList
  <2> QED
    BY <1>3, <1>4, <1>5, <1>9, <2>1, <2>2, <2>3 DEF WriterFits
<1>16. Exclusive'
  BY <1>3, <1>4, <1>5, NewList, ExclusiveStep
<1>17. Accounted'
  BY <1>1, <1>3, <1>4, <1>5, <1>6, <1>7, <1>8, <1>9 DEF Accounted, Bare, InWork
<1>18. ReadersFit'
  <2>1. \A r \in Readers : seen[r] \subseteq seen'[r] /\ CurrentAnswer(r)'
    BY <1>2, <1>4, <1>10, Constants, SteadyAnswers
  <2>2. \A x \in Nodes \cup Lists : state[x] # "free" /\ x # None => state'[x] # "free"
    BY <1>6, <1>7
  <2> QED
    BY <1>2, <1>4, <1>10, <2>1, <2>2, ReadersKept
<1> QED
  BY <1>2, <1>11, <1>13, <1>14, <1>15, <1>16, <1>17, <1>18 DEF MapInv, WritersFit

\* A list with nothing in it.
LEMMA BareList ==
  ASSUME TypeOK, NEW l \in Lists, Bare(l)
  PROVE  Members(l) = {} /\ Linked(l)
<1>1. Heads(l) \subseteq {None} /\ {None} \in SUBSET Maybe(Nodes) /\ Heads(l) \in SUBSET Maybe(Nodes)
  BY DEF Heads, Bare, Maybe
<1>2. next_ \in [Nodes -> Maybe(Nodes)] /\ Closed(next_, {})
  BY DEF TypeOK, Closed
<1>3. Members(l) \subseteq {}
  BY <1>1, <1>2, ReachLeast DEF Members
<1>4. Wired(list[l], next_, value_holder_, {})
  BY WiredEmpty DEF Bare
<1> QED
  BY <1>3, <1>4 DEF Linked

\* Finders are under way only when there is a segment.
LEMMA NoFinders ==
  ASSUME MapInv, bucket_list_ = None, NEW r \in Readers PROVE ~Finding(r)
BY DEF MapInv, ReadersFit, ReaderHolds, Finding

\* The compare-and-swap of ensureSegment: the winner's list is empty, so is
\* the loser's.
LEMMA CasStep ==
  ASSUME MapInv, NEW t \in Writers, CasSegment(t) PROVE MapInv'
<1>1. TypeOK /\ Memory /\ Current /\ WriterFits(t) /\ Accounted
  BY DEF MapInv, WritersFit
<1>2. PICK new \in Lists : new = writer[t].new /\ Fresh(new) /\ Bare(new)
  BY <1>1 DEF CasSegment, WriterFits, Fresh
<1>3. TypeOK'
  BY <1>1, <1>2, CasType
<1>4. /\ use' = use /\ m_' = m_ /\ reader' = reader /\ seen' = seen /\ size_' = size_ /\ state' = state /\ list' = list
      /\ next_' = next_ /\ value_holder_' = value_holder_ /\ refcount_' = refcount_
      /\ writer[t].at = "cas"
  BY DEF CasSegment, nodeVars
<1>5. /\ writer[t].key \in Keys /\ writer[t].value \in Values /\ writer[t].old = None
  BY <1>1, <1>4 DEF WriterFits
<1>6. /\ writer'[t].at = "lock" /\ writer'[t].key = writer[t].key /\ writer'[t].value = writer[t].value
      /\ writer'[t].new = None /\ writer'[t].old = None
      /\ \A u \in Writers : u # t => writer'[u] = writer[u]
  <2>1. Goto(t, "lock", writer[t].key, writer[t].value, None, None)
    BY DEF CasSegment
  <2> QED
    BY <1>1, <2>1 DEF Goto, TypeOK
<1>7. \/ bucket_list_ # None /\ bucket_list_' = bucket_list_
      \/ bucket_list_ = None /\ bucket_list_' = new
  BY <1>2 DEF CasSegment
<1>8. bucket_list_' # None
  BY <1>2, <1>7, Constants
<1>9. Steady(None)
  BY <1>4, Constants DEF Steady
<1>10. Memory'
  <2>1. \A l \in Lists : \A n \in Nodes : state'[l] # "free" /\ n \in Heads(l)' <=> state[l] # "free" /\ n \in Heads(l)
    BY <1>4 DEF Heads
  <2>2. \A u \in Writers : \A n \in Nodes : writer'[u].old = n <=> writer[u].old = n
    BY <1>5, <1>6
  <2> QED
    BY <1>1, <1>4, <2>1, <2>2, SameMemory DEF nodeVars
<1>11. Current' /\ Linked(bucket_list_)'
  <2>1. CASE bucket_list_ # None
    <3>1. bucket_list_' = bucket_list_ /\ state'[bucket_list_] = "live" /\ bucket_list_ # None
      BY <1>1, <1>4, <1>7, <2>1 DEF Current
    <3> QED
      BY <1>3, <1>4, <1>8, <1>9, <3>1, SteadyCurrent DEF Current
  <2>2. CASE bucket_list_ = None
    <3>1. Members(new) = {} /\ Linked(new) /\ state[new] = "live"
      BY <1>1, <1>2, BareList DEF Fresh
    <3>2. Members(new)' = {} /\ Linked(new)'
      BY <1>1, <1>3, <1>9, <3>1, Constants, SteadyWalks
    <3>3. new = bucket_list_'
      BY <1>7, <2>2
    <3>4. InList' = {}
      BY <1>8, <3>2, <3>3 DEF InList, Members
    <3>5. InList = {} /\ size_ = Cardinality(InList)
      BY <1>1, <2>2 DEF InList, Current
    <3> QED
      BY <1>4, <3>1, <3>2, <3>3, <3>4, <3>5 DEF Current
  <2> QED
    BY <2>1, <2>2
<1>12. \A u \in Writers : u # t => WriterFits(u)'
  <2>1. \A l \in Lists : Fresh(l) /\ l # writer[t].new => l # None /\ l # bucket_list_' /\ state'[l] = "live"
    BY <1>2, <1>4, <1>7, Constants DEF Fresh
  <2>2. bucket_list_ = None => m_ \in {t, None}
    BY <1>1 DEF MapInv, Exclusive, WritersFit, WriterFits, TypeOK, Maybe
  <2> QED
    BY <1>3, <1>4, <1>6, <1>7, <1>8, <1>9, <2>1, <2>2, OthersKept
<1>13. WriterFits(t)'
  BY <1>5, <1>6, <1>8 DEF WriterFits
<1>14. Exclusive'
  <2>1. m_ # t
    BY <1>4, Constants DEF MapInv, Exclusive
  <2>2. use = "single" => t = Only
    BY <1>4 DEF MapInv, Exclusive
  <2> QED
    BY <1>4, <1>6, <2>1, <2>2, ExclusiveStep
<1>15. Accounted'
  <2>1. \A l \in Lists : Bare(l)' <=> Bare(l)
    BY <1>4 DEF Bare
  <2>2. ASSUME NEW l \in Lists, state'[l] = "live", l # bucket_list_', ~Bare(l)'
        PROVE  InWork(l)'
    <3>1. state[l] = "live" /\ l # bucket_list_ /\ ~Bare(l)
      BY <1>4, <1>7, <2>1, <2>2, Constants
    <3>2. InWork(l)
      BY <1>1, <3>1 DEF Accounted, InWork
    <3> QED
      BY <1>4, <1>6, <3>2 DEF InWork
  <2> QED
    BY <2>2 DEF Accounted, InWork
<1>16. ReadersFit'
  <2>1. \A r \in Readers : CurrentAnswer(r)'
    <3>1. CASE bucket_list_ # None
      BY <1>3, <1>4, <1>7, <1>9, <3>1, SteadyAnswers
    <3>2. CASE bucket_list_ = None
      BY <1>4, <3>2, NoFinders DEF CurrentAnswer, Finding
    <3> QED
      BY <3>1, <3>2
  <2> QED
    BY <1>3, <1>4, <1>8, <1>9, <2>1, ReadersKept
<1> QED
  BY <1>3, <1>10, <1>11, <1>12, <1>13, <1>14, <1>15, <1>16 DEF MapInv, WritersFit

\* clear up to the mutex: the new list is not yet the map's.
LEMMA ClearStep ==
  ASSUME MapInv, NEW t \in Writers, Clear(t) PROVE MapInv'
<1>1. TypeOK /\ Memory /\ Current /\ WriterFits(t) /\ Accounted
  BY DEF MapInv, WritersFit
<1>2. TypeOK'
  BY ClearType
<1>3. /\ writer[t].at = "idle" /\ writer[t].old = None /\ writer[t].new = None
      /\ (use = "single" => t = Only) /\ m_ # t
  <2>1. Call(t, "whole")
    BY DEF Clear
  <2> QED
    BY <2>1, Caller
<1>4. /\ use' = use /\ m_' = m_ /\ reader' = reader /\ seen' = seen /\ bucket_list_' = bucket_list_ /\ size_' = size_
      /\ next_' = next_ /\ value_holder_' = value_holder_ /\ refcount_' = refcount_
      /\ bucket_list_ # None
  BY DEF Clear, nodeVars, mapVars
<1>5. use = "single"
  BY <1>1 DEF Clear, Call, TypeOK
<1>6. PICK new \in New(Lists) :
        /\ state' = [state EXCEPT ![new] = "live"]
        /\ list' = [list EXCEPT ![new] = Buckets(list[bucket_list_].count)]
        /\ Goto(t, "clear", None, None, new, bucket_list_)
  BY DEF Clear
<1>7. new \in Lists /\ state[new] = "free" /\ new # None /\ new # bucket_list_ /\ ~Fresh(new)
      /\ \A u \in Writers : writer[u].new # new
  BY NewList
<1>8. /\ writer'[t].at = "clear" /\ writer'[t].new = new /\ writer'[t].old = bucket_list_
      /\ \A u \in Writers : u # t => writer'[u] = writer[u]
  BY <1>1, <1>6 DEF Goto, TypeOK
<1>9. /\ \A o \in Nodes \cup Lists : o # new => state'[o] = state[o]
      /\ \A l \in Lists : l # new => list'[l] = list[l]
      /\ state'[new] = "live" /\ list'[new] = Buckets(list[bucket_list_].count)
  BY <1>1, <1>6, <1>7 DEF TypeOK
<1>10. Bare(new)' /\ Fresh(new)'
  BY <1>4, <1>7, <1>9 DEF Bare, Buckets, Fresh
<1>11. Steady(None)
  BY <1>4, <1>7, <1>9, Constants DEF Steady
<1>12. bucket_list_ \in Lists /\ state[bucket_list_] = "live" /\ state'[bucket_list_] = "live"
  BY <1>1, <1>4, <1>7, <1>9 DEF Current, TypeOK, Maybe
<1>13. Memory'
  <2>1. \A n \in Nodes : state'[n] = state[n]
    BY <1>7, <1>9, Constants
  <2>2. \A l \in Lists : \A n \in Nodes : state'[l] # "free" /\ n \in Heads(l)' <=> state[l] # "free" /\ n \in Heads(l)
    BY <1>7, <1>9, <1>10, Constants DEF Heads, Bare
  <2>3. \A u \in Writers : \A n \in Nodes : writer'[u].old = n <=> writer[u].old = n
    BY <1>3, <1>8, <1>12, Constants
  <2> QED
    BY <1>1, <1>4, <2>1, <2>2, <2>3, SameMemory DEF nodeVars
<1>14. Current'
  BY <1>2, <1>4, <1>11, <1>12, SteadyCurrent
<1>15. \A u \in Writers : u # t => WriterFits(u)'
  <2>1. use # "shared"
    BY <1>5
  <2> QED
    BY <1>2, <1>3, <1>4, <1>8, <1>11, <1>12, <2>1, OthersKept
<1>16. WriterFits(t)'
  BY <1>4, <1>5, <1>8, <1>10 DEF WriterFits
<1>17. Exclusive'
  BY <1>3, <1>4, <1>7, <1>8, ExclusiveStep
<1>18. Accounted'
  BY <1>1, <1>3, <1>4, <1>7, <1>8, <1>9, <1>10 DEF Accounted, Bare, InWork
<1>19. ReadersFit'
  <2>1. \A r \in Readers : seen[r] \subseteq seen'[r] /\ CurrentAnswer(r)'
    BY <1>2, <1>4, <1>11, SteadyAnswers
  <2>2. \A x \in Nodes \cup Lists : state[x] # "free" /\ x # None => state'[x] # "free"
    BY <1>7, <1>9
  <2> QED
    BY <1>2, <1>4, <1>11, <2>1, <2>2, ReadersKept
<1> QED
  BY <1>2, <1>13, <1>14, <1>15, <1>16, <1>17, <1>18, <1>19 DEF MapInv, WritersFit

\* clear under the mutex: finders on the old list may still answer from it.
LEMMA ClearStoreStep ==
  ASSUME MapInv, NEW t \in Writers, ClearStore(t) PROVE MapInv'
<1>1. TypeOK /\ Memory /\ Current /\ WriterFits(t) /\ Accounted
  BY DEF MapInv, WritersFit
<1>2. TypeOK'
  BY ClearStoreType
<1>3. /\ use' = use /\ m_' = m_ /\ m_ = None /\ reader' = reader /\ state' = state /\ list' = list
      /\ next_' = next_ /\ value_holder_' = value_holder_ /\ refcount_' = refcount_
      /\ writer[t].at = "clear" /\ size_' = 0 /\ Observe
  BY DEF ClearStore, nodeVars, SizeCleared
<1>4. PICK new \in Lists : new = writer[t].new /\ Fresh(new) /\ Bare(new) /\ bucket_list_' = new
  BY <1>1, <1>3 DEF ClearStore, WriterFits, Fresh
<1>5. writer[t].old = bucket_list_ /\ use = "single" /\ bucket_list_ # None
  BY <1>1, <1>3 DEF WriterFits
<1>6. /\ writer'[t].at = "retire" /\ writer'[t].new = None /\ writer'[t].old = bucket_list_
      /\ \A u \in Writers : u # t => writer'[u] = writer[u]
  <2>1. Goto(t, "retire", None, None, None, writer[t].old)
    BY DEF ClearStore
  <2> QED
    BY <1>1, <1>5, <2>1 DEF Goto, TypeOK
<1>7. bucket_list_' # None /\ bucket_list_' # bucket_list_ /\ bucket_list_ \in Lists /\ state[bucket_list_] = "live"
  BY <1>1, <1>4, <1>5, Constants DEF Fresh, Current, TypeOK, Maybe
<1>8. Steady(None)
  BY <1>3, Constants DEF Steady
<1>9. Memory'
  <2>1. \A l \in Lists : \A n \in Nodes : state'[l] # "free" /\ n \in Heads(l)' <=> state[l] # "free" /\ n \in Heads(l)
    BY <1>3 DEF Heads
  <2>2. \A u \in Writers : \A n \in Nodes : writer'[u].old = n <=> writer[u].old = n
    BY <1>5, <1>6
  <2> QED
    BY <1>1, <1>3, <2>1, <2>2, SameMemory DEF nodeVars
<1>10. Current' /\ Linked(bucket_list_)'
  <2>1. Members(new) = {} /\ Linked(new) /\ state[new] = "live"
    BY <1>1, <1>4, BareList DEF Fresh
  <2>2. Members(new)' = {} /\ Linked(new)'
    BY <1>1, <1>2, <1>8, <2>1, Constants, SteadyWalks
  <2>3. new = bucket_list_'
    BY <1>4
  <2>4. InList' = {}
    BY <1>7, <2>2, <2>3 DEF InList, Members
  <2>5. Cardinality({}) = 0
    BY FS_EmptySet
  <2> QED
    BY <1>3, <2>1, <2>2, <2>3, <2>4, <2>5 DEF Current
<1>11. \A u \in Writers : u # t => WriterFits(u)'
  <2>1. use # "shared"
    BY <1>5
  <2> QED
    BY <1>2, <1>3, <1>6, <1>7, <1>8, <2>1, OthersKept
<1>12. WriterFits(t)'
  BY <1>3, <1>5, <1>6, <1>7 DEF WriterFits, Fresh
<1>13. Exclusive'
  <2>1. t = Only
    BY <1>3, <1>5 DEF MapInv, Exclusive
  <2> QED
    BY <1>3, <1>6, <2>1, ExclusiveStep
<1>14. Accounted'
  <2>1. \A l \in Lists : Bare(l)' <=> Bare(l)
    BY <1>3 DEF Bare
  <2>2. ASSUME NEW l \in Lists, state'[l] = "live", l # bucket_list_', ~Bare(l)'
        PROVE  InWork(l)'
    <3>1. CASE l = bucket_list_
      BY <1>6, <3>1 DEF InWork
    <3>2. CASE l # bucket_list_
      <4>1. InWork(l)
        BY <1>1, <1>3, <2>1, <2>2, <3>2 DEF Accounted
      <4> QED
        BY <1>3, <1>6, <4>1 DEF InWork
    <3> QED
      BY <3>1, <3>2
  <2> QED
    BY <2>2 DEF Accounted
<1>15. ReadersFit'
  <2>1. Acyclic'
    BY <1>9 DEF Memory
  <2>2. \A r \in Readers : seen[r] \subseteq seen'[r] /\ CurrentAnswer(r)'
    BY <1>2, <1>3, <1>7, <1>10, <2>1, ObserveAnswers
  <2> QED
    BY <1>2, <1>3, <1>7, <1>8, <2>2, ReadersKept
<1> QED
  BY <1>2, <1>9, <1>10, <1>11, <1>12, <1>13, <1>14, <1>15 DEF MapInv, WritersFit

\* clear retires the old list.
LEMMA ClearRetireStep ==
  ASSUME MapInv, NEW t \in Writers, ClearRetire(t) PROVE MapInv'
<1>1. TypeOK /\ Memory /\ Current /\ WriterFits(t) /\ Accounted
  BY DEF MapInv, WritersFit
<1>2. TypeOK'
  BY ClearRetireType
<1>3. /\ use' = use /\ m_' = m_ /\ reader' = reader /\ seen' = seen /\ list' = list /\ size_' = size_
      /\ next_' = next_ /\ value_holder_' = value_holder_ /\ refcount_' = refcount_
      /\ bucket_list_' = bucket_list_ /\ writer[t].at = "retire"
  BY DEF ClearRetire, nodeVars, mapVars
<1>4. PICK old \in Lists : old = writer[t].old /\ Fresh(old) /\ state' = [state EXCEPT ![old] = "retired"]
  BY <1>1, <1>3 DEF ClearRetire, WriterFits, Fresh
<1>5. use = "single" /\ bucket_list_ # None /\ bucket_list_ \in Lists /\ state[bucket_list_] = "live"
  BY <1>1, <1>3 DEF WriterFits, Current, TypeOK, Maybe
<1>6. /\ writer'[t].at = "idle" /\ writer'[t].new = None /\ writer'[t].old = None
      /\ \A u \in Writers : u # t => writer'[u] = writer[u]
  BY <1>1, WriterIdle DEF ClearRetire, Idle
<1>7. state'[old] = "retired" /\ \A o \in Nodes \cup Lists : o # old => state'[o] = state[o]
  BY <1>1, <1>4 DEF TypeOK
<1>8. Steady(None)
  BY <1>3, Constants DEF Steady
<1>9. Memory'
  <2>0. \A n \in Nodes : state'[n] = state[n]
    BY <1>4, <1>7, Constants
  <2>1. \A l \in Lists : \A n \in Nodes : state'[l] # "free" /\ n \in Heads(l)' <=> state[l] # "free" /\ n \in Heads(l)
    BY <1>3, <1>4, <1>7 DEF Heads, Fresh
  <2>2. \A u \in Writers : \A n \in Nodes : writer'[u].old = n <=> writer[u].old = n
    BY <1>4, <1>6, Constants
  <2> QED
    BY <1>1, <1>3, <2>0, <2>1, <2>2, SameMemory DEF nodeVars
<1>10. bucket_list_ # old /\ state'[bucket_list_] = "live"
  BY <1>4, <1>5, <1>7 DEF Fresh
<1>11. Current'
  BY <1>2, <1>3, <1>5, <1>8, <1>10, SteadyCurrent
<1>12. \A u \in Writers : u # t => WriterFits(u)'
  <2>1. use # "shared"
    BY <1>5
  <2> QED
    BY <1>2, <1>3, <1>5, <1>6, <1>8, <1>10, <2>1, OthersKept
<1>13. WriterFits(t)'
  BY <1>3, <1>5, <1>6 DEF WriterFits
<1>14. Exclusive'
  <2>1. m_ # t
    BY <1>3, Constants DEF MapInv, Exclusive
  <2> QED
    BY <1>3, <1>6, <2>1, ExclusiveStep
<1>15. Accounted'
  <2>1. \A l \in Lists : Bare(l)' <=> Bare(l)
    BY <1>3 DEF Bare
  <2>2. ASSUME NEW l \in Lists, state'[l] = "live", l # bucket_list_', ~Bare(l)'
        PROVE  InWork(l)'
    <3>1. l # old /\ state[l] = "live"
      BY <1>7, <2>2
    <3>2. InWork(l)
      BY <1>1, <1>3, <2>1, <2>2, <3>1 DEF Accounted
    <3> QED
      BY <1>3, <1>4, <1>6, <3>1, <3>2 DEF InWork
  <2> QED
    BY <2>2 DEF Accounted
<1>16. ReadersFit'
  <2>1. \A r \in Readers : seen[r] \subseteq seen'[r] /\ CurrentAnswer(r)'
    BY <1>2, <1>3, <1>5, <1>8, SteadyAnswers
  <2>2. \A x \in Nodes \cup Lists : state[x] # "free" /\ x # None => state'[x] # "free"
    BY <1>7
  <2> QED
    BY <1>2, <1>3, <1>5, <1>8, <2>1, <2>2, ReadersKept
<1> QED
  BY <1>2, <1>9, <1>11, <1>12, <1>13, <1>14, <1>15, <1>16 DEF MapInv, WritersFit

\* A copy of a list answers as the list does.
LEMMA CopyAnswers ==
  ASSUME NEW L, NEW L2, IsList(L), IsList(L2), NEW next \in [Nodes -> Maybe(Nodes)], NEW vh, NEW M, NEW M2,
         Wired(L, next, vh, M), Wired(L2, next, vh, M2), NEW rank, Ranked(next, rank),
         SameContents(M2, M, vh), NEW k \in Keys, NEW known,
         Answered(Reach(next, {L.heads[BucketId(k, L.count)]}), k, vh, known)
  PROVE  Answered(Reach(next, {L2.heads[BucketId(k, L2.count)]}), k, vh, known)
<1>1. PICK b \in 1..L.count : b = BucketId(k, L.count)
  BY BucketRange DEF IsList
<1>2. PICK d \in 1..L2.count : d = BucketId(k, L2.count)
  BY BucketRange DEF IsList
<1>3. Reach(next, {L.heads[b]}) = {n \in M : Bucket(vh, n, L.count) = b}
  BY WiredChain
<1>4. Reach(next, {L2.heads[d]}) = {n \in M2 : Bucket(vh, n, L2.count) = d}
  BY WiredChain
<1>5. Answered(Reach(next, {L.heads[b]}), k, vh, known)
  BY <1>1
<1>6. Answered(Reach(next, {L2.heads[d]}), k, vh, known)
  <2>1. ASSUME NEW n \in M2, vh[n].key = k PROVE vh[n].value \in known
    <3>1. PICK m \in M : vh[m] = vh[n]
      BY DEF SameContents
    <3>2. m \in Reach(next, {L.heads[b]})
      BY <1>1, <1>3, <2>1, <3>1 DEF Bucket
    <3> QED
      BY <1>5, <2>1, <3>1, <3>2 DEF Answered
  <2>2. ASSUME \A n \in Reach(next, {L2.heads[d]}) : vh[n].key # k PROVE None \in known
    <3>1. ASSUME NEW m \in Reach(next, {L.heads[b]}), vh[m].key = k PROVE FALSE
      <4>1. PICK n \in M2 : vh[n] = vh[m]
        BY <1>3, <3>1 DEF SameContents
      <4>2. n \in Reach(next, {L2.heads[d]})
        BY <1>2, <1>4, <3>1, <4>1 DEF Bucket
      <4> QED
        BY <2>2, <3>1, <4>1, <4>2
    <3> QED
      BY <1>5, <3>1 DEF Answered
  <2> QED
    BY <1>4, <2>1, <2>2 DEF Answered
<1> QED
  BY <1>2, <1>6

\* rehash installs its copy, which answers as the old list does.
LEMMA SwapStep ==
  ASSUME MapInv, NEW t \in Writers, Swap(t) PROVE MapInv'
<1>1. TypeOK /\ Memory /\ Current /\ WriterFits(t) /\ Accounted
  BY DEF MapInv, WritersFit
<1>2. TypeOK'
  BY SwapType
<1>3. /\ use' = use /\ m_' = m_ /\ reader' = reader /\ seen' = seen /\ list' = list /\ size_' = size_
      /\ next_' = next_ /\ value_holder_' = value_holder_ /\ refcount_' = refcount_
      /\ writer[t].at = "swap"
  BY DEF Swap, nodeVars
<1>4. CopyFits(t) /\ bucket_list_ # None /\ (m_ = t => writer[t].key \in Keys /\ writer[t].value \in Values)
  BY <1>1, <1>3 DEF WriterFits
<1>5. PICK new \in Lists : /\ new = writer[t].new /\ Fresh(new) /\ Linked(new) /\ bucket_list_' = new
                           /\ SameContents(Members(new), InList, value_holder_)
                           /\ Cardinality(Members(new)) = size_
  BY <1>4 DEF CopyFits, Fresh, Swap
<1>6. PICK old \in Lists : old = writer[t].old /\ old = bucket_list_ /\ state[old] = "live" /\ Linked(old)
                           /\ state' = [state EXCEPT ![old] = "retired"]
  BY <1>1, <1>4 DEF Swap, CopyFits, Current, TypeOK, Maybe
<1>7. /\ \A u \in Writers : u # t => writer'[u] = writer[u]
      /\ writer'[t].new = None /\ writer'[t].old = None
      /\ m_ = t => writer'[t].at = "link" /\ writer'[t].key = writer[t].key /\ writer'[t].value = writer[t].value
      /\ m_ # t => writer'[t].at = "idle"
  BY <1>1 DEF Swap, Goto, TypeOK, Idle
<1>8. state'[old] = "retired" /\ \A o \in Nodes \cup Lists : o # old => state'[o] = state[o]
  BY <1>1, <1>6 DEF TypeOK
<1>9. Steady(None)
  BY <1>3, Constants DEF Steady
<1>10. Memory'
  <2>0. \A n \in Nodes : state'[n] = state[n]
    BY <1>6, <1>8, Constants
  <2>1. \A l \in Lists : \A n \in Nodes : state'[l] # "free" /\ n \in Heads(l)' <=> state[l] # "free" /\ n \in Heads(l)
    BY <1>3, <1>6, <1>8 DEF Heads
  <2>2. \A u \in Writers : \A n \in Nodes : writer'[u].old = n <=> writer[u].old = n
    BY <1>6, <1>7, Constants
  <2> QED
    BY <1>1, <1>3, <2>0, <2>1, <2>2, SameMemory DEF nodeVars
<1>11. new # old /\ state[new] = "live" /\ state'[new] = "live" /\ new # None
  BY <1>5, <1>6, <1>8, Constants DEF Fresh
<1>12. Current'
  <2>1. Members(new)' = Members(new) /\ Linked(new)'
    BY <1>1, <1>2, <1>5, <1>9, <1>11, SteadyWalks
  <2>2. new = bucket_list_'
    BY <1>5
  <2>3. InList' = Members(new)'
    BY <1>11, <2>2 DEF InList, Members
  <2> QED
    BY <1>3, <1>5, <1>11, <2>1, <2>2, <2>3 DEF Current
<1>13. m_ = t \/ (use = "single" /\ m_ = None)
  <2>1. m_ # t => use = "single"
    BY <1>4 DEF CopyFits
  <2>2. use = "single" => t = Only /\ (m_ # None => m_ = Only)
    BY <1>1, <1>3 DEF MapInv, Exclusive, TypeOK, Maybe
  <2> QED
    BY <2>1, <2>2
<1>14. \A u \in Writers : u # t => WriterFits(u)'
  <2>1. \A l \in Lists : Fresh(l) /\ l # writer[t].new => l # None /\ l # bucket_list_' /\ state'[l] = "live"
    BY <1>5, <1>6, <1>8, Constants DEF Fresh
  <2>2. m_ \in {t, None} /\ bucket_list_' # None /\ bucket_list_' # bucket_list_
    BY <1>5, <1>6, <1>11, <1>13
  <2> QED
    BY <1>2, <1>3, <1>7, <1>9, <2>1, <2>2, OthersKept
<1>15. WriterFits(t)'
  <2>1. bucket_list_' # None
    BY <1>5, <1>11
  <2> QED
    BY <1>3, <1>4, <1>7, <1>13, <2>1 DEF WriterFits
<1>16. Exclusive'
  <2>1. use = "single" => t = Only
    BY <1>3 DEF MapInv, Exclusive
  <2> QED
    BY <1>3, <1>7, <1>13, <2>1, ExclusiveStep
<1>17. Accounted'
  <2>1. \A l \in Lists : Bare(l)' <=> Bare(l)
    BY <1>3 DEF Bare
  <2>2. ASSUME NEW l \in Lists, state'[l] = "live", l # bucket_list_', ~Bare(l)'
        PROVE  InWork(l)'
    <3>1. l # old /\ state[l] = "live" /\ l # new
      BY <1>5, <1>8, <2>2
    <3>2. InWork(l)
      BY <1>1, <1>6, <2>1, <2>2, <3>1 DEF Accounted
    <3>3. PICK u \in Writers : \/ writer[u].at = "swap" /\ writer[u].new = l
                               \/ writer[u].at = "retire" /\ writer[u].old = l
      BY <3>2 DEF InWork
    <3>4. u # t
      BY <1>3, <1>5, <3>1, <3>3
    <3> QED
      BY <1>7, <3>3, <3>4 DEF InWork
  <2> QED
    BY <2>2 DEF Accounted
<1>18. ReadersFit'
  <2>1. ASSUME NEW r \in Readers PROVE CurrentAnswer(r)'
    <3>1. SUFFICES ASSUME Finding(r)
                   PROVE  Answered(ChainFor(bucket_list_, reader[r].key), reader[r].key, value_holder_, seen[r])'
      BY <1>3 DEF CurrentAnswer, Finding
    <3>2. PICK k \in Keys : k = reader[r].key /\ k = reader'[r].key
      BY <1>3, <3>1 DEF MapInv, ReadersFit, ReaderHolds, Finding
    <3>3. Answered(Reach(next_, {list[old].heads[BucketId(k, list[old].count)]}), k, value_holder_, seen[r])
      BY <1>6, <3>1, <3>2 DEF MapInv, ReadersFit, ReaderKnows, ChainFor, Chain
    <3>4. IsList(list[old]) /\ IsList(list[new]) /\ next_ \in [Nodes -> Maybe(Nodes)]
      BY <1>1, ListTypes DEF TypeOK
    <3>5. Wired(list[old], next_, value_holder_, InList)
      BY <1>4, <1>6 DEF Linked, InList, Members
    <3>6. Wired(list[new], next_, value_holder_, Members(new))
      BY <1>5 DEF Linked
    <3>7. PICK rank : Ranked(next_, rank)
      BY <1>1 DEF Memory, Acyclic
    <3>8. Answered(Reach(next_, {list[new].heads[BucketId(k, list[new].count)]}), k, value_holder_, seen[r])
      BY <1>5, <3>3, <3>4, <3>5, <3>6, <3>7, CopyAnswers
    <3> QED
      BY <1>3, <1>5, <3>2, <3>8 DEF ChainFor, Chain
  <2>2. \A x \in Nodes \cup Lists : state[x] # "free" /\ x # None => state'[x] # "free"
    BY <1>8
  <2>3. bucket_list_' # None
    BY <1>5, <1>11
  <2> QED
    BY <1>2, <1>3, <1>9, <2>1, <2>2, <2>3, ReadersKept
<1> QED
  BY <1>2, <1>10, <1>12, <1>14, <1>15, <1>16, <1>17, <1>18 DEF MapInv, WritersFit
-----------------------------------------------------------------------------
(* The steps of a finder.                                                  *)

\* A finder's step leaves everything but finders alone.
LEMMA ReaderFrame ==
  ASSUME MapInv, TypeOK', UNCHANGED <<use, state, nodeVars, list, mapVars, m_, writer>>
  PROVE  /\ Steady(None) /\ Memory' /\ Current' /\ WritersFit' /\ Exclusive' /\ Accounted'
         /\ next_' = next_ /\ value_holder_' = value_holder_ /\ state' = state /\ list' = list
         /\ bucket_list_' = bucket_list_
<1>1. TypeOK /\ Memory /\ Current /\ WritersFit /\ Exclusive /\ Accounted
  BY DEF MapInv
<1>2. /\ use' = use /\ m_' = m_ /\ list' = list /\ size_' = size_ /\ state' = state /\ writer' = writer
      /\ next_' = next_ /\ value_holder_' = value_holder_ /\ refcount_' = refcount_
      /\ bucket_list_' = bucket_list_
  BY DEF nodeVars, mapVars
<1>3. Steady(None)
  BY <1>2, Constants DEF Steady
<1>4. Memory'
  BY <1>1, <1>2, SameMemory DEF Heads, nodeVars
<1>5. Current'
  BY <1>1, <1>2, <1>3, SteadyCurrent DEF Current
<1>6. ASSUME NEW u \in Writers PROVE WriterFits(u)'
  <2>1. \A l \in Lists : l = writer[u].new \/ (l = writer[u].old /\ writer[u].at = "retire")
            => l # None /\ l # bucket_list_' /\ state'[l] = "live"
    BY <1>2, InHand, Constants DEF Fresh
  <2>2. Untouched(u, None)
    BY <1>2, <2>1 DEF Untouched
  <2> QED
    BY <1>2, <1>3, <2>2, SteadyWriter
<1>7. Exclusive'
  BY <1>1, <1>2 DEF Exclusive, Only
<1>8. Accounted'
  BY <1>1, <1>2 DEF Accounted, Bare, InWork
<1> QED
  BY <1>2, <1>3, <1>4, <1>5, <1>6, <1>7, <1>8 DEF WritersFit

\* And the other finders.
LEMMA OtherReaders ==
  ASSUME MapInv, TypeOK', UNCHANGED <<use, state, nodeVars, list, mapVars, m_, writer>>,
         NEW q \in Readers, reader'[q] = reader[q], seen'[q] = seen[q]
  PROVE  ReaderHolds(q)' /\ ReaderKnows(q)'
<1>1. /\ Steady(None) /\ state' = state /\ bucket_list_' = bucket_list_
  BY ReaderFrame
<1>2. CurrentAnswer(q)'
  BY <1>1, SteadyAnswers
<1>3. Undisturbed(q)
  BY <1>1, Settled DEF Undisturbed, InUse
<1>4. reader[q].at = "head" => reader[q].list # None
  BY DEF MapInv, ReadersFit, ReaderHolds
<1> QED
  BY <1>1, <1>2, <1>3, <1>4, SteadyReader

\* find begins with what its key maps to.
LEMMA FindStep ==
  ASSUME MapInv, NEW r \in Readers, NEW k \in Keys, Find(r, k) PROVE MapInv'
<1>1. /\ TypeOK' /\ TypeOK /\ Memory
      /\ reader'[r].at = "list" /\ reader'[r].key = k /\ reader'[r].list = None /\ reader'[r].node = None
      /\ \A q \in Readers : q # r => reader'[q] = reader[q]
  BY FindDoes DEF MapInv
<1>2. UNCHANGED <<use, state, nodeVars, list, mapVars, m_, writer>> /\ bucket_list_ # None
  BY DEF Find
<1>3. /\ Memory' /\ Current' /\ WritersFit' /\ Exclusive' /\ Accounted'
      /\ next_' = next_ /\ value_holder_' = value_holder_ /\ state' = state /\ list' = list
      /\ bucket_list_' = bucket_list_
  BY <1>1, <1>2, ReaderFrame
<1>4. seen'[r] = {Lookup(k)} /\ \A q \in Readers : q # r => seen'[q] = seen[q]
  BY <1>1 DEF Find, TypeOK
<1>5. PICK l \in Lists : l = bucket_list_
  BY <1>1, <1>2 DEF TypeOK, Maybe
<1>6. Answered(Chain(l, BucketId(k, list[l].count)), k, value_holder_, {Lookup(k)})
  <2>1. IsList(list[l]) /\ next_ \in [Nodes -> Maybe(Nodes)] /\ Wired(list[l], next_, value_holder_, InList)
    BY <1>1, <1>2, <1>5, CurrentIs DEF TypeOK
  <2>2. PICK rank : Ranked(next_, rank)
    BY <1>1 DEF Memory, Acyclic
  <2>3. PICK S : S = Reach(next_, {list[l].heads[BucketId(k, list[l].count)]})
    OBVIOUS
  <2>4. PICK with : with = {n \in S : value_holder_[n].key = k}
    OBVIOUS
  <2>5. With(k) = with
    BY <1>5, <2>3, <2>4 DEF With, Chain
  <2>6. (IF with = {} THEN None ELSE value_holder_[CHOOSE n \in with : TRUE].value) \in {Lookup(k)}
    BY <2>5 DEF Lookup
  <2>7. Answered(S, k, value_holder_, {Lookup(k)})
    BY <2>1, <2>2, <2>3, <2>4, <2>6, LookupAnswers
  <2> QED
    BY <2>3, <2>7 DEF Chain
<1>7. Answered(ChainFor(bucket_list_, reader[r].key), reader[r].key, value_holder_, seen[r])'
  BY <1>1, <1>3, <1>4, <1>5, <1>6 DEF ChainFor, Chain
<1>8. ReaderHolds(r)' /\ ReaderKnows(r)'
  BY <1>1, <1>2, <1>3, <1>7 DEF ReaderHolds, ReaderKnows
<1>9. \A q \in Readers : q # r => ReaderHolds(q)' /\ ReaderKnows(q)'
  BY <1>1, <1>2, <1>4, OtherReaders
<1>10. ReadersFit'
  BY <1>8, <1>9 DEF ReadersFit
<1> QED
  BY <1>1, <1>3, <1>10 DEF MapInv

\* An iterator gives up what it protected.
LEMMA DropIteratorStep ==
  ASSUME MapInv, NEW r \in Readers, DropIterator(r) PROVE MapInv'
<1>1. /\ TypeOK' /\ TypeOK
      /\ reader'[r].at = "idle" /\ reader'[r].list = None /\ reader'[r].node = None
      /\ \A q \in Readers : q # r => reader'[q] = reader[q]
  BY DropIteratorDoes DEF MapInv
<1>2. UNCHANGED <<use, state, nodeVars, list, mapVars, m_, writer>>
  BY DEF DropIterator
<1>3. /\ Memory' /\ Current' /\ WritersFit' /\ Exclusive' /\ Accounted'
  BY <1>1, <1>2, ReaderFrame
<1>4. \A q \in Readers : q # r => seen'[q] = seen[q]
  BY <1>1 DEF DropIterator, TypeOK
<1>5. ReaderHolds(r)' /\ ReaderKnows(r)'
  BY <1>1 DEF ReaderHolds, ReaderKnows, Finding
<1>6. \A q \in Readers : q # r => ReaderHolds(q)' /\ ReaderKnows(q)'
  BY <1>1, <1>2, <1>4, OtherReaders
<1>7. ReadersFit'
  BY <1>5, <1>6 DEF ReadersFit
<1> QED
  BY <1>1, <1>3, <1>7 DEF MapInv

\* What a walk that answers in time says of the node it begins with.
LEMMA AnswerHere ==
  ASSUME TypeOK, NEW p \in Maybe(Nodes), NEW k, NEW known, Answered(Reach(next_, {p}), k, value_holder_, known)
  PROVE  /\ p = None => None \in known
         /\ p # None /\ value_holder_[p].key = k => value_holder_[p].value \in known
         /\ p # None /\ value_holder_[p].key # k => Answered(Reach(next_, {next_[p]}), k, value_holder_, known)
<1>1. next_ \in [Nodes -> Maybe(Nodes)] /\ None \notin Nodes
  BY Constants DEF TypeOK
<1>2. p = None => None \in known
  BY <1>1, ReachNone DEF Answered
<1>3. ASSUME p # None
      PROVE  /\ Reach(next_, {next_[p]}) \subseteq Reach(next_, {p})
             /\ Reach(next_, {p}) \subseteq {p} \cup Reach(next_, {next_[p]})
             /\ p \in Reach(next_, {p})
  <2>1. p \in Nodes
    BY <1>3 DEF Maybe
  <2> QED
    BY <1>1, <2>1, ReachStep
<1> QED
  BY <1>2, <1>3 DEF Answered

\* get_protected: the pointer is still in src after it was published, so what
\* it leads to is not freed and its walk answers in time.
LEMMA ProtectStep ==
  ASSUME MapInv, NEW r \in Readers, Protect(r) PROVE MapInv'
<1>1. /\ TypeOK' /\ TypeOK /\ Memory
      /\ \/ Retried(reader[r], reader'[r])
         \/ Entered(reader[r], reader'[r])
         \/ reader[r].at \in {"head", "next"} /\ Came(reader[r], reader'[r], Src(r))
      /\ \A q \in Readers : q # r => reader'[q] = reader[q]
  BY ProtectDoes DEF MapInv
<1>2. UNCHANGED <<use, state, nodeVars, list, mapVars, m_, writer>> /\ seen' = seen
  BY DEF Protect
<1>3. /\ Memory' /\ Current' /\ WritersFit' /\ Exclusive' /\ Accounted'
      /\ next_' = next_ /\ value_holder_' = value_holder_ /\ state' = state /\ list' = list
      /\ bucket_list_' = bucket_list_
  BY <1>1, <1>2, ReaderFrame
<1>4. ReaderHolds(r) /\ ReaderKnows(r) /\ Finding(r)
  BY DEF MapInv, ReadersFit, Protect, Finding
<1>5. bucket_list_ # None /\ reader[r].key \in Keys /\ state[bucket_list_] = "live"
  BY <1>4 DEF ReaderHolds, Finding, MapInv, Current
<1>6. reader'[r].key = reader[r].key
  BY <1>1 DEF Retried, Entered, Came
<1>7. Answered(ChainFor(bucket_list_, reader[r].key), reader[r].key, value_holder_, seen[r])'
  BY <1>2, <1>3, <1>4, <1>6 DEF ReaderKnows, ChainFor, Chain
<1>k. PICK k \in Keys : k = reader[r].key /\ k = reader'[r].key
  BY <1>5, <1>6
<1>s. seen'[r] = seen[r]
  BY <1>2
<1>t. reader[r].at \in {"list", "head", "next"} /\ reader[r].list \in Maybe(Lists) /\ reader[r].node \in Maybe(Nodes)
  BY <1>1, <1>4 DEF TypeOK, Finding
<1>8. ASSUME Retried(reader[r], reader'[r]) PROVE ReaderHolds(r)' /\ ReaderKnows(r)'
  <2>1. ReaderHolds(r)'
    BY <1>3, <1>4, <1>8 DEF ReaderHolds, Retried, Finding
  <2>2. reader'[r].at = reader[r].at /\ reader'[r].list = reader[r].list /\ reader'[r].node = reader[r].node
    BY <1>8 DEF Retried
  <2>3. ASSUME reader'[r].at = "head"
        PROVE  Answered(ChainFor(reader[r].list, reader[r].key), reader[r].key, value_holder_, seen[r])'
    <3>1. Answered(ChainFor(reader[r].list, k), k, value_holder_, seen[r])
      BY <1>4, <1>k, <2>2, <2>3 DEF ReaderKnows
    <3>2. PICK l : l = reader[r].list /\ l = reader'[r].list
      BY <2>2
    <3>3. ChainFor(l, k)' = ChainFor(l, k)
      BY <1>3 DEF ChainFor, Chain
    <3> QED
      BY <1>3, <1>k, <1>s, <3>1, <3>2, <3>3
  <2>4. ASSUME reader'[r].at = "next"
        PROVE  Answered(Reach(next_, {next_[reader[r].node]}), reader[r].key, value_holder_, seen[r])'
    BY <1>3, <1>4, <1>k, <1>s, <2>2, <2>4 DEF ReaderKnows
  <2>5. reader'[r].at \notin {"found", "missed"}
    BY <1>t, <2>2
  <2>6. ReaderKnows(r)'
    BY <1>7, <2>3, <2>4, <2>5 DEF ReaderKnows
  <2> QED
    BY <2>1, <2>6
<1>9. ASSUME Entered(reader[r], reader'[r]) PROVE ReaderHolds(r)' /\ ReaderKnows(r)'
  <2>1. ReaderHolds(r)'
    BY <1>3, <1>4, <1>5, <1>9 DEF ReaderHolds, Entered
  <2>2. reader'[r].list = bucket_list_' /\ reader'[r].at = "head"
    BY <1>3, <1>9 DEF Entered
  <2>3. Answered(ChainFor(reader[r].list, reader[r].key), reader[r].key, value_holder_, seen[r])'
    BY <1>7, <2>2
  <2>4. reader'[r].at \notin {"next", "found", "missed"}
    BY <2>2
  <2>5. ReaderKnows(r)'
    BY <1>7, <2>3, <2>4 DEF ReaderKnows
  <2> QED
    BY <2>1, <2>5
<1>10. ASSUME reader[r].at \in {"head", "next"} /\ Came(reader[r], reader'[r], Src(r)) PROVE ReaderHolds(r)' /\ ReaderKnows(r)'
  <2>1. PICK p \in Maybe(Nodes) : p = Src(r) /\ p \in Maybe(InUse)
    BY <1>4, <1>10, SrcType DEF Maybe, InUse
  <2>2. Came(reader[r], reader'[r], p)
    BY <1>10, <2>1
  <2>3. p # None => state[p] # "free"
    BY <2>1 DEF Maybe, InUse
  <2>4. Answered(Reach(next_, {p}), reader[r].key, value_holder_, seen[r])
    BY <1>4, <1>10, <2>1, SrcType DEF ReaderKnows, ChainFor, Chain
  <2>5. /\ p = None => None \in seen[r]
        /\ p # None /\ value_holder_[p].key = reader[r].key => value_holder_[p].value \in seen[r]
        /\ p # None /\ value_holder_[p].key # reader[r].key
             => Answered(Reach(next_, {next_[p]}), reader[r].key, value_holder_, seen[r])
    BY <1>1, <2>4, AnswerHere
  <2>6. ReaderHolds(r)'
    BY <1>3, <1>4, <1>5, <2>2, <2>3 DEF ReaderHolds, Came
  <2>7. CASE p = None
    <3>1. reader'[r].at = "missed" /\ None \in seen'[r]
      BY <1>s, <2>2, <2>5, <2>7 DEF Came
    <3>2. reader'[r].at \notin {"head", "next", "found"} /\ ~Finding(r)'
      BY <3>1 DEF Finding
    <3>3. ReaderKnows(r)'
      BY <3>1, <3>2 DEF ReaderKnows
    <3> QED
      BY <2>6, <3>3
  <2>8. CASE p # None /\ value_holder_[p].key = reader[r].key
    <3>1. reader'[r].at = "found" /\ reader'[r].node = p /\ value_holder_'[p].value \in seen'[r]
      BY <1>3, <1>s, <2>2, <2>5, <2>8 DEF Came
    <3>2. reader'[r].at \notin {"head", "next", "missed"} /\ ~Finding(r)'
      BY <3>1 DEF Finding
    <3>3. ReaderKnows(r)'
      BY <3>1, <3>2 DEF ReaderKnows
    <3> QED
      BY <2>6, <3>3
  <2>9. CASE p # None /\ value_holder_[p].key # reader[r].key
    <3>1. reader'[r].at = "next" /\ reader'[r].node = p
      BY <2>2, <2>9 DEF Came
    <3>2. Answered(Reach(next_, {next_[reader[r].node]}), reader[r].key, value_holder_, seen[r])'
      BY <1>3, <1>6, <1>s, <2>5, <2>9, <3>1
    <3>3. reader'[r].at \notin {"head", "found", "missed"}
      BY <3>1
    <3>4. ReaderKnows(r)'
      BY <1>7, <3>2, <3>3 DEF ReaderKnows
    <3> QED
      BY <2>6, <3>4
  <2> QED
    BY <2>7, <2>8, <2>9
<1>11. \A q \in Readers : q # r => ReaderHolds(q)' /\ ReaderKnows(q)'
  <2>1. \A q \in Readers : seen'[q] = seen[q]
    BY <1>2
  <2> QED
    BY <1>1, <1>2, <2>1, OtherReaders
<1>12. ReaderHolds(r)' /\ ReaderKnows(r)'
  BY <1>1, <1>8, <1>9, <1>10
<1>13. ReadersFit'
  BY <1>11, <1>12 DEF ReadersFit
<1> QED
  BY <1>1, <1>3, <1>13 DEF MapInv
-----------------------------------------------------------------------------
(* Rehash: the copy.                                                       *)

\* The copies make a list in order, of as many nodes as the map's.
LEMMA CopyList ==
  ASSUME MapInv, TypeOK', NEW t \in Writers, NEW c \in 1..MaxBuckets, NEW l, NEW f, NEW N, Copied(t, c, l, f, N),
         bucket_list_ # None
  PROVE  /\ l \in Lists /\ N \in SUBSET Nodes /\ N \cap InUse = {}
         /\ Wired(list'[l], next_', value_holder_', N)
         /\ Acyclic' /\ Linked(l)' /\ Members(l)' = N /\ Cardinality(N) = size_
<1>1. TypeOK /\ Memory
  BY DEF MapInv
<1>2. /\ l \in Lists /\ N \in SUBSET Nodes /\ \A n \in N : state[n] = "free"
      /\ f \in [InList -> N]
      /\ \A m, n \in InList : f[m] = f[n] => m = n
      /\ \A n \in N : \E m \in InList : f[m] = n
      /\ \A n \in InList : value_holder_'[f[n]] = value_holder_[n]
  BY DEF Copied
<1>3. N \cap InUse = {}
  BY <1>2 DEF InUse
<1>4. /\ Wired(list[bucket_list_], next_, value_holder_, InList) /\ IsFiniteSet(InList)
      /\ size_ = Cardinality(InList)
  BY CurrentIs
<1>5. KeysOnce(value_holder_', N)
  <2>1. KeysOnce(value_holder_, InList)
    BY <1>4 DEF Wired
  <2>2. \A n \in N : \E m \in InList : f[m] = n /\ value_holder_'[n] = value_holder_[m]
    BY <1>2
  <2> QED
    BY <2>1, <2>2 DEF KeysOnce
<1>6. c \in Nat \ {0}
  BY HashMapAssumption
<1>7. /\ list'[l].count = c /\ list'[l].heads = TopOf(N, value_holder_', c)
      /\ \A n \in N : next_'[n] = Below(N, value_holder_', c, n)
      /\ \A n \in Nodes \ N : next_'[n] = next_[n]
  <2>1. list'[l] = [count |-> c, heads |-> TopOf(N, value_holder_', c)]
    BY <1>1, <1>2 DEF Copied, TypeOK
  <2>2. next_' = [n \in Nodes |-> IF n \in N THEN Below(N, value_holder_', c, n) ELSE next_[n]]
    BY DEF Copied
  <2> QED
    BY <1>2, <2>1, <2>2
<1>8. Wired(list'[l], next_', value_holder_', N) /\ \A n \in N : next_'[n] # None => next_'[n] < n
  <2>1. Stacked(list'[l], next_', value_holder_', N)
    BY <1>6, <1>7 DEF Stacked
  <2> QED
    BY <1>2, <1>5, <2>1, WiredCopy
<1>9. PICK rank : Ranked(next_, rank)
  BY <1>1 DEF Memory, Acyclic
<1> DEFINE rank2 == [n \in Nodes |-> IF n \in N THEN n ELSE rank[n]]
<1>10. Ranked(next_', rank2)
  <2>1. rank2 \in [Nodes -> Nat]
    BY <1>9, Constants DEF Ranked
  <2>2. ASSUME NEW n \in Nodes, next_'[n] # None PROVE rank2[next_'[n]] < rank2[n]
    <3>1. CASE n \in N
      <4>1. next_'[n] \in N /\ next_'[n] < n
        BY <1>8, <2>2, <3>1 DEF Wired, ChainsIn
      <4> QED
        BY <1>2, <3>1, <4>1
    <3>2. CASE n \notin N
      <4>1. next_'[n] = next_[n] /\ next_[n] \in Nodes
        BY <1>1, <1>7, <2>2, <3>2 DEF TypeOK, Maybe
      <4>2. next_[n] \notin N
        BY <1>1, <1>2, Unpointed
      <4> QED
        BY <1>9, <2>2, <3>2, <4>1, <4>2 DEF Ranked
    <3> QED
      BY <3>1, <3>2
  <2> QED
    BY <2>1, <2>2 DEF Ranked
<1> HIDE DEF rank2
<1>11. Members(l)' = N /\ Linked(l)'
  BY <1>2, <1>8, <1>10, NextList DEF TypeOK, ListsTyped
<1>12. Cardinality(N) = size_
  <2>1. f \in Bijection(InList, N)
    BY <1>2 DEF Bijection, Injection, Surjection, IsInjective
  <2>2. ExistsBijection(InList, N)
    BY <2>1 DEF ExistsBijection
  <2> QED
    BY <1>4, <2>2, FS_Bijection
<1> QED
  BY <1>2, <1>3, <1>8, <1>10, <1>11, <1>12 DEF Acyclic

\* Each copy is referred to once, by the list or by another copy.
LEMMA CopyMemory ==
  ASSUME MapInv, TypeOK', NEW t \in Writers, NEW c \in 1..MaxBuckets, NEW l, NEW f, NEW N, Copied(t, c, l, f, N),
         bucket_list_ # None, writer[t].old = None
  PROVE  Memory'
<1>1. TypeOK /\ Memory /\ bucket_list_ \in Lists
  BY DEF MapInv, TypeOK, Maybe
<1>2. /\ l \in Lists /\ N \in SUBSET Nodes /\ N \cap InUse = {}
      /\ Wired(list'[l], next_', value_holder_', N) /\ Acyclic'
  BY CopyList
<1>3. /\ state[l] = "free" /\ \A n \in N : state[n] = "free"
      /\ \A n \in N : \E m \in InList : f[m] = n
      /\ \A n \in InList : value_holder_'[f[n]] = value_holder_[n]
      /\ \A n \in Nodes \ N : value_holder_'[n] = value_holder_[n]
  BY DEF Copied
<1>4. /\ \A n \in N : state'[n] = "live" /\ refcount_'[n] = 1
      /\ \A n \in Nodes \ N : state'[n] = state[n] /\ refcount_'[n] = refcount_[n] /\ next_'[n] = next_[n]
      /\ state'[l] = "live" /\ \A x \in Lists : x # l => state'[x] = state[x] /\ list'[x] = list[x]
      /\ writer'[t].old = bucket_list_ /\ \A u \in Writers : u # t => writer'[u] = writer[u]
  <2>1. \A n \in N : n \in Nodes
    BY <1>2
  <2>2. \A x \in Lists : x \notin N
    BY <1>2, Constants
  <2>3. \A n \in Nodes : n # l
    BY <1>2, Constants
  <2>4. list = [x \in Lists |-> list[x]] /\ list' = [list EXCEPT ![l] = [count |-> c, heads |-> TopOf(N, value_holder_', c)]]
    BY <1>1 DEF TypeOK, Copied
  <2>5. \A x \in Lists : x # l => list'[x] = list[x]
    BY <2>4
  <2>6. /\ state' = [o \in Nodes \cup Lists |-> IF o \in N \cup {l} THEN "live" ELSE state[o]]
        /\ refcount_' = [n \in Nodes |-> IF n \in N THEN 1 ELSE refcount_[n]]
        /\ next_' = [n \in Nodes |-> IF n \in N THEN Below(N, value_holder_', c, n) ELSE next_[n]]
    BY DEF Copied
  <2>7. writer'[t].old = bucket_list_ /\ \A u \in Writers : u # t => writer'[u] = writer[u]
    BY <1>1 DEF Copied, TypeOK
  <2> QED
    BY <1>2, <2>1, <2>2, <2>3, <2>5, <2>6, <2>7
<1>5. /\ \A n \in N : n # None /\ n \notin Lists /\ (n \in Heads(l)' <=> \E b \in 1..list'[l].count : list'[l].heads[b] = n)
      /\ \A n \in Nodes \ N : n \notin Heads(l)'
  <2>1. \A h \in Heads(l)' : h # None => h \in N
    BY <1>2 DEF Heads, Wired, HeadsIn
  <2> QED
    BY <1>2, <2>1, Constants DEF Heads
<1>6. ASSUME NEW n \in N
      PROVE  /\ \A m \in Nodes \ N : next_'[m] # n
             /\ \A x \in Lists : x # l /\ state'[x] # "free" => n \notin Heads(x)'
             /\ \A u \in Writers : writer'[u].old # n
  <2>1. /\ \A m \in Nodes : next_[m] # n
        /\ \A x \in Lists : state[x] # "free" => n \notin Heads(x)
        /\ \A u \in Writers : writer[u].old # n
    BY <1>1, <1>2, <1>3, Unpointed
  <2>2. \A x \in Lists : x # l => Heads(x)' = Heads(x)
    BY <1>4 DEF Heads
  <2> QED
    BY <1>1, <1>4, <1>5, <2>1, <2>2
<1>7. ASSUME NEW n \in N PROVE Cardinality(Holders(n)') = 1
  <2>1. ASSUME NEW b \in 1..list'[l].count, list'[l].heads[b] = n PROVE Holders(n)' = {l}
    <3>1. \A m \in N : next_'[m] # n
      BY <1>2, <1>5, <2>1 DEF Wired, OnePrev
    <3>2. \A m \in Nodes : next_'[m] # n
      BY <1>6, <3>1
    <3>3. n \in Heads(l)' /\ state'[l] # "free"
      BY <1>4, <1>5, <2>1
    <3> QED
      BY <1>2, <1>6, <3>2, <3>3 DEF Holders
  <2>2. ASSUME NEW m \in N, next_'[m] = n PROVE Holders(n)' = {m}
    <3>1. \A p \in N : next_'[p] = n => p = m
      BY <1>2, <1>5, <2>2 DEF Wired, OnePrev
    <3>2. \A p \in Nodes : next_'[p] = n => p = m
      BY <1>6, <3>1
    <3>3. n \notin Heads(l)'
      BY <1>2, <1>5, <2>2 DEF Wired, OnePrev
    <3>4. state'[m] # "free" /\ m \in Nodes
      BY <1>2, <1>4
    <3> QED
      BY <1>6, <2>2, <3>2, <3>3, <3>4 DEF Holders
  <2>3. \E p : Holders(n)' = {p}
    BY <1>2, <2>1, <2>2 DEF Wired, HasPrev
  <2> QED
    BY <2>3, FS_Singleton
<1>8. ASSUME NEW n \in Nodes \ N PROVE Holders(n)' = Holders(n)
  <2>1. \A m \in N : next_'[m] # n /\ next_[m] # n
    <3>1. \A m \in N : next_'[m] # None => next_'[m] \in N
      BY <1>2 DEF Wired, ChainsIn
    <3>2. \A m \in N : next_[m] = None
      BY <1>1, <1>2, <1>3 DEF Memory, Contents
    <3> QED
      BY <3>1, <3>2, Constants
  <2>2. \A m \in Nodes : state'[m] # "free" /\ next_'[m] = n <=> state[m] # "free" /\ next_[m] = n
    BY <1>4, <2>1
  <2>3. \A x \in Lists : state'[x] # "free" /\ n \in Heads(x)' <=> state[x] # "free" /\ n \in Heads(x)
    <3>1. \A x \in Lists : x # l => Heads(x)' = Heads(x)
      BY <1>4 DEF Heads
    <3> QED
      BY <1>3, <1>4, <1>5, <3>1
  <2>4. \A u \in Writers : writer'[u].old = n <=> writer[u].old = n
    BY <1>1, <1>4, Constants
  <2> QED
    BY <2>2, <2>3, <2>4 DEF Holders
<1>9. RefcountExact'
  <2>1. ASSUME NEW n \in Nodes PROVE refcount_'[n] = Cardinality(Holders(n)')
    <3>1. CASE n \in N
      BY <1>4, <1>7, <3>1
    <3>2. CASE n \notin N
      BY <1>1, <1>4, <1>8, <3>2 DEF Memory, RefcountExact
    <3> QED
      BY <3>1, <3>2
  <2> QED
    BY <2>1 DEF RefcountExact
<1>10. Living'
  <2>1. \A n \in N : state'[n] = "live" /\ refcount_'[n] # 0
    BY <1>4
  <2> QED
    BY <1>1, <1>4, <2>1 DEF Memory, Living
<1>11. Contents'
  <2>1. ASSUME NEW n \in N PROVE state'[n] # "free" /\ value_holder_'[n].key \in Keys /\ value_holder_'[n].value \in Values
    <3>1. PICK m \in InList : f[m] = n
      BY <1>3
    <3>2. m \in InUse
      BY CurrentIs
    <3> QED
      BY <1>1, <1>3, <1>4, <3>1, <3>2 DEF Memory, Contents, InUse
  <2> QED
    BY <1>1, <1>3, <1>4, <2>1 DEF Memory, Contents
<1> QED
  BY <1>2, <1>9, <1>10, <1>11 DEF Memory

\* rehash up to the store: nobody but its writer sees the copies.
LEMMA CopyStep ==
  ASSUME MapInv, TypeOK', NEW t \in Writers, NEW c \in 1..MaxBuckets, NEW l, NEW f, NEW N, Copied(t, c, l, f, N),
         bucket_list_ # None, writer[t].old = None, writer[t].new = None,
         use = "single" => t = Only,
         \/ m_ = None /\ m_' = t /\ writer[t].key \in Keys /\ writer[t].value \in Values
         \/ m_' = m_ /\ m_ # t /\ use = "single",
         use' = use, bucket_list_' = bucket_list_, size_' = size_, reader' = reader, seen' = seen
  PROVE  MapInv'
<1>1. TypeOK /\ Memory /\ Current /\ Accounted
  BY DEF MapInv
<1>2. /\ l \in Lists /\ N \in SUBSET Nodes /\ N \cap InUse = {}
      /\ Linked(l)' /\ Members(l)' = N /\ Cardinality(N) = size_
  BY CopyList
<1>3. Memory'
  BY CopyMemory
<1>4. /\ state[l] = "free" /\ \A n \in N : state[n] = "free"
      /\ f \in [InList -> N] /\ \A n \in N : \E m \in InList : f[m] = n
      /\ \A n \in InList : value_holder_'[f[n]] = value_holder_[n]
      /\ \A n \in Nodes \ N : value_holder_'[n] = value_holder_[n] /\ next_'[n] = next_[n]
      /\ \A x \in Lists : x # l => list'[x] = list[x]
  <2>1. list = [x \in Lists |-> list[x]] /\ list' = [list EXCEPT ![l] = [count |-> c, heads |-> TopOf(N, value_holder_', c)]]
    BY <1>1 DEF TypeOK, Copied
  <2>2. \A x \in Lists : x # l => list'[x] = list[x]
    BY <2>1
  <2>3. next_' = [n \in Nodes |-> IF n \in N THEN Below(N, value_holder_', c, n) ELSE next_[n]]
    BY DEF Copied
  <2>4. \A n \in Nodes \ N : next_'[n] = next_[n]
    BY <2>3
  <2> QED
    BY <2>2, <2>4 DEF Copied
<1>5. /\ state' = [o \in Nodes \cup Lists |-> IF o \in N \cup {l} THEN "live" ELSE state[o]]
      /\ writer' = [writer EXCEPT ![t] = [at |-> "swap", key |-> writer[t].key, value |-> writer[t].value,
                                          new |-> l, old |-> bucket_list_]]
  BY DEF Copied
<1>6. /\ writer'[t] = [at |-> "swap", key |-> writer[t].key, value |-> writer[t].value, new |-> l, old |-> bucket_list_]
      /\ \A u \in Writers : u # t => writer'[u] = writer[u]
  BY <1>1, <1>5 DEF TypeOK
<1>7. /\ l # None /\ l # bucket_list_ /\ ~Fresh(l) /\ state'[l] = "live"
      /\ \A u \in Writers : writer[u].new # l
  BY <1>1, <1>2, <1>4, <1>5, InHand, Constants DEF Current, Fresh
<1>8. \A x \in Lists : x # l => state'[x] = state[x]
  BY <1>2, <1>5, Constants
<1>9. Steady(None)
  BY <1>4, Constants DEF Steady
<1>10. bucket_list_ \in Lists /\ state[bucket_list_] = "live" /\ state'[bucket_list_] = "live"
  BY <1>1, <1>7, <1>8 DEF Current, TypeOK, Maybe
<1>11. Current' /\ InList' = InList /\ \A n \in InList : value_holder_'[n] = value_holder_[n]
  BY <1>9, <1>10, SteadyCurrent
<1>12. CopyFits(t)'
  <2>1. Fresh(l)'
    BY <1>2, <1>7 DEF Fresh
  <2>2. SameContents(N, InList, value_holder_')
    BY <1>4, <1>11 DEF SameContents
  <2>3. writer'[t].new = l /\ writer'[t].old = bucket_list_'
    BY <1>6
  <2>4. Fresh(writer[t].new)' /\ Linked(writer[t].new)' /\ Members(writer[t].new)' = N
    BY <1>2, <2>1, <2>3
  <2> QED
    BY <1>2, <1>11, <2>2, <2>3, <2>4 DEF CopyFits
<1>13. WriterFits(t)'
  <2>1. writer'[t].at = "swap" /\ writer'[t].key = writer[t].key /\ writer'[t].value = writer[t].value
    BY <1>6
  <2>2. m_' = t => writer[t].key \in Keys /\ writer[t].value \in Values
    OBVIOUS
  <2> QED
    BY <1>12, <2>1, <2>2 DEF WriterFits
<1>14. \A u \in Writers : u # t => WriterFits(u)'
  <2>1. \A x \in Lists : Fresh(x) /\ x # writer[t].new => x # None /\ x # bucket_list_' /\ state'[x] = "live"
    BY <1>7, <1>8, Constants DEF Fresh
  <2>2. \A u \in Writers : u # t => writer'[u] = writer[u] /\ (m_ = u <=> m_' = u)
    BY <1>6, Constants
  <2> QED
    BY <1>9, <1>10, <2>1, <2>2, OthersKept
<1>15. Exclusive'
  BY <1>6, <1>7, ExclusiveStep
<1>16. Accounted'
  <2>1. ASSUME NEW x \in Lists, state'[x] = "live", x # bucket_list_' PROVE Bare(x)' \/ InWork(x)'
    <3>1. CASE x = l
      BY <1>6, <3>1 DEF InWork
    <3>2. CASE x # l
      <4>1. Bare(x) \/ InWork(x)
        BY <1>1, <1>8, <2>1, <3>2 DEF Accounted
      <4>2. Bare(x) => Bare(x)'
        BY <1>4, <3>2 DEF Bare
      <4>3. ASSUME InWork(x) PROVE InWork(x)'
        <5>1. PICK u \in Writers : (writer[u].at = "swap" /\ writer[u].new = x)
                                  \/ (writer[u].at = "retire" /\ writer[u].old = x)
          BY <4>3 DEF InWork
        <5>n. x # None
          BY Constants
        <5>2. u # t
          BY <5>1, <5>n
        <5> QED
          BY <1>6, <5>1, <5>2 DEF InWork
      <4> QED
        BY <4>1, <4>2, <4>3
    <3> QED
      BY <3>1, <3>2
  <2> QED
    BY <2>1 DEF Accounted
<1>17. ReadersFit'
  <2>1. \A r \in Readers : seen[r] \subseteq seen'[r] /\ CurrentAnswer(r)'
    BY <1>9, SteadyAnswers
  <2>2. \A x \in Nodes \cup Lists : state[x] # "free" /\ x # None => state'[x] # "free"
    BY <1>5
  <2> QED
    BY <1>9, <2>1, <2>2, ReadersKept
<1> QED
  BY <1>3, <1>11, <1>13, <1>14, <1>15, <1>16, <1>17 DEF MapInv, WritersFit

\* insert_internal rehashes under the mutex.
LEMMA RehashStep ==
  ASSUME MapInv, NEW t \in Writers, InsertRehash(t) PROVE MapInv'
<1>1. TypeOK /\ WriterFits(t) /\ Exclusive /\ writer[t].at = "lock"
  BY DEF MapInv, WritersFit, InsertRehash
<1>2. /\ bucket_list_ # None /\ writer[t].old = None /\ writer[t].new = None
      /\ writer[t].key \in Keys /\ writer[t].value \in Values /\ (use = "single" => t = Only)
  BY <1>1 DEF WriterFits, Exclusive
<1>3. TypeOK'
  BY RehashType
<1>4. PICK c \in 1..MaxBuckets : Copy(t, c)
  <2>1. PICK c : c = 2 * list[bucket_list_].count
    OBVIOUS
  <2>2. Copy(t, c)
    BY <2>1 DEF InsertRehash
  <2>3. bucket_list_ \in Lists
    BY <1>1, <1>2 DEF TypeOK, Maybe
  <2>4. list[bucket_list_].count \in 1..MaxBuckets /\ MaxBuckets \in Nat
    BY <1>1, <2>3, ListTypes, HashMapAssumption
  <2>5. c <= MaxBuckets
    BY <2>2 DEF Copy
  <2> QED
    BY <2>1, <2>2, <2>4, <2>5
<1>5. PICK l, f, N : Copied(t, c, l, f, N)
  BY <1>1, <1>4, CopyDoes
<1>6. /\ m_ = None /\ m_' = t /\ use' = use /\ bucket_list_' = bucket_list_ /\ size_' = size_
      /\ reader' = reader /\ seen' = seen
  BY DEF InsertRehash
<1> QED
  BY <1>2, <1>3, <1>5, <1>6, CopyStep

\* reserve rehashes without it, as the only writer.
LEMMA ReserveStep ==
  ASSUME MapInv, NEW t \in Writers, NEW c \in Reserves, Reserve(t, c) PROVE MapInv'
<1>1. TypeOK /\ TypeOK' /\ c \in 1..MaxBuckets
  BY ReserveType, HashMapAssumption DEF MapInv
<1>2. Call(t, "whole") /\ Copy(t, c)
  BY DEF Reserve
<1>3. /\ writer[t].at = "idle" /\ writer[t].old = None /\ writer[t].new = None
      /\ (use = "single" => t = Only) /\ m_ # t
  BY <1>2, Caller
<1>4. use = "single"
  BY <1>1, <1>2 DEF Call, TypeOK
<1>5. PICK l, f, N : Copied(t, c, l, f, N)
  BY <1>1, <1>2, CopyDoes
<1>6. /\ m_' = m_ /\ use' = use /\ bucket_list_' = bucket_list_ /\ size_' = size_ /\ bucket_list_ # None
      /\ reader' = reader /\ seen' = seen
  BY DEF Reserve
<1> QED
  BY <1>1, <1>3, <1>4, <1>5, <1>6, CopyStep
-----------------------------------------------------------------------------
(* References given up: release, and the deletion of what is retired.      *)

\* One holder less of every node in S, which is retired if that was the last.
LEMMA DropMemory ==
  ASSUME TypeOK, TypeOK', Memory, NEW S \in SUBSET Nodes, NEW p, NEW o,
         Acyclic', Contents',
         \A n \in S : p \in Holders(n) /\ Holders(n)' = Holders(n) \ {p},
         \A n \in Nodes \ S : Holders(n)' = Holders(n),
         \A n \in Nodes : refcount_'[n] = IF n \in S THEN refcount_[n] - 1 ELSE refcount_[n],
         \A n \in Nodes : n # o => state'[n] = IF n \in S /\ refcount_[n] = 1 THEN "retired" ELSE state[n],
         o \in Nodes => o \notin S /\ state[o] # "live" /\ state'[o] # "live"
  PROVE  Memory'
<1>1. \A n \in Nodes : refcount_[n] = Cardinality(Holders(n)) /\ refcount_[n] \in Nat
  BY DEF Memory, RefcountExact, TypeOK
<1>2. ASSUME NEW n \in S PROVE Cardinality(Holders(n)') = Cardinality(Holders(n)) - 1
  <2>1. PICK H : H = Holders(n)
    OBVIOUS
  <2>2. IsFiniteSet(H) /\ p \in H /\ Holders(n)' = H \ {p}
    BY <2>1, HoldersFinite
  <2>3. Cardinality(H \ {p}) = Cardinality(H) - 1
    BY <2>2, FS_RemoveElement
  <2> QED
    BY <2>1, <2>2, <2>3
<1>3. RefcountExact'
  <2>1. ASSUME NEW n \in Nodes PROVE refcount_'[n] = Cardinality(Holders(n)')
    BY <1>1, <1>2
  <2> QED
    BY <2>1 DEF RefcountExact
<1>4. Living'
  <2>1. ASSUME NEW n \in Nodes PROVE state'[n] = "live" <=> refcount_'[n] # 0
    <3>1. CASE n = o
      BY <3>1 DEF Memory, Living
    <3>2. CASE n # o /\ n \in S
      <4>1. state[n] = "live" /\ refcount_[n] \in Nat \ {0}
        BY <3>2, HeldLives
      <4> QED
        BY <3>2, <4>1
    <3>3. CASE n # o /\ n \notin S
      BY <3>3 DEF Memory, Living
    <3> QED
      BY <3>1, <3>2, <3>3
  <2> QED
    BY <2>1 DEF Living
<1> QED
  BY <1>3, <1>4 DEF Memory

\* node->release() behind the unlock gives up the writer's reference.
LEMMA ReleaseStep ==
  ASSUME MapInv, NEW t \in Writers, Release(t) PROVE MapInv'
<1>1. TypeOK /\ Memory /\ Current /\ Accounted /\ Exclusive /\ WriterFits(t) /\ writer[t].at = "release"
  BY DEF MapInv, WritersFit, Release
<1>2. TypeOK'
  BY ReleaseType
<1>3. PICK x \in Nodes : x = writer[t].old
  BY <1>1 DEF WriterFits
<1>4. /\ use' = use /\ m_' = m_ /\ reader' = reader /\ seen' = seen /\ bucket_list_' = bucket_list_ /\ size_' = size_
      /\ next_' = next_ /\ value_holder_' = value_holder_ /\ list' = list
  BY DEF Release, mapVars
<1>5. /\ \A n \in Nodes : refcount_'[n] = IF n \in {x} THEN refcount_[n] - 1 ELSE refcount_[n]
      /\ \A n \in Nodes : state'[n] = IF n \in {x} /\ refcount_[n] = 1 THEN "retired" ELSE state[n]
      /\ \A l \in Lists : state'[l] = state[l]
  <2>1. DOMAIN state = Nodes \cup Lists
    BY <1>1 DEF TypeOK
  <2>2. /\ refcount_' = [n \in Nodes |-> IF n \in {x} THEN refcount_[n] - 1 ELSE refcount_[n]]
        /\ state' = [o \in Nodes \cup Lists |-> IF o \in {x} /\ refcount_[o] = 1 THEN "retired" ELSE state[o]]
    BY <1>3, <2>1 DEF Release, Drop
  <2>3. \A l \in Lists : l # x
    BY Constants
  <2> QED
    BY <2>2, <2>3
<1>6. writer'[t] = Idle /\ \A u \in Writers : u # t => writer'[u] = writer[u]
  BY <1>1, WriterIdle DEF Release
<1>7. Idle.old = None /\ Idle.new = None /\ Idle.at = "idle"
  BY DEF Idle
<1>8. \A o \in Nodes \cup Lists : state'[o] = "free" <=> state[o] = "free"
  <2>1. state[x] # "free"
    BY <1>1, <1>3, Targets
  <2> QED
    BY <1>5, <2>1
<1>9. Memory'
  <2>1. t \in Holders(x) /\ Holders(x)' = Holders(x) \ {t}
    <3>1. \A l \in Lists : Heads(l)' = Heads(l)
      BY <1>4 DEF Heads
    <3>2. \A u \in Writers : writer'[u].old = x <=> writer[u].old = x /\ u # t
      BY <1>6, <1>7, Constants
    <3>3. t \notin Nodes /\ t \notin Lists
      BY Constants
    <3> QED
      BY <1>3, <1>4, <1>8, <3>1, <3>2, <3>3 DEF Holders
  <2>2. ASSUME NEW n \in Nodes \ {x} PROVE Holders(n)' = Holders(n)
    <3>1. \A l \in Lists : Heads(l)' = Heads(l)
      BY <1>4 DEF Heads
    <3>2. \A u \in Writers : writer'[u].old = n <=> writer[u].old = n
      BY <1>3, <1>6, <1>7, Constants
    <3> QED
      BY <1>4, <1>8, <3>1, <3>2 DEF Holders
  <2>3. Acyclic' /\ Contents'
    BY <1>1, <1>4, <1>8 DEF Memory, Acyclic, Contents
  <2>4. PICK S \in SUBSET Nodes : S = {x}
    OBVIOUS
  <2>5. PICK o : o = None /\ o \notin Nodes
    BY Constants
  <2>6. \A n \in S : t \in Holders(n) /\ Holders(n)' = Holders(n) \ {t}
    BY <2>1, <2>4
  <2>7. \A n \in Nodes \ S : Holders(n)' = Holders(n)
    BY <2>2, <2>4
  <2>8. /\ \A n \in Nodes : refcount_'[n] = IF n \in S THEN refcount_[n] - 1 ELSE refcount_[n]
        /\ \A n \in Nodes : n # o => state'[n] = IF n \in S /\ refcount_[n] = 1 THEN "retired" ELSE state[n]
    BY <1>5, <2>4
  <2> QED
    BY <1>1, <1>2, <2>3, <2>5, <2>6, <2>7, <2>8, DropMemory
<1>10. Steady(None)
  BY <1>4, Constants DEF Steady
<1>11. bucket_list_ # None => bucket_list_ \in Lists /\ state'[bucket_list_] = state[bucket_list_]
  BY <1>1, <1>5 DEF TypeOK, Maybe
<1>12. Current'
  BY <1>1, <1>2, <1>4, <1>10, <1>11, SteadyCurrent DEF Current
<1>13. \A u \in Writers : u # t => WriterFits(u)'
  <2>1. \A l \in Lists : Fresh(l) /\ l # writer[t].new => l # None /\ l # bucket_list_' /\ state'[l] = "live"
    BY <1>4, <1>5, Constants DEF Fresh
  <2>2. m_ \notin {t, None} => bucket_list_ # None
    BY <1>1 DEF WriterFits
  <2> QED
    BY <1>1, <1>2, <1>4, <1>6, <1>10, <1>11, <2>1, <2>2, OthersKept
<1>14. WriterFits(t)'
  BY <1>6, <1>7 DEF WriterFits
<1>15. m_ # t
  BY <1>1, Constants DEF Exclusive
<1>16. Exclusive'
  BY <1>4, <1>6, <1>7, <1>15, ExclusiveStep
<1>17. Accounted'
  <2>1. \A l \in Lists : Bare(l)' <=> Bare(l)
    BY <1>4 DEF Bare
  <2>2. \A l \in Lists : InWork(l) => InWork(l)'
    BY <1>1, <1>6 DEF InWork
  <2> QED
    BY <1>1, <1>4, <1>5, <2>1, <2>2 DEF Accounted
<1>18. ReadersFit'
  <2>1. \A r \in Readers : seen[r] \subseteq seen'[r] /\ CurrentAnswer(r)'
    BY <1>2, <1>4, <1>10, SteadyAnswers
  <2>2. \A y \in Nodes \cup Lists : state[y] # "free" /\ y # None => state'[y] # "free"
    BY <1>8
  <2> QED
    BY <1>2, <1>4, <1>10, <2>1, <2>2, ReadersKept
<1> QED
  BY <1>2, <1>9, <1>12, <1>13, <1>14, <1>16, <1>17, <1>18 DEF MapInv, WritersFit

\* What the deletion of o does.
LEMMA DeleteDoes ==
  ASSUME MapInv, NEW o \in Nodes \cup Lists, Delete(o)
  PROVE  /\ References(o) \in SUBSET Nodes /\ o \notin References(o)
         /\ \A n \in Nodes : n \in References(o) <=> o \in Holders(n)
         /\ \A n \in Nodes : refcount_'[n] = IF n \in References(o) THEN refcount_[n] - 1 ELSE refcount_[n]
         /\ \A n \in Nodes : n # o => state'[n] = IF n \in References(o) /\ refcount_[n] = 1 THEN "retired" ELSE state[n]
         /\ \A l \in Lists : l # o => state'[l] = state[l]
         /\ state'[o] = "free" /\ state[o] = "retired"
         /\ \A n \in Nodes : next_'[n] = IF n = o THEN None ELSE next_[n]
         /\ \A n \in Nodes : n # o => value_holder_'[n] = value_holder_[n]
         /\ \A l \in Lists : l # o => list'[l] = list[l]
<1>1. TypeOK /\ Memory /\ state[o] = "retired"
  BY DEF MapInv, Delete
<1>2. PICK S : S = References(o)
  OBVIOUS
<1>3. \A n \in S : n \in Nodes /\ o \in Holders(n)
  <2>1. ASSUME NEW n \in S PROVE n \in Nodes /\ o \in Holders(n)
    <3>1. CASE o \in Nodes
      BY <1>1, <1>2, <2>1, <3>1 DEF References, Holders, TypeOK, Maybe
    <3>2. CASE o \in Lists
      <4>1. o \notin Nodes /\ n \in Heads(o) /\ n # None
        BY <1>2, <2>1, <3>2, Constants DEF References
      <4> QED
        BY <1>1, <3>2, <4>1, ListTypes DEF Holders, Maybe
    <3> QED
      BY <3>1, <3>2
  <2> QED
    BY <2>1
<1>4. \A n \in Nodes : o \in Holders(n) => n \in S
  <2>1. \A n \in Nodes : n # None
    BY Constants
  <2>2. CASE o \in Nodes
    BY <1>2, <2>1, <2>2, Constants DEF References, Holders
  <2>3. CASE o \in Lists
    BY <1>2, <2>1, <2>3, Constants DEF References, Holders
  <2> QED
    BY <2>2, <2>3
<1>5. o \notin S
  BY <1>1, <1>3, HeldLives
<1>6. DOMAIN state = Nodes \cup Lists
  BY <1>1 DEF TypeOK
<1>7. /\ refcount_' = [n \in Nodes |-> IF n \in S THEN refcount_[n] - 1 ELSE refcount_[n]]
      /\ state' = [y \in Nodes \cup Lists |->
                     IF y \in S /\ refcount_[y] = 1 THEN "retired" ELSE [state EXCEPT ![o] = "free"][y]]
  BY <1>2, <1>6 DEF Delete, Drop
<1>8. /\ \A n \in Nodes : n # o => state'[n] = IF n \in S /\ refcount_[n] = 1 THEN "retired" ELSE state[n]
      /\ \A l \in Lists : l # o => state'[l] = state[l]
      /\ state'[o] = "free"
  <2>1. \A l \in Lists : l \notin S
    BY <1>3, Constants
  <2> QED
    BY <1>5, <1>6, <1>7, <2>1
<1>9. /\ \A n \in Nodes : next_'[n] = IF n = o THEN None ELSE next_[n]
      /\ \A n \in Nodes : n # o => value_holder_'[n] = value_holder_[n]
      /\ \A l \in Lists : l # o => list'[l] = list[l]
  <2>1. next_ = [n \in Nodes |-> next_[n]] /\ value_holder_ = [n \in Nodes |-> value_holder_[n]]
        /\ list = [l \in Lists |-> list[l]]
    BY <1>1 DEF TypeOK
  <2>2. CASE o \in Nodes
    <3>1. /\ next_' = [next_ EXCEPT ![o] = None] /\ list' = list
          /\ value_holder_' = [value_holder_ EXCEPT ![o] = NoValue]
      BY <2>2, Constants DEF Delete
    <3> QED
      BY <2>1, <2>2, <3>1
  <2>3. CASE o \in Lists
    <3>1. next_' = next_ /\ value_holder_' = value_holder_ /\ list' = [list EXCEPT ![o] = Blank]
      BY <2>3, Constants DEF Delete
    <3>2. o \notin Nodes
      BY <2>3, Constants
    <3> QED
      BY <2>1, <2>3, <3>1, <3>2
  <2> QED
    BY <2>2, <2>3
<1> QED
  BY <1>1, <1>2, <1>3, <1>4, <1>5, <1>7, <1>8, <1>9

\* Memory is deleted that is retired and published by nobody.
LEMMA DeleteStep ==
  ASSUME MapInv, NEW o \in Nodes \cup Lists, Delete(o) PROVE MapInv'
<1>1. TypeOK /\ Memory /\ Current /\ Accounted /\ Exclusive
  BY DEF MapInv
<1>2. TypeOK'
  BY DeleteType
<1>3. PICK S \in SUBSET Nodes : S = References(o)
  BY DeleteDoes
<1>4. /\ o \notin S
      /\ \A n \in Nodes : n \in S <=> o \in Holders(n)
      /\ \A n \in Nodes : refcount_'[n] = IF n \in S THEN refcount_[n] - 1 ELSE refcount_[n]
      /\ \A n \in Nodes : n # o => state'[n] = IF n \in S /\ refcount_[n] = 1 THEN "retired" ELSE state[n]
      /\ \A l \in Lists : l # o => state'[l] = state[l]
      /\ state'[o] = "free" /\ state[o] = "retired"
  BY <1>3, DeleteDoes
<1>5. /\ \A n \in Nodes : next_'[n] = IF n = o THEN None ELSE next_[n]
      /\ \A n \in Nodes : n # o => value_holder_'[n] = value_holder_[n]
      /\ \A l \in Lists : l # o => list'[l] = list[l]
  BY DeleteDoes
<1>6. /\ use' = use /\ m_' = m_ /\ reader' = reader /\ seen' = seen /\ bucket_list_' = bucket_list_ /\ size_' = size_
      /\ writer' = writer /\ o \notin Published
  BY DEF Delete, mapVars
<1>7. /\ \A y \in Nodes \cup Lists : y # o => (state'[y] = "free" <=> state[y] = "free")
      /\ o # None
  <2>1. \A n \in S : state[n] = "live"
    BY <1>1, <1>4, HeldLives
  <2> QED
    BY <1>4, <2>1, Constants
<1>8. Memory'
  <2>1. ASSUME NEW n \in Nodes PROVE Holders(n)' = Holders(n) \ {o}
    <3>1. \A m \in Nodes : state'[m] # "free" /\ next_'[m] = n <=> state[m] # "free" /\ next_[m] = n /\ m # o
      BY <1>4, <1>5, <1>7
    <3>2. \A l \in Lists : state'[l] # "free" /\ n \in Heads(l)' <=> state[l] # "free" /\ n \in Heads(l) /\ l # o
      BY <1>4, <1>5, <1>7 DEF Heads
    <3>3. \A u \in Writers : u # o
      BY Constants
    <3> QED
      BY <1>6, <3>1, <3>2, <3>3 DEF Holders
  <2>2. \A n \in S : o \in Holders(n) /\ Holders(n)' = Holders(n) \ {o}
    BY <1>4, <2>1
  <2>3. \A n \in Nodes \ S : Holders(n)' = Holders(n)
    BY <1>4, <2>1
  <2>4. Contents'
    <3>1. \A n \in Nodes : n # o => (state'[n] = "free" <=> state[n] = "free")
      BY <1>7
    <3> QED
      BY <1>1, <1>4, <1>5, <3>1 DEF Memory, Contents
  <2>5. Acyclic'
    <3>1. PICK rank : Ranked(next_, rank)
      BY <1>1 DEF Memory, Acyclic
    <3>2. Ranked(next_', rank)
      BY <1>5, <3>1 DEF Ranked
    <3> QED
      BY <3>2 DEF Acyclic
  <2>6. o \in Nodes => o \notin S /\ state[o] # "live" /\ state'[o] # "live"
    BY <1>4
  <2> QED
    BY <1>1, <1>2, <1>4, <2>2, <2>3, <2>4, <2>5, <2>6, DropMemory
<1>9. Steady(o)
  BY <1>4, <1>5 DEF Steady
<1>10. bucket_list_ # None => bucket_list_ \in Lists /\ bucket_list_ # o /\ state'[bucket_list_] = state[bucket_list_]
  BY <1>1, <1>4 DEF Current, TypeOK, Maybe
<1>11. Current'
  BY <1>1, <1>2, <1>6, <1>9, <1>10, SteadyCurrent DEF Current
<1>12. ASSUME NEW u \in Writers PROVE WriterFits(u)'
  <2>1. \A l \in Lists : l = writer[u].new \/ (l = writer[u].old /\ writer[u].at = "retire")
            => l # o /\ l # bucket_list_' /\ state'[l] = "live"
    BY <1>4, <1>6, InHand, Constants DEF Fresh
  <2>2. Untouched(u, o)
    BY <1>6, <1>10, <2>1 DEF Untouched
  <2> QED
    BY <1>2, <1>6, <1>9, <1>10, <2>2, SteadyWriter
<1>13. Exclusive'
  BY <1>1, <1>6 DEF Exclusive, Only
<1>14. Accounted'
  <2>1. \A l \in Lists : state'[l] = "live" => l # o /\ state[l] = "live"
    BY <1>4
  <2>2. \A l \in Lists : l # o => (Bare(l)' <=> Bare(l))
    BY <1>5 DEF Bare
  <2>3. \A l \in Lists : InWork(l)' <=> InWork(l)
    BY <1>6 DEF InWork
  <2> QED
    BY <1>1, <1>6, <2>1, <2>2, <2>3 DEF Accounted
<1>15. ReadersFit'
  <2>1. \A r \in Readers : seen[r] \subseteq seen'[r] /\ CurrentAnswer(r)'
    BY <1>2, <1>6, <1>9, <1>10, SteadyAnswers
  <2>2. \A y \in Nodes \cup Lists : state[y] # "free" /\ y # o => state'[y] # "free"
    BY <1>7
  <2>3. \A r \in Readers : reader[r].list # o /\ reader[r].node # o
    <3>1. \A r \in Readers : reader[r].holder_bucket # o /\ reader[r].holder_node # o
      BY <1>6 DEF Published
    <3> QED
      BY <1>7, <3>1, Settled
  <2> QED
    BY <1>2, <1>6, <1>9, <1>10, <2>1, <2>2, <2>3, ReadersKept
<1> QED
  BY <1>2, <1>8, <1>11, <1>12, <1>13, <1>14, <1>15 DEF MapInv, WritersFit
-----------------------------------------------------------------------------
(* A node is taken out of walks.                                           *)

\* The pointers to x on a walk from h may now lead to y: to the successor of x,
\* or to a new node with that successor.
Bypass(next, next2, x, y) ==
  /\ \A m \in Nodes : m # y \/ y = next[x] => next2[m] = next[m] \/ (next[m] = x /\ next2[m] = y)
  /\ y = next[x] \/ (y \in Nodes /\ next2[y] = next[x] /\ next[y] = None)

Bypassing(next, next2, x, y, h, h2) ==
  /\ Bypass(next, next2, x, y)
  /\ h2 = h \/ (h = x /\ h2 = y)
  /\ y \in Reach(next, {h}) => y = next[x]

\* Then the walk loses at most x and meets at most y besides what it met.
Bypassed(S, S2, x, y) ==
  /\ S2 \subseteq S \cup {y} /\ (y \in S2 => y \in S \/ x \in S)
  /\ S \subseteq S2 \cup {x}
  /\ x \in S /\ x \notin S2 /\ y # None => y \in S2

\* That is so for every walk that does not come to a new y.
LEMMA BypassReach ==
  ASSUME NEW next \in [Nodes -> Maybe(Nodes)], NEW next2 \in [Nodes -> Maybe(Nodes)],
         NEW x \in Nodes, NEW y \in Maybe(Nodes), NEW h \in Maybe(Nodes), NEW h2 \in Maybe(Nodes),
         Bypassing(next, next2, x, y, h, h2)
  PROVE  Bypassed(Reach(next, {h}), Reach(next2, {h2}), x, y)
<1> SUFFICES ASSUME Bypass(next, next2, x, y), h2 = h \/ (h = x /\ h2 = y),
                    y \in Reach(next, {h}) => y = next[x]
             PROVE  Bypassed(Reach(next, {h}), Reach(next2, {h2}), x, y)
  BY DEF Bypassing
<1>s. PICK S : S = Reach(next, {h})
  OBVIOUS
<1>t. PICK S2 : S2 = Reach(next2, {h2})
  OBVIOUS
<1>0. SUFFICES /\ S2 \subseteq S \cup {y} /\ (y \in S2 => y \in S \/ x \in S)
               /\ S \subseteq S2 \cup {x}
               /\ x \in S /\ x \notin S2 /\ y # None => y \in S2
  BY <1>s, <1>t DEF Bypassed
<1>1. {h} \in SUBSET Maybe(Nodes) /\ {h2} \in SUBSET Maybe(Nodes) /\ None \notin Nodes
  BY Constants
<1>2. S \subseteq Nodes /\ Closed(next, S) /\ (h # None => h \in S)
  BY <1>1, <1>s, ReachIs
<1>3. S2 \subseteq Nodes /\ Closed(next2, S2) /\ (h2 # None => h2 \in S2)
  BY <1>1, <1>t, ReachIs
<1>4. \A m \in Nodes : m # y \/ y = next[x] => next2[m] = next[m] \/ (next[m] = x /\ next2[m] = y)
  BY DEF Bypass
<1>5. y # next[x] => y \in Nodes /\ next2[y] = next[x] /\ next[y] = None /\ y \notin S
  BY <1>s DEF Bypass
<1>6. CASE x \notin S
  <2>1. Closed(next2, S)
    <3>1. ASSUME NEW m \in S PROVE next2[m] = next[m]
      <4>1. m \in Nodes /\ (m # y \/ y = next[x]) /\ next[m] # x
        BY <1>1, <1>2, <1>5, <1>6 DEF Closed
      <4> QED
        BY <1>4, <4>1
    <3> QED
      BY <1>2, <3>1 DEF Closed
  <2>2. \A g \in {h2} : g # None => g \in S
    BY <1>1, <1>2, <1>6
  <2>3. S2 \subseteq S
    BY <1>1, <1>2, <2>1, <2>2, <1>s, <1>t, ReachLeast
  <2>4. Closed(next, S2)
    BY <1>2, <1>3, <1>4, <1>5, <1>6, <2>3 DEF Closed
  <2>5. \A g \in {h} : g # None => g \in S2
    BY <1>1, <1>2, <1>3, <1>6
  <2>6. S \subseteq S2
    BY <1>1, <1>3, <2>4, <2>5, <1>s, <1>t, ReachLeast
  <2> QED
    BY <1>6, <2>3, <2>6
<1>7. CASE x \in S
  <2> DEFINE T == S \cup ({y} \ {None})
             P == S2 \cup {x}
  <2>1. T \in SUBSET Nodes /\ Closed(next2, T)
    <3>1. next[x] # None => next[x] \in S
      BY <1>2, <1>7 DEF Closed
    <3>2. ASSUME NEW m \in S, next2[m] # None PROVE next2[m] \in T
      <4>1. m # y \/ y = next[x]
        BY <1>5
      <4>2. m \in Nodes
        BY <1>2
      <4>3. next2[m] = next[m] \/ next2[m] = y
        BY <1>4, <4>1, <4>2
      <4> QED
        BY <1>2, <3>2, <4>3 DEF Closed
    <3>3. ASSUME y # None, y \notin S, next2[y] # None PROVE next2[y] \in T
      <4>1. y # next[x]
        BY <3>1, <3>3
      <4> QED
        BY <1>5, <3>1, <3>3, <4>1
    <3>4. T \in SUBSET Nodes
      BY <1>2 DEF Maybe
    <3> QED
      BY <3>2, <3>3, <3>4 DEF Closed
  <2>2. \A g \in {h2} : g # None => g \in T
    BY <1>2
  <2>3. S2 \subseteq T
    <3> HIDE DEF T
    <3> QED
      BY <1>1, <2>1, <2>2, <1>s, <1>t, ReachLeast
  <2>4. CASE y = None \/ y \in S2
    <3>1. next[x] # None => next[x] \in S2
      <4>1. CASE y = next[x]
        BY <2>4, <4>1
      <4>2. CASE y # next[x]
        BY <1>1, <1>3, <1>5, <2>4, <4>2 DEF Closed
      <4> QED
        BY <4>1, <4>2
    <3>2. ASSUME NEW m \in S2, next[m] # None PROVE next[m] \in P
      <4>1. CASE m = y /\ y # next[x]
        BY <1>5, <3>2, <4>1
      <4>2. CASE m # y \/ y = next[x]
        <5>1. m \in Nodes
          BY <1>3
        <5>2. next2[m] = next[m] \/ next[m] = x
          BY <1>4, <4>2, <5>1
        <5> QED
          BY <1>3, <3>2, <5>2 DEF Closed
      <4> QED
        BY <4>1, <4>2
    <3>3. P \in SUBSET Nodes /\ Closed(next, P)
      BY <1>3, <3>1, <3>2 DEF Closed
    <3>4. \A g \in {h} : g # None => g \in P
      BY <1>3
    <3>5. S \subseteq P
      <4> HIDE DEF P
      <4> QED
        BY <1>1, <3>3, <3>4, <1>s, <1>t, ReachLeast
    <3> QED
      BY <1>7, <2>3, <2>4, <3>5
  <2>5. CASE y # None /\ y \notin S2
    <3>1. Closed(next, S2)
      <4>1. ASSUME NEW m \in S2, next[m] # None PROVE next[m] \in S2
        <5>1. m \in Nodes /\ m # y
          BY <1>3, <2>5
        <5>2. next2[m] = next[m] \/ next2[m] = y
          BY <1>4, <5>1
        <5>3. next2[m] # y
          BY <1>3, <2>5 DEF Closed
        <5> QED
          BY <1>3, <4>1, <5>2, <5>3 DEF Closed
      <4> QED
        BY <4>1 DEF Closed
    <3>2. \A g \in {h} : g # None => g \in S2
      BY <1>3, <2>5
    <3>3. S \subseteq S2
      BY <1>1, <1>3, <3>1, <3>2, <1>s, <1>t, ReachLeast
    <3> QED
      BY <1>7, <2>3, <2>5, <3>3
  <2> QED
    BY <2>4, <2>5
<1> QED
  BY <1>6, <1>7

\* A whole list answers as the chain of the key does.
LEMMA WholeAnswer ==
  ASSUME NEW L, IsList(L), NEW next \in [Nodes -> Maybe(Nodes)], NEW vh, NEW M, Wired(L, next, vh, M),
         NEW rank, Ranked(next, rank), NEW k \in Keys, NEW known,
         Answered(Reach(next, {L.heads[BucketId(k, L.count)]}), k, vh, known)
  PROVE  Answered(M, k, vh, known)
<1>1. PICK b \in 1..L.count : b = BucketId(k, L.count)
  BY BucketRange DEF IsList
<1>2. Reach(next, {L.heads[b]}) = {n \in M : Bucket(vh, n, L.count) = b}
  BY WiredChain
<1>3. \A n \in M : vh[n].key = k => n \in Reach(next, {L.heads[b]})
  BY <1>1, <1>2 DEF Bucket
<1>4. Answered(Reach(next, {L.heads[b]}), k, vh, known)
  BY <1>1
<1> QED
  BY <1>2, <1>3, <1>4 DEF Answered

\* The walk behind x's removal answers as before, or as the map does now.
LEMMA BypassAnswer ==
  ASSUME NEW S, NEW S2, NEW x, NEW y, NEW k, NEW vh, NEW vh2, NEW known, NEW known2, NEW M,
         S2 \subseteq S \cup {y}, S \subseteq S2 \cup {x},
         y \in S2 => y \in S \/ y \in M,
         \A n \in S : vh2[n] = vh[n],
         known \subseteq known2, Answered(S, k, vh, known), Answered(M, k, vh2, known2),
         x \in S /\ x \notin S2 /\ vh[x].key = k => (\A n \in M : vh2[n].key # k) \/ (y \in S2 /\ vh2[y].key = k)
  PROVE  Answered(S2, k, vh2, known2)
<1>1. ASSUME NEW n \in S2, vh2[n].key = k PROVE vh2[n].value \in known2
  BY <1>1 DEF Answered
<1>2. ASSUME \A n \in S2 : vh2[n].key # k PROVE None \in known2
  <2>1. CASE \A n \in S : vh[n].key # k
    BY <2>1 DEF Answered
  <2>2. CASE \E n \in S : vh[n].key = k
    <3>1. PICK n \in S : vh[n].key = k
      BY <2>2
    <3>2. n \notin S2
      BY <1>2, <3>1
    <3>3. n = x
      BY <3>2
    <3> QED
      BY <1>2, <3>1, <3>2, <3>3 DEF Answered
  <2> QED
    BY <2>1, <2>2
<1> QED
  BY <1>1, <1>2 DEF Answered
-----------------------------------------------------------------------------
(* insert of a new key.                                                    *)

\* A holder gives its reference to another one.
LEMMA HandedOn ==
  ASSUME NEW H, IsFiniteSet(H), NEW p \in H, NEW q, q \notin H
  PROVE  Cardinality((H \ {p}) \cup {q}) = Cardinality(H)
<1>1. PICK G : G = H \ {p}
  OBVIOUS
<1>2. IsFiniteSet(G) /\ Cardinality(G) = Cardinality(H) - 1 /\ q \notin G
  BY <1>1, FS_RemoveElement
<1>3. Cardinality(G \cup {q}) = Cardinality(G) + 1
  BY <1>2, FS_AddElement
<1>4. Cardinality(H) \in Nat
  BY FS_CardinalityType
<1> QED
  BY <1>1, <1>2, <1>3, <1>4

\* o points to node n.
Refers(o, n) == (o \in Nodes /\ next_[o] = n) \/ (o \in Lists /\ n \in Heads(o))

\* References to a node, before and after a step.
LEMMA HoldersAre ==
  ASSUME NEW n \in Nodes
  PROVE  /\ Holders(n) = {o \in Nodes \cup Lists : state[o] # "free" /\ Refers(o, n)}
                         \cup {t \in Writers : writer[t].old = n}
         /\ Holders(n)' = {o \in Nodes \cup Lists : state'[o] # "free" /\ Refers(o, n)'}
                         \cup {t \in Writers : writer'[t].old = n}
<1>1. \A o \in Nodes : o \notin Lists
  BY Constants
<1>2. Holders(n) = {o \in Nodes \cup Lists : state[o] # "free" /\ Refers(o, n)}
                         \cup {t \in Writers : writer[t].old = n}
  BY <1>1 DEF Holders, Refers
<1>3. Holders(n)' = {o \in Nodes \cup Lists : state'[o] # "free" /\ Refers(o, n)'}
                         \cup {t \in Writers : writer'[t].old = n}
  BY <1>1 DEF Holders, Refers
<1> QED
  BY <1>2, <1>3

\* A push keeps the counts: the new node takes over the reference to the old
\* head.
LEMMA PushMemory ==
  ASSUME MapInv, TypeOK', NEW t \in Writers, NEW n \in New(Nodes), PushedOn(t, n), Acyclic',
         state' = [state EXCEPT ![n] = "live"], bucket_list_ # None, bucket_list_' = bucket_list_,
         writer[t].key \in Keys, writer[t].value \in Values, writer[t].old = None
  PROVE  Memory'
<1>1. TypeOK /\ Memory
  BY DEF MapInv
<1>2. n \in Nodes /\ state[n] = "free" /\ n \notin InUse /\ n # None /\ next_[n] = None /\ refcount_[n] = 0
  BY <1>1, NewNode
<1>3. PICK l \in Lists : l = bucket_list_ /\ state[l] = "live" /\ IsList(list[l])
                         /\ Wired(list[l], next_, value_holder_, InList)
  BY CurrentIs
<1>4. PICK b \in 1..list[l].count : b = BucketId(writer[t].key, list[l].count)
  BY <1>3, BucketRange DEF IsList
<1>5. PICK h \in Maybe(Nodes) : h = list[l].heads[b]
  BY <1>3 DEF IsList
<1>6. /\ next_' = [next_ EXCEPT ![n] = h]
      /\ \A x \in Lists : x # l => list'[x] = list[x]
      /\ list'[l].count = list[l].count
      /\ \A d \in 1..list[l].count : list'[l].heads[d] = IF d = b THEN n ELSE list[l].heads[d]
      /\ writer' = [writer EXCEPT ![t] = Idle]
      /\ refcount_' = [refcount_ EXCEPT ![n] = 1]
      /\ value_holder_' = [value_holder_ EXCEPT ![n] = [key |-> writer[t].key, value |-> writer[t].value]]
  BY <1>3, <1>4, <1>5 DEF PushedOn
<1>7. /\ \A m \in Nodes : next_'[m] = IF m = n THEN h ELSE next_[m]
      /\ \A m \in Nodes : refcount_'[m] = IF m = n THEN 1 ELSE refcount_[m]
      /\ \A m \in Nodes : m # n => value_holder_'[m] = value_holder_[m]
      /\ value_holder_'[n].key \in Keys /\ value_holder_'[n].value \in Values
      /\ \A o \in Nodes \cup Lists : state'[o] = IF o = n THEN "live" ELSE state[o]
      /\ \A u \in Writers : writer'[u].old = IF u = t THEN None ELSE writer[u].old
  BY <1>1, <1>2, <1>6 DEF TypeOK, Idle
<1>8. /\ \A m \in Nodes : next_[m] # n
      /\ \A x \in Lists : state[x] # "free" => n \notin Heads(x)
      /\ \A u \in Writers : writer[u].old # n
  BY <1>1, <1>2, Unpointed
<1>9. \A m \in Nodes : m \in Heads(l)' <=> m = n \/ (m \in Heads(l) /\ m # h)
  <2>1. ASSUME NEW m \in Nodes, m \in Heads(l)' PROVE m = n \/ (m \in Heads(l) /\ m # h)
    <3>1. PICK d \in 1..list[l].count : list'[l].heads[d] = m
      BY <1>6, <2>1 DEF Heads
    <3>2. CASE d = b
      BY <1>6, <3>1, <3>2
    <3>3. CASE d # b
      <4>1. list[l].heads[d] = m /\ m # None
        BY <1>6, <3>1, <3>3, Constants
      <4>2. m # h
        BY <1>3, <1>5, <3>3, <4>1 DEF Wired, HeadsIn
      <4> QED
        BY <4>1, <4>2 DEF Heads
    <3> QED
      BY <3>2, <3>3
  <2>2. n \in Heads(l)'
    BY <1>6 DEF Heads
  <2>3. ASSUME NEW m \in Nodes, m \in Heads(l), m # h PROVE m \in Heads(l)'
    <3>1. PICK d \in 1..list[l].count : list[l].heads[d] = m
      BY <2>3 DEF Heads
    <3>2. d # b
      BY <1>5, <2>3, <3>1
    <3> QED
      BY <1>6, <3>1, <3>2 DEF Heads
  <2> QED
    BY <2>1, <2>2, <2>3
<1>10. \A x \in Lists : x # l => Heads(x)' = Heads(x)
  BY <1>6 DEF Heads
<1>11. h \in Nodes => l \in Holders(h) /\ n \notin Holders(h)
  BY <1>2, <1>3, <1>5, Constants DEF Holders, Heads
<1>12. l # n /\ n \notin Lists /\ n \notin Writers /\ l \notin Nodes /\ l \notin Writers
  BY <1>2, Constants
<1>13. ASSUME NEW m \in Nodes PROVE refcount_'[m] = Cardinality(Holders(m)')
  <2>0. refcount_[m] = Cardinality(Holders(m))
    BY <1>1 DEF Memory, RefcountExact
  <2>1. CASE m = n
    <3>1. Holders(n)' = {l}
      <4>1. \A p \in Nodes : next_'[p] # n
        BY <1>2, <1>3, <1>5, <1>7, <1>8 DEF Heads
      <4>2. \A x \in Lists : state'[x] # "free" /\ n \in Heads(x)' <=> x = l
        BY <1>2, <1>3, <1>7, <1>8, <1>9, <1>10, <1>12
      <4>3. \A u \in Writers : writer'[u].old # n
        BY <1>2, <1>7, <1>8
      <4> QED
        BY <4>1, <4>2, <4>3 DEF Holders
    <3> QED
      BY <1>7, <2>1, <3>1, FS_Singleton
  <2>2. CASE m # n /\ m = h
    <3>1. PICK H : H = Holders(m)
      OBVIOUS
    <3>2. Holders(m)' = (H \ {l}) \cup {n}
      <4>1. \A p \in Nodes : state'[p] # "free" /\ next_'[p] = m <=> p = n \/ (state[p] # "free" /\ next_[p] = m)
        BY <1>2, <1>7, <2>2
      <4>2. \A x \in Lists : state'[x] # "free" /\ m \in Heads(x)' <=> state[x] # "free" /\ m \in Heads(x) /\ x # l
        BY <1>7, <1>9, <1>10, <1>12, <2>2
      <4>3. \A u \in Writers : writer'[u].old = m <=> writer[u].old = m
        BY <1>7, Constants
      <4> QED
        BY <1>2, <1>12, <3>1, <4>1, <4>2, <4>3 DEF Holders
    <3>3. IsFiniteSet(H) /\ l \in H /\ n \notin H
      BY <1>11, <2>2, <3>1, HoldersFinite
    <3>4. Cardinality((H \ {l}) \cup {n}) = Cardinality(H)
      BY <3>3, HandedOn
    <3> QED
      BY <1>7, <2>0, <2>2, <3>1, <3>2, <3>4
  <2>3. CASE m # n /\ m # h
    <3>1. Holders(m)' = Holders(m)
      <4>1. \A p \in Nodes : state'[p] # "free" /\ next_'[p] = m <=> state[p] # "free" /\ next_[p] = m
        BY <1>2, <1>7, <2>3
      <4>2. \A x \in Lists : state'[x] # "free" /\ m \in Heads(x)' <=> state[x] # "free" /\ m \in Heads(x)
        BY <1>7, <1>9, <1>10, <1>12, <2>3
      <4>3. \A u \in Writers : writer'[u].old = m <=> writer[u].old = m
        BY <1>7, Constants
      <4> QED
        BY <4>1, <4>2, <4>3 DEF Holders
    <3> QED
      BY <1>7, <2>0, <2>3, <3>1
  <2> QED
    BY <2>1, <2>2, <2>3
<1>14. Living'
  BY <1>1, <1>7 DEF Memory, Living
<1>15. Contents'
  BY <1>1, <1>7 DEF Memory, Contents
<1> QED
  BY <1>13, <1>14, <1>15 DEF Memory, RefcountExact

\* insert_internal pushes a node for a key that is not in the map.
LEMMA PushStep ==
  ASSUME MapInv, TypeOK', NEW t \in Writers, NEW n \in New(Nodes), PushedOn(t, n),
         state' = [state EXCEPT ![n] = "live"], bucket_list_ # None, bucket_list_' = bucket_list_,
         writer[t].key \in Keys, writer[t].value \in Values, writer[t].at \in {"lock", "link"},
         m_ \in {None, t}, m_' = None, use' = use, reader' = reader, Observe
  PROVE  MapInv'
<1>1. TypeOK /\ Memory /\ Current /\ Accounted /\ WriterFits(t)
  BY DEF MapInv, WritersFit
<1>2. ListsTyped' /\ next_' \in [Nodes -> Maybe(Nodes)] /\ writer[t].old = None
  BY <1>1 DEF TypeOK, ListsTyped, WriterFits
<1>3. /\ Linked(bucket_list_)' /\ InList' = InList \cup {n}
      /\ n \notin InList /\ size_' = Cardinality(InList \cup {n})
      /\ Acyclic'
  BY <1>2, PushList
<1>4. Memory'
  BY <1>2, <1>3, PushMemory
<1>5. n \in Nodes /\ state[n] = "free" /\ n \notin InUse
  BY <1>1, NewNode
<1>6. PICK l \in Lists : l = bucket_list_ /\ l = bucket_list_' /\ state[l] = "live"
  BY CurrentIs
<1>7. /\ \A m \in Nodes : m # n => next_'[m] = next_[m] /\ value_holder_'[m] = value_holder_[m]
      /\ \A x \in Lists : x # l => list'[x] = list[x]
      /\ \A o \in Nodes \cup Lists : state'[o] = IF o = n THEN "live" ELSE state[o]
  BY <1>1, <1>5, <1>6 DEF PushedOn, TypeOK
<1>8. \A x \in Lists : x # n /\ state'[x] = state[x]
  BY <1>5, <1>7, Constants
<1>9. writer'[t] = Idle /\ \A u \in Writers : u # t => writer'[u] = writer[u]
  BY <1>1, WriterIdle DEF PushedOn
<1>10. Steady(l)
  BY <1>5, <1>7, Constants DEF Steady
<1>11. Current'
  BY <1>3, <1>6, <1>8 DEF Current
<1>12. \A u \in Writers : u # t => WriterFits(u)'
  <2>1. \A x \in Lists : Fresh(x) /\ x # writer[t].new => x # l /\ x # bucket_list_' /\ state'[x] = "live"
    BY <1>6, <1>8 DEF Fresh
  <2>2. \A u \in Writers : u # t => writer'[u] = writer[u] /\ (m_ = u <=> m_' = u)
    BY <1>9, Constants
  <2>3. writer[t].at # "idle"
    OBVIOUS
  <2> QED
    BY <1>6, <1>8, <1>10, <2>1, <2>2, <2>3, OthersKept
<1>13. WriterFits(t)'
  BY <1>9 DEF WriterFits, Idle
<1>14. Exclusive'
  BY <1>9, ExclusiveStep DEF Idle
<1>15. Accounted'
  <2>1. \A x \in Lists : x # l => (Bare(x)' <=> Bare(x))
    BY <1>7 DEF Bare
  <2>2. \A x \in Lists : InWork(x) => InWork(x)'
    BY <1>9 DEF InWork
  <2> QED
    BY <1>1, <1>6, <1>8, <2>1, <2>2 DEF Accounted
<1>16. ReadersFit'
  <2>1. \A r \in Readers : seen[r] \subseteq seen'[r] /\ CurrentAnswer(r)'
    BY <1>3, ObserveAnswers
  <2>2. \A x \in Nodes \cup Lists : state[x] # "free" /\ x # l => state'[x] # "free"
    BY <1>7
  <2>3. \A r \in Readers : reader[r].node # l
    BY <1>1, Constants DEF TypeOK, Maybe
  <2>4. state'[l] # "free"
    BY <1>6, <1>8
  <2> QED
    BY <1>6, <1>10, <2>1, <2>2, <2>3, <2>4, ReadersKept
<1> QED
  BY <1>4, <1>11, <1>12, <1>13, <1>14, <1>15, <1>16 DEF MapInv, WritersFit
-----------------------------------------------------------------------------
(* erase, and insert of a key that is there: a node leaves the list.       *)

\* One pointer to x has changed: that of the list or node before it in the map.
LEMMA Relinked ==
  ASSUME MapInv, ListsTyped', NEW x \in InList, NEW y \in Maybe(Nodes), NEW n, bucket_list_ # None,
         bucket_list_' = bucket_list_,
         Redirected(x, y), y # x, n \notin InList, y # None => y \notin Heads(bucket_list_),
         \A m \in Nodes : m # n => next_'[m] = IF m \in InList /\ next_[m] = x THEN y ELSE next_[m]
  PROVE  \E p \in InList \cup {bucket_list_} :
           /\ Refers(p, x) /\ (y # None => ~Refers(p, y))
           /\ \A o \in (Nodes \cup Lists) \ {n} : \A m \in Nodes :
                Refers(o, m)' <=> IF o = p THEN m = y \/ (Refers(o, m) /\ m # x) ELSE Refers(o, m)
<1>1. PICK l \in Lists : l = bucket_list_ /\ IsList(list[l]) /\ Wired(list[l], next_, value_holder_, InList)
  BY CurrentIs
<1>2. InList \in SUBSET Nodes /\ x \in Nodes /\ x # None
  BY Constants DEF InList, Reach
<1>3. \A o \in Nodes : o \notin Lists /\ o # None
  BY Constants
<1>4. PICK b \in 1..list[l].count : b = Bucket(value_holder_, x, list[l].count)
  <2>1. value_holder_[x].key \in Keys
    BY <1>1 DEF Wired, KeysOnce
  <2> QED
    BY <1>1, <2>1, BucketRange DEF IsList, Bucket
<1>5. /\ \A z \in Lists : z # l => list'[z] = list[z]
      /\ list'[l].count = list[l].count
      /\ \A d \in 1..list[l].count : list'[l].heads[d] =
            IF d = b /\ list[l].heads[d] = x THEN y ELSE list[l].heads[d]
  BY <1>1, <1>4 DEF Redirected
<1>6. \A d \in 1..list[l].count : list[l].heads[d] = x => d = b
  BY <1>1, <1>2, <1>4 DEF Wired, HeadsIn
<1>7. \A z \in Lists : z # l => Heads(z)' = Heads(z)
  BY <1>5 DEF Heads
<1>8. ASSUME x \in Heads(l)
      PROVE  /\ \A m \in InList : next_[m] # x
             /\ \A m \in Nodes : m \in Heads(l)' <=> m = y \/ (m \in Heads(l) /\ m # x)
  <2>1. list[l].heads[b] = x
    BY <1>6, <1>8 DEF Heads
  <2>2. \A m \in InList : next_[m] # x
    BY <1>1, <1>2, <2>1 DEF Wired, OnePrev
  <2>3. \A d \in 1..list[l].count : list'[l].heads[d] = IF d = b THEN y ELSE list[l].heads[d]
    BY <1>5, <1>6, <2>1
  <2>4. \A d \in 1..list[l].count : d # b => list[l].heads[d] # x
    BY <1>6
  <2>5. \A m \in Nodes : m \in Heads(l)' => m = y \/ (m \in Heads(l) /\ m # x)
    BY <1>5, <2>3, <2>4 DEF Heads
  <2>6. y \in Heads(l)'
    BY <1>5, <2>3 DEF Heads
  <2>7. \A m \in Nodes : m \in Heads(l) /\ m # x => m \in Heads(l)'
    BY <1>5, <2>1, <2>3 DEF Heads
  <2> QED
    BY <2>2, <2>5, <2>6, <2>7
<1>9. ASSUME x \notin Heads(l) PROVE Heads(l)' = Heads(l)
  <2>1. \A d \in 1..list[l].count : list'[l].heads[d] = list[l].heads[d]
    BY <1>5, <1>9 DEF Heads
  <2> QED
    BY <1>5, <2>1 DEF Heads
<1>10. CASE x \in Heads(l)
  <2>1. \A m \in Nodes : m # n => next_'[m] = next_[m]
    BY <1>8, <1>10
  <2>2. Refers(l, x) /\ (y # None => ~Refers(l, y))
    BY <1>1, <1>3, <1>10 DEF Refers
  <2>3. \A o \in (Nodes \cup Lists) \ {n} : \A m \in Nodes :
                Refers(o, m)' <=> IF o = l THEN m = y \/ (Refers(o, m) /\ m # x) ELSE Refers(o, m)
    BY <1>3, <1>7, <1>8, <1>10, <2>1 DEF Refers
  <2> QED
    BY <1>1, <2>2, <2>3
<1>11. CASE x \notin Heads(l)
  <2>1. PICK p \in InList : next_[p] = x
    BY <1>1, <1>11 DEF Wired, HasPrev, Heads
  <2>2. \A m \in InList : next_[m] = x => m = p
    BY <1>1, <1>2, <2>1 DEF Wired, OnePrev
  <2>3. p \in Nodes /\ p # n /\ p \notin Lists
    BY <1>2, <1>3
  <2>4. \A m \in Nodes : m # n => next_'[m] = IF m = p THEN y ELSE next_[m]
    BY <2>1, <2>2
  <2>5. Refers(p, x) /\ (y # None => ~Refers(p, y))
    BY <2>1, <2>3 DEF Refers
  <2>6. \A z \in Lists : Heads(z)' = Heads(z)
    BY <1>7, <1>9, <1>11
  <2>7. \A o \in (Nodes \cup Lists) \ {n} : \A m \in Nodes :
                Refers(o, m)' <=> IF o = p THEN m = y \/ (Refers(o, m) /\ m # x) ELSE Refers(o, m)
    BY <1>3, <2>1, <2>3, <2>4, <2>6 DEF Refers
  <2> QED
    BY <2>5, <2>7
<1> QED
  BY <1>10, <1>11

\* erase keeps the counts: the reference of prev becomes the writer's, and
\* the successor has one more.
LEMMA EraseMemory ==
  ASSUME MapInv, TypeOK', NEW t \in Writers, NEW k \in Keys, NEW x \in Nodes, Erased(t, k, x), Acyclic',
         next_[x] # x, state' = state, bucket_list_' = bucket_list_, value_holder_' = value_holder_,
         writer[t].old = None
  PROVE  Memory'
<1>1. TypeOK /\ Memory /\ bucket_list_ # None /\ x \in InList
  BY DEF MapInv, Erased, Unlinking
<1>2. PICK l \in Lists : l = bucket_list_ /\ state[l] = "live" /\ Wired(list[l], next_, value_holder_, InList)
                         /\ InList \in SUBSET InUse
  BY <1>1, CurrentIs
<1>3. PICK y \in Maybe(Nodes) : y = next_[x]
  BY <1>1 DEF TypeOK
<1>4. ListsTyped' /\ None \notin InList
  BY <1>2, Constants DEF TypeOK, ListsTyped, InUse
<1>5. y # None => y \notin Heads(l)
  BY <1>1, <1>2, <1>3 DEF Wired, OnePrev, Heads
<1>6. \A m \in Nodes : m # None => next_'[m] = IF m \in InList /\ next_[m] = x THEN y ELSE next_[m]
  BY <1>3 DEF Erased
<1>7. Redirected(x, y) /\ y # x
  BY <1>3 DEF Erased
<1>8. PICK p \in InList \cup {bucket_list_} :
           /\ Refers(p, x) /\ (y # None => ~Refers(p, y))
           /\ \A o \in (Nodes \cup Lists) \ {None} : \A m \in Nodes :
                Refers(o, m)' <=> IF o = p THEN m = y \/ (Refers(o, m) /\ m # x) ELSE Refers(o, m)
  BY <1>1, <1>2, <1>4, <1>5, <1>6, <1>7, Relinked
<1>9. p \in Nodes \cup Lists /\ state[p] # "free" /\ p \notin Writers /\ t \notin Nodes \cup Lists
  BY <1>2, Constants DEF InUse
<1>10. /\ \A m \in Nodes : refcount_'[m] = IF m = y THEN refcount_[m] + 1 ELSE refcount_[m]
       /\ \A u \in Writers : writer'[u].old = IF u = t THEN x ELSE writer[u].old
  BY <1>3 DEF Erased, Unlinking
<1>11. \A o \in Nodes \cup Lists : o # None
  BY Constants
<1>12. ASSUME NEW m \in Nodes PROVE refcount_'[m] = Cardinality(Holders(m)')
  <2>0. refcount_[m] = Cardinality(Holders(m))
    BY <1>1 DEF Memory, RefcountExact
  <2>1. PICK H : H = Holders(m) /\ IsFiniteSet(H)
    BY HoldersFinite
  <2>2. /\ H = {o \in Nodes \cup Lists : state[o] # "free" /\ Refers(o, m)}
               \cup {u \in Writers : writer[u].old = m}
        /\ Holders(m)' = {o \in Nodes \cup Lists : state[o] # "free" /\ Refers(o, m)'}
               \cup {u \in Writers : writer'[u].old = m}
    BY <2>1, HoldersAre
  <2>3. \A o \in Nodes \cup Lists : Refers(o, m)' <=>
          IF o = p THEN m = y \/ (Refers(o, m) /\ m # x) ELSE Refers(o, m)
    BY <1>8, <1>11
  <2>4. m # None
    BY Constants
  <2>5. CASE m = x
    <3>1. Holders(m)' = (H \ {p}) \cup {t}
      BY <1>7, <1>9, <1>10, <2>2, <2>3, <2>5
    <3>2. p \in H /\ t \notin H
      BY <1>8, <1>9, <2>2, <2>4, <2>5
    <3>3. Cardinality((H \ {p}) \cup {t}) = Cardinality(H)
      BY <2>1, <3>2, HandedOn
    <3> QED
      BY <1>7, <1>10, <2>0, <2>1, <2>5, <3>1, <3>3
  <2>6. CASE m # x /\ m = y
    <3>1. \A u \in Writers : writer'[u].old = m <=> writer[u].old = m
      BY <1>10, <2>4, <2>6
    <3>2. Holders(m)' = H \cup {p}
      BY <1>9, <2>2, <2>3, <2>6, <3>1
    <3>3. p \notin H
      BY <1>8, <1>9, <2>2, <2>4, <2>6
    <3>4. Cardinality(H \cup {p}) = Cardinality(H) + 1
      BY <2>1, <3>3, FS_AddElement
    <3> QED
      BY <1>10, <2>0, <2>1, <2>6, <3>2, <3>4
  <2>7. CASE m # x /\ m # y
    <3>1. \A u \in Writers : writer'[u].old = m <=> writer[u].old = m
      BY <1>10, <2>4, <2>7
    <3>2. Holders(m)' = H
      BY <2>2, <2>3, <2>7, <3>1
    <3> QED
      BY <1>10, <2>0, <2>1, <2>7, <3>2
  <2> QED
    BY <2>5, <2>6, <2>7
<1>13. Living'
  <2>1. y # None => y \in Nodes /\ state[y] = "live" /\ refcount_[y] \in Nat
    <3>1. x \in InUse
      BY <1>1, <1>2
    <3> QED
      BY <1>1, <1>3, <3>1, Targets DEF TypeOK
  <2>2. \A m \in Nodes : refcount_[m] \in Nat /\ m # None
    BY <1>1, Constants DEF TypeOK
  <2>3. \A m \in Nodes : refcount_'[m] # 0 <=> refcount_[m] # 0 \/ m = y
    BY <1>10, <2>2
  <2> QED
    BY <1>1, <2>1, <2>2, <2>3 DEF Memory, Living
<1>14. Contents'
  <2>1. \A m \in Nodes : state[m] = "free" => next_'[m] = next_[m]
    BY <1>2 DEF Erased, InUse
  <2> QED
    BY <1>1, <2>1 DEF Memory, Contents
<1> QED
  BY <1>12, <1>13, <1>14 DEF Memory, RefcountExact

\* A replacement keeps the counts: the new node has the reference of prev,
\* and the successor one more.
LEMMA ReplaceMemory ==
  ASSUME MapInv, TypeOK', NEW t \in Writers, NEW n \in New(Nodes), NEW x \in Nodes, Replaced(t, n, x), Acyclic',
         next_[x] # x, state' = [state EXCEPT ![n] = "live"], bucket_list_' = bucket_list_,
         writer[t].key \in Keys, writer[t].value \in Values, writer[t].old = None
  PROVE  Memory'
<1>1. TypeOK /\ Memory /\ bucket_list_ # None /\ x \in InList
  BY DEF MapInv, Replaced, Unlinking
<1>2. PICK l \in Lists : l = bucket_list_ /\ state[l] = "live" /\ Wired(list[l], next_, value_holder_, InList)
                         /\ InList \in SUBSET InUse
  BY <1>1, CurrentIs
<1>n. n \in Nodes /\ state[n] = "free" /\ n \notin InUse /\ n # None /\ next_[n] = None /\ refcount_[n] = 0
      /\ n \notin Lists /\ n \notin Writers
  BY <1>1, NewNode, Constants
<1>u. /\ \A m \in Nodes : next_[m] # n
      /\ \A z \in Lists : state[z] # "free" => n \notin Heads(z)
      /\ \A u \in Writers : writer[u].old # n
  BY <1>1, <1>n, Unpointed
<1>4. ListsTyped' /\ n \notin InList /\ n # x
  BY <1>1, <1>2, <1>n DEF TypeOK, ListsTyped
<1>6. /\ \A m \in Nodes : m # n => next_'[m] = IF m \in InList /\ next_[m] = x THEN n ELSE next_[m]
      /\ next_'[n] = next_[x]
  BY <1>n DEF Replaced
<1>7. Redirected(x, n) /\ n \in Maybe(Nodes)
  BY <1>n DEF Replaced, Maybe
<1>8. PICK p \in InList \cup {bucket_list_} :
           /\ Refers(p, x) /\ (n # None => ~Refers(p, n))
           /\ \A o \in (Nodes \cup Lists) \ {n} : \A m \in Nodes :
                Refers(o, m)' <=> IF o = p THEN m = n \/ (Refers(o, m) /\ m # x) ELSE Refers(o, m)
  BY <1>1, <1>2, <1>4, <1>6, <1>7, <1>u, Relinked
<1>9. p \in Nodes \cup Lists /\ state[p] # "free" /\ p \notin Writers /\ t \notin Nodes \cup Lists /\ p # n
  BY <1>2, <1>n, Constants DEF InUse
<1>10. /\ \A m \in Nodes : refcount_'[m] = IF m = n THEN 1 ELSE IF m = next_[x] THEN refcount_[m] + 1 ELSE refcount_[m]
       /\ \A u \in Writers : writer'[u].old = IF u = t THEN x ELSE writer[u].old
       /\ \A o \in Nodes \cup Lists : state'[o] = IF o = n THEN "live" ELSE state[o]
       /\ \A m \in Nodes : m # n => value_holder_'[m] = value_holder_[m]
       /\ value_holder_'[n].key \in Keys /\ value_holder_'[n].value \in Values
  BY <1>1, <1>n DEF Replaced, Unlinking, TypeOK
<1>12. ASSUME NEW m \in Nodes PROVE refcount_'[m] = Cardinality(Holders(m)')
  <2>0. refcount_[m] = Cardinality(Holders(m))
    BY <1>1 DEF Memory, RefcountExact
  <2>1. PICK H : H = Holders(m) /\ IsFiniteSet(H)
    BY HoldersFinite
  <2>2. /\ H = {o \in Nodes \cup Lists : state[o] # "free" /\ Refers(o, m)}
               \cup {u \in Writers : writer[u].old = m}
        /\ Holders(m)' = {o \in Nodes \cup Lists : state'[o] # "free" /\ Refers(o, m)'}
               \cup {u \in Writers : writer'[u].old = m}
    BY <2>1, HoldersAre
  <2>3. \A o \in Nodes \cup Lists : o # n => (Refers(o, m)' <=>
          IF o = p THEN m = n \/ (Refers(o, m) /\ m # x) ELSE Refers(o, m))
    BY <1>8
  <2>4. m # None /\ (Refers(n, m)' <=> m = next_[x])
    BY <1>6, <1>n, Constants DEF Refers
  <2>5. CASE m = n
    <3>1. \A o \in Nodes \cup Lists : state[o] # "free" => ~Refers(o, m)
      BY <1>u, <2>5 DEF Refers
    <3>2. \A o \in Nodes \cup Lists : state'[o] # "free" /\ Refers(o, m)' <=> o = p
      BY <1>9, <1>10, <1>u, <2>3, <2>4, <2>5, <3>1
    <3>3. \A u \in Writers : writer'[u].old # m
      BY <1>4, <1>10, <1>u, <2>5
    <3>4. Holders(m)' = {p}
      BY <1>9, <2>2, <3>2, <3>3
    <3> QED
      BY <1>10, <2>5, <3>4, FS_Singleton
  <2>6. CASE m = x
    <3>1. ~Refers(n, m)'
      BY <2>4, <2>6
    <3>2. \A o \in Nodes \cup Lists : state'[o] # "free" /\ Refers(o, m)' <=>
              state[o] # "free" /\ Refers(o, m) /\ o # p
      BY <1>4, <1>10, <1>n, <2>3, <2>6, <3>1
    <3>3. \A u \in Writers : writer'[u].old = m <=> u = t \/ writer[u].old = m
      BY <1>10, <2>6
    <3>4. Holders(m)' = (H \ {p}) \cup {t}
      BY <1>9, <2>2, <3>2, <3>3
    <3>5. p \in H /\ t \notin H
      BY <1>8, <1>9, <2>2, <2>4, <2>6
    <3>6. Cardinality((H \ {p}) \cup {t}) = Cardinality(H)
      BY <2>1, <3>5, HandedOn
    <3> QED
      BY <1>4, <1>10, <2>0, <2>1, <2>6, <3>4, <3>6
  <2>7. CASE m # n /\ m # x /\ m = next_[x]
    <3>1. \A u \in Writers : writer'[u].old = m <=> writer[u].old = m
      BY <1>10, <2>4, <2>7
    <3>2. \A o \in Nodes \cup Lists : state'[o] # "free" /\ Refers(o, m)' <=>
              o = n \/ (state[o] # "free" /\ Refers(o, m))
      BY <1>10, <1>n, <2>3, <2>4, <2>7
    <3>3. Holders(m)' = H \cup {n}
      BY <1>n, <2>2, <3>1, <3>2
    <3>4. n \notin H
      BY <1>n, <2>2
    <3>5. Cardinality(H \cup {n}) = Cardinality(H) + 1
      BY <2>1, <3>4, FS_AddElement
    <3> QED
      BY <1>10, <2>0, <2>1, <2>7, <3>3, <3>5
  <2>8. CASE m # n /\ m # x /\ m # next_[x]
    <3>1. \A u \in Writers : writer'[u].old = m <=> writer[u].old = m
      BY <1>10, <2>4, <2>8
    <3>2. \A o \in Nodes \cup Lists : state'[o] # "free" /\ Refers(o, m)' <=> state[o] # "free" /\ Refers(o, m)
      BY <1>10, <1>n, <2>3, <2>4, <2>8
    <3>3. Holders(m)' = H
      BY <2>2, <3>1, <3>2
    <3> QED
      BY <1>10, <2>0, <2>1, <2>8, <3>3
  <2> QED
    BY <2>5, <2>6, <2>7, <2>8
<1>13. Living'
  <2>1. next_[x] # None => state[next_[x]] = "live"
    <3>1. x \in InUse
      BY <1>1, <1>2
    <3> QED
      BY <1>1, <3>1, Targets
  <2>2. \A m \in Nodes : refcount_[m] \in Nat /\ m # None
    BY <1>1, Constants DEF TypeOK
  <2>3. \A m \in Nodes : refcount_'[m] # 0 <=> refcount_[m] # 0 \/ m = next_[x] \/ m = n
    BY <1>10, <2>2
  <2> QED
    BY <1>1, <1>10, <2>1, <2>2, <2>3 DEF Memory, Living
<1>14. Contents'
  <2>1. \A m \in Nodes : state[m] = "free" /\ m # n => next_'[m] = next_[m]
    BY <1>2, <1>6 DEF InUse
  <2> QED
    BY <1>1, <1>10, <2>1 DEF Memory, Contents
<1> QED
  BY <1>12, <1>13, <1>14 DEF Memory, RefcountExact

\* What finders need to know of the step: y is the successor of x, or a new
\* node with the key and the successor of x.
Unlinked(x, y) ==
  /\ x \in InList /\ y \in Maybe(Nodes) /\ bucket_list_ # None /\ bucket_list_' = bucket_list_
  /\ Bypass(next_, next_', x, y)
  /\ \A l \in Lists : l # bucket_list_ => list'[l] = list[l]
  /\ \A m \in InUse : value_holder_'[m] = value_holder_[m]
  /\ \A o \in Nodes \cup Lists : state[o] # "free" => state'[o] # "free"
  /\ \/ y = next_[x] /\ InList' = InList \ {x}
     \/ y \in Nodes /\ y \notin InUse /\ y \in InList' /\ value_holder_'[y].key = value_holder_[x].key

\* A finder that was going to answer in time from a walk still does when x is
\* taken out of it.
LEMMA UnlinkWalk ==
  ASSUME MapInv, TypeOK', NEW x, NEW y, Unlinked(x, y), Linked(bucket_list_)', Acyclic',
         NEW r \in Readers, Finding(r), CurrentAnswer(r)', seen[r] \subseteq seen'[r], reader'[r] = reader[r],
         NEW h \in Maybe(InUse), NEW h2 \in Maybe(Nodes), h2 = h \/ (h = x /\ h2 = y),
         NEW k \in Keys, k = reader[r].key,
         Answered(Reach(next_, {h}), k, value_holder_, seen[r])
  PROVE  Answered(Reach(next_', {h2}), k, value_holder_', seen'[r])
<1>1. TypeOK /\ Memory /\ x \in InList /\ y \in Maybe(Nodes) /\ bucket_list_ # None /\ bucket_list_' = bucket_list_
      /\ Bypass(next_, next_', x, y)
  BY DEF MapInv, Unlinked
<1>2. PICK l \in Lists : l = bucket_list_ /\ Wired(list[l], next_, value_holder_, InList)
                         /\ InList \in SUBSET InUse /\ InList \in SUBSET Nodes
  BY <1>1, CurrentIs
<1>3. next_ \in [Nodes -> Maybe(Nodes)] /\ next_' \in [Nodes -> Maybe(Nodes)] /\ h \in Maybe(Nodes) /\ x \in Nodes
      /\ {h} \in SUBSET Maybe(Nodes) /\ None \notin Nodes /\ InUse \in SUBSET Nodes /\ {h2} \in SUBSET Maybe(Nodes)
  BY <1>1, <1>2, Constants DEF TypeOK, Maybe, InUse
<1>4. PICK S : S = Reach(next_, {h})
  OBVIOUS
<1>5. PICK S2 : S2 = Reach(next_', {h2})
  OBVIOUS
<1>6. S \subseteq InUse /\ Closed(next_, S)
  <2>1. Closed(next_, InUse) /\ \A g \in {h} : g # None => g \in InUse
    BY <1>1, Targets DEF Maybe
  <2> QED
    BY <1>3, <1>4, <2>1, ReachLeast, ReachIs
<1>7. S2 \subseteq Nodes
  BY <1>3, <1>5, ReachIs
<1>8. y \in S => y = next_[x]
  BY <1>6 DEF Unlinked
<1>9. /\ S2 \subseteq S \cup {y} /\ (y \in S2 => y \in S \/ x \in S)
      /\ S \subseteq S2 \cup {x}
      /\ x \in S /\ x \notin S2 /\ y # None => y \in S2
  <2>1. y \in Reach(next_, {h}) => y = next_[x]
    BY <1>4, <1>8
  <2>2. PICK nx \in [Nodes -> Maybe(Nodes)] : nx = next_
    BY <1>3
  <2>3. PICK nx2 \in [Nodes -> Maybe(Nodes)] : nx2 = next_'
    BY <1>3
  <2>4. PICK a \in Nodes : a = x
    BY <1>3
  <2>5. PICK c \in Maybe(Nodes) : c = y
    BY <1>1
  <2>6. PICK g \in Maybe(Nodes) : g = h
    BY <1>3
  <2>7. Bypassing(nx, nx2, a, c, g, h2)
    BY <1>1, <2>1, <2>2, <2>3, <2>4, <2>5, <2>6 DEF Bypassing
  <2>8. Bypassed(Reach(nx, {g}), Reach(nx2, {h2}), a, c)
    BY <2>7, BypassReach
  <2>9. Bypassed(S, S2, x, y)
    BY <1>4, <1>5, <2>2, <2>3, <2>4, <2>5, <2>6, <2>8
  <2> QED
    BY <2>9 DEF Bypassed
<1>10. PICK M : M = InList'
  OBVIOUS
<1>11. Answered(M, k, value_holder_', seen'[r])
  <2>1. l = bucket_list_' /\ Linked(l)' /\ Members(l)' = M
    BY <1>1, <1>2, <1>10 DEF InList, Members
  <2>2. IsList(list'[l]) /\ Wired(list'[l], next_', value_holder_', M)
    BY <2>1, NextListTyped DEF Linked, TypeOK, ListsTyped
  <2>3. PICK rank : Ranked(next_', rank)
    BY DEF Acyclic
  <2>4. Answered(ChainFor(l, k)', k, value_holder_', seen'[r])
    BY <2>1 DEF CurrentAnswer, Finding
  <2>5. ChainFor(l, k)' = Reach(next_', {list'[l].heads[BucketId(k, list'[l].count)]})
    BY DEF ChainFor, Chain
  <2>6. Answered(Reach(next_', {list'[l].heads[BucketId(k, list'[l].count)]}), k, value_holder_', seen'[r])
    BY <2>4, <2>5
  <2> QED
    BY <1>3, <2>2, <2>3, <2>6, WholeAnswer
<1>12. y \in S2 => y \in S \/ y \in M
  <2>1. CASE y = next_[x]
    BY <1>3, <1>6, <1>7, <1>9, <2>1 DEF Closed
  <2>2. CASE y # next_[x]
    BY <1>10, <2>2 DEF Unlinked
  <2> QED
    BY <2>1, <2>2
<1>13. \A m \in S : value_holder_'[m] = value_holder_[m]
  BY <1>6 DEF Unlinked
<1>14. ASSUME x \in S, x \notin S2, value_holder_[x].key = k
       PROVE  (\A m \in M : value_holder_'[m].key # k) \/ (y \in S2 /\ value_holder_'[y].key = k)
  <2>1. CASE y = next_[x] /\ M = InList \ {x}
    <3>1. \A m \in M : value_holder_'[m] = value_holder_[m] /\ m \in InList /\ m # x
      BY <1>2, <2>1 DEF Unlinked
    <3>2. \A m \in InList : value_holder_[m].key = value_holder_[x].key => m = x
      BY <1>1, <1>2 DEF Wired, KeysOnce
    <3> QED
      BY <1>14, <3>1, <3>2
  <2>2. CASE y \in Nodes /\ value_holder_'[y].key = value_holder_[x].key
    BY <1>3, <1>9, <1>14, <2>2
  <2> QED
    BY <1>10, <2>1, <2>2 DEF Unlinked
<1>15. Answered(S, k, value_holder_, seen[r])
  BY <1>4
<1>16. Answered(S2, k, value_holder_', seen'[r])
  BY <1>9, <1>11, <1>12, <1>13, <1>14, <1>15, BypassAnswer
<1> QED
  BY <1>5, <1>16

\* So every finder keeps what it has, one that stands on x included.
LEMMA UnlinkReader ==
  ASSUME MapInv, TypeOK', NEW x, NEW y, Unlinked(x, y), Linked(bucket_list_)', Acyclic',
         NEW r \in Readers, CurrentAnswer(r)', seen[r] \subseteq seen'[r], reader'[r] = reader[r]
  PROVE  ReaderHolds(r)' /\ ReaderKnows(r)'
<1>1. TypeOK /\ Memory /\ ReaderHolds(r) /\ ReaderKnows(r) /\ bucket_list_ # None /\ bucket_list_' = bucket_list_
  BY DEF MapInv, ReadersFit, Unlinked
<1>2. /\ reader[r].list # None => reader[r].list \in Lists /\ state'[reader[r].list] # "free"
      /\ reader[r].node # None => reader[r].node \in InUse /\ state'[reader[r].node] # "free"
  BY Settled DEF InUse, Unlinked
<1>3. ReaderHolds(r)'
  BY <1>1, <1>2 DEF ReaderHolds
<1>4. reader[r] \in ReaderStates
  BY <1>1 DEF TypeOK, ReaderStates
<1>5. Finding(r)' => Answered(ChainFor(bucket_list_, reader[r].key), reader[r].key, value_holder_, seen[r])'
  BY DEF CurrentAnswer
<1>6. ASSUME reader[r].at = "head"
      PROVE  Answered(ChainFor(reader[r].list, reader[r].key), reader[r].key, value_holder_, seen[r])'
  <2>1. CASE reader[r].list = bucket_list_'
    BY <1>4, <1>5, <1>6, <2>1 DEF Finding
  <2>2. CASE reader[r].list # bucket_list_'
    <3>1. PICK l \in Lists : l = reader[r].list /\ state[l] # "free" /\ l # bucket_list_
      BY <1>1, <1>2, <1>6, <2>2 DEF ReaderHolds
    <3>2. PICK k \in Keys : k = reader[r].key
      BY <1>1, <1>6 DEF ReaderHolds
    <3>3. list'[l] = list[l]
      BY <3>1 DEF Unlinked
    <3>4. PICK b \in 1..list[l].count : b = BucketId(k, list[l].count)
      <4>1. list[l].count \in Nat \ {0}
        BY <1>1, ListTypes DEF IsList
      <4> QED
        BY <4>1, BucketRange
    <3>5. PICK h \in Maybe(InUse) : h = list[l].heads[b]
      <4>1. list[l].heads[b] \in Heads(l)
        BY DEF Heads
      <4>2. list[l].heads[b] # None => list[l].heads[b] \in Nodes /\ state[list[l].heads[b]] = "live"
        BY <1>1, <3>1, <4>1, Targets
      <4> QED
        BY <4>2 DEF Maybe, InUse
    <3>6. h \in Maybe(Nodes) /\ Finding(r)
      BY <1>6 DEF Maybe, InUse, Finding
    <3>7. Answered(Reach(next_, {h}), k, value_holder_, seen[r])
      BY <1>1, <1>6, <3>1, <3>2, <3>4, <3>5 DEF ReaderKnows, ChainFor, Chain
    <3>8. Answered(Reach(next_', {h}), k, value_holder_', seen'[r])
      BY <3>2, <3>6, <3>7, UnlinkWalk
    <3>9. ChainFor(l, k)' = Reach(next_', {h})
      BY <3>3, <3>4, <3>5 DEF ChainFor, Chain
    <3>10. l = reader'[r].list /\ k = reader'[r].key
      BY <3>1, <3>2
    <3> QED
      BY <3>8, <3>9, <3>10
  <2> QED
    BY <2>1, <2>2
<1>7. ASSUME reader[r].at = "next"
      PROVE  Answered(Reach(next_, {next_[reader[r].node]}), reader[r].key, value_holder_, seen[r])'
  <2>1. PICK m \in InUse : m = reader[r].node
    BY <1>1, <1>2, <1>7 DEF ReaderHolds
  <2>2. PICK k \in Keys : k = reader[r].key
    BY <1>1, <1>7 DEF ReaderHolds
  <2>3. PICK h \in Maybe(InUse) : h = next_[m]
    BY <1>1, Targets DEF Maybe, InUse
  <2>4. m \in Nodes /\ (m # y \/ y = next_[x])
    BY DEF Unlinked, InUse
  <2>5. PICK h2 \in Maybe(Nodes) : h2 = next_'[m]
    BY <2>4 DEF TypeOK
  <2>6. h2 = h \/ (h = x /\ h2 = y)
    BY <2>3, <2>4, <2>5 DEF Unlinked, Bypass
  <2>7. Answered(Reach(next_, {h}), k, value_holder_, seen[r]) /\ Finding(r)
    BY <1>1, <1>7, <2>1, <2>2, <2>3 DEF ReaderKnows, Finding
  <2>8. Answered(Reach(next_', {h2}), k, value_holder_', seen'[r])
    BY <2>2, <2>6, <2>7, UnlinkWalk
  <2> QED
    BY <2>1, <2>2, <2>5, <2>8
<1>8. ASSUME reader[r].at = "found" PROVE value_holder_'[reader[r].node].value \in seen'[r]
  <2>1. PICK m \in InUse : m = reader[r].node
    BY <1>1, <1>2, <1>8 DEF ReaderHolds
  <2> QED
    BY <1>1, <1>8, <2>1 DEF ReaderKnows, Unlinked
<1>9. reader[r].at = "missed" => None \in seen'[r]
  BY <1>1 DEF ReaderKnows
<1> QED
  BY <1>3, <1>4, <1>5, <1>6, <1>7, <1>8, <1>9 DEF ReaderKnows

\* erase and replace preserve the invariant.
LEMMA UnlinkStep ==
  ASSUME MapInv, TypeOK', Memory', NEW t \in Writers, NEW x, NEW y, Unlinking(t, x), Unlinked(x, y),
         Linked(bucket_list_)', size_' = Cardinality(InList'),
         \A l \in Lists : state'[l] = state[l],
         use = "single" => t = Only, writer[t].at \notin {"swap", "retire"},
         m_ \in {None, t}, m_' = None, use' = use, reader' = reader, Observe
  PROVE  MapInv'
<1>1. TypeOK /\ Memory /\ Current /\ Accounted /\ Exclusive /\ bucket_list_ # None /\ bucket_list_' = bucket_list_
      /\ Acyclic'
  BY DEF MapInv, Unlinked, Memory
<1>2. PICK l \in Lists : l = bucket_list_ /\ state[l] = "live" /\ InList \in SUBSET Nodes
  BY <1>1, CurrentIs
<1>3. /\ writer'[t].at = "release" /\ writer'[t].new = None /\ writer'[t].old = x /\ x \in Nodes
      /\ \A u \in Writers : u # t => writer'[u] = writer[u]
  BY <1>2 DEF Unlinking
<1>4. \A z \in Lists : z # l => list'[z] = list[z]
  BY <1>2 DEF Unlinked
<1>5. Current'
  BY <1>1, <1>2 DEF Current
<1>6. WriterFits(t)'
  BY <1>1, <1>3 DEF WriterFits
<1>7. ASSUME NEW u \in Writers, u # t PROVE WriterFits(u)'
  <2>1. /\ writer[u].at \in {"idle", "cas", "lock", "swap", "link", "release"}
        /\ writer[u].at \in {"swap", "link"} => m_ = u
    BY <1>7, Others
  <2>2. m_ # u /\ m_' # u
    BY <1>7, Constants
  <2>3. WriterFits(u) /\ writer'[u] = writer[u]
    BY <1>3, <1>7 DEF MapInv, WritersFit
  <2>4. writer[u].at \in {"idle", "cas", "lock", "release"}
    BY <2>1, <2>2
  <2>5. ASSUME writer[u].at = "cas" PROVE Fresh(writer[u].new)' /\ Bare(writer[u].new)'
    <3>1. PICK z \in Lists : z = writer[u].new /\ z # l /\ state[z] = "live" /\ Bare(z)
      BY <1>2, <2>3, <2>5 DEF WriterFits, Fresh
    <3>2. Fresh(z)' /\ Bare(z)'
      BY <1>1, <1>2, <1>4, <3>1 DEF Fresh, Bare
    <3> QED
      BY <2>3, <3>1, <3>2
  <2> QED
    BY <1>1, <2>3, <2>4, <2>5 DEF WriterFits
<1>8. Exclusive'
  BY <1>3, ExclusiveStep
<1>9. Accounted'
  <2>1. \A z \in Lists : z # l => (Bare(z)' <=> Bare(z))
    BY <1>4 DEF Bare
  <2>2. \A z \in Lists : InWork(z) => InWork(z)'
    BY <1>3 DEF InWork
  <2> QED
    BY <1>1, <1>2, <2>1, <2>2 DEF Accounted
<1>10. ReadersFit'
  <2>1. \A r \in Readers : seen[r] \subseteq seen'[r] /\ CurrentAnswer(r)'
    BY <1>1, ObserveAnswers
  <2>2. ASSUME NEW r \in Readers PROVE ReaderHolds(r)' /\ ReaderKnows(r)'
    BY <1>1, <2>1, UnlinkReader
  <2> QED
    BY <2>2 DEF ReadersFit
<1> QED
  BY <1>5, <1>6, <1>7, <1>8, <1>9, <1>10 DEF MapInv, WritersFit

\* insert_internal behind the rehash preserves the invariant.
LEMMA LinkStep ==
  ASSUME MapInv, NEW t \in Writers, Link(t) PROVE MapInv'
<1>1. TypeOK /\ Memory /\ TypeOK' /\ WriterFits(t) /\ Exclusive
  BY LinkType DEF MapInv, WritersFit
<1>2. /\ writer[t].at \in {"lock", "link"} /\ (writer[t].at = "lock" => m_ = None)
      /\ m_' = None /\ use' = use /\ bucket_list_' = bucket_list_ /\ reader' = reader /\ Observe
  BY DEF Link
<1>3. m_ \in {None, t} /\ writer[t].old = None /\ (use = "single" => t = Only)
  BY <1>1, <1>2 DEF WriterFits, Exclusive
<1>4. PICK n \in New(Nodes) :
           /\ writer[t].key \in Keys /\ writer[t].value \in Values /\ bucket_list_ # None
           /\ state' = [state EXCEPT ![n] = "live"]
           /\ next_' \in [Nodes -> Maybe(Nodes)]
           /\ ListsTyped'
           /\ ((\E x \in Nodes : Replaced(t, n, x)) \/ PushedOn(t, n))
  BY LinkDoes
<1>5. n \in Nodes /\ state[n] = "free" /\ n \notin InUse /\ n # None /\ next_[n] = None
  BY <1>1, NewNode
<1>6. CASE PushedOn(t, n)
  BY <1>1, <1>2, <1>3, <1>4, <1>6, PushStep
<1>7. ASSUME NEW x \in Nodes, Replaced(t, n, x) PROVE MapInv'
  <2>1. /\ Linked(bucket_list_)' /\ InList' = (InList \ {x}) \cup {n} /\ n \notin InList
        /\ size_' = Cardinality((InList \ {x}) \cup {n})
        /\ Acyclic' /\ next_[x] # x
    BY <1>2, <1>4, <1>7, ReplaceList
  <2>2. Memory'
    BY <1>1, <1>2, <1>3, <1>4, <1>7, <2>1, ReplaceMemory
  <2>3. Unlinking(t, x) /\ x \in InList
    BY <1>7 DEF Replaced, Unlinking
  <2>4. /\ \A m \in Nodes : next_'[m] = IF m = n THEN next_[x] ELSE IF m \in InList /\ next_[m] = x THEN n ELSE next_[m]
        /\ \A l \in Lists : l # bucket_list_ => list'[l] = list[l]
        /\ \A m \in Nodes : m # n => value_holder_'[m] = value_holder_[m]
        /\ value_holder_'[n].key = value_holder_[x].key
    BY <1>1, <1>5, <1>7 DEF Replaced, Redirected, TypeOK
  <2>5. n # next_[x]
    BY <1>1, <1>5, Unpointed
  <2>6. Bypass(next_, next_', x, n)
    BY <1>5, <2>4, <2>5 DEF Bypass
  <2>7. /\ \A o \in Nodes \cup Lists : o # n => state'[o] = state[o]
        /\ state'[n] = "live"
    BY <1>1, <1>4, <1>5 DEF TypeOK
  <2>8. Unlinked(x, n)
    <3>1. n \in Maybe(Nodes) /\ n \in InList'
      BY <1>5, <2>1 DEF Maybe
    <3>2. \A m \in InUse : value_holder_'[m] = value_holder_[m]
      BY <1>5, <2>4 DEF InUse
    <3>3. \A o \in Nodes \cup Lists : state[o] # "free" => state'[o] # "free"
      BY <2>7
    <3> QED
      BY <1>2, <1>4, <1>5, <2>3, <2>4, <2>6, <3>1, <3>2, <3>3 DEF Unlinked
  <2>9. \A l \in Lists : state'[l] = state[l]
    BY <1>5, <2>7, Constants
  <2>10. size_' = Cardinality(InList')
    BY <2>1
  <2>11. writer[t].at \notin {"swap", "retire"}
    BY <1>2
  <2> QED
    BY <1>1, <1>2, <1>3, <2>1, <2>2, <2>3, <2>8, <2>9, <2>10, <2>11, UnlinkStep
<1> QED
  BY <1>4, <1>6, <1>7

\* erase preserves the invariant, also when there is nothing to erase.
LEMMA EraseStep ==
  ASSUME MapInv, NEW t \in Writers, NEW k \in Keys, Erase(t, k) PROVE MapInv'
<1>1. TypeOK /\ Memory /\ TypeOK'
  BY EraseType DEF MapInv
<1>2. /\ Call(t, "keyed") /\ bucket_list_ # None /\ m_ = None /\ m_' = None /\ use' = use /\ state' = state
      /\ value_holder_' = value_holder_ /\ bucket_list_' = bucket_list_ /\ reader' = reader /\ Observe
  BY DEF Erase
<1>3. writer[t].at = "idle" /\ writer[t].old = None /\ (use = "single" => t = Only)
  BY <1>2, Caller
<1>4. CASE With(k) # {}
  <2>1. PICK x \in Nodes : next_' \in [Nodes -> Maybe(Nodes)] /\ ListsTyped' /\ Erased(t, k, x)
    BY <1>4, EraseDoes
  <2>2. /\ Linked(bucket_list_)' /\ InList' = InList \ {x} /\ size_' = Cardinality(InList \ {x})
        /\ Acyclic' /\ next_[x] # x
    BY <1>2, <2>1, EraseList
  <2>3. Memory'
    BY <1>1, <1>2, <1>3, <2>1, <2>2, EraseMemory
  <2>4. Unlinking(t, x) /\ x \in InList
    BY <2>1 DEF Erased, Unlinking
  <2>5. PICK y \in Maybe(Nodes) : y = next_[x]
    BY <1>1 DEF TypeOK
  <2>6. /\ \A m \in Nodes : next_'[m] = IF m \in InList /\ next_[m] = x THEN next_[x] ELSE next_[m]
        /\ \A l \in Lists : l # bucket_list_ => list'[l] = list[l]
    BY <2>1 DEF Erased, Redirected
  <2>7. Bypass(next_, next_', x, y)
    BY <2>5, <2>6 DEF Bypass
  <2>8. Unlinked(x, y)
    BY <1>2, <2>2, <2>4, <2>5, <2>6, <2>7 DEF Unlinked
  <2>9. size_' = Cardinality(InList')
    BY <2>2
  <2> QED
    BY <1>1, <1>2, <1>3, <2>2, <2>3, <2>4, <2>8, <2>9, UnlinkStep
<1>5. CASE With(k) = {}
  <2>1. UNCHANGED <<use, state, nodeVars, list, mapVars, m_, writer>>
    BY <1>2, <1>5 DEF Erase, nodeVars, mapVars
  <2>2. /\ Steady(None) /\ Memory' /\ Current' /\ WritersFit' /\ Exclusive' /\ Accounted'
    BY <1>1, <2>1, ReaderFrame
  <2>3. ASSUME NEW r \in Readers PROVE seen[r] \subseteq seen'[r] /\ CurrentAnswer(r)'
    <3>1. Acyclic' /\ Linked(bucket_list_)' /\ bucket_list_' # None
      BY <1>2, <2>2 DEF Memory, Current
    <3> QED
      BY <1>1, <1>2, <3>1, ObserveAnswers
  <2>4. ReadersFit'
    BY <1>1, <1>2, <2>2, <2>3, ReadersKept
  <2> QED
    BY <1>1, <2>2, <2>4 DEF MapInv
<1> QED
  BY <1>4, <1>5
-----------------------------------------------------------------------------
(* The initial states.                                                     *)

\* Nobody has called anything yet.
Unused ==
  /\ use \in {"shared", "single"} /\ m_ = None /\ calls = 0
  /\ writer = [t \in Writers |-> Idle]
  /\ reader = [r \in Readers |-> Away] /\ seen = [r \in Readers |-> {}]

\* What the writers and finders have in hand is nothing.
LEMMA UnusedFits ==
  ASSUME Unused
  PROVE  /\ WritersFit /\ Exclusive /\ ReadersFit
         /\ writer \in [Writers -> WriterStates] /\ reader \in [Readers -> ReaderStates]
         /\ calls \in 0..MaxCalls /\ m_ \in Maybe(Writers) /\ seen \in [Readers -> SUBSET Maybe(Values)]
         /\ \A t \in Writers : writer[t].old = None
<1>1. \A t \in Writers : writer[t].at = "idle" /\ writer[t].new = None /\ writer[t].old = None
  BY DEF Unused, Idle
<1>2. \A r \in Readers : reader[r].at = "idle" /\ reader[r].list = None /\ reader[r].node = None
  BY DEF Unused, Away
<1>3. WritersFit
  BY <1>1 DEF WritersFit, WriterFits
<1>4. Exclusive
  BY <1>1 DEF Exclusive, Unused
<1>5. ReadersFit
  BY <1>2 DEF ReadersFit, ReaderHolds, ReaderKnows, Finding
<1>6. writer \in [Writers -> WriterStates]
  BY DEF Unused, Idle, WriterStates, Maybe
<1>7. reader \in [Readers -> ReaderStates]
  BY DEF Unused, Away, ReaderStates, Maybe
<1>8. calls \in 0..MaxCalls /\ m_ \in Maybe(Writers) /\ seen \in [Readers -> SUBSET Maybe(Values)]
  BY HashMapAssumption DEF Unused, Maybe
<1> QED
  BY <1>1, <1>3, <1>4, <1>5, <1>6, <1>7, <1>8

\* A map without a segment satisfies the invariant.
LEMMA EmptyInv ==
  ASSUME Unused, Empty PROVE MapInv
<1>1. /\ WritersFit /\ Exclusive /\ ReadersFit
      /\ writer \in [Writers -> WriterStates] /\ reader \in [Readers -> ReaderStates]
      /\ calls \in 0..MaxCalls /\ m_ \in Maybe(Writers) /\ seen \in [Readers -> SUBSET Maybe(Values)]
      /\ \A t \in Writers : writer[t].old = None
  BY UnusedFits
<1>2. /\ \A o \in Nodes \cup Lists : state[o] = "free"
      /\ \A n \in Nodes : next_[n] = None /\ refcount_[n] = 0
      /\ bucket_list_ = None /\ size_ = 0
  BY DEF Empty
<1>3. TypeOK
  <2>1. Blank \in [count : {1}, heads : [1..1 -> Maybe(Nodes)]] /\ 1 \in 1..MaxBuckets
    <3>1. <<None>> \in [1..1 -> Maybe(Nodes)]
      BY DEF Maybe
    <3> QED
      BY <3>1, HashMapAssumption DEF Blank
  <2>2. ListsTyped
    <3>1. list = [x \in Lists |-> list[x]] /\ \A x \in Lists : list[x] = Blank
      BY DEF Empty
    <3> HIDE DEF Empty
    <3> QED
      BY <2>1, <3>1 DEF ListsTyped
  <2>3. 0 \in 0..Cardinality(Keys)
    BY Constants, FS_CardinalityType
  <2>4. /\ use \in {"shared", "single"} /\ state \in [Nodes \cup Lists -> {"free", "live", "retired"}]
        /\ next_ \in [Nodes -> Maybe(Nodes)] /\ refcount_ \in [Nodes -> Nat]
        /\ value_holder_ \in [Nodes -> [key : Maybe(Keys), value : Maybe(Values)]]
        /\ bucket_list_ \in Maybe(Lists) /\ size_ = 0 /\ load_factor_cnt_threshold_ \in Nat
    BY DEF Empty, Unused, NoValue, Maybe
  <2> QED
    BY <1>1, <2>2, <2>3, <2>4 DEF TypeOK, ListsTyped, WriterStates, ReaderStates
<1>4. Memory
  <2>1. Acyclic
    <3> DEFINE rank == [n \in Nodes |-> 0]
    <3>1. Ranked(next_, rank)
      BY <1>2 DEF Ranked
    <3> QED
      BY <3>1 DEF Acyclic
  <2>2. RefcountExact
    <3>1. \A n \in Nodes : Holders(n) = {}
      BY <1>1, <1>2, Constants DEF Holders
    <3> QED
      BY <1>2, <3>1, FS_EmptySet DEF RefcountExact
  <2>3. Living /\ Contents
    BY <1>2 DEF Living, Contents
  <2> QED
    BY <2>1, <2>2, <2>3 DEF Memory
<1>5. Current
  BY <1>2, FS_EmptySet DEF Current, InList
<1>6. Accounted
  BY <1>2 DEF Accounted
<1> QED
  BY <1>1, <1>3, <1>4, <1>5, <1>6 DEF MapInv

\* So does one that has been filled by one insert after the other.
LEMMA HoldingInv ==
  ASSUME Unused, NEW l \in Lists, NEW N \in SUBSET Nodes, NEW vh, NEW c \in 1..MaxBuckets, Holding(l, N, vh, c),
         KeysOnce(vh, N), \A n \in N : vh[n] \in [key : Keys, value : Values]
  PROVE  MapInv
<1>1. /\ WritersFit /\ Exclusive /\ ReadersFit
      /\ writer \in [Writers -> WriterStates] /\ reader \in [Readers -> ReaderStates]
      /\ calls \in 0..MaxCalls /\ m_ \in Maybe(Writers) /\ seen \in [Readers -> SUBSET Maybe(Values)]
      /\ \A t \in Writers : writer[t].old = None
  BY UnusedFits
<1>2. /\ \A n \in N : state[n] = "live" /\ next_[n] = Below(N, vh, c, n) /\ refcount_[n] = 1 /\ value_holder_[n] = vh[n]
      /\ \A n \in Nodes \ N : state[n] = "free" /\ next_[n] = None /\ refcount_[n] = 0
      /\ state[l] = "live" /\ \A x \in Lists : x # l => state[x] = "free" /\ list[x] = Blank
      /\ list[l] = [count |-> c, heads |-> TopOf(N, vh, c)] /\ list = [x \in Lists |-> list[x]]
      /\ bucket_list_ = l /\ size_ = Cardinality(N)
  BY Constants DEF Holding
<1>3. c \in Nat \ {0}
  BY HashMapAssumption
<1>4. PICK L : L = list[l]
  OBVIOUS
<1>5. PICK next : next = next_
  OBVIOUS
<1>6. Wired(L, next, vh, N) /\ \A n \in N : next[n] # None => next[n] < n
  <2>1. Stacked(L, next, vh, N)
    BY <1>2, <1>3, <1>4, <1>5 DEF Stacked
  <2> QED
    BY <2>1, WiredCopy
<1>7. Wired(L, next, value_holder_, N)
  <2>1. HeadsIn(L, value_holder_, N)
    BY <1>2, <1>6 DEF Wired, HeadsIn, Bucket
  <2>2. ChainsIn(L, next, value_holder_, N)
    BY <1>2, <1>6 DEF Wired, ChainsIn, Bucket
  <2>3. KeysOnce(value_holder_, N)
    BY <1>2 DEF KeysOnce
  <2> QED
    BY <1>6, <2>1, <2>2, <2>3 DEF Wired
<1>8. TypeOK
  <2>1. /\ Blank \in [count : {1}, heads : [1..1 -> Maybe(Nodes)]] /\ 1 \in 1..MaxBuckets
    <3>1. <<None>> \in [1..1 -> Maybe(Nodes)]
      BY DEF Maybe
    <3> QED
      BY <3>1, HashMapAssumption DEF Blank
  <2>2. L \in [count : {c}, heads : [1..c -> Maybe(Nodes)]]
    <3>1. \A b \in 1..c : L.heads[b] \in Maybe(Nodes)
      BY <1>2, <1>4, <1>6 DEF Wired, HeadsIn, Maybe
    <3>2. L.heads = [b \in 1..c |-> L.heads[b]]
      BY <1>2, <1>4 DEF TopOf
    <3>3. L.heads \in [1..c -> Maybe(Nodes)]
      BY <3>1, <3>2
    <3> QED
      BY <1>2, <1>4, <3>3
  <2>3. ListsTyped
    BY <1>2, <1>4, <2>1, <2>2 DEF ListsTyped
  <2>4. size_ \in 0..Cardinality(Keys)
    BY <1>2, SizeFits
  <2>5. next_ \in [Nodes -> Maybe(Nodes)]
    <3>1. \A n \in Nodes : next_[n] \in Maybe(Nodes)
      BY <1>2, <1>5, <1>6 DEF Wired, ChainsIn, Maybe
    <3>2. next_ = [n \in Nodes |-> next_[n]]
      BY DEF Holding
    <3> QED
      BY <3>1, <3>2
  <2>6. refcount_ \in [Nodes -> Nat] /\ state \in [Nodes \cup Lists -> {"free", "live", "retired"}]
    BY DEF Holding
  <2>7. value_holder_ \in [Nodes -> [key : Maybe(Keys), value : Maybe(Values)]]
    BY DEF Holding, NoValue, Maybe
  <2>8. bucket_list_ \in Maybe(Lists) /\ use \in {"shared", "single"} /\ load_factor_cnt_threshold_ \in Nat
    <3>1. load_factor_cnt_threshold_ = Threshold(c)
      BY DEF Holding
    <3> QED
      BY <1>2, <1>3, <3>1 DEF Unused, Threshold, Maybe
  <2> QED
    BY <1>1, <2>3, <2>4, <2>5, <2>6, <2>7, <2>8 DEF TypeOK, ListsTyped, WriterStates, ReaderStates
<1>9. PICK rank : Ranked(next_, rank)
  <2> DEFINE rank == [n \in Nodes |-> n]
  <2>1. rank \in [Nodes -> Nat]
    BY Constants
  <2>2. ASSUME NEW n \in Nodes, next_[n] # None PROVE rank[next_[n]] < rank[n]
    <3>1. n \in N
      BY <1>2, <2>2
    <3>2. next_[n] \in Nodes /\ next_[n] < n
      BY <1>5, <1>6, <2>2, <3>1 DEF Wired, ChainsIn
    <3> QED
      BY <3>2
  <2>3. Ranked(next_, rank)
    BY <2>1, <2>2 DEF Ranked
  <2> QED
    BY <2>3
<1>10. Memory
  <2>1. ASSUME NEW n \in N PROVE Cardinality(Holders(n)) = 1
    <3>1. /\ \A m \in Nodes \ N : next_[m] # n
          /\ \A x \in Lists : x # l => state[x] = "free"
          /\ \A u \in Writers : writer[u].old # n
          /\ n # None
      BY <1>1, <1>2, Constants
    <3>2. ASSUME NEW b \in 1..L.count, L.heads[b] = n PROVE Holders(n) = {l}
      <4>1. \A m \in N : next_[m] # n
        BY <1>5, <1>6, <3>1, <3>2 DEF Wired, OnePrev
      <4>2. n \in Heads(l) /\ state[l] # "free"
        BY <1>2, <1>4, <3>2 DEF Heads
      <4> QED
        BY <3>1, <4>1, <4>2 DEF Holders
    <3>3. ASSUME NEW m \in N, next_[m] = n PROVE Holders(n) = {m}
      <4>1. \A p \in N : next_[p] = n => p = m
        BY <1>5, <1>6, <3>1, <3>3 DEF Wired, OnePrev
      <4>2. n \notin Heads(l)
        BY <1>4, <1>5, <1>6, <3>1, <3>3 DEF Wired, OnePrev, Heads
      <4>3. state[m] # "free" /\ m \in Nodes
        BY <1>2
      <4> QED
        BY <3>1, <3>3, <4>1, <4>2, <4>3 DEF Holders
    <3>4. \E p : Holders(n) = {p}
      BY <1>5, <1>6, <3>2, <3>3 DEF Wired, HasPrev
    <3> QED
      BY <3>4, FS_Singleton
  <2>2. ASSUME NEW n \in Nodes \ N PROVE Holders(n) = {}
    <3>1. \A m \in Nodes : state[m] # "free" => next_[m] # n
      BY <1>2, <1>5, <1>6, Constants DEF Wired, ChainsIn
    <3>2. n \notin Heads(l)
      BY <1>4, <1>6, Constants DEF Wired, HeadsIn, Heads
    <3>3. \A u \in Writers : writer[u].old # n
      BY <1>1, Constants
    <3> QED
      BY <1>2, <3>1, <3>2, <3>3 DEF Holders
  <2>3. RefcountExact
    <3>1. ASSUME NEW n \in Nodes PROVE refcount_[n] = Cardinality(Holders(n))
      <4>1. CASE n \in N
        BY <1>2, <2>1, <4>1
      <4>2. CASE n \notin N
        BY <1>2, <2>2, <4>2, FS_EmptySet
      <4> QED
        BY <4>1, <4>2
    <3> QED
      BY <3>1 DEF RefcountExact
  <2>4. Living
    <3>1. \A n \in N : state[n] = "live" /\ refcount_[n] # 0
      BY <1>2
    <3> QED
      BY <1>2, <3>1 DEF Living
  <2>5. Contents
    BY <1>2 DEF Contents
  <2> QED
    BY <1>9, <2>3, <2>4, <2>5 DEF Memory, Acyclic
<1>11. Current
  <2>1. IsList(list[l]) /\ Heads(l) = HeadsOf(list[l]) /\ next_ \in [Nodes -> Maybe(Nodes)]
    BY <1>8, ListTypes DEF TypeOK
  <2>2. Members(l) = N
    BY <1>4, <1>5, <1>7, <1>9, <2>1, WiredReach DEF Members
  <2>3. l # None
    BY Constants
  <2> QED
    BY <1>2, <1>4, <1>5, <1>7, <2>2, <2>3 DEF Current, InList, Members, Linked
<1>12. Accounted
  BY <1>2 DEF Accounted
<1> QED
  BY <1>1, <1>8, <1>10, <1>11, <1>12 DEF MapInv

\* These are the initial states.
LEMMA InitInv == Init => MapInv
<1> SUFFICES ASSUME Init PROVE MapInv
  OBVIOUS
<1>1. Unused
  BY DEF Init, Unused
<1>2. CASE Empty
  BY <1>1, <1>2, EmptyInv
<1>3. ASSUME NEW l \in Lists, NEW order \in Bijection(1..Cardinality(Keys), Keys),
             DOMAIN order \subseteq Nodes,
             Holding(l, DOMAIN order, [n \in DOMAIN order |-> [key |-> order[n], value |-> 0]], MaxBuckets \div 2)
      PROVE  MapInv
  <2>1. PICK N \in SUBSET Nodes : N = DOMAIN order
    BY <1>3
  <2>2. PICK vh : vh = [n \in N |-> [key |-> order[n], value |-> 0]]
    OBVIOUS
  <2>3. PICK c \in 1..MaxBuckets : c = MaxBuckets \div 2
    BY HashMapAssumption
  <2>4. Holding(l, N, vh, c)
    BY <1>3, <2>1, <2>2, <2>3
  <2>5. order \in [N -> Keys] /\ \A m, n \in N : order[m] = order[n] => m = n
    BY <2>1 DEF Bijection, Injection, IsInjective
  <2>6. \A n \in N : vh[n] = [key |-> order[n], value |-> 0]
    BY <2>2
  <2>7. 0 \in Values
    BY HashMapAssumption DEF Values
  <2>8. ASSUME NEW n \in N
        PROVE  vh[n].key = order[n] /\ order[n] \in Keys /\ vh[n] \in [key : Keys, value : Values]
    <3>1. PICK k \in Keys : k = order[n]
      BY <2>5
    <3>2. [key |-> k, value |-> 0] \in [key : Keys, value : Values]
      BY <2>7
    <3>3. PICK v : v = [key |-> k, value |-> 0]
      OBVIOUS
    <3>4. v.key = k /\ v \in [key : Keys, value : Values]
      BY <3>2, <3>3
    <3>5. vh[n] = v
      BY <2>6, <3>1, <3>3
    <3> QED
      BY <3>1, <3>4, <3>5
  <2>9. KeysOnce(vh, N)
    BY <2>5, <2>8 DEF KeysOnce
  <2> QED
    BY <1>1, <2>4, <2>8, <2>9, HoldingInv
<1> QED
  BY <1>2, <1>3 DEF Init
-----------------------------------------------------------------------------
(* All steps.                                                              *)

\* A step that changes nothing.
LEMMA StutterInv ==
  ASSUME MapInv, UNCHANGED vars PROVE MapInv'
<1>1. /\ UNCHANGED <<use, state, nodeVars, list, mapVars, m_, writer>>
      /\ reader' = reader /\ seen' = seen /\ calls' = calls
  BY DEF vars
<1>2. TypeOK'
  <2>1. TypeOK
    BY DEF MapInv
  <2> QED
    BY <1>1, <2>1 DEF TypeOK, nodeVars, mapVars
<1>3. Memory' /\ Current' /\ WritersFit' /\ Exclusive' /\ Accounted'
  BY <1>1, <1>2, ReaderFrame
<1>4. \A q \in Readers : ReaderHolds(q)' /\ ReaderKnows(q)'
  BY <1>1, <1>2, OtherReaders
<1> QED
  BY <1>2, <1>3, <1>4 DEF MapInv, ReadersFit

\* Every step preserves the invariant.
LEMMA NextInv == MapInv /\ [Next]_vars => MapInv'
<1> SUFFICES ASSUME MapInv, [Next]_vars PROVE MapInv'
  OBVIOUS
<1>1. CASE UNCHANGED vars
  BY <1>1, StutterInv
<1>2. ASSUME NEW t \in Writers, NEW k \in Keys, Insert(t, k) PROVE MapInv'
  BY <1>2, InsertStep
<1>3. ASSUME NEW t \in Writers, NEW k \in Keys, Erase(t, k) PROVE MapInv'
  BY <1>3, EraseStep
<1>4. ASSUME NEW t \in Writers, NEW c \in Reserves, Reserve(t, c) PROVE MapInv'
  BY <1>4, ReserveStep
<1>5. ASSUME NEW t \in Writers, CasSegment(t) PROVE MapInv'
  BY <1>5, CasStep
<1>6. ASSUME NEW t \in Writers, InsertRehash(t) PROVE MapInv'
  BY <1>6, RehashStep
<1>7. ASSUME NEW t \in Writers, Swap(t) PROVE MapInv'
  BY <1>7, SwapStep
<1>8. ASSUME NEW t \in Writers, Link(t) PROVE MapInv'
  BY <1>8, LinkStep
<1>9. ASSUME NEW t \in Writers, Release(t) PROVE MapInv'
  BY <1>9, ReleaseStep
<1>10. ASSUME NEW t \in Writers, Clear(t) PROVE MapInv'
  BY <1>10, ClearStep
<1>11. ASSUME NEW t \in Writers, ClearStore(t) PROVE MapInv'
  BY <1>11, ClearStoreStep
<1>12. ASSUME NEW t \in Writers, ClearRetire(t) PROVE MapInv'
  BY <1>12, ClearRetireStep
<1>13. ASSUME NEW r \in Readers, NEW k \in Keys, Find(r, k) PROVE MapInv'
  BY <1>13, FindStep
<1>14. ASSUME NEW r \in Readers, Protect(r) PROVE MapInv'
  BY <1>14, ProtectStep
<1>15. ASSUME NEW r \in Readers, DropIterator(r) PROVE MapInv'
  BY <1>15, DropIteratorStep
<1>16. ASSUME NEW o \in Nodes \cup Lists, Delete(o) PROVE MapInv'
  BY <1>16, DeleteStep
<1> QED
  BY <1>1, <1>2, <1>3, <1>4, <1>5, <1>6, <1>7, <1>8, <1>9, <1>10, <1>11, <1>12, <1>13, <1>14, <1>15, <1>16 DEF Next

\* The inductive invariant of the map holds, whatever writers, finders and
\* the deletion of retired memory do and in whatever order.
THEOREM HashMapInvariance == Spec => []MapInv
<1> QED
  BY InitInv, NextInv, PTL DEF Spec

\* get_protected of hazptr.hpp as find uses it: the list and the node under a
\* finder, and under an iterator, are never freed.
THEOREM HashMapFinderOnLiveMemory == Spec => []FinderOnLiveMemory
<1>1. MapInv => FinderOnLiveMemory
  BY DEF MapInv, ReadersFit, ReaderHolds, FinderOnLiveMemory
<1> QED
  BY <1>1, HashMapInvariance, PTL

\* acquire and release of NodeT: a count is the number of references to the
\* node there are, in lists, in nodes and in the hands of writers.
THEOREM HashMapRefcountExact == Spec => []RefcountExact
<1>1. MapInv => RefcountExact
  BY DEF MapInv, Memory
<1> QED
  BY <1>1, HashMapInvariance, PTL

\* find: what it answers was so at a moment between its call and its return.
THEOREM HashMapFindAnswersInTime == Spec => []FindAnswersInTime
<1>1. MapInv => FindAnswersInTime
  BY DEF MapInv, ReadersFit, ReaderKnows, FindAnswersInTime
<1> QED
  BY <1>1, HashMapInvariance, PTL

\* A walk that goes down in rank does not come back to its node.
LEMMA NoReturn ==
  ASSUME NEW next \in [Nodes -> Maybe(Nodes)], NEW rank, Ranked(next, rank), NEW n \in Nodes
  PROVE  n \notin Reach(next, {next[n]})
<1> DEFINE S == {m \in Nodes : rank[m] < rank[n]}
<1>1. Closed(next, S)
  <2>1. ASSUME NEW m \in S, next[m] # None PROVE next[m] \in S
    <3>1. next[m] \in Nodes /\ rank[next[m]] < rank[m] /\ rank[m] < rank[n]
      BY <2>1 DEF Ranked, Maybe
    <3>2. rank[next[m]] \in Nat /\ rank[m] \in Nat /\ rank[n] \in Nat
      BY <3>1 DEF Ranked
    <3> QED
      BY <3>1, <3>2
  <2> QED
    BY <2>1 DEF Closed
<1>2. S \in SUBSET Nodes /\ {next[n]} \in SUBSET Maybe(Nodes)
  OBVIOUS
<1>3. \A h \in {next[n]} : h # None => h \in S
  BY DEF Ranked, Maybe
<1>4. n \notin S
  BY DEF Ranked
<1> HIDE DEF S
<1>5. Reach(next, {next[n]}) \subseteq S
  BY <1>1, <1>2, <1>3, ReachLeast
<1> QED
  BY <1>4, <1>5

\* insert, erase, rehash and clear: with the mutex free, the size is the number
\* of elements, keys are unique and in their buckets, and no walk is endless.
THEOREM HashMapWellFormed == Spec => []MapWellFormed
<1>1. ASSUME MapInv PROVE MapWellFormed
  <2>1. TypeOK /\ Memory /\ next_ \in [Nodes -> Maybe(Nodes)]
    BY <1>1 DEF MapInv, TypeOK
  <2>2. PICK rank : Ranked(next_, rank)
    BY <2>1 DEF Memory, Acyclic
  <2>3. ASSUME bucket_list_ # None
        PROVE  /\ size_ = Cardinality(InList)
               /\ \A m, n \in InList : value_holder_[m].key = value_holder_[n].key => m = n
               /\ \A b \in 1..list[bucket_list_].count : list[bucket_list_].heads[b] # None =>
                    \A n \in Chain(bucket_list_, b) : BucketId(value_holder_[n].key, list[bucket_list_].count) = b
               /\ \A n \in InList : n \notin Reach(next_, {next_[n]})
    <3>1. PICK L : L = list[bucket_list_]
      OBVIOUS
    <3>2. /\ IsList(L) /\ Wired(L, next_, value_holder_, InList) /\ InList \in SUBSET Nodes
          /\ size_ = Cardinality(InList)
      BY <1>1, <2>3, <3>1, CurrentIs
    <3>3. \A b \in 1..L.count : Reach(next_, {L.heads[b]}) = {n \in InList : Bucket(value_holder_, n, L.count) = b}
      BY <2>1, <2>2, <3>2, WiredChain
    <3>4. \A b \in 1..L.count : \A n \in Chain(bucket_list_, b) : BucketId(value_holder_[n].key, L.count) = b
      BY <3>1, <3>3 DEF Chain, Bucket
    <3>5. \A m, n \in InList : value_holder_[m].key = value_holder_[n].key => m = n
      BY <3>2 DEF Wired, KeysOnce
    <3>6. \A n \in InList : n \notin Reach(next_, {next_[n]})
      BY <2>1, <2>2, <3>2, NoReturn
    <3> QED
      BY <3>1, <3>2, <3>4, <3>5, <3>6
  <2> QED
    BY <2>1, <2>3 DEF MapWellFormed
<1> QED
  BY <1>1, HashMapInvariance, PTL

\* release, ~NodeT and ~BucketList: when the writers are done and what was
\* retired is deleted, no node is in memory that is not in the map.
THEOREM HashMapNothingLeaked == Spec => []NothingLeaked
<1>1. ASSUME MapInv, \A t \in Writers : writer[t].at = "idle", \A o \in Nodes \cup Lists : state[o] # "retired"
      PROVE  {n \in Nodes : state[n] # "free"} = InList
  <2>1. TypeOK /\ Memory /\ Accounted
    BY <1>1 DEF MapInv
  <2>2. InList \subseteq {n \in Nodes : state[n] # "free"}
    <3>1. CASE bucket_list_ = None
      BY <3>1 DEF InList
    <3>2. CASE bucket_list_ # None
      BY <1>1, <3>2, CurrentIs DEF InUse
    <3> QED
      BY <3>1, <3>2
  <2> DEFINE S == {n \in Nodes : state[n] # "free"} \ InList
  <2>3. ASSUME S # {} PROVE FALSE
    <3>1. PICK rank : Ranked(next_, rank)
      BY <2>1 DEF Memory, Acyclic
    <3>2. PICK n \in S : \A p \in S : next_[p] # n
      <4>1. S \in SUBSET Nodes
        OBVIOUS
      <4> HIDE DEF S
      <4> QED
        BY <2>3, <3>1, <4>1, Source
    <3>3. n \in Nodes /\ state[n] = "live" /\ n \notin InList /\ n # None
      BY <1>1, <2>1, Constants DEF TypeOK
    <3>4. Holders(n) # {}
      BY <2>1, <3>3, FS_EmptySet DEF Memory, Living, RefcountExact
    <3>5. \A t \in Writers : writer[t].old # n
      BY <1>1, <3>3 DEF MapInv, WritersFit, WriterFits
    <3>6. ASSUME NEW m \in Nodes, state[m] # "free", next_[m] = n PROVE FALSE
      <4>1. m \in InList
        BY <3>2, <3>6
      <4>2. bucket_list_ # None
        BY <4>1 DEF InList
      <4>3. ChainsIn(list[bucket_list_], next_, value_holder_, InList)
        BY <1>1, <4>2, CurrentIs DEF Wired
      <4> QED
        BY <3>3, <3>6, <4>1, <4>3 DEF ChainsIn
    <3>7. ASSUME NEW l \in Lists, state[l] # "free", n \in Heads(l) PROVE FALSE
      <4>1. PICK b \in 1..list[l].count : list[l].heads[b] = n
        BY <3>7 DEF Heads
      <4>2. state[l] = "live"
        BY <1>1, <2>1, <3>7 DEF TypeOK
      <4>3. CASE l = bucket_list_
        <5>1. HeadsIn(list[bucket_list_], value_holder_, InList)
          BY <1>1, <4>3, Constants, CurrentIs DEF Wired
        <5> QED
          BY <3>3, <4>1, <4>3, <5>1 DEF HeadsIn
      <4>4. CASE l # bucket_list_
        <5>1. ~Bare(l)
          BY <3>3, <4>1 DEF Bare
        <5>2. InWork(l)
          BY <2>1, <4>2, <4>4, <5>1 DEF Accounted
        <5> QED
          BY <1>1, <5>2 DEF InWork
      <4> QED
        BY <4>3, <4>4
    <3> QED
      BY <3>4, <3>5, <3>6, <3>7 DEF Holders
  <2> QED
    BY <2>2, <2>3
<1>2. MapInv => NothingLeaked
  BY <1>1 DEF NothingLeaked
<1> QED
  BY <1>2, HashMapInvariance, PTL
=============================================================================
