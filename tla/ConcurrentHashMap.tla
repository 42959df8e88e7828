------------------------- MODULE ConcurrentHashMap -------------------------
(* One segment of rcu::ConcurrentHashMap (concurrent_hashmap.h and          *)
(* concurrent_hashmap_detail.h), which is the whole map for ShardBits = 0,  *)
(* from the creation of the segment on.  Writers change the bucket lists    *)
(* under the segment's mutex; find walks them with hazard pointers and no   *)
(* lock.  Every node counts its references (uint16_t, never near 2^16       *)
(* here); the last release retires it, and the hazard pointers of           *)
(* hazptr.hpp (module Hazptr) delete what is retired and not published.     *)
(* Hashes and the arguments of reserve are given shifted by ShardBits.  The *)
(* code masks a hash with count - 1, which is Hash % count for the powers   *)
(* of two PowersAssumption asks for: the constructor rounds up to one, but  *)
(* reserve takes any number, and one that is no power of two, or is shifted *)
(* to 0, is outside the model.                                              *)
EXTENDS Naturals, FiniteSets, Functions
CONSTANTS Writers, Readers, Keys, Nodes, Lists, None,
          Hash,         \* HashFn()(key) >> ShardBits
          InitBuckets,  \* bucket counts a segment may be created with
          Reserves,     \* bucket counts reserve may be called with
          MaxBuckets,   \* bound on the bucket count of a list
          MaxCalls      \* bound on the number of writing calls

ASSUME HashMapAssumption ==
    /\ Hash \in [Keys -> Nat] /\ IsFiniteSet(Keys)
    /\ MaxCalls \in Nat /\ MaxBuckets \in Nat \ {0, 1}
    /\ InitBuckets \cup Reserves \subseteq 1..MaxBuckets
    /\ Nodes \subseteq Nat /\ Lists \subseteq Nat
    /\ IsFiniteSet(Nodes) /\ IsFiniteSet(Lists) /\ IsFiniteSet(Writers)
    /\ Nodes \cap Lists = {} /\ (Nodes \cup Lists) \cap Writers = {}
    /\ None \notin Keys \cup Nodes \cup Lists \cup Writers \cup (0..MaxCalls)

\* Bucket counts are powers of two, so that count - 1 is a mask.
IsPowerOfTwo(c) == \E i \in 0..c : c = 2^i
ASSUME PowersAssumption == \A c \in InitBuckets \cup Reserves \cup {MaxBuckets} : IsPowerOfTwo(c)

VARIABLES
    use,          \* "shared": several threads insert and erase;
                  \* "single": one thread calls everything, clear and reserve too
    state,        \* of every node and bucket list: free, live or retired
    next_, refcount_, value_holder_,     \* of every node
    list,         \* of every BucketList: buckets_count_ and buckets_
    bucket_list_, \* None until the segment exists
    size_, load_factor_cnt_threshold_, m_,
    writer, reader,
    calls,        \* number of writing calls so far
    seen          \* auxiliary: what the searched key mapped to since find began

nodeVars == <<next_, refcount_, value_holder_>>
mapVars == <<bucket_list_, size_, load_factor_cnt_threshold_>>
vars == <<use, state, nodeVars, list, mapVars, m_, writer, reader, calls, seen>>

\* Every insert brings a value of its own: the number of the call.
Values == 0..MaxCalls
Maybe(S) == S \cup {None}
Free(S) == {o \in S : state[o] = "free"}
\* The allocator hands out the lowest free address, if there is one.
New(S) == {o \in Free(S) : \A p \in Free(S) : o <= p}
NoValue == [key |-> None, value |-> None]
Blank == [count |-> 1, heads |-> <<None>>]
Buckets(c) == [count |-> c, heads |-> [b \in 1..c |-> None]]
Threshold(c) == (c * 105) \div 100
BucketId(k, c) == (Hash[k] % c) + 1

\* The nodes a walk along next pointers comes to from those in H: the least
\* set of nodes with H in it that no pointer leads out of.
Reach(next, H) ==
    LET from == H \ {None}
        around == {S \in SUBSET Nodes : from \subseteq S /\ \A n \in S : next[n] \in S \/ next[n] = None}
    IN  {n \in Nodes : \A S \in around : n \in S}
Heads(l) == {list[l].heads[b] : b \in 1..list[l].count}
Chain(l, b) == Reach(next_, {list[l].heads[b]})
InList == IF bucket_list_ = None THEN {} ELSE Reach(next_, Heads(bucket_list_))
\* The walk along the bucket of a key.
With(k) == {n \in Chain(bucket_list_, BucketId(k, list[bucket_list_].count)) :
                value_holder_[n].key = k}
\* What the map holds under a key.
Lookup(k) == LET with == With(k) IN
             IF with = {} THEN None ELSE value_holder_[CHOOSE n \in with : TRUE].value
Idle == [at |-> "idle", key |-> None, value |-> None, new |-> None, old |-> None]
Away == [at |-> "idle", key |-> None, ptr |-> None, list |-> None, node |-> None,
         holder_bucket |-> None, holder_node |-> None, holder_next |-> None]

\* The last node of a set: the one pushed last, as addresses ascend.
Highest(S) == IF S = {} THEN None ELSE CHOOSE n \in S : \A m \in S : m <= n
\* Nodes pushed one after the other, in ascending order, on c empty buckets by
\* the keys vh gives them: what is on top, and what each of them points to.
Pushed(S, vh, b, c) == {n \in S : BucketId(vh[n].key, c) = b}
TopOf(S, vh, c) == [b \in 1..c |-> Highest(Pushed(S, vh, b, c))]
Below(S, vh, c, n) == Highest({m \in Pushed(S, vh, BucketId(vh[n].key, c), c) : m < n})

\* A map with nothing in it, not even the segment.
Empty ==
    /\ state = [o \in Nodes \cup Lists |-> "free"]
    /\ next_ = [n \in Nodes |-> None]
    /\ refcount_ = [n \in Nodes |-> 0]
    /\ value_holder_ = [n \in Nodes |-> NoValue]
    /\ list = [l \in Lists |-> Blank]
    /\ bucket_list_ = None /\ size_ = 0 /\ load_factor_cnt_threshold_ = 0
\* A map whose keys have been inserted in some order, one node after the other,
\* into a list l of c buckets.
Holding(l, N, vh, c) ==
    /\ state = [o \in Nodes \cup Lists |-> IF o \in N \cup {l} THEN "live" ELSE "free"]
    /\ next_ = [n \in Nodes |-> IF n \in N THEN Below(N, vh, c, n) ELSE None]
    /\ refcount_ = [n \in Nodes |-> IF n \in N THEN 1 ELSE 0]
    /\ value_holder_ = [n \in Nodes |-> IF n \in N THEN vh[n] ELSE NoValue]
    /\ list = [x \in Lists |-> IF x = l THEN [count |-> c, heads |-> TopOf(N, vh, c)] ELSE Blank]
    /\ bucket_list_ = l
    /\ size_ = Cardinality(N)
    /\ load_factor_cnt_threshold_ = Threshold(c)

Init ==
    /\ use \in {"shared", "single"}
    /\ \/ Empty
       \/ \E l \in Lists, order \in Bijection(1..Cardinality(Keys), Keys) :
            /\ \A x \in Lists : l <= x
            /\ DOMAIN order \subseteq Nodes
            /\ Holding(l, DOMAIN order, [n \in DOMAIN order |-> [key |-> order[n], value |-> 0]],
                       MaxBuckets \div 2)
    /\ m_ = None
    /\ writer = [t \in Writers |-> Idle]
    /\ reader = [r \in Readers |-> Away]
    /\ calls = 0
    /\ seen = [r \in Readers |-> {}]

\* Every finder under way learns what its key maps to after this step.
Observe ==
    seen' = [r \in Readers |-> IF reader[r].at \in {"list", "head", "next"}
                               THEN seen[r] \cup {Lookup(reader[r].key)'} ELSE seen[r]]
Call(t, ops) ==
    /\ writer[t].at = "idle" /\ calls < MaxCalls
    /\ use = "single" => t = CHOOSE w \in Writers : TRUE
    /\ use = "shared" => ops = "keyed"
    /\ calls' = calls + 1
\* Where writer t goes on, and with what.
Goto(t, at, k, v, new, old) ==
    writer' = [writer EXCEPT ![t] = [at |-> at, key |-> k, value |-> v, new |-> new, old |-> old]]
-----------------------------------------------------------------------------
(* Writers *)

\* insert, emplace: ensureSegment finds the segment, or builds one.
Insert(t, k) ==
    /\ Call(t, "keyed")
    /\ \/ /\ bucket_list_ # None
          /\ Goto(t, "lock", k, calls', None, None)
          /\ UNCHANGED <<state, list>>
       \/ /\ bucket_list_ = None
          /\ \E l \in New(Lists), c \in InitBuckets :
                /\ state' = [state EXCEPT ![l] = "live"]
                /\ list' = [list EXCEPT ![l] = Buckets(c)]
                /\ Goto(t, "cas", k, calls', l, None)
    /\ UNCHANGED <<use, nodeVars, mapVars, m_, reader, seen>>

\* The loser destroys its segment, whose bucket list stays behind.
CasSegment(t) ==
    /\ writer[t].at = "cas"
    /\ \/ /\ bucket_list_ = None
          /\ bucket_list_' = writer[t].new
          /\ load_factor_cnt_threshold_' = Threshold(list[writer[t].new].count)
       \/ bucket_list_ # None /\ UNCHANGED <<bucket_list_, load_factor_cnt_threshold_>>
    /\ Goto(t, "lock", writer[t].key, writer[t].value, None, None)
    /\ UNCHANGED <<use, state, nodeVars, list, size_, m_, reader, calls, seen>>

\* The loops of rehash come to m and later to n.
Before(m, n) ==
    \E b \in 1..list[bucket_list_].count :
        /\ m \in Chain(bucket_list_, b)
        /\ \/ n \in Reach(next_, {next_[m]})
           \/ \E d \in 1..list[bucket_list_].count : d > b /\ n \in Chain(bucket_list_, d)
\* The nodes allocated for the copies, one after the other.
Copies == {f \in Injection(InList, Free(Nodes)) :
            /\ \A m, n \in InList : Before(m, n) => f[m] < f[n]
            /\ \A n \in InList : \A o \in Free(Nodes) \ Range(f) : f[n] < o}

\* rehash up to the store: a new list of c buckets with copies of all nodes.
Copy(t, c) ==
    /\ c <= MaxBuckets
    /\ load_factor_cnt_threshold_' = Threshold(c)
    /\ \E l \in New(Lists), f \in Copies :
        LET N == Range(f) IN
        /\ state' = [o \in DOMAIN state |-> IF o \in N \cup {l} THEN "live" ELSE state[o]]
        /\ refcount_' = [n \in Nodes |-> IF n \in N THEN 1 ELSE refcount_[n]]
        /\ value_holder_' = [n \in Nodes |-> IF n \in N
                THEN value_holder_[CHOOSE o \in InList : f[o] = n] ELSE value_holder_[n]]
        /\ next_' = [n \in Nodes |-> IF n \in N THEN Below(N, value_holder_', c, n) ELSE next_[n]]
        /\ list' = [list EXCEPT ![l] = [count |-> c, heads |-> TopOf(N, value_holder_', c)]]
        /\ Goto(t, "swap", writer[t].key, writer[t].value, l, bucket_list_)

InsertRehash(t) ==
    /\ writer[t].at = "lock" /\ m_ = None
    /\ size_ >= load_factor_cnt_threshold_
    /\ m_' = t
    /\ Copy(t, 2 * list[bucket_list_].count)
    /\ UNCHANGED <<use, bucket_list_, size_, reader, calls, seen>>

\* reserve rehashes without the mutex; c is capacity >> ShardBits.
Reserve(t, c) ==
    /\ Call(t, "whole") /\ bucket_list_ # None
    /\ Copy(t, c)
    /\ UNCHANGED <<use, bucket_list_, size_, m_, reader, seen>>

\* The end of rehash: install the new list, retire the old one.
Swap(t) ==
    /\ writer[t].at = "swap"
    /\ bucket_list_' = writer[t].new
    /\ state' = [state EXCEPT ![writer[t].old] = "retired"]
    /\ \/ m_ = t /\ Goto(t, "link", writer[t].key, writer[t].value, None, None)
       \/ m_ # t /\ writer' = [writer EXCEPT ![t] = Idle]
    /\ UNCHANGED <<use, nodeVars, list, size_, load_factor_cnt_threshold_, m_, reader, calls, seen>>

\* prev->store(y), where prev is the bucket or the node that points to x.
StorePrev(k, x, y, next) ==
    LET b == BucketId(k, list[bucket_list_].count)
        M == InList IN
    /\ list' = [list EXCEPT ![bucket_list_].heads[b] = IF @ = x THEN y ELSE @]
    /\ next_' = [n \in Nodes |-> IF n \in M /\ next_[n] = x THEN y ELSE next[n]]
\* Mutation: the successor is not acquired.
AcquireNot(n) == refcount_
Acquire(n) == [m \in Nodes |-> IF m = n THEN refcount_[m] + 1 ELSE refcount_[m]]

\* insert_internal behind the rehash: replace the key's node, or push a new
\* one on its bucket.
Link(t) ==
    LET k == writer[t].key
        b == BucketId(k, list[bucket_list_].count) IN
    /\ \/ writer[t].at = "lock" /\ m_ = None /\ size_ < load_factor_cnt_threshold_
       \/ writer[t].at = "link"
    /\ m_' = None
    /\ \E n \in New(Nodes) :
        /\ state' = [state EXCEPT ![n] = "live"]
        /\ value_holder_' = [value_holder_ EXCEPT ![n] = [key |-> k, value |-> writer[t].value]]
        /\ \/ \E x \in With(k) :
                /\ refcount_' = [Acquire(next_[x]) EXCEPT ![n] = 1]
                /\ StorePrev(k, x, n, [next_ EXCEPT ![n] = next_[x]])
                /\ size_' = size_
                /\ Goto(t, "release", None, None, None, x)
           \/ /\ With(k) = {}
              /\ refcount_' = [refcount_ EXCEPT ![n] = 1]
              /\ next_' = [next_ EXCEPT ![n] = list[bucket_list_].heads[b]]
              /\ list' = [list EXCEPT ![bucket_list_].heads[b] = n]
              /\ size_' = size_ + 1
              /\ writer' = [writer EXCEPT ![t] = Idle]
    /\ UNCHANGED <<use, bucket_list_, load_factor_cnt_threshold_, reader, calls>>
    /\ Observe

\* Mutation: the removed node is cut off from its successor.
AfterUnlink(x) == [next_ EXCEPT ![x] = None]
\* What becomes of the next pointers besides prev when x is taken out: nothing.
NextKept(x) == next_

Erase(t, k) ==
    /\ Call(t, "keyed") /\ bucket_list_ # None /\ m_ = None
    /\ \/ With(k) = {} /\ UNCHANGED <<list, next_, refcount_, size_, writer>>
       \/ \E x \in With(k) :
            /\ size_' = size_ - 1
            /\ refcount_' = Acquire(next_[x])
            /\ StorePrev(k, x, next_[x], NextKept(x))
            /\ Goto(t, "release", None, None, None, x)
    /\ UNCHANGED <<use, state, value_holder_, bucket_list_, load_factor_cnt_threshold_, m_, reader>>
    /\ Observe

\* The references in the set S are given up; the last one retires the node.
Drop(S, st) ==
    /\ refcount_' = [n \in Nodes |-> IF n \in S THEN refcount_[n] - 1 ELSE refcount_[n]]
    /\ state' = [o \in DOMAIN state |-> IF o \in S /\ refcount_[o] = 1 THEN "retired" ELSE st[o]]

\* node->release() behind the unlock.
Release(t) ==
    /\ writer[t].at = "release"
    /\ Drop({writer[t].old}, state)
    /\ writer' = [writer EXCEPT ![t] = Idle]
    /\ UNCHANGED <<use, next_, value_holder_, list, mapVars, m_, reader, calls, seen>>

\* clear reads the list and builds an empty one before it takes the mutex.
Clear(t) ==
    /\ Call(t, "whole") /\ bucket_list_ # None
    /\ \E l \in New(Lists) :
        /\ state' = [state EXCEPT ![l] = "live"]
        /\ list' = [list EXCEPT ![l] = Buckets(list[bucket_list_].count)]
        /\ Goto(t, "clear", None, None, l, bucket_list_)
    /\ UNCHANGED <<use, nodeVars, mapVars, m_, reader, seen>>

\* Mutation: clear forgets the size.
SizeKept == size_
SizeCleared == 0
ClearStore(t) ==
    /\ writer[t].at = "clear" /\ m_ = None
    /\ bucket_list_' = writer[t].new
    /\ size_' = SizeCleared
    /\ Goto(t, "retire", None, None, None, writer[t].old)
    /\ UNCHANGED <<use, state, nodeVars, list, load_factor_cnt_threshold_, m_, reader, calls>>
    /\ Observe

ClearRetire(t) ==
    /\ writer[t].at = "retire"
    /\ state' = [state EXCEPT ![writer[t].old] = "retired"]
    /\ writer' = [writer EXCEPT ![t] = Idle]
    /\ UNCHANGED <<use, nodeVars, list, mapVars, m_, reader, calls, seen>>
-----------------------------------------------------------------------------
(* Hazard pointers: what is retired and published by nobody is deleted.     *)
Published == UNION {{reader[r].holder_bucket, reader[r].holder_node, reader[r].holder_next} :
                    r \in Readers}
\* Mutation: ~BucketList releases nothing.
NodeReferences(o) == IF o \in Nodes THEN {next_[o]} \ {None} ELSE {}
\* The references ~NodeT and ~BucketList give up.
References(o) == (IF o \in Nodes THEN {next_[o]} ELSE Heads(o)) \ {None}
Delete(o) ==
    /\ state[o] = "retired" /\ o \notin Published
    /\ Drop(References(o), [state EXCEPT ![o] = "free"])
    /\ \/ /\ o \in Nodes
          /\ next_' = [next_ EXCEPT ![o] = None]
          /\ value_holder_' = [value_holder_ EXCEPT ![o] = NoValue]
          /\ UNCHANGED list
       \/ o \in Lists /\ list' = [list EXCEPT ![o] = Blank] /\ UNCHANGED <<next_, value_holder_>>
    /\ UNCHANGED <<use, mapVars, m_, writer, reader, calls, seen>>
-----------------------------------------------------------------------------
(* Readers: find, hand over hand.  get_protected loads a pointer from src,  *)
(* publishes it and starts again if src has changed; a step below publishes *)
(* and looks again, and loads the next pointer.                             *)
Src(r) == CASE reader[r].at = "list" -> bucket_list_
            [] reader[r].at = "head" -> list[reader[r].list].heads[
                                            BucketId(reader[r].key, list[reader[r].list].count)]
            [] reader[r].at = "next" -> next_[reader[r].node]
Find(r, k) ==
    /\ reader[r].at = "idle" /\ bucket_list_ # None
    /\ reader' = [reader EXCEPT ![r] = [Away EXCEPT !.at = "list", !.key = k, !.ptr = bucket_list_]]
    /\ seen' = [seen EXCEPT ![r] = {Lookup(k)}]
    /\ UNCHANGED <<use, state, nodeVars, list, mapVars, m_, writer, calls>>

\* The state of the loop with node n protected in holder_node; when find ends,
\* its own holder_next is destroyed.
At(r, rd, n) ==
    CASE n = None -> [rd EXCEPT !.at = "missed", !.node = None, !.holder_next = None]
      [] n # None /\ value_holder_[n].key = rd.key -> [rd EXCEPT !.at = "found", !.node = n, !.ptr = None,
                                                                !.holder_next = None]
      [] OTHER -> [rd EXCEPT !.at = "next", !.node = n, !.ptr = next_[n]]
Step(r) ==
    LET rd == reader[r] p == reader[r].ptr IN
    CASE rd.at = "list" ->
            [rd EXCEPT !.at = "head", !.list = p, !.holder_bucket = p,
                       !.ptr = list[p].heads[BucketId(rd.key, list[p].count)]]
      [] rd.at = "head" -> At(r, [rd EXCEPT !.holder_node = p], p)
      [] rd.at = "next" -> At(r, [rd EXCEPT !.holder_next = rd.holder_node, !.holder_node = p], p)
Lost(r) == LET rd == [reader[r] EXCEPT !.ptr = Src(r)] IN
    CASE rd.at = "list" -> [rd EXCEPT !.holder_bucket = None]
      [] rd.at = "head" -> [rd EXCEPT !.holder_node = None]
      [] rd.at = "next" -> [rd EXCEPT !.holder_next = None]
\* Mutation: try_protect does not look at src again.
ProtectUnchecked(r) ==
    /\ reader[r].at \in {"list", "head", "next"}
    /\ reader' = [reader EXCEPT ![r] = Step(r)]
    /\ UNCHANGED <<use, state, nodeVars, list, mapVars, m_, writer, calls, seen>>
Protect(r) ==
    /\ reader[r].at \in {"list", "head", "next"}
    /\ reader' = [reader EXCEPT ![r] = IF Src(r) = @.ptr THEN Step(r) ELSE Lost(r)]
    /\ UNCHANGED <<use, state, nodeVars, list, mapVars, m_, writer, calls, seen>>

\* The caller has used the iterator and destroys it with its holders.
DropIterator(r) ==
    /\ reader[r].at \in {"found", "missed"}
    /\ reader' = [reader EXCEPT ![r] = Away]
    /\ seen' = [seen EXCEPT ![r] = {}]
    /\ UNCHANGED <<use, state, nodeVars, list, mapVars, m_, writer, calls>>
-----------------------------------------------------------------------------
Next ==
    \/ \E t \in Writers :
        \/ \E k \in Keys : Insert(t, k) \/ Erase(t, k)
        \/ \E c \in Reserves : Reserve(t, c)
        \/ CasSegment(t) \/ InsertRehash(t) \/ Swap(t) \/ Link(t) \/ Release(t)
        \/ Clear(t) \/ ClearStore(t) \/ ClearRetire(t)
    \/ \E r \in Readers : (\E k \in Keys : Find(r, k)) \/ Protect(r) \/ DropIterator(r)
    \/ \E o \in Nodes \cup Lists : Delete(o)
Spec == Init /\ [][Next]_vars
-----------------------------------------------------------------------------
(* Properties *)

\* The variables keep their types; in particular no reference count is ever
\* decremented below zero, which uint16_t would turn into 65535.
TypeOK ==
    /\ use \in {"shared", "single"}
    /\ state \in [Nodes \cup Lists -> {"free", "live", "retired"}]
    /\ next_ \in [Nodes -> Maybe(Nodes)]
    /\ refcount_ \in [Nodes -> Nat]
    /\ value_holder_ \in [Nodes -> [key : Maybe(Keys), value : Maybe(Values)]]
    /\ list = [l \in Lists |-> list[l]]
    /\ \A l \in Lists : \E c \in 1..MaxBuckets :
            list[l] \in [count : {c}, heads : [1..c -> Maybe(Nodes)]]
    /\ bucket_list_ \in Maybe(Lists) /\ m_ \in Maybe(Writers)
    /\ size_ \in 0..Cardinality(Keys) /\ load_factor_cnt_threshold_ \in Nat
    /\ writer \in [Writers -> [at : {"idle", "cas", "lock", "swap", "link", "release", "clear", "retire"},
                               key : Maybe(Keys), value : Maybe(Values),
                               new : Maybe(Lists), old : Maybe(Nodes \cup Lists)]]
    /\ reader \in [Readers -> [at : {"idle", "list", "head", "next", "found", "missed"},
                               key : Maybe(Keys), ptr : Maybe(Nodes \cup Lists),
                               list : Maybe(Lists), node : Maybe(Nodes), holder_bucket : Maybe(Lists),
                               holder_node : Maybe(Nodes), holder_next : Maybe(Nodes)]]
    /\ calls \in 0..MaxCalls
    /\ seen \in [Readers -> SUBSET Maybe(Values)]

\* The bucket list and the node a finder stands on, and the node an iterator
\* refers to, are not deleted under it, whatever writers erase, replace,
\* rehash and clear meanwhile.
FinderOnLiveMemory ==
    \A r \in Readers : \A o \in {reader[r].list, reader[r].node} \ {None} : state[o] # "free"

\* A reference count is the number of references there really are: buckets
\* and nodes not yet deleted that point to the node, and writers that have
\* unlinked it and not yet released it.
Holders(n) == {m \in Nodes : state[m] # "free" /\ next_[m] = n}
        \cup {l \in Lists : state[l] # "free" /\ n \in Heads(l)}
        \cup {t \in Writers : writer[t].old = n}
RefcountExact == \A n \in Nodes : refcount_[n] = Cardinality(Holders(n))

\* find answers with a value the key had, or with the absence it had, at some
\* time between the call and the return: walking a list that others cut,
\* extend and replace neither misses a key that was there all the time nor
\* brings back a value from before the call.
FindAnswersInTime ==
    \A r \in Readers :
        /\ reader[r].at = "found" => value_holder_[reader[r].node].value \in seen[r]
        /\ reader[r].at = "missed" => None \in seen[r]

\* Every variable has its type; with the mutex free, size_ is the number of
\* elements, every key has at most one node, in the bucket its hash selects,
\* and every walk comes to an end, across rehash and clear.
MapWellFormed ==
    /\ TypeOK
    /\ (m_ = None /\ bucket_list_ # None) =>
        LET M == InList
            bucket(n) == BucketId(value_holder_[n].key, list[bucket_list_].count) IN
        /\ size_ = Cardinality(M)
        /\ \A m, n \in M : value_holder_[m].key = value_holder_[n].key => m = n
        /\ \A b \in 1..list[bucket_list_].count :
            list[bucket_list_].heads[b] # None => \A n \in Chain(bucket_list_, b) : bucket(n) = b
        /\ \A n \in M : n \notin Reach(next_, {next_[n]})

\* Nothing leaks: when the writers are done and all that was retired has
\* been deleted, the nodes in memory are those of the map.
NothingLeaked ==
    (/\ \A t \in Writers : writer[t].at = "idle"
     /\ \A o \in Nodes \cup Lists : state[o] # "retired")
        => {n \in Nodes : state[n] # "free"} = InList
=============================================================================
