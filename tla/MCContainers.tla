---------------------------- MODULE MCContainers ----------------------------
(* The small containers one beside the other: the initial state chooses one *)
(* of them, and the others' variables then keep a dummy value.  The linked  *)
(* ones (spsc, stack, queue, pushes, list) share LinkedNodes, the ones of   *)
(* one thread (ring, skiplist, table) share obj and spec, and the ranges of *)
(* ConcurrentVector have the variables of VectorRange.                      *)
EXTENDS LinkedNodes, VectorRange
CONSTANTS t1, t2, t3, Structures, Pushers, MaxCount
VARIABLES which, retired, obj, spec

linked == <<node, head, tail, th>>
range == <<num_per_shard, shard_bit, shard_num, reserved, start_index, end_index,
           shard_id, places, pc>>
mcvars == <<which, linked, calls, retired, range, obj, spec>>

Keys == {1, 2, 3}
Spsc == INSTANCE SPSCQueue WITH Producer <- t1, Consumer <- t2
Stack == INSTANCE HazptrStack WITH Popper <- t1
Queue == INSTANCE LockFreeQueue WITH Pair <- {t1, t2}, Poppers <- Threads
Pushes == INSTANCE LockFreeQueue WITH Pair <- {t1, t2}, Pushers <- Threads, Poppers <- {}
List == INSTANCE SWMRListSet WITH Writer <- t1, Elements <- Keys
Ring == INSTANCE RingBuffer WITH Capacities <- 1..4, Gaps <- 0..2, MaxOps <- 6
Skip == INSTANCE SkipList WITH Elements <- Keys, Addr <- 1..5, MAX_HEIGHT <- 3,
                               InitHeights <- {1, 3}, MaxOps <- 5
Table == INSTANCE FeatureTable WITH Columns <- {"uid", "click"}, Values <- {1, 2}, MaxRows <- 3,
                                    MaxOps <- 9

NoLinked == /\ node = Null /\ head = Null /\ tail = Null /\ th = Null
NoRange == /\ num_per_shard = 1 /\ shard_bit = 0 /\ shard_num = 0 /\ reserved = 0
           /\ start_index = 0 /\ end_index = 0 /\ shard_id = 0 /\ places = <<>> /\ pc = "idle"
NoObject == obj = Null /\ spec = Null
MCInit ==
    /\ which \in Structures
    /\ \/ which = "spsc" /\ Spsc!Init /\ retired = {} /\ NoObject /\ NoRange
       \/ which = "stack" /\ Stack!Init /\ retired = {} /\ NoObject /\ NoRange
       \/ which \in {"queue", "pushes"} /\ Queue!Init /\ retired = {} /\ NoObject /\ NoRange
       \/ which = "list" /\ List!Init /\ NoObject /\ NoRange
       \/ which = "ring" /\ Ring!Init /\ NoLinked /\ retired = {} /\ NoRange
       \/ which = "skiplist" /\ Skip!Init /\ NoLinked /\ retired = {} /\ NoRange
       \/ which = "table" /\ Table!Init /\ NoLinked /\ retired = {} /\ NoRange
       \/ which = "range" /\ Init /\ NoLinked /\ retired = {} /\ NoObject /\ calls = 0
MCNext ==
    /\ UNCHANGED which
    /\ \/ which = "spsc" /\ Spsc!Next /\ UNCHANGED <<retired, range, obj, spec>>
       \/ which = "stack" /\ Stack!Next /\ UNCHANGED <<retired, range, obj, spec>>
       \/ which = "queue" /\ Queue!Next /\ UNCHANGED <<retired, range, obj, spec>>
       \/ which = "pushes" /\ Pushes!Next /\ UNCHANGED <<retired, range, obj, spec>>
       \/ which = "list" /\ List!Next /\ UNCHANGED <<range, obj, spec>>
       \/ which = "ring" /\ Ring!Next /\ UNCHANGED <<linked, retired, range>>
       \/ which = "skiplist" /\ Skip!Next /\ UNCHANGED <<linked, retired, range>>
       \/ which = "table" /\ Table!Next /\ UNCHANGED <<linked, retired, range>>
       \/ which = "range" /\ Next /\ UNCHANGED <<linked, calls, retired, obj, spec>>
MCSpec == MCInit /\ [][MCNext]_mcvars
-----------------------------------------------------------------------------
IsQueue == which \in {"queue", "pushes"}
Contents == CASE which = "spsc" -> Spsc!Contents
              [] which = "stack" -> Stack!Contents
              [] IsQueue -> Queue!Contents
              [] OTHER -> <<>>
Got == [t \in Threads |-> CASE which = "spsc" -> Spsc!Got(t)
                            [] which = "stack" -> Stack!Got(t)
                            [] IsQueue -> Queue!Got(t)
                            [] OTHER -> Nothing]
Abstract == INSTANCE AbstractSequence WITH
    Empty <- Null, lifo <- which = "stack", seq <- Contents, got <- Got
\* SPSCQueue and LockFreeQueue are queues and HazptrStack a stack: every push
\* and every pop takes effect in one step between its call and its return, a
\* pop takes the value it returns, and finds nothing only when there is nothing.
ImplementsSequence == Abstract!Spec

\* The nodes in memory are exactly those a linked structure or one of its threads
\* still needs: every other node has been deleted, and none of these has.  Only
\* the first node of a LockFreeQueue, which its constructor counts wrongly, may
\* stay for ever.
MemoryExact ==
    LET inMemory == {a \in Addr : node[a] # Freed}
    IN  /\ which = "spsc" => inMemory = Spsc!OnChain \cup Spsc!Held
        /\ which = "stack" => inMemory = Stack!OnChain \cup Stack!Held
        /\ which = "list" => inMemory = List!OnChain \cup List!Held
        /\ IsQueue => inMemory \ {1} = (Queue!OnChain \cup Queue!Held) \ {1}

\* A node is not deleted under a thread that has counted itself at it, in a
\* LockFreeQueue, or has protected it, in an SWMRListSet: the node a search has
\* protected and the one before it stay although the writer removes both.  The
\* element a search of the list looks at before it protects the node is not
\* covered, nor is the one its log line shows.
NodesInUseKept ==
    /\ IsQueue => \A t \in Threads : \A a \in Queue!Uses(t) : node[a] # Freed
    /\ which = "list" => List!ProtectedInMemory

\* A pop of a LockFreeQueue that does not find the queue empty finds a node at
\* its head, as its assert(ptr != nullptr) says.
HeadIsNode == IsQueue => Queue!NodeAtHead

\* The list of an SWMRListSet stays sorted, and contains answers TRUE only for an
\* element that was in it at some time during the search.
FoundWasThere == which = "list" => List!Sorted /\ List!TrueIsTrue

\* RingBuffer, FixedWindow and TimeWindow show the elements they should keep, by
\* every way of reading them.  Left out are the old elements in front of them in a
\* window of trivial elements, which clear does not empty, and the elements of a
\* copy of a popped buffer.
RingShowsElements == which = "ring" => Ring!ShowsSpec

\* The layers of a SkipList agree with each other, with its size and with the
\* elements that were inserted and removed.
SkipListAgrees == which = "skiplist" => Skip!LayersAgree

\* A FeatureTable lists no row twice and loses none that was not removed, in
\* whatever order its columns are filled; a complete row that was removed stays away.
TableKeepsRows == which = "table" => Table!RowsKept
=============================================================================
