# A TLA+ development of the rcu concurrency library

The repository is a C++17 library of concurrent containers and the primitives
under them. This directory holds TLA+ models of its core, TLC configurations
that check them on small instances, and TLAPS proofs of the safety properties of
seven components for every value of the constants.
`PROJECT.json` lists components, runs, mutations, the map from definitions to
source lines, findings and hazards. Paths below are relative to `src/` of the
repository.

## 1. Inventory

| Component | State | Operations | What is hard | What makes it correct |
|---|---|---|---|---|
| ConcurrentBoundedQueue (`src/concurrent/concurrent_bounded_queue.h`) | two ticket counters, a ring of slots, each with a version word | push, pop (three forms), size, clear, reserve_and_clear | blocking on a futex, versions cut to 16 bits, a blind exchange | one thread per slot, a pop gets its push's item, no lost wake-up, every served ticket returns |
| FutexInterface (`src/concurrent/futex_interface.h*`) | the kernel's wait queue | wait, wake_one, wake_all | the word is compared inside the kernel | used correctly by the queue |
| Hazptr (`src/concurrent/hazptr.h*`) | list of records, retired list and count, private lists, thread pools of records | acquire, protect, release, retire, bulk reclaim, thread exit | protection races reclamation, addresses are reused | what is protected is not deleted, what is retired is deleted once |
| ThreadPool (`src/concurrent/thread_pool.h`) | mutex, condition variable, is_stop, task queue | enqueue, worker loop, stop_and_wait | notification without the mutex | tasks run, stop returns and drains |
| ObjectPool (`src/pool.h`) | two tagged free lists, thread caches, nodes | get, try_get, release, move, thread exit | ABA, caches per type | a node has one owner |
| ConcurrentVector, RetireList (`src/concurrent/vector.h*`) | current table, shards, retired tables with a time stamp | ensure, reserve, for_each, fill_n, copy_n; retire, try_gc, force_gc | several threads grow at once, reclamation by age | shards survive, tables are freed once, ranges are exact |
| ConcurrentHashMap (`src/concurrent/concurrent_hashmap*.h`) | segments, bucket lists, reference-counted nodes | insert, emplace, find, erase, rehash, clear, iteration | writers lock, readers use hazard pointers; clear and reserve touch the bucket list outside the mutex | no use after free, no lost insert |
| LockFreeQueue (`src/lock_free_queue.h*`, `src/nonlock_free_queue.h*`) | head and tail with split counts | push, pop | helping, counts spread over two words | FIFO, nodes freed once |
| SPSCQueue (`src/queue.h*`) | linked list with dummy | push, pop | publication order | FIFO |
| HazptrStack (`src/hazptr_stack.h`), LockFreeStack (`src/stack.h*`) | head | push, pop | ABA, use after free; LockFreeStack does not compile | LIFO |
| SWMRListSet (`hazptr/swmr_list.h`) | sorted list | add, remove, contains | readers walk while a writer unlinks | set semantics for readers |
| RingBuffer (`src/container/ringbuffer.h`), FixedWindow and TimeWindow (`small_test/window.cc`), SkipList (`src/container/skiplist*.h`), FeatureTable (`src/feature_table.cpp`) | sequential containers | insertion, removal, iteration, copying, resizing, filtering, sorting | boundary cases | agreement with a reference container |
| TimerTask (`small_test/timer/timer_task.*`) | map of tasks, a timerfd, an eventfd, an edge-triggered epoll | add_task, exec, run_every, run_at, run_after, remove_task, loop, stop, clear | callers set the timer while the loop is about to; a task is in the map before it is ready; stop races the wait | the timer never breaks off, due tasks run, stop ends the loop |
| defer (`src/base/defer.h`) | none | scope guard | nothing | |

Interactions: the bounded queue blocks through the futex interface; the thread
pool uses a bounded queue for its tasks; the hash map and the list set reclaim
nodes through hazard pointers; the object pool was written to keep its per-pool
caches in a concurrent vector. Everything else is independent. `urcu/`, most of
`hazptr/` (folly), `concurrentqueue.h` (moodycamel, two copies) and
`main/route_*.c` (perfbook) are third-party code; `bench/`, the rest of `main/`
and most of `small_test/` are benchmarks, drivers and one-file experiments.

## 2. Modules

| Module | Models | Kind |
|---|---|---|
| `BoundedQueue` | ConcurrentBoundedQueue and the futex calls it makes | state machine, properties, inductive invariant, refinement mapping |
| `BoundedFIFO` | what the queue promises | abstract specification |
| `BoundedQueueProofs`, `HazptrProofs`, `ThreadPoolProofs`, `ObjectPoolProofs`, `ConcurrentVectorProofs`, `TimerTaskProofs`, `ConcurrentHashMapProofs`, `ModularArithmetic` | | inductive invariants, lemmas and theorems |
| `Hazptr` | records, holders, retirement and reclamation | state machine |
| `ThreadPool` | workers, enqueue, stop_and_wait | state machine with fairness |
| `ObjectPool` | free lists, caches, PooledObject | state machine |
| `RetireList`, `ConcurrentVector` | reclamation by age; growth of the table. The second extends the first and adds its own steps | composed state machine |
| `VectorRange` | index arithmetic and range operations on a snapshot | sequential state machine checked against `operator[]` |
| `ConcurrentHashMap` | one segment: writers, finders, reference counts, reclamation | state machine |
| `TimerTask` | the loop, its callers and the three file descriptors | state machine with fairness |
| `LinkedNodes` | addresses, allocation and threads of the linked structures | common part |
| `SPSCQueue`, `HazptrStack`, `LockFreeQueue`, `SWMRListSet` | the linked structures; each extends `LinkedNodes` | state machines |
| `AbstractSequence` | what a queue or a stack promises: a sequence, operations that take effect in one step between call and return | abstract specification |
| `RingBuffer`, `SkipList`, `FeatureTable` | the sequential containers and windows, each with the contents it should have as a second variable | sequential state machines |
| `MCContainers` | instantiates the last eight and `VectorRange`; the variable `which`, fixed by `MCInit`, says which one a behaviour is about | model module with the properties of the containers |
| `MC...` | model values and symmetry of the runs | |

In the concurrent ones every access to a shared atomic, system call or lock operation is
an action of its own, and code between two such accesses is folded into the
action before or after it. A thread's position is `pc[t]`, its C++ locals are
functions of the thread with the name they have in the source. Payloads are
abstracted to what identifies them: an item of the queue is its ticket, a task
its number, a table or shard its serial number, a hazard-protected object an
address that is reused after deletion. Memory is sequentially consistent: the
orderings the code asks for are taken to be sufficient, and weaker executions
are not modelled. A definition preceded by "Mutation" is a plausible wrong
version of the definition after it; nothing refers to it, and the runs fail when
it takes that definition's place.

### BoundedQueue
`push`, `pop`, `pop_ptr` and `clear` take a ticket; `Load`, `TagSucceeds`,
`TagFails`, `FutexWait`, `SpuriousReturn` are the loop of
`wait_until_reach_expected_version`; `Callback` moves the item; `AdvanceTagged`
and `AdvanceUntagged` are the exchange, `WakeAll` the system call after it.
`futex[s]` is the version word, with the tag bit as `+ VersionMod`. The variable
`turn` is auxiliary: the version of a slot before it is cut to 16 bits. `size`
is two loads, and `clear` is a loop of size and pop: another popper may take the
item between the two, and the pop of `clear` then waits for the next push. `reserve_and_clear` is
enabled only while no other call is under way, as its use requires.

### Hazptr
The client is a single shared pointer whose target is replaced and retired.
`USE_THREAD_LOCAL_CACHE`, chosen by `Init`, is the build variant. Intrusive lists are sets;
the list of records is a number because records are only added at the front.
A scan walks the records one at a time. Constants of the code (threshold 5,
multiplier 2) are parameters.

### ThreadPool
`Predicate` and `Block` are separate: between them the worker holds the mutex,
but `enqueue` and `NotifyOne` do not need it. `Block` gives up the mutex and
starts to wait in one step, as the standard says. `try_pop_n` is not defined in
the repository's queue; it is modelled from its use and its comment. The flag
`graceful_stop` is chosen by `Init`.

### ObjectPool
`head`, `next` hold tagged indices. A thread that pops reads `next` of a node it
does not own (`PopNext`) and swaps later (`PopCas`). `use` is the program looked at,
chosen by `Init` and then fixed: the template argument `USE_ACC`, the constructor
argument `collective_num` and the pools in use. `CacheOf` gives the cache: one
per thread for `USE_ACC = false`, one per thread and pool otherwise.
`ThreadExit` leaves the nodes of its cache behind (`lost`).

### RetireList, ConcurrentVector, VectorRange
`EnsureGrow`, `Build`, `Install` and `InstallFails` are the phases of
`ensure_table`; a table is private to its thread until `Install`, so building it
is one step. `retire`, `try_gc`, `try_drop`, `PushLoad`, `PushCas` are
`RetireList`; the weak compare-and-swaps may fail spuriously. `Tick` advances the
64-second clock. `Destroy` runs when no call is under way. In `VectorRange`,
`places` collects what the callback is given, and `wild` is a look-up of a shard
the table does not have.

### ConcurrentHashMap
One segment, which is the whole map for `ShardBits = 0`. `Insert` is
`ensureSegment` and, with `CasSegment`, the race to create it; `InsertRehash`,
`Swap` and `Link` are `insert_internal`; `Erase` and `Release` are `erase`, with
the release of the node after the unlock; `Clear`, `ClearStore`, `ClearRetire`
and `Reserve` are the two operations that touch the list outside the mutex. They
are called by one writer only (`use = "single"`), because the code gives no
promise otherwise (section 4). `Find` and `Protect` are the search hand over
hand; the two or three holders it publishes are fields of `reader[r]`, of which
`holder_next` is a local of `find` and ends with it. `Delete` is `bulkReclaim` seen
from outside, by what `Hazptr` shows of it: anything retired and published by nobody
may be deleted at any time, and its address is then used again. The two modules are
not linked by a refinement. `concurrent_hashmap.h:231` shifts the capacity by
`ShardBits`; with one segment that is no shift, so a shifted value of 0 does not
occur. Bucket counts are used with a mask, which `% count` stands for: they are
powers of two (`PowersAssumption`). The constructor sees to that; `reserve` leaves it to
its caller (section 4). A destructor releases
what the object points to. `seen` is auxiliary: what the searched key mapped to
at any time during the search.

A chain is a set: `Reach` is the least set of nodes that holds where a loop starts
and that no next pointer leaves, which is what the loops of `insert_internal`,
`erase` and `rehash` visit. The order of the copies matters only for their
addresses and for what is pushed on what: `rehash` allocates one node after the
other in the order of its loops (`Before`, `Copies`), so a copy lies on top of those
with lower addresses in its bucket (`TopOf`, `Below`).

### TimerTask
Time is measured in ticks of `kMinGapMilliSeconds`, and an expiry time is kept
as the ticks left, so the state space is finite without a bound on time. `Poll`
takes the reported edges, `Read` empties the timer, `Test` looks at the flag and
reads the clock, `CheckAndRunTasks` runs under the mutex; `lag` is the time that
passes between the clock and the mutex. `Settime` is timerfd_settime: a negative
time is refused, zero disarms, anything else forgets an unread expiration.
`SetupATask` may lose the rest of a millisecond. `stop` is three steps: the load of
the flag, its store and the write to the event descriptor. `AddTask` and `exec` are
separate, so a task can be found in the map before it is ready.

### Linked structures
`node` maps addresses to nodes or `Freed`; the allocator hands out the lowest free
address, so memory is reused at once. `th[t]` is a record with the place of the
thread and the locals that matter there. Weak compare-and-swaps may fail for no
reason. `LockFreeQueue` is `nonlock_free_queue.h`. `SWMRListSet` reads an element
before it protects its node: on freed memory that read yields any element. The log
statements at `swmr_list.h:101` and `:105` read the element of an unprotected node in
the same way; they change nothing and are left out, so `NodesInUseKept` speaks of the
nodes a hazard pointer protects and not of these reads. `Published` and `Delete` stand
for `hazptr.hpp` as in the hash map.

### Sequential containers
An operation is one action on `obj`, and the same action applies the operation's
meaning to `spec`; the properties compare what every read operation shows. `spec`
follows the calls, never what the code made of them. Where the code departs from the
meaning (section 4) the property leaves exactly that open: `Unpromised` marks the
elements of a copy of a popped buffer that is not full, of which only the number is
checked; `uncleared` marks a window whose `clear` did nothing, which may show old
elements before those put in since. In `FeatureTable` the columns may differ in length
whenever a row is removed, filtered or sorted, and reading behind the end of a column
yields any value (`Reads`). `spec` holds the rows that must be listed and those that
left the list with a value in every column and must not return; that a row removed
earlier stays away, and that `filter` removes every match, is not claimed.

## 3. Runs

All of them finish within about three minutes on two cores. Deadlock is
not checked: in every model the bound on tickets, tasks, tags, tables or time
lets the system come to rest, and in the blocking components (all poppers
asleep on an empty queue, a pool that has been stopped) resting is legitimate;
the liveness properties and `StuckOnlyWhenFullOrEmpty` say when it is not.

| Run | Instance | Shows |
|---|---|---|
| `bq_queue` | three threads, one of which pushes and pops, one pops and clears; capacities 1 and 2 and changes between them; 6 versions; 4 tickets | types, exclusive slots, item integrity, no lost wake-up, nobody stuck needlessly, versions move by one, the inductive invariant, refinement of `BoundedFIFO`; clear returns only when every push has its pop; under fairness every ticket that can be served is served |
| `hp_safety` | both builds; two readers that also retire, one writer, three addresses, three records | no use after free, exact retirement, exclusive records, the count covers the list, a bounded number of records |
| `tp_pool` | graceful and immediate stop; two workers, two clients, two stoppers, three tasks, queue of 2, batches of 2 | a graceful stop drains the queue, every stop returns, and every task runs if the pool is never stopped |
| `tp_single` | one worker | **violation**: a task may never run |
| `op_safety` | two threads, caches of 1; one pool of three nodes with one or two of them collective, or two pools of three nodes with caches per pool | one owner per node, collective nodes stay apart, caches do not overflow |
| `cv_safety` | two threads, up to three shards, four tables, time stamps modulo 3 over four units of time | tables freed exactly once, no live shard destroyed and results large enough (`VectorUsable`), no shrinking |
| `cv_kept` | the same with stamps modulo 4 | **violation**: shards are replaced after a lost race |
| `hm_map` | two keys whose hashes collide in 4 buckets and part in 8; two writers, one finder, three writing calls; an empty map, or one with both keys in either order; five node and three list addresses | finders on live memory, answers from within the search, exact reference counts, size and placement, nothing leaked |
| `timer_loop` | two callers, one stopper, one named key and the anonymous one, three calls, delays from the past and of two ticks, an interval of two ticks | the timer does not break off, due tasks run, stop ends the loop |
| `timer_once` | the same | **violation**: a one-shot task may never run |
| `containers` | linked structures: three threads, six addresses, six calls, `SPSCQueue` with one producer and one consumer, `HazptrStack` with one popper, `LockFreeQueue` with one pusher and three poppers or three pushers, `SWMRListSet` with one writer, two searchers and three elements; rings and windows of capacity 1 to 4, gaps 0 to 2, six operations; skip lists of height up to 3, three elements, five operations; tables of two columns and three rows, nine operations; shard sizes 0 to 4 rounded to 1, 2, 4 and indexes up to 10 | refinement of `AbstractSequence`, exact memory, nodes in use are kept, sorted list and true answers, the sequential containers show the contents the calls give them, exact ranges |
| `lfq_assert` | three threads that push and pop | **violation**: a pop finds no node at the head |

Why the bounds are enough. Four tickets on a ring of one slot are eight versions:
they wrap around a modulus of six, and three threads are the most that modulus
admits (section 5). Three threads suffice for a waiter, the thread it waits for
and a late third on one slot. Three addresses allow one linked object, one
retired and one being reused, the shape of every ABA scenario on a single
pointer. Two workers are the least for which a notification can go to the wrong
one. A node is pushed once on top of its place in the
initial list, which gives the pop-push-pop sequence tags exist for: its first
tag is another one than the initial tag. The mutation that does not advance the
tag is caught within that bound. Three growth steps with two threads give a loser
that retries and a loser that gives up. Ranges of up to ten elements contain
every combination of start and end offset for shards of up to four elements,
with up to two shards in between. In the hash map two keys are a chain of two
nodes, the least on which an unlinked node still leads a finder on; a rehash of
it takes four nodes, and the fifth is the one inserted. In `LockFreeQueue` the
bound on calls covers every case of head and tail leaving a node in either order
with a third thread still on it. Symmetry is used over threads, addresses and
pools only in runs without liveness properties, and the models treat them
alike.

Fairness. `BoundedQueue`: weak fairness of every step inside an operation, which
says that the scheduler runs a thread that is not asleep and that callbacks
return. Starting an operation is not fair. Several threads may compete for a
slot word, but a failed tag means another thread made progress, and versions
only move on, so weak fairness is enough. `ThreadPool`: weak fairness of the
steps of workers, of a notification once its push has happened, and of the
phases of a stop; and strong fairness of taking the mutex, because a worker
that asks again and again competes with other workers that take and give it up,
and a mutex that starves one thread for ever is not what the code is
written for. Spurious wake-ups may happen but are never relied upon. `TimerTask`:
weak fairness of the loop, of the clock, of `exec` after its `AddTask` and of the
store and the write in `stop`: threads that have begun a call finish it. New calls and
interrupted polls are not fair.

What the properties do not say. `ClearReturnsOnEmpty` is about the state in which
`clear` returns, not that it does: with other poppers it may wait for the next push
(`concurrent_bounded_queue.h:203`), and while pushers go on it need not end.
`StopDrains` speaks of the first caller of `stop_and_wait`; a second one returns at once
(`thread_pool.h:121`). `TableDeletedOnce` counts deletions, not their time.
`FinderOnLiveMemory` covers the iterator `find` returns, not copied or incremented ones.
`ImplementsSequence` holds for one popper of `HazptrStack`, and for one pusher or no
popper of `LockFreeQueue`; `Put` of `AbstractSequence` is tied to no call, so a push may
show any value. `TimerCovers` and `DueTasksRun` do not bound how late a task runs.

## 4. Findings

Four runs show a disagreement between the code and what a test, comment or
assertion of the repository says; `PROJECT.json` quotes the lines.

1. `tp_single`: `thread_pool.h:104` notifies without the mutex. With one worker the
   notification can be lost between predicate and block and the task stays in
   the queue. With two workers it cannot: only the worker that holds the mutex
   is in the window, and `tp_pool` shows that the other one takes the task.
2. `cv_kept`: `vector.h:295` re-creates shards from a stale shard count after a
   lost race.
3. `timer_once`: `timer_task.h:77`, `:86`, `:98` pass a memory order as the number to
   add; all anonymous tasks share one key and replace each other.
4. `lfq_assert`: `nonlock_free_queue.h:145` sets a popped node's data back to the
   value that means "free for a push", and a delayed push takes it.

Observed while modelling, without a run:

- `pool.h:355` destroys an object on release; `get` does not construct it again.
- `pool.h:172` keeps one thread cache per type: two pools of one type with
  `USE_ACC = false` exchange nodes, and a node can get two owners.
- `vector.h:196` does not terminate a range within its first shard.
- `concurrent_hashmap_detail.h:440` and `concurrent_hashmap.h:230`: `clear` reads the
  list before it locks, `reserve` does not lock at all; with other writers
  elements are lost and a list can be retired twice. `reserve` also does not round its
  argument as the constructor does: a count that is no power of two leaves some buckets
  unused under the mask, and a capacity below `2^ShardBits` becomes a list without
  buckets. The increment of an
  iterator protects the next node with the same holder as the current one, where
  the comment at `concurrent_hashmap_detail.h:382` asks for two.
- `nonlock_free_queue.h:61` counts the constructor's pointers with 0 where `push`
  counts with 1: the first node is never freed. `MemoryExact` leaves that node out.
- `lock_free_queue.h` is included by nothing that is built; it reads members that
  are never initialised.
- `hazptr_stack.h:41` is safe with one popping thread only.
- `swmr_list.h:92` tests `curr->element < data` where the order of the list asks for
  `>`: `contains` may answer false for an element behind a smaller one. The run
  checks only that an answer of true is right.
- `queue.hpp:39`: `size()` is always 0.
- `ringbuffer.h:125` copies from the beginning of the memory: wrong for a buffer that
  has been popped and is not full. A capacity of 0 divides by zero.
  `window.cc:198`: `clear` of trivial elements does nothing. `RingShowsElements`
  leaves both open, as section 2 says.
- `feature_table.cpp:294`: `filter` skips the row after a removed one; rows removed
  while some columns are shorter come back when those grow; columns of all
  tables with the same column number share their storage. `TableKeepsRows` claims
  none of this.
- `timer_task.cpp:207` compares a new task with any other instead of the one the timer
  is set for, so the timer may be set back to a later time and a task run late; the
  loop does not break off. A callback that calls `add_task` deadlocks (line 108).

## 5. Proofs

Each `...Proofs` module extends its component's module and proves, for every value
of the constants, what the run checks on a small instance. All theorems rest on
the named assumptions of the component's module and on nothing else; TLC evaluates
those in the runs.

| Module | Theorems (property) |
|---|---|
| `BoundedQueueProofs` | `Invariance` (`IInv`), `TypeCorrect` (`TypeOK`), `SlotMutualExclusion` (`SlotExclusive`), `ItemIntegrity` (`PopGetsItsTicket`), `WakeupsAreNotLost` (`NoLostWakeup`), `NeverStuckOnEachOther` (`StuckOnlyWhenFullOrEmpty`), the action property `VersionsStepByOne` (`VersionStepsByOne`) and `ClearLeavesNothing` (`ClearReturnsOnEmpty`), the refinement `QueueImplementsFIFO` (`ImplementsFIFO`) |
| `HazptrProofs` | `HazptrInvariance`, `ProtectionHolds` (`ProtectedNotFreed`), `RecordsAreExclusive` (`RecordExclusive`), `RecordsAreBounded` (`RecordsBounded`), `RetiredOnOneList` (`RetiredOnce`), `CountCoversList` (`RetiredCountCovers`) |
| `ThreadPoolProofs` | `PoolInvariance`, `GracefulStopDrains` (`StopDrains`) |
| `ObjectPoolProofs` | `PoolInvariance`, `NodesAreOwnedOnce` (`NodeOwnedOnce`), `CollectiveStaysApart` (`CollectiveApart`) |
| `ConcurrentVectorProofs` | `VectorInvariance`, `VectorStaysUsable` (`VectorUsable`), `TablesAreDeletedOnce` (`TableDeletedOnce`), the action property `VectorNeverShrinks` (`NeverShrinks`) |
| `TimerTaskProofs` | `TimerNeverBreaksOff` (`TimerCovers`) |
| `ConcurrentHashMapProofs` | `HashMapInvariance`, `HashMapFinderOnLiveMemory` (`FinderOnLiveMemory`), `HashMapRefcountExact` (`RefcountExact`), `HashMapFindAnswersInTime` (`FindAnswersInTime`), `HashMapWellFormed` (`MapWellFormed`), `HashMapNothingLeaked` (`NothingLeaked`) |
| `ModularArithmetic` | lemmas: `\div` and `%` for an arbitrary modulus, which the provers know for literals only, and the least-number principle, by which the other modules do induction |

None of the properties is inductive alone; the invariants below are the point of the
proofs. `bq_queue` checks `IInv`, and the others were checked with TLC on the runs'
instances before they were proved. A proof has one step, usually one lemma, per
action.

### The queue
The only assumption with content is that there are at most `VersionMod \div 2`
threads: 32768 in the code. It is what makes comparing cut versions for equality
safe, and the argument is a pigeonhole (lemma `NoConfusion`). Suppose a thread
sees its expected version in the slot although the slot's uncut turn is not its
own. Turns only grow and its own has not passed, so its turn is at least a whole
`VersionMod` ahead. All the tickets of its kind between the two turns at that
slot have been handed out, since its own was, and are held by different threads,
since their turns have not passed: with its own these are more than
`VersionMod \div 2` threads, a contradiction.

`IInv` adds to the type invariant:
the word is the turn cut to size (`RawIsTurn`); a ticket in use was handed out
and its turn has not passed (`TurnNotPassed`); no ticket is held twice
(`TicketsDistinct`); a ticket handed out whose turn has not passed is held
(`TicketsHeld`); turns do not run ahead of tickets (`UnclaimedAhead`); in the
callback it is the caller's turn (`CallbackInTurn`); an odd slot holds the item
its turn says (`SlotHoldsItem`); who is about to sleep has seen a foreign
version (`WaitersMismatch`); and `NoLostWakeup` itself. The proof goes by kind of
step: steps that leave tickets alone (`QuietStep`), steps that take one
(`TakeStep`), the callback (`CallbackStep`) and the exchange (`ExchangeStep`), each
combined with the facts about waiting in `NextIInv`.

`NeverStuckOnEachOther`: if everybody inside sleeps, no ticket handed out is in turn
at its slot (`AllAsleep`: its holder would be on the way to being woken). So the
slot of a sleeper stands at a turn before the sleeper's whose ticket nobody has
drawn yet, which puts the sleeper's own ticket at least as far ahead.
`ClearLeavesNothing` needs `SizeReadBefore`: `size()` loads the pop index first and
indices only grow while a call is under way, so a push index no larger than the value
loaded is no larger than the pop index either.
`QueueImplementsFIFO` is the step simulation: taking a ticket is `BeginPush` or
`BeginPop`, the callback is `Put` or `Take` (`PutSeen`, `TakenSeen`),
`reserve_and_clear` is `Restart`, and every other step leaves the stored items and
the pending calls alone.

### Hazard pointers
Assumed: finitely many threads and objects. `HazptrInv` says that a record names
what its holder protects or is about to validate (`RecordNames`), and that a thread
which has a protected object in its batch has seen that record or is still going to
reach it (`ScansCover`); that is what the order of publishing and re-reading on one
side, of taking the list and reading the records on the other is for.
`ListsDisjoint` says where retired objects are. `RecordsBounded` needs the walks for
an inactive record: nobody has passed record `j` unless there are enough other
threads to occupy it and all records the walk visits before it
(`WalkersCrowdedOut`), so the walk that passes the last one finds all readers
there. `RetiredCountCovers` holds by a count of what every thread has appended and
not yet counted (`Uncounted`).

### Thread pool
`PoolInv` accounts for every task (`TasksAccounted`: queued, in some worker's batch,
or done) and says that a worker that has left saw the queue empty after `is_stop`
was set (`LeaversSawEmpty`): what is due is then in nobody's hands once all have left.

### Object pool
Assumed besides the types: no node is pushed as often as there are tags
(`TagAssumption`), and a program with one cache per thread uses one pool
(`CacheAssumption`; section 4 says what happens otherwise). The invariant says that
there is an assignment of nodes to places, and of depths to the nodes on the lists
(`Located`): every node is held, cached, being pushed, left behind or on its list;
next pointers lead from each depth to the one below. It is stated with existential
quantifiers so that no auxiliary variable is needed; a step gives the new assignment.
Against ABA, `PopKnows` says of a thread that has read a head and its next: the node's
tag is larger than the one read, and if it is still the one the node is on the list
with, next is still what was read. A push renews the tag before the node is on the
list, so a CAS that succeeds is right. That the walk from the head finds exactly the
nodes with that place, and ends, is `WalkIs` and `OnListIs`, by induction on the
depth and a pigeonhole on the indices.

### Vector and timer
`VectorInv` separates tables being built, known to their builder only
(`TablesPrivate`, `ShardsFresh`), from tables that are gone in exactly one way
(`TablesOnce`). `TimerInv` bounds the time left of every task by what somebody has
asked for (`InReach`); the timer is then armed within that bound whichever task it is
set for. It may be armed for a task that is not the next one: `timer_task.cpp:207`
compares a new task with any other, so with three tasks the timer may be set back
to a later time than that of an earlier task. `TimerCovers` therefore promises an
expiration within the longest time in use, which is what keeps the loop going.

### Hash map
Assumed: finitely many keys, nodes, lists and writers, addresses that are numbers
(the allocator hands out the lowest), and any hash function; `PowersAssumption` is not
used. `MapInv` has four parts.

*Memory.* There are numbers for the nodes that fall along every next pointer, those
of unlinked and retired nodes included (`Acyclic`, an existential quantifier; each
step that links a node gives new numbers). Counts are exact, a node is live exactly as
long as it is counted (`Living`), and a free node points nowhere (`Contents`). It
follows that whatever anything in use points to is live (`Targets`), so no walk
that starts on memory in use leaves it, and a new address is pointed to by nothing
(`Unpointed`): reuse of memory cannot confuse a walk.

*Lists.* `Wired` says of a list and a set of nodes that buckets and next pointers
stay within the set and within a bucket, that each node has exactly one predecessor,
and that keys are unique. With `Acyclic` the nodes a walk meets are then exactly that
set (`WiredReach`: the highest node not met would have a predecessor not met) and the
chain of a bucket is its part of it (`WiredChain`). Push, replacement, erase and copy
each give a wired list (`PushList`, `ReplaceList`, `EraseList`, `WiredCopy`).

*Writers.* What a writer has in hand between two steps: a segment's empty list before
the compare-and-swap, a copy with the contents of the map before it is installed, the
unlinked node before its release, the old list before `clear` retires it
(`WriterFits`); who excludes whom (`Exclusive`); and every live list is the map's, in
somebody's hands or empty (`Accounted`, from which nothing leaks).

*Finders.* A finder stands on what its holders publish and that is not free
(`ReaderHolds`). `ReaderKnows` is the point of `FindAnswersInTime`: whatever walk the
finder has before it (from the map's list, from the bucket of the list it has loaded,
from the node it stands on), the value of the searched key on that walk, or its
absence there, is something the key mapped to since the call. A node taken out
keeps its pointer, so the rest of its walk is still one of these; when a walk loses a
node, or gets the new node instead of it, the key has just been seen absent, or
with the new value (`BypassReach`, `UnlinkWalk`). `ProtectStep` is get_protected: the
pointer read again after publishing is in memory in use, so what it leads to is live
at that moment, and published memory is not deleted after it.

### Only model-checked
- Liveness (`TicketsServed`, `StopReturns`, `EnqueuedRuns`,
  `DueTasksRun`, `StopEndsLoop`): out of TLAPS's reach here.
- The containers and vector ranges (`MCContainers`). The sequential ones compare what
  an operation computes by recursion, or by shifts and masks (`Bitwise`, of which the
  provers know nothing), with a reference: induction over data. The refinement of
  `AbstractSequence` is stated for the instances `MCContainers` makes of the linked
  structures, one at a time, with their contents collected along a chain. They are
  checked exhaustively over their bounds; the way the hash map's chains are proved
  would serve for the linked ones.

## 6. What is not modelled

- Weak memory. Sequential consistency is assumed throughout.
- In `Hazptr`: swap of holders, reset to a given pointer, more than one holder
  per thread, and the use of another client structure.
- In `ObjectPool`: tags that wrap around (2^32 pushes of one node while a pop is
  delayed), two pools of one type without `USE_ACC`, the life of the objects
  inside the nodes, and pools whose arguments leave one list empty.
- In `ConcurrentVector`: whether reclamation by age is late enough for readers.
  The code has no record of readers, and the model has no bound on how long a
  reader may take. `reserve(0)` is excluded. Shards are never freed by the code,
  only destroyed; the model records destruction.
- In `ConcurrentHashMap`: the loop over several segments, iteration, and `clear`
  and `reserve` beside other writers. In `FeatureTable`: the storage by type.
- The components listed as not modelled in `PROJECT.json`. The repository has about
  40000 lines, of which some 4000 are the library's own: the rest is
  folly, moodycamel's queue (twice), liburcu, perfbook examples, benchmarks and
  experiments. That code is specified and tested by its own projects and no
  component here calls it, so the share of all lines the map covers stays small
  while most of the library's own code is modelled.

## 7. Plan

The components of the first plan are modelled, and the invariants of the queue, the
hazard pointers, the thread pool, the object pool, the vector, the timer and the
hash map are proved. Left:

1. `Hazptr` with two holders per thread and swap, and its promise (what is
   published is not deleted), which `ConcurrentHashMap` and `SWMRListSet` rest on,
   as an abstract specification it implements.
2. Iteration over several segments of the hash map.
3. `SWMRListSet`, `SPSCQueue` and `HazptrStack`: invariants in the style of `Wired`.
