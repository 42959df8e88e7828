--------------------------- MODULE TimerTaskProofs ---------------------------
(***************************************************************************)
(* The timer of TimerTask does not break off: proved for any callers,      *)
(* keys, intervals and delays.                                             *)
(***************************************************************************)
EXTENDS TimerTask, ModularArithmetic, FiniteSetTheorems

-----------------------------------------------------------------------------
(* The inductive invariant.                                                *)

Task == [left : Int, interval : Intervals \cup {0}, is_ready : BOOLEAN]

\* The map holds tasks; a one-shot task has the anonymous key.
MapHoldsTasks ==
    /\ anonymous_task_id \in Int
    /\ task_map \in [Tasks -> Task]
    /\ \A k \in Tasks : task_map[k].interval = 0 => k = anonymous_task_id

\* A one-shot task that may run was handed to exec.
ReadyAreOwed ==
    \A k \in Tasks : task_map[k].interval = 0 /\ task_map[k].is_ready => owed >= 1

\* No task waits longer than somebody has asked for, and expiry times do not go
\* back without end.
LeftsBounded ==
    /\ \A k \in Tasks : InReach(Left(k))
    /\ \E m \in Int : \A k \in Tasks : m <= Left(k)

TimerInv == MapHoldsTasks /\ ReadyAreOwed /\ LeftsBounded /\ TimerCovers

-----------------------------------------------------------------------------
(* Lemmas on numbers.                                                      *)

\* Every set of integers that is bounded from below has a least one.
LEMMA LeastInteger ==
  ASSUME NEW S \in SUBSET Int, S # {}, NEW m \in Int, \A x \in S : m <= x
  PROVE  \E x \in S : \A y \in S : x <= y
<1> DEFINE T == {x - m : x \in S}
<1>1. T \in SUBSET Nat /\ T # {}
  <2>1. PICK x \in S : TRUE
    OBVIOUS
  <2>2. x - m \in T
    OBVIOUS
  <2>3. \A y \in S : y - m \in Nat
    OBVIOUS
  <2> QED
    BY <2>2, <2>3
<1>2. PICK n \in T : \A y \in T : n <= y
  <2> HIDE DEF T
  <2> QED
    BY <1>1, LeastNatural
<1>3. PICK x \in S : n = x - m
  BY <1>2
<1>4. ASSUME NEW y \in S PROVE x <= y
  <2>1. y - m \in T
    OBVIOUS
  <2>2. x - m <= y - m
    BY <1>2, <1>3, <2>1
  <2> QED
    BY <2>2
<1> QED
  BY <1>4

\* The minimal gap is in reach, and so is what is shorter than something in reach.
LEMMA ReachDown ==
  ASSUME NEW n \in Int, InReach(n), NEW i \in Int, i <= n \/ i <= Gap
  PROVE  InReach(i)
<1>1. PICK v \in Intervals \cup Delays : n <= Maximum(v, Gap)
  BY DEF InReach
<1>2. v \in Int
  BY TimerAssumption
<1>3. i <= Maximum(v, Gap)
  BY <1>1, <1>2 DEF Maximum, Gap
<1> QED
  BY <1>3 DEF InReach

\* _setup_a_task never fails and never disarms the timer, whatever time is left:
\* it asks for at least the minimal gap.
LEMMA SetupArms ==
  ASSUME NEW left \in Int, InReach(left), SetupATask(left)
  PROVE  /\ timer' \in Nat /\ timer' > 0 /\ InReach(timer')
         /\ readable' = FALSE /\ edge' = FALSE
<1>1. PICK cut \in {0, 1} : Settime(HowMuchTimeLeft(left - cut))
  BY DEF SetupATask
<1>2. PICK v : v = HowMuchTimeLeft(left - cut)
  OBVIOUS
<1>3. v \in Int /\ v >= Gap /\ (v <= left \/ v <= Gap)
  BY <1>2 DEF HowMuchTimeLeft, Maximum, Gap
<1>4. InReach(v)
  BY <1>3, ReachDown
<1>5. timer' = v /\ readable' = FALSE /\ edge' = FALSE
  BY <1>1, <1>2, <1>3 DEF Settime, Gap
<1> QED
  BY <1>3, <1>4, <1>5 DEF Gap

-----------------------------------------------------------------------------
(* The steps.                                                              *)

\* While the loop waits for tasks, the timer will wake it.
Covered == (edge /\ readable) \/ (timer > 0 /\ InReach(timer))

\* A task is added: the timer is set for it, or is running for another one.
LEMMA AddKeeps ==
  ASSUME TimerInv, NEW t \in Threads, NEW key \in Named \cup {anonymous_task_id},
         NEW left \in Int, InReach(left), NEW interval \in Intervals \cup {0},
         interval = 0 => key = anonymous_task_id,
         AddTaskInternal(t, key, left, interval), UNCHANGED anonymous_task_id
  PROVE  TimerInv'
<1>1. /\ task_map \in [Tasks -> Task] /\ anonymous_task_id \in Int
      /\ Tasks \subseteq Named \cup {anonymous_task_id}
  BY DEF TimerInv, MapHoldsTasks, TimerCovers, TypeOK
<1>2. /\ Tasks' = Tasks \cup {key}
      /\ task_map'[key] = [left |-> left, interval |-> interval, is_ready |-> FALSE]
      /\ \A k \in Tasks \ {key} : task_map'[k] = task_map[k]
      /\ task_map' \in [Tasks' -> Task]
  BY <1>1 DEF AddTaskInternal, Tasks, Task
<1>3. UNCHANGED <<woken, is_stop, loop, lag, owed>>
  BY DEF AddTaskInternal
<1>4. MapHoldsTasks'
  BY <1>1, <1>2 DEF MapHoldsTasks, TimerInv
<1>5. ReadyAreOwed'
  BY <1>2, <1>3 DEF ReadyAreOwed, TimerInv
<1>6. LeftsBounded'
  <2>1. \A k \in Tasks' : InReach(Left(k)')
    BY <1>2 DEF LeftsBounded, TimerInv, Left
  <2>2. PICK m \in Int : \A k \in Tasks : m <= Left(k)
    BY DEF TimerInv, LeftsBounded
  <2>3. PICK n \in Int : n <= m /\ n <= left
    BY <2>2
  <2>4. \A k \in Tasks : Left(k) \in Int
    BY <1>1 DEF Task, Left
  <2>5. \A k \in Tasks' : n <= Left(k)'
    BY <1>2, <2>2, <2>3, <2>4 DEF Left
  <2> QED
    BY <2>1, <2>5 DEF LeftsBounded
<1>7. \/ timer' \in Nat /\ timer' > 0 /\ InReach(timer') /\ readable' = FALSE /\ edge' = FALSE
      \/ UNCHANGED <<timer, readable, edge>> /\ Tasks # {}
  BY SetupArms DEF AddTaskInternal, NeedUpdate
<1>8. (loop' \in {"top", "poll"} /\ Tasks' # {}) => Covered'
  <2>1. CASE UNCHANGED <<timer, readable, edge>> /\ Tasks # {}
    BY <1>3, <2>1 DEF Covered, TimerInv, TimerCovers, InReach
  <2>2. CASE timer' > 0 /\ InReach(timer')
    BY <2>2 DEF Covered, InReach
  <2> QED
    BY <1>7, <2>1, <2>2
<1>9. TypeOK'
  <2>1. timer' \in Nat /\ {readable', edge', woken', is_stop'} \subseteq BOOLEAN
    BY <1>3, <1>7 DEF TimerInv, TimerCovers, TypeOK
  <2>2. \A k \in Tasks' : /\ task_map'[k].left \in Int
                          /\ task_map'[k].interval \in Intervals \cup {0}
                          /\ task_map'[k].is_ready \in BOOLEAN
    BY <1>2 DEF Task
  <2>3. Tasks' \subseteq Named \cup {anonymous_task_id'}
    BY <1>1, <1>2
  <2> QED
    BY <1>3, <2>1, <2>2, <2>3 DEF TypeOK, TimerInv, TimerCovers
<1> QED
  BY <1>4, <1>5, <1>6, <1>8, <1>9 DEF TimerInv, TimerCovers, Covered

\* The four ways to add a task.
LEMMA CallersAdd ==
  ASSUME TimerInv, NEW t \in Threads, AddTask(t) \/ run_every(t) \/ run_at(t) \/ run_after(t)
  PROVE  TimerInv'
<1>0. /\ Intervals \subseteq Nat \ {0} /\ Delays \subseteq Int /\ MaxLag \in Nat
      /\ anonymous_task_id \in Int
  BY TimerAssumption DEF TimerInv, MapHoldsTasks
<1>1. ASSUME NEW v \in Intervals \cup Delays, NEW late \in 0..MaxLag
      PROVE  v \in Int /\ v - late \in Int /\ InReach(v) /\ InReach(v - late)
  <2>1. v \in Int /\ v <= Maximum(v, Gap) /\ late \in Nat
    BY <1>0 DEF Maximum, Gap
  <2>2. InReach(v)
    BY <2>1 DEF InReach
  <2> QED
    BY <2>1, <2>2, ReachDown
<1>2. ASSUME NextAnonymous PROVE UNCHANGED anonymous_task_id
  BY <1>0, <1>2 DEF NextAnonymous, memory_order_relaxed
<1>3. ASSUME NEW key \in Named \cup {anonymous_task_id}, NEW i \in Intervals, add_task(t, key, i),
             UNCHANGED anonymous_task_id
      PROVE  TimerInv'
  <2>1. PICK late \in 0..MaxLag : AddTaskInternal(t, key, i - late, i)
    BY <1>3 DEF add_task
  <2>2. i - late \in Int /\ InReach(i - late) /\ i # 0
    BY <1>0, <1>1
  <2> QED
    BY <1>3, <2>1, <2>2, AddKeeps
<1>4. CASE AddTask(t)
  BY <1>3, <1>4 DEF AddTask
<1>5. CASE run_every(t)
  BY <1>2, <1>3, <1>5 DEF run_every
<1>6. CASE run_at(t)
  <2>1. PICK d \in Delays : AddTaskInternal(t, anonymous_task_id, d, 0)
    BY <1>6 DEF run_at
  <2>2. d \in Int /\ InReach(d) /\ 0 \in 0..MaxLag
    BY <1>0, <1>1
  <2> QED
    BY <1>2, <1>6, <2>1, <2>2, AddKeeps DEF run_at
<1>7. CASE run_after(t)
  <2>1. PICK d \in Delays, late \in 0..MaxLag : AddTaskInternal(t, anonymous_task_id, d - late, 0)
    BY <1>7 DEF run_after
  <2>2. d - late \in Int /\ InReach(d - late)
    BY <1>1
  <2> QED
    BY <1>2, <1>7, <2>1, <2>2, AddKeeps DEF run_after
<1> QED
  BY <1>4, <1>5, <1>6, <1>7

\* exec, remove_task, stop and wakeup leave the timer alone.
LEMMA CallersKeep ==
  ASSUME TimerInv,
         \/ \E t \in Threads : exec(t) \/ \E key \in Named : remove_task(t, key)
         \/ \E s \in Stoppers : stop(s) \/ StopStore(s) \/ wakeup(s)
  PROVE  TimerInv'
<1>1. /\ task_map \in [Tasks -> Task] /\ anonymous_task_id \in Int
      /\ Tasks \subseteq Named \cup {anonymous_task_id} /\ owed \in Nat
      /\ {readable, edge, woken, is_stop} \subseteq BOOLEAN
  BY DEF TimerInv, MapHoldsTasks, TimerCovers, TypeOK
<1>2. ASSUME NEW t \in Threads, exec(t) PROVE TimerInv'
  <2>1. UNCHANGED <<anonymous_task_id, timer, readable, edge, woken, is_stop, loop, lag>>
    BY <1>2 DEF exec, fds
  <2>2. CASE execing[t] \notin Tasks
    <3>1. UNCHANGED <<task_map, owed>>
      BY <1>2, <2>2 DEF exec
    <3> QED
      BY <2>1, <3>1 DEF TimerInv, MapHoldsTasks, ReadyAreOwed, LeftsBounded, TimerCovers, TypeOK,
         Tasks, Left
  <2>3. CASE execing[t] \in Tasks
    <3> DEFINE x == execing[t]
    <3>1. /\ task_map' = [task_map EXCEPT ![x] = [task_map[x] EXCEPT !.is_ready = TRUE]]
          /\ owed' = IF task_map[x].interval = 0 THEN owed + 1 ELSE owed
      BY <1>2, <2>3 DEF exec
    <3>2. /\ Tasks' = Tasks /\ task_map' \in [Tasks -> Task]
          /\ \A k \in Tasks : /\ task_map'[k].left = task_map[k].left
                              /\ task_map'[k].interval = task_map[k].interval
          /\ \A k \in Tasks \ {x} : task_map'[k] = task_map[k]
      BY <1>1, <2>3, <3>1 DEF Tasks, Task
    <3>3. owed' \in Nat /\ owed <= owed' /\ (task_map[x].interval = 0 => owed' >= 1)
      BY <1>1, <3>1
    <3>4. MapHoldsTasks'
      BY <1>1, <2>1, <3>2 DEF MapHoldsTasks, TimerInv
    <3>5. ReadyAreOwed'
      BY <1>1, <3>2, <3>3 DEF ReadyAreOwed, TimerInv
    <3>6. LeftsBounded'
      BY <3>2 DEF LeftsBounded, TimerInv, Left
    <3>7. TypeOK'
      <4>1. \A k \in Tasks' : /\ task_map'[k].left \in Int
                              /\ task_map'[k].interval \in Intervals \cup {0}
                              /\ task_map'[k].is_ready \in BOOLEAN
        BY <3>2 DEF Task
      <4> QED
        BY <2>1, <3>2, <3>3, <4>1 DEF TypeOK, TimerInv, TimerCovers
    <3> QED
      BY <2>1, <3>2, <3>4, <3>5, <3>6, <3>7 DEF TimerInv, TimerCovers
  <2> QED
    BY <2>2, <2>3
<1>3. ASSUME NEW t \in Threads, NEW key \in Named, remove_task(t, key) PROVE TimerInv'
  <2>1. UNCHANGED <<anonymous_task_id, timer, readable, edge, woken, is_stop, loop, lag, owed>>
    BY <1>3 DEF remove_task, fds
  <2>2. /\ Tasks' = Tasks \ {key} /\ task_map' \in [Tasks' -> Task]
        /\ \A k \in Tasks' : task_map'[k] = task_map[k]
    BY <1>1, <1>3 DEF remove_task, Without, Tasks
  <2>3. MapHoldsTasks' /\ ReadyAreOwed'
    BY <1>1, <2>1, <2>2 DEF MapHoldsTasks, ReadyAreOwed, TimerInv
  <2>4. LeftsBounded'
    BY <2>2 DEF LeftsBounded, TimerInv, Left
  <2>5. TypeOK'
    BY <2>1, <2>2 DEF TypeOK, TimerInv, TimerCovers
  <2> QED
    BY <2>1, <2>2, <2>3, <2>4, <2>5 DEF TimerInv, TimerCovers
<1>4. ASSUME NEW s \in Stoppers, stop(s) \/ StopStore(s) \/ wakeup(s) PROVE TimerInv'
  <2>1. UNCHANGED <<anonymous_task_id, task_map, timer, readable, edge, loop, lag, owed>>
    BY <1>4 DEF stop, StopStore, wakeup, fds
  <2>2. {readable', edge', woken', is_stop'} \subseteq BOOLEAN
    BY <1>1, <1>4 DEF stop, StopStore, wakeup, fds
  <2> QED
    BY <2>1, <2>2 DEF TimerInv, MapHoldsTasks, ReadyAreOwed, LeftsBounded, TimerCovers, TypeOK,
       Tasks, Left
<1> QED
  BY <1>2, <1>3, <1>4

\* The loop on its way to _check_and_run_tasks: what it takes from the timer it
\* makes up for before it waits again.
LEMMA LoopWaits ==
  ASSUME TimerInv, Top \/ Poll \/ PollNothing \/ Read \/ Test
  PROVE  TimerInv'
<1>1. /\ {readable, edge, woken, is_stop} \subseteq BOOLEAN
      /\ lag \in 0..MaxLag /\ MaxLag \in Nat
  BY TimerAssumption DEF TimerInv, TimerCovers, TypeOK
<1>2. UNCHANGED <<anonymous_task_id, task_map, timer, is_stop, owed>>
  BY DEF Top, Poll, PollNothing, Read, Test, callerVars, fds
<1>3. {readable', edge', woken', is_stop'} \subseteq BOOLEAN /\ lag' \in 0..MaxLag
  <2>1. lag' \in 0..MaxLag
    BY <1>1 DEF Top, Poll, PollNothing, Read, Test
  <2>2. readable' \in {readable, FALSE} /\ edge' \in {edge, FALSE} /\ woken' \in {woken, FALSE}
    BY Zenon DEF Top, Poll, PollNothing, Read, Test, fds
  <2> QED
    BY <1>1, <1>2, <2>1, <2>2
<1>4. loop' \in {"poll", "read", "test", "lock", "done"}
  BY DEF Top, Poll, PollNothing, Read, Test
<1>5. loop' = "poll" => loop = "top" /\ UNCHANGED <<edge, readable>>
  BY DEF Top, Poll, PollNothing, Read, Test, fds
<1>6. TypeOK'
  BY <1>2, <1>3, <1>4 DEF TypeOK, TimerInv, TimerCovers, Tasks
<1> QED
  BY <1>2, <1>4, <1>5, <1>6 DEF TimerInv, MapHoldsTasks, ReadyAreOwed, LeftsBounded, TimerCovers,
     Tasks, Left

\* ~TimerTask leaves no task.
LEMMA ClearKeeps ==
  ASSUME TimerInv, clear
  PROVE  TimerInv'
<1>1. Tasks' = {} /\ task_map' \in [Tasks' -> Task]
  BY DEF clear, Without, Tasks
<1>2. /\ UNCHANGED <<anonymous_task_id, is_stop, lag, owed>>
      /\ timer' = 0 /\ readable' = FALSE /\ edge' = FALSE /\ woken' = FALSE /\ loop' = "closed"
  BY DEF clear, callerVars
<1>3. MapHoldsTasks' /\ ReadyAreOwed'
  BY <1>1, <1>2 DEF MapHoldsTasks, ReadyAreOwed, TimerInv
<1>4. LeftsBounded'
  BY <1>1 DEF LeftsBounded
<1>5. TypeOK'
  BY <1>1, <1>2 DEF TypeOK, TimerInv, TimerCovers
<1> QED
  BY <1>1, <1>3, <1>4, <1>5 DEF TimerInv, TimerCovers

\* Time passes: a timer that ends makes its descriptor readable.
LEMMA TickKeeps ==
  ASSUME TimerInv, Tick
  PROVE  TimerInv'
<1>1. /\ task_map \in [Tasks -> Task] /\ timer \in Nat /\ lag \in 0..MaxLag
      /\ {readable, edge, woken, is_stop} \subseteq BOOLEAN
      /\ MaxLag \in Nat
  BY TimerAssumption DEF TimerInv, MapHoldsTasks, TimerCovers, TypeOK
<1>2. /\ Tasks' = Tasks
      /\ \A k \in Tasks : task_map'[k] =
           [task_map[k] EXCEPT !.left = Maximum(task_map[k].left - 1, -MaxLag)]
      /\ task_map' \in [Tasks -> Task]
  <2>1. \A k \in Tasks : Maximum(task_map[k].left - 1, -MaxLag) \in Int
    BY <1>1 DEF Maximum, Task
  <2> QED
    BY <1>1, <2>1 DEF Tick, Tasks, Task
<1>3. \A k \in Tasks : /\ Left(k)' = Maximum(Left(k) - 1, -MaxLag)
                       /\ task_map'[k].interval = task_map[k].interval
                       /\ task_map'[k].is_ready = task_map[k].is_ready
                       /\ Left(k) \in Int
  BY <1>1, <1>2 DEF Left, Task
<1>4. UNCHANGED <<anonymous_task_id, is_stop, woken, loop, owed>>
  BY DEF Tick, callerVars
<1>5. MapHoldsTasks' /\ ReadyAreOwed'
  BY <1>2, <1>3, <1>4 DEF MapHoldsTasks, ReadyAreOwed, TimerInv
<1>6. LeftsBounded'
  <2>1. \A k \in Tasks : Left(k)' \in Int /\ (Left(k)' <= Left(k) \/ Left(k)' <= Gap)
    BY <1>1, <1>3 DEF Maximum, Gap
  <2>2. \A k \in Tasks' : InReach(Left(k)')
    BY <1>2, <1>3, <2>1, ReachDown DEF LeftsBounded, TimerInv
  <2>3. \A k \in Tasks' : -MaxLag <= Left(k)'
    BY <1>1, <1>2, <1>3 DEF Maximum
  <2> QED
    BY <1>1, <2>2, <2>3 DEF LeftsBounded
<1>7. timer' \in Nat /\ lag' \in 0..MaxLag /\ {readable', edge', woken', is_stop'} \subseteq BOOLEAN
  <2>1. timer' \in Nat /\ lag' \in 0..MaxLag
    BY <1>1 DEF Tick, Maximum
  <2>2. readable' \in BOOLEAN /\ edge' \in BOOLEAN
    BY DEF Tick
  <2> QED
    BY <1>1, <1>4, <2>1, <2>2
<1>8. TypeOK'
  <2>1. \A k \in Tasks' : /\ task_map'[k].left \in Int
                          /\ task_map'[k].interval \in Intervals \cup {0}
                          /\ task_map'[k].is_ready \in BOOLEAN
    BY <1>2 DEF Task
  <2> QED
    BY <1>2, <1>4, <1>7, <2>1 DEF TypeOK, TimerInv, TimerCovers
<1>9. Covered => Covered'
  <2>1. CASE edge /\ readable
    BY <2>1 DEF Covered, Tick
  <2>2. CASE timer = 1
    BY <2>2 DEF Covered, Tick
  <2>3. CASE timer > 1 /\ InReach(timer)
    <3>1. timer' = timer - 1 /\ timer' > 0 /\ timer' \in Int /\ timer' <= timer
      BY <1>1, <2>3 DEF Tick, Maximum
    <3> QED
      BY <1>1, <2>3, <3>1, ReachDown DEF Covered
  <2> QED
    BY <1>1, <2>1, <2>2, <2>3 DEF Covered
<1> QED
  BY <1>2, <1>4, <1>5, <1>6, <1>8, <1>9 DEF TimerInv, TimerCovers, Covered

\* The tasks that have run are counted off, and the timer is set for the earliest
\* of those that are left.
LEMMA RunKeeps ==
  ASSUME TimerInv, CheckAndRunTasks
  PROVE  TimerInv'
<1> DEFINE ran == {k \in Tasks : task_map[k].is_ready /\ Left(k) <= -lag}
           rest == {k \in Tasks : Stays(k, ran)}
           again == [k \in rest |-> IF k \in ran
                       THEN [task_map[k] EXCEPT !.left = task_map[k].interval - lag]
                       ELSE task_map[k]]
           lefts == {again[k].left : k \in rest}
           earliest == CHOOSE e \in lefts : \A k \in rest : e <= again[k].left
           once == {k \in ran : task_map[k].interval = 0}
<1>1. /\ task_map \in [Tasks -> Task] /\ anonymous_task_id \in Int /\ lag \in 0..MaxLag
      /\ Tasks \subseteq Named \cup {anonymous_task_id} /\ owed \in Nat
      /\ Intervals \subseteq Nat \ {0} /\ MaxLag \in Nat
  BY TimerAssumption DEF TimerInv, MapHoldsTasks, TimerCovers, TypeOK
<1>0. \A k \in Tasks : /\ task_map[k].left \in Int /\ task_map[k].interval \in Nat
                       /\ task_map[k].interval - lag \in Int
                       /\ -MaxLag <= task_map[k].interval - lag
  <2> HIDE DEF ran, rest
  <2>1. \A k \in Tasks : task_map[k].left \in Int /\ task_map[k].interval \in Intervals \cup {0}
    BY <1>1 DEF Task
  <2>2. \A i \in Intervals \cup {0} : i \in Nat
    BY <1>1
  <2>3. \A i \in Nat : i - lag \in Int /\ -MaxLag <= i - lag
    BY <1>1
  <2> QED
    BY <2>1, <2>2, <2>3
<1>2. /\ task_map' = again /\ owed' = owed - Cardinality(once) /\ loop' = "top"
      /\ \/ Rearm(ran, rest) /\ SetupATask(earliest)
         \/ ~Rearm(ran, rest) /\ UNCHANGED <<timer, readable, edge>>
      /\ UNCHANGED <<anonymous_task_id, is_stop, woken, lag>>
  BY Zenon DEF CheckAndRunTasks, callerVars
<1>3. /\ Tasks' = rest /\ rest \subseteq Tasks
      /\ \A k \in rest : /\ task_map'[k] \in Task
                         /\ task_map'[k].interval = task_map[k].interval
                         /\ task_map'[k].is_ready = task_map[k].is_ready
                         /\ task_map'[k].left =
                              IF k \in ran THEN task_map[k].interval - lag ELSE task_map[k].left
      /\ task_map' \in [rest -> Task]
  <2>0. rest \subseteq Tasks
    OBVIOUS
  <2>1. \A k \in rest : task_map[k].interval - lag \in Int
    BY <1>0, <2>0
  <2> HIDE DEF ran
  <2>2. \A k \in rest : again[k] \in Task
    BY <1>1, <2>1 DEF Task
  <2> QED
    BY <1>1, <1>2, <2>1, <2>2 DEF Tasks, Task
<1>4. \A k \in rest : k \in ran => task_map[k].interval \in Intervals
  BY <1>1 DEF Stays, Task
<1>5. MapHoldsTasks'
  BY <1>1, <1>2, <1>3 DEF MapHoldsTasks, TimerInv
<1>6. owed' \in Nat /\ ReadyAreOwed'
  <2>1. \A k \in once : k = anonymous_task_id
    BY DEF TimerInv, MapHoldsTasks
  <2>2. CASE once = {}
    <3>1. owed' = owed
      <4> HIDE DEF once, again, earliest, ran, rest
      <4> QED
        BY <1>1, <1>2, <2>2, FS_EmptySet
    <3> QED
      BY <1>1, <1>3, <3>1 DEF ReadyAreOwed, TimerInv
  <2>3. CASE once # {}
    <3>1. once = {anonymous_task_id}
      BY <2>1, <2>3
    <3>2. owed' = owed - 1
      BY <1>1, <1>2, <3>1, FS_Singleton
    <3>3. owed >= 1
      BY <3>1 DEF ReadyAreOwed, TimerInv
    <3>4. \A k \in rest : task_map[k].interval # 0
      BY <3>1 DEF Stays, TimerInv, MapHoldsTasks
    <3> QED
      BY <1>1, <1>3, <3>2, <3>3, <3>4 DEF ReadyAreOwed
  <2> QED
    BY <2>2, <2>3
<1>7. LeftsBounded' /\ \A k \in rest : InReach(again[k].left) /\ again[k].left \in Int
  <2>1. \A k \in rest : InReach(task_map'[k].left) /\ task_map'[k].left \in Int
    <3>1. ASSUME NEW k \in rest, k \in ran
          PROVE  InReach(task_map'[k].left) /\ task_map'[k].left \in Int
      <4>1. PICK i \in Intervals : i = task_map[k].interval
        BY <1>4, <3>1
      <4>2. InReach(i) /\ i \in Int /\ i - lag \in Int /\ i - lag <= i
        BY <1>1 DEF InReach, Maximum, Gap
      <4> QED
        BY <1>3, <3>1, <4>1, <4>2, ReachDown
    <3>2. ASSUME NEW k \in rest, k \notin ran
          PROVE  InReach(task_map'[k].left) /\ task_map'[k].left \in Int
      BY <1>1, <1>3, <3>2 DEF TimerInv, LeftsBounded, Left, Task
    <3> QED
      BY <3>1, <3>2
  <2>2. \E n \in Int : \A k \in rest : n <= task_map'[k].left
    <3>1. PICK m \in Int : \A k \in Tasks : m <= task_map[k].left
      BY DEF TimerInv, LeftsBounded, Left
    <3>2. PICK n \in Int : n <= m /\ n <= -MaxLag
      BY <1>1
    <3>3. \A k \in rest : n <= task_map'[k].left
      <4> HIDE DEF ran, rest
      <4> QED
        BY <1>0, <1>1, <1>3, <3>1, <3>2
    <3> QED
      BY <3>3
  <2> QED
    BY <1>2, <1>3, <2>1, <2>2 DEF LeftsBounded, Left
<1>8. \/ timer' \in Nat /\ timer' > 0 /\ InReach(timer') /\ readable' = FALSE /\ edge' = FALSE
      \/ UNCHANGED <<timer, readable, edge>> /\ rest = {}
  <2>1. ASSUME rest # {} PROVE earliest \in Int /\ InReach(earliest)
    <3>1. lefts \in SUBSET Int /\ lefts # {}
      BY <1>7, <2>1
    <3>2. PICK m \in Int : \A x \in lefts : m <= x
      BY <1>2, <1>3, <1>7 DEF LeftsBounded, Left
    <3>3. \E e \in lefts : \A x \in lefts : e <= x
      BY <3>1, <3>2, LeastInteger
    <3>4. \E e \in lefts : \A k \in rest : e <= again[k].left
      BY <3>3
    <3>5. earliest \in lefts
      BY <3>4
    <3> QED
      BY <1>7, <3>5
  <2> HIDE DEF earliest, ran
  <2>2. Rearm(ran, rest) <=> rest # {}
    BY DEF Rearm
  <2> QED
    BY <1>2, <2>1, <2>2, SetupArms
<1>9. TypeOK'
  <2>1. timer' \in Nat /\ {readable', edge', woken', is_stop'} \subseteq BOOLEAN
    BY <1>2, <1>8 DEF TimerInv, TimerCovers, TypeOK
  <2>2. \A k \in Tasks' : /\ task_map'[k].left \in Int
                          /\ task_map'[k].interval \in Intervals \cup {0}
                          /\ task_map'[k].is_ready \in BOOLEAN
    BY <1>3 DEF Task
  <2> QED
    BY <1>1, <1>2, <1>3, <1>6, <2>1, <2>2 DEF TypeOK
<1> HIDE DEF ran, rest
<1> QED
  BY <1>3, <1>5, <1>6, <1>7, <1>8, <1>9 DEF TimerInv, TimerCovers

-----------------------------------------------------------------------------
LEMMA TimerInit == Init => TimerInv
<1> SUFFICES ASSUME Init PROVE TimerInv
  OBVIOUS
<1>1. Tasks = {} /\ task_map \in [Tasks -> Task]
  BY DEF Init, Tasks
<1>2. {readable, edge, woken, is_stop} \subseteq BOOLEAN
  BY Zenon DEF Init
<1>3. TypeOK
  BY <1>1, <1>2, TimerAssumption DEF Init, TypeOK
<1> QED
  BY <1>1, <1>3 DEF Init, TimerInv, MapHoldsTasks, ReadyAreOwed, LeftsBounded, TimerCovers

LEMMA TimerStep == TimerInv /\ [Next]_vars => TimerInv'
<1> SUFFICES ASSUME TimerInv, [Next]_vars PROVE TimerInv'
  OBVIOUS
<1>1. CASE UNCHANGED vars
  BY <1>1 DEF vars, TimerInv, MapHoldsTasks, ReadyAreOwed, LeftsBounded, TimerCovers, TypeOK,
     Tasks, Left
<1>2. ASSUME NEW t \in Threads, AddTask(t) \/ run_every(t) \/ run_at(t) \/ run_after(t)
      PROVE  TimerInv'
  BY <1>2, CallersAdd
<1>3. CASE \/ \E t \in Threads : exec(t) \/ \E key \in Named : remove_task(t, key)
           \/ \E s \in Stoppers : stop(s) \/ StopStore(s) \/ wakeup(s)
  BY <1>3, CallersKeep
<1>4. CASE Top \/ Poll \/ PollNothing \/ Read \/ Test
  BY <1>4, LoopWaits
<1>5. CASE CheckAndRunTasks
  BY <1>5, RunKeeps
<1>6. CASE clear
  BY <1>6, ClearKeeps
<1>7. CASE Tick
  BY <1>7, TickKeeps
<1> QED
  BY <1>1, <1>2, <1>3, <1>4, <1>5, <1>6, <1>7 DEF Next, LoopStep

\* The timer does not break off, whatever callers add, replace and remove while
\* the loop polls, reads the timer and sets it again: _setup_a_task is always
\* accepted and the earliest of the remaining tasks always exists.
THEOREM TimerNeverBreaksOff == Spec => []TimerCovers
<1>1. TimerInv => TimerCovers
  BY DEF TimerInv
<1> QED
  BY <1>1, TimerInit, TimerStep, PTL DEF Spec
=============================================================================
