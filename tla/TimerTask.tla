----------------------------- MODULE TimerTask -----------------------------
(* base::timer::TimerTask (small_test/timer/timer_task.h, timer_task.cpp):  *)
(* a map of tasks, one timer (timerfd) and one wake-up (eventfd) that a     *)
(* loop waits for with an edge-triggered epoll.  Callers add and remove     *)
(* tasks under the mutex, and set the timer; the loop runs what has expired *)
(* and sets the timer again.  Time points are kept as the ticks that are    *)
(* left, so that the clock needs no bound; a tick is kMinGapMilliSeconds.   *)
(* What runs under the mutex is one step: callbacks do not call the class.  *)
EXTENDS Integers, FiniteSets
CONSTANTS Threads,    \* callers of add_task, run_every, run_at, run_after, remove_task
          Stoppers,   \* callers of stop
          Named,      \* keys given to add_task
          Intervals, Delays, None, Orphan,
          MaxLag,     \* ticks a thread may spend between reading the clock and the mutex
          MaxCalls    \* bound on the number of tasks added and removed

ASSUME TimerAssumption ==
    /\ Intervals \subseteq Nat \ {0} /\ Delays \subseteq Int
    /\ MaxLag \in Nat /\ MaxCalls \in Nat
    /\ Cardinality(Named \cup {1, None, Orphan}) = Cardinality(Named) + 3

VARIABLES
    anonymous_task_id,
    task_map,   \* a task under some of the keys: ticks left, interval, is_ready
    timer,      \* ticks until _task_fd expires, 0: not armed
    readable,   \* _task_fd has expired and was not read
    edge,       \* epoll has not yet reported that
    woken,      \* epoll has not yet reported the write to _wakeup_fd
    is_stop,
    loop,       \* where the loop is
    lag,        \* ticks since the loop read the clock
    execing,    \* the key of the task a caller holds and has not given to exec
    stopper,
    calls,
    owed,       \* auxiliary: one-shot tasks handed to exec and not run
    served      \* auxiliary: the tasks run by the last _check_and_run_tasks

vars == <<anonymous_task_id, task_map, timer, readable, edge, woken, is_stop, loop,
          lag, execing, stopper, calls, owed, served>>
fds == <<timer, readable, edge, woken>>

Gap == 1
Maximum(a, b) == IF a >= b THEN a ELSE b
Tasks == DOMAIN task_map
Left(k) == task_map[k].left
Without(S) == [k \in Tasks \ S |-> task_map[k]]

Init ==
    /\ anonymous_task_id = 1
    /\ task_map = [k \in {} |-> None]
    /\ timer = 0 /\ readable = FALSE /\ edge = FALSE /\ woken = FALSE
    /\ is_stop = FALSE /\ loop = "top" /\ lag = 0
    /\ execing = [t \in Threads |-> None]
    /\ stopper = [s \in Stoppers |-> "idle"]
    /\ calls = 0 /\ owed = 0 /\ served = {}
-----------------------------------------------------------------------------
(* timerfd_settime: a negative time is refused, zero disarms, anything else *)
(* starts the timer anew and forgets an expiration that was not read.       *)
Settime(v) ==
    \/ v < 0 /\ UNCHANGED <<timer, readable, edge>>
    \/ v >= 0 /\ timer' = v /\ readable' = FALSE /\ edge' = FALSE
\* Mutation: no minimal gap.
TimeLeftBare(left) == left
\* The time left, cut to milliseconds by the caller, is at least the gap.
HowMuchTimeLeft(left) == Maximum(left, Gap)
SetupATask(left) == \E cut \in {0, 1} : Settime(HowMuchTimeLeft(left - cut))

\* The timer is set if there is no other task, or one that expires later.
NeedUpdate(left, others) == others = {} \/ \E k \in others : left < Left(k)

AddTaskInternal(t, key, left, interval) ==
    /\ execing[t] = None /\ calls < MaxCalls /\ loop # "closed"
    /\ calls' = calls + 1
    /\ \/ NeedUpdate(left, Tasks \ {key}) /\ SetupATask(left)
       \/ ~NeedUpdate(left, Tasks \ {key}) /\ UNCHANGED <<timer, readable, edge>>
    /\ task_map' = [k \in Tasks \cup {key} |->
            IF k = key THEN [left |-> left, interval |-> interval, is_ready |-> FALSE]
                       ELSE task_map[k]]
    \* a caller that holds the task replaced here gives its function to nobody
    /\ execing' = [u \in Threads |-> IF u = t THEN key
                                     ELSE IF execing[u] = key THEN Orphan ELSE execing[u]]
    /\ UNCHANGED <<woken, is_stop, loop, lag, stopper, owed, served>>

\* The expiry counts from before the mutex was taken.
add_task(t, key, interval) ==
    \E late \in 0..MaxLag : AddTaskInternal(t, key, interval - late, interval)
\* fetch_add(std::memory_order_relaxed) adds the value of that constant, 0.
memory_order_relaxed == 0
NextAnonymous == anonymous_task_id' = anonymous_task_id + memory_order_relaxed

AddTask(t) == \E key \in Named, i \in Intervals : add_task(t, key, i) /\ UNCHANGED anonymous_task_id
run_every(t) == \E i \in Intervals : add_task(t, anonymous_task_id, i) /\ NextAnonymous
run_at(t) == \E d \in Delays : AddTaskInternal(t, anonymous_task_id, d, 0) /\ NextAnonymous
run_after(t) == \E d \in Delays, late \in 0..MaxLag :
    d > 0 /\ AddTaskInternal(t, anonymous_task_id, d - late, 0) /\ NextAnonymous

\* exec on the task returned: it may run from now on.
exec(t) ==
    /\ execing[t] # None
    /\ task_map' = IF execing[t] \in Tasks
                   THEN [task_map EXCEPT ![execing[t]].is_ready = TRUE] ELSE task_map
    /\ owed' = IF execing[t] \in Tasks /\ task_map[execing[t]].interval = 0 THEN owed + 1 ELSE owed
    /\ execing' = [execing EXCEPT ![t] = None]
    /\ UNCHANGED <<anonymous_task_id, fds, is_stop, loop, lag, stopper, calls, served>>

remove_task(t, key) ==
    /\ execing[t] = None /\ calls < MaxCalls /\ loop # "closed"
    /\ calls' = calls + 1
    /\ task_map' = Without({key})
    /\ execing' = [u \in Threads |-> IF execing[u] = key THEN Orphan ELSE execing[u]]
    /\ UNCHANGED <<anonymous_task_id, fds, is_stop, loop, lag, stopper, owed, served>>

\* stop loads the flag, stores it and writes the event: three steps.
stop(s) ==
    /\ stopper[s] = "idle"
    /\ stopper' = [stopper EXCEPT ![s] = IF is_stop THEN "done" ELSE "store"]
    /\ UNCHANGED <<anonymous_task_id, task_map, fds, is_stop, loop, lag, execing, calls, owed, served>>
\* Mutation: stop does not wake the loop up.
StopQuietly(s) ==
    /\ stopper[s] = "store"
    /\ is_stop' = TRUE
    /\ stopper' = [stopper EXCEPT ![s] = "done"]
    /\ UNCHANGED <<anonymous_task_id, task_map, fds, loop, lag, execing, calls, owed, served>>
StopStore(s) ==
    /\ stopper[s] = "store"
    /\ is_stop' = TRUE
    /\ stopper' = [stopper EXCEPT ![s] = "wakeup"]
    /\ UNCHANGED <<anonymous_task_id, task_map, fds, loop, lag, execing, calls, owed, served>>
wakeup(s) ==
    /\ stopper[s] = "wakeup"
    /\ woken' = TRUE
    /\ stopper' = [stopper EXCEPT ![s] = "done"]
    /\ UNCHANGED <<anonymous_task_id, task_map, timer, readable, edge, is_stop, loop, lag,
                   execing, calls, owed, served>>
-----------------------------------------------------------------------------
(* The loop *)
callerVars == <<anonymous_task_id, is_stop, execing, stopper, calls>>
Top ==
    /\ loop = "top"
    /\ loop' = IF is_stop THEN "done" ELSE "poll"
    /\ UNCHANGED <<callerVars, task_map, fds, lag, owed, served>>

\* epoll_wait reports every edge once; the timer's only if it still can be read.
Poll ==
    /\ loop = "poll" /\ (woken \/ (edge /\ readable))
    /\ woken' = FALSE /\ edge' = FALSE
    /\ loop' = "read"
    /\ UNCHANGED <<callerVars, task_map, timer, readable, lag, owed, served>>
\* epoll_wait is interrupted or its time is over: nothing is read.
PollNothing ==
    /\ loop = "poll"
    /\ loop' = "test"
    /\ UNCHANGED <<callerVars, task_map, fds, lag, owed, served>>
Read ==
    /\ loop = "read"
    /\ readable' = FALSE
    /\ loop' = "test"
    /\ UNCHANGED <<callerVars, task_map, timer, edge, woken, lag, owed, served>>
\* Stop, or begin _check_and_run_tasks with a look at the clock.
Test ==
    /\ loop = "test"
    /\ loop' = IF is_stop THEN "done" ELSE "lock"
    /\ lag' = 0 /\ served' = {}
    /\ UNCHANGED <<callerVars, task_map, fds, owed>>

\* Mutation: the timer is set again only after a task has run.
RearmAfterRun(ran, rest) == ran # {} /\ rest # {}
\* The timer is set again whenever a task is left.
Rearm(ran, rest) == rest # {}
\* The tasks that are not erased: those that have not run or run again.
Stays(k, ran) == k \in ran => task_map[k].interval > 0
CheckAndRunTasks ==
    LET ran == {k \in Tasks : task_map[k].is_ready /\ Left(k) <= -lag}
        rest == {k \in Tasks : Stays(k, ran)}
        again == [k \in rest |-> IF k \in ran
                    THEN [task_map[k] EXCEPT !.left = task_map[k].interval - lag]
                    ELSE task_map[k]]
        earliest == CHOOSE e \in {again[k].left : k \in rest} : \A k \in rest : e <= again[k].left
    IN
    /\ loop = "lock"
    /\ loop' = "top"
    /\ task_map' = again
    /\ served' = ran
    /\ owed' = owed - Cardinality({k \in ran : task_map[k].interval = 0})
    /\ \/ Rearm(ran, rest) /\ SetupATask(earliest)
       \/ ~Rearm(ran, rest) /\ UNCHANGED <<timer, readable, edge>>
    /\ UNCHANGED <<callerVars, woken, lag>>

\* ~TimerTask, at the end of the program.
clear ==
    /\ loop = "done" /\ \A t \in Threads : execing[t] = None
    /\ loop' = "closed"
    /\ task_map' = Without(Tasks)
    /\ timer' = 0 /\ readable' = FALSE /\ edge' = FALSE /\ woken' = FALSE
    /\ UNCHANGED <<callerVars, lag, owed, served>>

\* Time goes on: the timer and all tasks come one tick closer.
Tick ==
    /\ loop = "lock" => lag < MaxLag
    /\ lag' = IF loop = "lock" THEN lag + 1 ELSE lag
    /\ task_map' = [k \in Tasks |-> [task_map[k] EXCEPT !.left = Maximum(@ - 1, -MaxLag)]]
    /\ timer' = Maximum(timer - 1, 0)
    /\ readable' = (readable \/ timer = 1)
    /\ edge' = (edge \/ timer = 1)
    /\ UNCHANGED <<callerVars, woken, loop, owed, served>>
-----------------------------------------------------------------------------
LoopStep == Top \/ Poll \/ Read \/ Test \/ CheckAndRunTasks
Next ==
    \/ \E t \in Threads :
        \/ AddTask(t) \/ run_every(t) \/ run_at(t) \/ run_after(t) \/ exec(t)
        \/ \E key \in Named : remove_task(t, key)
    \/ \E s \in Stoppers : stop(s) \/ StopStore(s) \/ wakeup(s)
    \/ LoopStep \/ PollNothing \/ clear \/ Tick
\* The loop and the callers that have begun keep running, and time passes; an
\* interrupted poll and new calls are not owed to anybody.
Fairness ==
    /\ WF_vars(LoopStep) /\ WF_vars(Tick)
    /\ \A t \in Threads : WF_vars(exec(t))
    /\ \A s \in Stoppers : WF_vars(StopStore(s) \/ wakeup(s))
Spec == Init /\ [][Next]_vars
FairSpec == Spec /\ Fairness
-----------------------------------------------------------------------------
(* Properties *)

\* The variables keep their types; no task is more often run than handed in.
TypeOK ==
    /\ Tasks \subseteq Named \cup {anonymous_task_id}
    /\ \A k \in Tasks : /\ task_map[k].left \in Int
                        /\ task_map[k].interval \in Intervals \cup {0}
                        /\ task_map[k].is_ready \in BOOLEAN
    /\ timer \in Nat /\ {readable, edge, woken, is_stop} \subseteq BOOLEAN
    /\ loop \in {"top", "poll", "read", "test", "lock", "done", "closed"}
    /\ lag \in 0..MaxLag /\ owed \in Nat

\* A time that some caller has asked for, or the minimal gap, is not exceeded.
InReach(n) == \E v \in Intervals \cup Delays : n <= Maximum(v, Gap)

\* Every variable has its type, and the timer does not break off: while the loop
\* waits and there are tasks, the timer is running and expires within the longest
\* interval or delay in use, or its expiration is still going to be reported.
TimerCovers ==
    /\ TypeOK
    /\ (loop \in {"top", "poll"} /\ Tasks # {}) =>
        (edge /\ readable) \/ (timer > 0 /\ InReach(timer))

\* A task that is ready and has expired runs, unless the loop is stopped or the
\* task is removed or replaced first.
Due(k) == k \in Tasks /\ task_map[k].is_ready /\ Left(k) <= 0
DueTasksRun == \A k \in Named \cup {1} : Due(k) ~> (k \in served \/ ~Due(k) \/ is_stop)

\* A stop ends the loop, wherever the loop is when it comes.
StopEndsLoop == is_stop ~> loop \in {"done", "closed"}

\* Every task given to run_at and run_after is run.
OneShotsRun == (owed > 0) ~> (owed = 0 \/ is_stop)
=============================================================================
