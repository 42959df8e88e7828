----------------------------- MODULE ThreadPool -----------------------------
(***************************************************************************)
(* ThreadPool (src/concurrent/thread_pool.h): workers that wait on a       *)
(* condition variable for tasks, clients that enqueue, and any number of   *)
(* callers of stop_and_wait (the destructor is one of them).               *)
(*                                                                         *)
(* The task queue is used through the interface this code expects of it:   *)
(* push blocks while the queue is full, try_pop_n takes at most batch_num  *)
(* tasks and never blocks.  It is not protected by the mutex: size() and   *)
(* push run beside a worker that holds it.  A task is its number.          *)
(***************************************************************************)
EXTENDS Naturals, Sequences, FiniteSets

CONSTANTS
  Workers,        \* the threads of the pool
  Clients,        \* threads that call enqueue
  Stoppers,       \* threads that call stop_and_wait
  NULL,
  queue_size,     \* capacity of the task queue
  batch_num,      \* 10 in the code
  MaxTasks        \* bound: tasks ever enqueued

Tasks == 1..MaxTasks
Threads == Workers \cup Clients \cup Stoppers

ASSUME PoolAssumption ==
  /\ Workers # {} /\ NULL \notin Workers
  /\ Workers \cap Clients = {} /\ Workers \cap Stoppers = {} /\ Clients \cap Stoppers = {}
  /\ queue_size \in Nat \ {0} /\ batch_num \in Nat \ {0}
  /\ MaxTasks \in Nat

VARIABLES
  graceful_stop,  \* argument of the constructor
  is_stop,
  mutex,     \* the worker that holds the mutex, or NULL
  tasks,     \* the queue
  pc,        \* where each thread is
  batch,     \* what each worker took from the queue and has not run yet
  pushed,    \* auxiliary: tasks that have been pushed, 1..pushed
  done,      \* auxiliary: tasks that have been run
  due        \* auxiliary: tasks that had been pushed when is_stop was set

vars == <<graceful_stop, is_stop, mutex, tasks, pc, batch, pushed, done, due>>

Goto(t, label) == pc' = [pc EXCEPT ![t] = label]

Init ==
  /\ graceful_stop \in BOOLEAN
  /\ is_stop = FALSE
  /\ mutex = NULL
  /\ tasks = <<>>
  /\ pc = [t \in Threads |-> IF t \in Workers THEN "lock" ELSE "idle"]
  /\ batch = [w \in Workers |-> <<>>]
  /\ pushed = 0
  /\ done = {}
  /\ due = {}

-----------------------------------------------------------------------------
(* A worker: condition.wait(lock, predicate), then a batch of tasks.       *)

Lock(w) ==
  /\ pc[w] = "lock" /\ mutex = NULL
  /\ mutex' = w
  /\ Goto(w, "predicate")
  /\ UNCHANGED <<graceful_stop, is_stop, tasks, batch, pushed, done, due>>

Predicate(w) ==
  /\ pc[w] = "predicate"
  /\ Goto(w, IF is_stop \/ Len(tasks) > 0 THEN "decide" ELSE "block")
  /\ UNCHANGED <<graceful_stop, is_stop, mutex, tasks, batch, pushed, done, due>>

\* wait() gives up the mutex and starts to wait in one step.
Block(w) ==
  /\ pc[w] = "block"
  /\ mutex' = NULL
  /\ Goto(w, "waiting")
  /\ UNCHANGED <<graceful_stop, is_stop, tasks, batch, pushed, done, due>>

SpuriousWakeup(w) ==
  /\ pc[w] = "waiting"
  /\ Goto(w, "lock")
  /\ UNCHANGED <<graceful_stop, is_stop, mutex, tasks, batch, pushed, done, due>>

\* Mutation: a worker that sees the signal leaves whatever is still queued.
LeavesAtOnce == is_stop

\* The worker's reason to return.
Leaves == is_stop /\ (graceful_stop => Len(tasks) = 0)

Decide(w) ==
  /\ pc[w] = "decide"
  /\ mutex' = NULL
  /\ Goto(w, IF Leaves THEN "returned" ELSE "pop")
  /\ UNCHANGED <<graceful_stop, is_stop, tasks, batch, pushed, done, due>>

try_pop_n(w) ==
  LET n == IF Len(tasks) < batch_num THEN Len(tasks) ELSE batch_num
  IN  /\ pc[w] = "pop"
      /\ batch' = [batch EXCEPT ![w] = SubSeq(tasks, 1, n)]
      /\ tasks' = SubSeq(tasks, n + 1, Len(tasks))
      /\ Goto(w, IF n = 0 THEN "lock" ELSE "run")
      /\ UNCHANGED <<graceful_stop, is_stop, mutex, pushed, done, due>>

\* Mutation: only the first task of the batch is run.
RunFirst(w) ==
  /\ pc[w] = "run"
  /\ done' = done \cup {Head(batch[w])}
  /\ batch' = [batch EXCEPT ![w] = <<>>]
  /\ Goto(w, "lock")
  /\ UNCHANGED <<graceful_stop, is_stop, mutex, tasks, pushed, due>>

Run(w) ==
  /\ pc[w] = "run"
  /\ done' = done \cup {Head(batch[w])}
  /\ batch' = [batch EXCEPT ![w] = Tail(@)]
  /\ Goto(w, IF Len(batch[w]) = 1 THEN "lock" ELSE "run")
  /\ UNCHANGED <<graceful_stop, is_stop, mutex, tasks, pushed, due>>

-----------------------------------------------------------------------------
(* enqueue: both overloads push, then notify one worker.                   *)

enqueue(c) ==
  /\ pc[c] = "idle"
  /\ pushed < MaxTasks /\ Len(tasks) < queue_size
  /\ pushed' = pushed + 1
  /\ tasks' = Append(tasks, pushed + 1)
  /\ Goto(c, "notify_one")
  /\ UNCHANGED <<graceful_stop, is_stop, mutex, batch, done, due>>

Waiting == {w \in Workers : pc[w] = "waiting"}

NotifyOne(c) ==
  /\ pc[c] = "notify_one"
  /\ \/ Waiting = {} /\ Goto(c, "idle")
     \/ \E w \in Waiting : pc' = [pc EXCEPT ![w] = "lock", ![c] = "idle"]
  /\ UNCHANGED <<graceful_stop, is_stop, mutex, tasks, batch, pushed, done, due>>

-----------------------------------------------------------------------------
(* stop_and_wait: set is_stop under the mutex, notify all, join all.       *)

\* Mutation: is_stop is set without the mutex.
StopUnlocked(s) ==
  /\ pc[s] = "idle"
  /\ IF is_stop
     THEN Goto(s, "returned") /\ UNCHANGED <<is_stop, due>>
     ELSE /\ is_stop' = TRUE
          /\ due' = 1..pushed
          /\ Goto(s, "notify_all")
  /\ UNCHANGED <<graceful_stop, mutex, tasks, batch, pushed, done>>

stop_and_wait(s) ==
  /\ pc[s] = "idle" /\ mutex = NULL
  /\ IF is_stop
     THEN Goto(s, "returned") /\ UNCHANGED <<is_stop, due>>
     ELSE /\ is_stop' = TRUE
          /\ due' = 1..pushed
          /\ Goto(s, "notify_all")
  /\ UNCHANGED <<graceful_stop, mutex, tasks, batch, pushed, done>>

NotifyAll(s) ==
  /\ pc[s] = "notify_all"
  /\ pc' = [t \in Threads |-> IF t = s THEN "join"
                              ELSE IF t \in Waiting THEN "lock" ELSE pc[t]]
  /\ UNCHANGED <<graceful_stop, is_stop, mutex, tasks, batch, pushed, done, due>>

Join(s) ==
  /\ pc[s] = "join"
  /\ \A w \in Workers : pc[w] = "returned"
  /\ Goto(s, "stopped")
  /\ UNCHANGED <<graceful_stop, is_stop, mutex, tasks, batch, pushed, done, due>>

-----------------------------------------------------------------------------
WorkerStep(w) ==
  \/ Lock(w) \/ Predicate(w) \/ Block(w) \/ Decide(w) \/ try_pop_n(w) \/ Run(w)

Next ==
  \/ \E w \in Workers : WorkerStep(w) \/ SpuriousWakeup(w)
  \/ \E c \in Clients : enqueue(c) \/ NotifyOne(c)
  \/ \E s \in Stoppers : stop_and_wait(s) \/ NotifyAll(s) \/ Join(s)

Spec == Init /\ [][Next]_vars

\* Threads inside the code keep running, tasks return, and the mutex is given
\* sooner or later to every worker that asks for it again and again.
Fairness ==
  /\ \A w \in Workers : WF_vars(WorkerStep(w)) /\ SF_vars(Lock(w))
  /\ \A c \in Clients : WF_vars(NotifyOne(c))
  /\ \A s \in Stoppers : WF_vars(NotifyAll(s)) /\ WF_vars(Join(s))

FairSpec == Spec /\ Fairness

-----------------------------------------------------------------------------
(* Properties.                                                             *)

\* Every variable has its type, and the mutex is held exactly by the worker
\* that is between taking and giving it up.
TypeOK ==
  /\ graceful_stop \in BOOLEAN
  /\ is_stop \in BOOLEAN
  /\ mutex \in Workers \cup {NULL}
  /\ tasks \in Seq(Tasks) /\ Len(tasks) <= queue_size
  /\ pc \in [Threads -> {"lock", "predicate", "block", "waiting", "decide", "pop", "run",
                         "returned", "idle", "notify_one", "notify_all", "join", "stopped"}]
  /\ batch \in [Workers -> Seq(Tasks)]
  /\ pushed \in 0..MaxTasks
  /\ done \subseteq Tasks /\ due \subseteq Tasks
  /\ \A w \in Workers : mutex = w <=> pc[w] \in {"predicate", "block", "decide"}

\* A graceful stop returns only when every task enqueued before it has been run,
\* whichever worker took it and however many workers had already left; and every
\* variable has its type, with one holder of the mutex.
StopDrains ==
  /\ TypeOK
  /\ graceful_stop =>
       \A s \in Stoppers : pc[s] = "stopped" => due \subseteq done

\* stop_and_wait returns: no worker sleeps through the stop.
StopReturns ==
  \A s \in Stoppers : pc[s] = "notify_all" ~> pc[s] = "stopped"

\* Every task that was pushed is run some day unless the pool is stopped, so that
\* future.get() returns: notify_one, called without the mutex, reaches a worker
\* when it has to.
EnqueuedRuns ==
  \A i \in Tasks : i <= pushed ~> i \in done \/ is_stop
=============================================================================
