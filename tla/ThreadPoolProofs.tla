--------------------------- MODULE ThreadPoolProofs ---------------------------
(***************************************************************************)
(* A graceful stop_and_wait drains the pool: proved for any number of      *)
(* workers, clients and callers of stop_and_wait, and for any queue and    *)
(* batch size.                                                             *)
(***************************************************************************)
EXTENDS ThreadPool, TLAPS

InSeq(i, s) == \E k \in 1..Len(s) : s[k] = i

\* What makes the property inductive.  Every thread is at one of its own steps.
RolesKept ==
  /\ \A w \in Workers :
       pc[w] \in {"lock", "predicate", "block", "waiting", "decide", "pop", "run", "returned"}
  /\ \A c \in Clients : pc[c] \in {"idle", "notify_one"}
  /\ \A s \in Stoppers : pc[s] \in {"idle", "notify_all", "join", "stopped", "returned"}

\* A worker has tasks in hand exactly while it runs them ...
BatchesRun == \A w \in Workers : pc[w] = "run" <=> batch[w] # <<>>

\* ... and no task is lost between the queue, the workers' hands and the end.
TasksAccounted ==
  \A i \in 1..pushed :
    \/ InSeq(i, tasks)
    \/ \E w \in Workers : InSeq(i, batch[w])
    \/ i \in done

\* What is due had been pushed.
DueWerePushed == due \subseteq 1..pushed

\* A worker that has left a graceful stop saw the queue empty after is_stop was
\* set: what is due is no longer in the queue, whatever is pushed later.
LeaversSawEmpty ==
  \A w \in Workers : pc[w] = "returned" =>
    /\ is_stop
    /\ graceful_stop => \A i \in due : ~InSeq(i, tasks)

\* A thread that has joined the workers finds them gone for good.
JoinedAreGone ==
  \A s \in Stoppers : pc[s] = "stopped" => \A w \in Workers : pc[w] = "returned"

PoolInv ==
  /\ TypeOK
  /\ RolesKept
  /\ BatchesRun
  /\ TasksAccounted
  /\ DueWerePushed
  /\ LeaversSawEmpty
  /\ JoinedAreGone

-----------------------------------------------------------------------------
(* Lemmas about sequences of tasks.                                        *)

\* Taking the first n tasks off a sequence loses none of them.
LEMMA SplitSeq ==
  ASSUME NEW S, NEW s \in Seq(S), NEW n \in 0..Len(s)
  PROVE  /\ SubSeq(s, 1, n) \in Seq(S) /\ Len(SubSeq(s, 1, n)) = n
         /\ SubSeq(s, n + 1, Len(s)) \in Seq(S)
         /\ Len(SubSeq(s, n + 1, Len(s))) = Len(s) - n
         /\ \A i : InSeq(i, s) => InSeq(i, SubSeq(s, 1, n)) \/ InSeq(i, SubSeq(s, n + 1, Len(s)))
         /\ \A i : InSeq(i, SubSeq(s, n + 1, Len(s))) => InSeq(i, s)
<1>1. /\ SubSeq(s, 1, n) \in Seq(S) /\ Len(SubSeq(s, 1, n)) = n
      /\ \A k \in 1..n : SubSeq(s, 1, n)[k] = s[k]
  OBVIOUS
<1>2. /\ SubSeq(s, n + 1, Len(s)) \in Seq(S)
      /\ Len(SubSeq(s, n + 1, Len(s))) = Len(s) - n
      /\ \A k \in 1..(Len(s) - n) : SubSeq(s, n + 1, Len(s))[k] = s[n + k]
  OBVIOUS
<1>3. ASSUME NEW k \in 1..Len(s)
      PROVE  InSeq(s[k], SubSeq(s, 1, n)) \/ InSeq(s[k], SubSeq(s, n + 1, Len(s)))
  <2>1. CASE k <= n
    BY <1>1, <2>1 DEF InSeq
  <2>2. CASE k > n
    <3>1. k - n \in 1..(Len(s) - n) /\ n + (k - n) = k
      BY <2>2
    <3> QED
      BY <1>2, <3>1 DEF InSeq
  <2> QED
    BY <2>1, <2>2
<1>4. ASSUME NEW k \in 1..(Len(s) - n) PROVE InSeq(SubSeq(s, n + 1, Len(s))[k], s)
  BY <1>2 DEF InSeq
<1> QED
  BY <1>1, <1>2, <1>3, <1>4 DEF InSeq

\* A sequence that has lost its head has the other tasks still.
LEMMA TailSeq ==
  ASSUME NEW S, NEW s \in Seq(S), s # <<>>
  PROVE  /\ Head(s) \in S /\ Tail(s) \in Seq(S)
         /\ Tail(s) = <<>> <=> Len(s) = 1
         /\ \A i : InSeq(i, s) => i = Head(s) \/ InSeq(i, Tail(s))
<1>1. /\ Head(s) = s[1] /\ Head(s) \in S
      /\ Tail(s) \in Seq(S) /\ Len(Tail(s)) = Len(s) - 1
      /\ \A k \in 1..(Len(s) - 1) : Tail(s)[k] = s[k + 1]
  OBVIOUS
<1>2. Tail(s) = <<>> <=> Len(s) = 1
  <2>1. \A q \in Seq(S) : q = <<>> <=> Len(q) = 0
    OBVIOUS
  <2>2. Len(Tail(s)) = 0 <=> Len(s) = 1
    BY <1>1
  <2> QED
    BY <1>1, <2>1, <2>2
<1>3. ASSUME NEW k \in 1..Len(s), k # 1 PROVE InSeq(s[k], Tail(s))
  <2>1. k - 1 \in 1..(Len(s) - 1) /\ (k - 1) + 1 = k
    BY <1>3
  <2> QED
    BY <1>1, <2>1 DEF InSeq
<1> QED
  BY <1>1, <1>2, <1>3 DEF InSeq

\* Appending adds one task.
LEMMA AppendSeq ==
  ASSUME NEW S, NEW s \in Seq(S), NEW x \in S
  PROVE  /\ Append(s, x) \in Seq(S) /\ Len(Append(s, x)) = Len(s) + 1
         /\ \A i : InSeq(i, Append(s, x)) <=> InSeq(i, s) \/ i = x
<1>1. /\ Append(s, x) \in Seq(S) /\ Len(Append(s, x)) = Len(s) + 1
      /\ \A k \in 1..Len(s) : Append(s, x)[k] = s[k]
      /\ Append(s, x)[Len(s) + 1] = x
  OBVIOUS
<1>2. \A k \in 1..(Len(s) + 1) : k \in 1..Len(s) \/ k = Len(s) + 1
  OBVIOUS
<1> QED
  BY <1>1, <1>2 DEF InSeq

-----------------------------------------------------------------------------
(* The invariant holds initially and is preserved, one action at a time.   *)

\* The pool starts with its workers at the mutex and nothing pushed.
LEMMA InitPoolInv == Init => PoolInv
<1> SUFFICES ASSUME Init PROVE PoolInv
  OBVIOUS
<1>1. \A w \in Workers : w \notin Clients /\ w \notin Stoppers /\ w # NULL
  BY PoolAssumption
<1>2. /\ \A w \in Workers : pc[w] = "lock" /\ batch[w] = <<>>
      /\ \A t \in Clients \cup Stoppers : pc[t] = "idle"
  BY <1>1 DEF Init, Threads
<1>3. <<>> \in Seq(Tasks) /\ Len(<<>>) = 0
  OBVIOUS
<1>4. TypeOK
  <2>1. pc \in [Threads -> {"lock", "idle"}]
    BY DEF Init
  <2>2. batch \in [Workers -> Seq(Tasks)]
    BY <1>3 DEF Init
  <2>3. pushed \in 0..MaxTasks /\ queue_size \in Nat
    BY PoolAssumption DEF Init
  <2>4. graceful_stop \in BOOLEAN /\ is_stop \in BOOLEAN
    BY Zenon DEF Init
  <2>5. pc \in [Threads -> {"lock", "predicate", "block", "waiting", "decide", "pop",
                            "run", "returned", "idle", "notify_one", "notify_all",
                            "join", "stopped"}]
    BY <2>1
  <2>6. mutex = NULL /\ tasks = <<>> /\ done = {} /\ due = {}
    BY DEF Init
  <2> QED
    BY <1>1, <1>2, <1>3, <2>1, <2>2, <2>3, <2>4, <2>5, <2>6 DEF TypeOK
<1> QED
  BY <1>2, <1>4
  DEF Init, PoolInv, RolesKept, BatchesRun, TasksAccounted, DueWerePushed,
      LeaversSawEmpty, JoinedAreGone

\* A step of one thread that leaves tasks, batches and what is done alone.
LEMMA MoveStep ==
  ASSUME PoolInv, TypeOK', RolesKept', NEW t \in Threads,
         UNCHANGED <<graceful_stop, is_stop, tasks, batch, pushed, done, due>>,
         \A u \in Threads : pc[u] = "run" <=> pc'[u] = "run",
         \A u \in Threads : pc[u] = "returned" => pc'[u] = "returned",
         \A w \in Workers : pc'[w] = "returned" => pc[w] = "returned" \/ Leaves,
         \A s \in Stoppers : pc'[s] = "stopped" =>
             pc[s] = "stopped" \/ \A w \in Workers : pc[w] = "returned"
  PROVE  PoolInv'
<1>1. BatchesRun'
  BY DEF PoolInv, BatchesRun, Threads
<1>2. TasksAccounted'
  BY DEF PoolInv, TasksAccounted, InSeq
<1>3. DueWerePushed'
  BY DEF PoolInv, DueWerePushed
<1>4. LeaversSawEmpty'
  <2> SUFFICES ASSUME NEW w \in Workers, pc'[w] = "returned"
               PROVE  is_stop /\ (graceful_stop => \A i \in due : ~InSeq(i, tasks))
    BY DEF LeaversSawEmpty, InSeq
  <2>1. CASE pc[w] = "returned"
    BY <2>1 DEF PoolInv, LeaversSawEmpty
  <2>2. CASE Leaves
    BY <2>2 DEF Leaves, PoolInv, TypeOK, InSeq
  <2> QED
    BY <2>1, <2>2
<1>5. JoinedAreGone'
  BY DEF PoolInv, JoinedAreGone, Threads
<1> QED
  BY <1>1, <1>2, <1>3, <1>4, <1>5 DEF PoolInv

\* No two threads have the same role.
LEMMA Roles ==
  /\ \A w \in Workers : w \in Threads /\ w \notin Clients /\ w \notin Stoppers /\ w # NULL
  /\ \A c \in Clients : c \in Threads /\ c \notin Workers /\ c \notin Stoppers
  /\ \A s \in Stoppers : s \in Threads /\ s \notin Workers /\ s \notin Clients
BY PoolAssumption DEF Threads

\* Every step preserves the invariant.
LEMMA NextPoolInv == PoolInv /\ [Next]_vars => PoolInv'
<1> SUFFICES ASSUME PoolInv, [Next]_vars PROVE PoolInv'
  OBVIOUS
<1>0. TypeOK /\ RolesKept /\ BatchesRun /\ TasksAccounted /\ DueWerePushed
      /\ LeaversSawEmpty /\ JoinedAreGone
  BY DEF PoolInv
<1>1. ASSUME NEW w \in Workers, Lock(w) PROVE PoolInv'
  <2>1. TypeOK' /\ RolesKept'
    BY <1>0, <1>1, Roles DEF Lock, Goto, TypeOK, RolesKept
  <2> QED
    BY <1>0, <1>1, <2>1, Roles, MoveStep DEF Lock, Goto, TypeOK
<1>2. ASSUME NEW w \in Workers, Predicate(w) PROVE PoolInv'
  <2>1. TypeOK' /\ RolesKept'
    BY <1>0, <1>2, Roles DEF Predicate, Goto, TypeOK, RolesKept
  <2> QED
    BY <1>0, <1>2, <2>1, Roles, MoveStep DEF Predicate, Goto, TypeOK
<1>3. ASSUME NEW w \in Workers, Block(w) PROVE PoolInv'
  <2>1. TypeOK' /\ RolesKept'
    BY <1>0, <1>3, Roles DEF Block, Goto, TypeOK, RolesKept
  <2> QED
    BY <1>0, <1>3, <2>1, Roles, MoveStep DEF Block, Goto, TypeOK
<1>4. ASSUME NEW w \in Workers, SpuriousWakeup(w) PROVE PoolInv'
  <2>1. TypeOK' /\ RolesKept'
    BY <1>0, <1>4, Roles DEF SpuriousWakeup, Goto, TypeOK, RolesKept
  <2> QED
    BY <1>0, <1>4, <2>1, Roles, MoveStep DEF SpuriousWakeup, Goto, TypeOK
<1>5. ASSUME NEW w \in Workers, Decide(w) PROVE PoolInv'
  <2>1. TypeOK' /\ RolesKept'
    BY <1>0, <1>5, Roles DEF Decide, Goto, TypeOK, RolesKept
  <2> QED
    BY <1>0, <1>5, <2>1, Roles, MoveStep DEF Decide, Goto, TypeOK
<1>6. ASSUME NEW w \in Workers, try_pop_n(w) PROVE PoolInv'
  <2> DEFINE n == IF Len(tasks) < batch_num THEN Len(tasks) ELSE batch_num
  <2>1. /\ pc[w] = "pop"
        /\ batch' = [batch EXCEPT ![w] = SubSeq(tasks, 1, n)]
        /\ tasks' = SubSeq(tasks, n + 1, Len(tasks))
        /\ pc' = [pc EXCEPT ![w] = IF n = 0 THEN "lock" ELSE "run"]
        /\ UNCHANGED <<graceful_stop, is_stop, mutex, pushed, done, due>>
    BY <1>6 DEF try_pop_n, Goto
  <2>2. tasks \in Seq(Tasks) /\ n \in 0..Len(tasks)
    BY <1>0, PoolAssumption DEF TypeOK
  <2> HIDE DEF n
  <2>3. /\ SubSeq(tasks, 1, n) \in Seq(Tasks) /\ Len(SubSeq(tasks, 1, n)) = n
        /\ tasks' \in Seq(Tasks) /\ Len(tasks') = Len(tasks) - n
        /\ \A i : InSeq(i, tasks) => InSeq(i, SubSeq(tasks, 1, n)) \/ InSeq(i, tasks')
        /\ \A i : InSeq(i, tasks') => InSeq(i, tasks)
    BY <2>1, <2>2, SplitSeq
  <2>4. batch'[w] = SubSeq(tasks, 1, n) /\ \A u \in Workers \ {w} : batch'[u] = batch[u]
    BY <1>0, <2>1 DEF TypeOK
  <2>5. batch[w] = <<>>
    BY <1>0, <2>1 DEF BatchesRun
  <2>6. TypeOK' /\ RolesKept'
    <3>1. Len(tasks') <= queue_size
      BY <1>0, <2>2, <2>3, PoolAssumption DEF TypeOK
    <3>2. batch' \in [Workers -> Seq(Tasks)]
      BY <1>0, <2>1, <2>3 DEF TypeOK
    <3> QED
      BY <1>0, <2>1, <2>3, <3>1, <3>2, Roles DEF TypeOK, RolesKept
  <2>7. BatchesRun'
    <3>1. batch'[w] # <<>> <=> n # 0
      BY <2>2, <2>3, <2>4
    <3> QED
      BY <1>0, <2>1, <2>4, <3>1, Roles DEF BatchesRun, TypeOK
  <2>8. TasksAccounted'
    <3> SUFFICES ASSUME NEW i \in 1..pushed
                 PROVE  \/ InSeq(i, tasks')
                        \/ \E u \in Workers : InSeq(i, batch'[u])
                        \/ i \in done
      BY <2>1 DEF TasksAccounted, InSeq
    <3>1. CASE InSeq(i, tasks)
      BY <2>3, <2>4, <3>1
    <3>2. ASSUME NEW u \in Workers, InSeq(i, batch[u]) PROVE InSeq(i, batch'[u])
      <4>1. u # w
        BY <2>5, <3>2 DEF InSeq
      <4> QED
        BY <2>4, <3>2, <4>1
    <3> QED
      BY <1>0, <3>1, <3>2 DEF TasksAccounted
  <2>9. LeaversSawEmpty'
    <3> SUFFICES ASSUME NEW u \in Workers, pc'[u] = "returned"
                 PROVE  is_stop /\ (graceful_stop => \A i \in due : ~InSeq(i, tasks'))
      BY <2>1 DEF LeaversSawEmpty, InSeq
    <3>1. pc[u] = "returned"
      BY <1>0, <2>1, Roles DEF TypeOK
    <3> QED
      BY <1>0, <2>3, <3>1 DEF LeaversSawEmpty
  <2>10. DueWerePushed' /\ JoinedAreGone'
    BY <1>0, <2>1, Roles DEF DueWerePushed, JoinedAreGone, TypeOK
  <2> QED
    BY <2>6, <2>7, <2>8, <2>9, <2>10 DEF PoolInv
<1>7. ASSUME NEW w \in Workers, Run(w) PROVE PoolInv'
  <2>1. /\ pc[w] = "run"
        /\ done' = done \cup {Head(batch[w])}
        /\ batch' = [batch EXCEPT ![w] = Tail(batch[w])]
        /\ pc' = [pc EXCEPT ![w] = IF Len(batch[w]) = 1 THEN "lock" ELSE "run"]
        /\ UNCHANGED <<graceful_stop, is_stop, mutex, tasks, pushed, due>>
    BY <1>7 DEF Run, Goto
  <2>2. batch[w] \in Seq(Tasks) /\ batch[w] # <<>>
    BY <1>0, <2>1 DEF TypeOK, BatchesRun
  <2>3. /\ Head(batch[w]) \in Tasks /\ Tail(batch[w]) \in Seq(Tasks)
        /\ Tail(batch[w]) = <<>> <=> Len(batch[w]) = 1
        /\ \A i : InSeq(i, batch[w]) => i = Head(batch[w]) \/ InSeq(i, Tail(batch[w]))
    BY <2>2, TailSeq
  <2>4. batch'[w] = Tail(batch[w]) /\ \A u \in Workers \ {w} : batch'[u] = batch[u]
    BY <1>0, <2>1 DEF TypeOK
  <2>5. TypeOK' /\ RolesKept'
    BY <1>0, <2>1, <2>3, Roles DEF TypeOK, RolesKept
  <2>6. BatchesRun'
    BY <1>0, <2>1, <2>3, <2>4, Roles DEF BatchesRun, TypeOK
  <2>7. TasksAccounted'
    <3> SUFFICES ASSUME NEW i \in 1..pushed
                 PROVE  \/ InSeq(i, tasks)
                        \/ \E u \in Workers : InSeq(i, batch'[u])
                        \/ i \in done'
      BY <2>1 DEF TasksAccounted, InSeq
    <3>1. ASSUME NEW u \in Workers, InSeq(i, batch[u])
          PROVE  InSeq(i, batch'[u]) \/ i \in done'
      BY <2>1, <2>3, <2>4, <3>1
    <3> QED
      BY <1>0, <2>1, <3>1 DEF TasksAccounted
  <2>8. LeaversSawEmpty'
    BY <1>0, <2>1, Roles DEF LeaversSawEmpty, TypeOK, InSeq
  <2>9. DueWerePushed' /\ JoinedAreGone'
    BY <1>0, <2>1, Roles DEF DueWerePushed, JoinedAreGone, TypeOK
  <2> QED
    BY <2>5, <2>6, <2>7, <2>8, <2>9 DEF PoolInv
<1>8. ASSUME NEW c \in Clients, enqueue(c) PROVE PoolInv'
  <2>1. /\ pc[c] = "idle" /\ pushed < MaxTasks /\ Len(tasks) < queue_size
        /\ pushed' = pushed + 1
        /\ tasks' = Append(tasks, pushed + 1)
        /\ pc' = [pc EXCEPT ![c] = "notify_one"]
        /\ UNCHANGED <<graceful_stop, is_stop, mutex, batch, done, due>>
    BY <1>8 DEF enqueue, Goto
  <2>2. tasks \in Seq(Tasks) /\ pushed + 1 \in Tasks /\ pushed \in Nat
        /\ pushed + 1 \in 0..MaxTasks
    BY <1>0, <2>1, PoolAssumption DEF TypeOK, Tasks
  <2>3. /\ tasks' \in Seq(Tasks) /\ Len(tasks') = Len(tasks) + 1
        /\ \A i : InSeq(i, tasks') <=> InSeq(i, tasks) \/ i = pushed + 1
    BY <2>1, <2>2, AppendSeq
  <2>4. Len(tasks') <= queue_size
    BY <2>1, <2>2, <2>3, PoolAssumption
  <2>5. TypeOK' /\ RolesKept'
    BY <1>0, <2>1, <2>2, <2>3, <2>4, Roles DEF TypeOK, RolesKept
  <2>6. BatchesRun' /\ JoinedAreGone'
    BY <1>0, <2>1, Roles DEF BatchesRun, JoinedAreGone, TypeOK
  <2>7. TasksAccounted'
    <3> SUFFICES ASSUME NEW i \in 1..(pushed + 1)
                 PROVE  \/ InSeq(i, tasks')
                        \/ \E u \in Workers : InSeq(i, batch[u])
                        \/ i \in done
      BY <2>1 DEF TasksAccounted, InSeq
    <3>1. i \in 1..pushed \/ i = pushed + 1
      BY <2>2
    <3> QED
      BY <1>0, <2>3, <3>1 DEF TasksAccounted
  <2>8. DueWerePushed'
    BY <1>0, <2>1, <2>2 DEF DueWerePushed
  <2>9. LeaversSawEmpty'
    <3>1. \A i \in due : i # pushed + 1
      BY <1>0, <2>2 DEF DueWerePushed
    <3> SUFFICES ASSUME NEW u \in Workers, pc'[u] = "returned"
                 PROVE  is_stop /\ (graceful_stop => \A i \in due : ~InSeq(i, tasks'))
      BY <2>1 DEF LeaversSawEmpty, InSeq
    <3>2. pc[u] = "returned"
      BY <1>0, <2>1, Roles DEF TypeOK
    <3> QED
      BY <1>0, <2>3, <3>1, <3>2 DEF LeaversSawEmpty
  <2> QED
    BY <2>5, <2>6, <2>7, <2>8, <2>9 DEF PoolInv
<1>9. ASSUME NEW c \in Clients, NotifyOne(c) PROVE PoolInv'
  <2>1. TypeOK' /\ RolesKept'
    BY <1>0, <1>9, Roles DEF NotifyOne, Waiting, Goto, TypeOK, RolesKept
  <2> QED
    BY <1>0, <1>9, <2>1, Roles, MoveStep DEF NotifyOne, Waiting, Goto, TypeOK
<1>10. ASSUME NEW s \in Stoppers, stop_and_wait(s), is_stop PROVE PoolInv'
  <2>1. pc[s] = "idle" /\ pc' = [pc EXCEPT ![s] = "returned"]
        /\ UNCHANGED <<graceful_stop, is_stop, mutex, tasks, batch, pushed, done, due>>
    BY <1>10 DEF stop_and_wait, Goto
  <2>2. TypeOK' /\ RolesKept'
    BY <1>0, <2>1, Roles DEF TypeOK, RolesKept
  <2> QED
    BY <1>0, <2>1, <2>2, Roles, MoveStep DEF TypeOK
<1>11. ASSUME NEW s \in Stoppers, stop_and_wait(s), ~is_stop PROVE PoolInv'
  <2>1. /\ pc[s] = "idle" /\ pc' = [pc EXCEPT ![s] = "notify_all"]
        /\ is_stop' = TRUE /\ due' = 1..pushed
        /\ UNCHANGED <<graceful_stop, mutex, tasks, batch, pushed, done>>
    BY <1>11 DEF stop_and_wait, Goto
  <2>2. \A w \in Workers : pc[w] # "returned" /\ pc'[w] # "returned"
    BY <1>0, <1>11, <2>1, Roles DEF LeaversSawEmpty, TypeOK
  <2>3. TypeOK' /\ RolesKept'
    <3>1. 1..pushed \subseteq Tasks
      BY <1>0, PoolAssumption DEF TypeOK, Tasks
    <3> QED
      BY <1>0, <2>1, <3>1, Roles DEF TypeOK, RolesKept
  <2>4. BatchesRun' /\ JoinedAreGone'
    BY <1>0, <2>1, Roles DEF BatchesRun, JoinedAreGone, TypeOK
  <2>5. TasksAccounted' /\ DueWerePushed'
    BY <1>0, <2>1 DEF TasksAccounted, DueWerePushed, InSeq
  <2>6. LeaversSawEmpty'
    BY <2>2 DEF LeaversSawEmpty
  <2> QED
    BY <2>3, <2>4, <2>5, <2>6 DEF PoolInv
<1>12. ASSUME NEW s \in Stoppers, NotifyAll(s) PROVE PoolInv'
  <2>1. /\ pc[s] = "notify_all" /\ pc'[s] = "join"
        /\ \A t \in Threads \ {s} :
             \/ pc'[t] = pc[t]
             \/ t \in Workers /\ pc[t] = "waiting" /\ pc'[t] = "lock"
        /\ UNCHANGED <<graceful_stop, is_stop, mutex, tasks, batch, pushed, done, due>>
    BY <1>12, Roles DEF NotifyAll, Waiting
  <2>2. RolesKept'
    BY <1>0, <2>1, Roles DEF RolesKept
  <2>3. pc' \in [Threads -> {"lock", "predicate", "block", "waiting", "decide", "pop",
                             "run", "returned", "idle", "notify_one", "notify_all",
                             "join", "stopped"}]
    <3>1. pc' = [t \in Threads |-> pc'[t]]
      BY <1>12 DEF NotifyAll
    <3>2. \A t \in Threads :
            pc'[t] \in {"lock", "predicate", "block", "waiting", "decide", "pop", "run",
                        "returned", "idle", "notify_one", "notify_all", "join", "stopped"}
      BY <1>0, <2>1, Roles DEF TypeOK
    <3> QED
      BY <3>1, <3>2
  <2>4. TypeOK'
    BY <1>0, <2>1, <2>3, Roles DEF TypeOK
  <2> QED
    BY <1>0, <2>1, <2>2, <2>4, Roles, MoveStep
<1>13. ASSUME NEW s \in Stoppers, Join(s) PROVE PoolInv'
  <2>1. TypeOK' /\ RolesKept'
    BY <1>0, <1>13, Roles DEF Join, Goto, TypeOK, RolesKept
  <2> QED
    BY <1>0, <1>13, <2>1, Roles, MoveStep DEF Join, Goto, TypeOK
<1>14. CASE UNCHANGED vars
  BY <1>14
  DEF vars, PoolInv, TypeOK, RolesKept, BatchesRun, TasksAccounted, DueWerePushed,
      LeaversSawEmpty, JoinedAreGone, InSeq
<1> QED
  BY <1>1, <1>2, <1>3, <1>4, <1>5, <1>6, <1>7, <1>8, <1>9, <1>10, <1>11, <1>12, <1>13,
     <1>14
  DEF Next, WorkerStep

\* The invariant holds in every reachable state of the pool.
THEOREM PoolInvariance == Spec => []PoolInv
<1>1. Init => PoolInv
  BY InitPoolInv
<1>2. PoolInv /\ [Next]_vars => PoolInv'
  BY NextPoolInv
<1> QED
  BY <1>1, <1>2, PTL DEF Spec

\* stop_and_wait of a graceful pool returns only when every task that had been
\* pushed before the stop has been run: the workers it joined were all gone, a
\* worker leaves with nothing in its hands, and the last look of a leaving worker
\* at the queue found nothing that was due.
THEOREM GracefulStopDrains == Spec => []StopDrains
<1>1. PoolInv => StopDrains
  <2> SUFFICES ASSUME PoolInv, graceful_stop, NEW s \in Stoppers, pc[s] = "stopped",
                      NEW i \in due
               PROVE  i \in done
    BY DEF StopDrains, PoolInv
  <2>1. \A w \in Workers : pc[w] = "returned"
    BY DEF PoolInv, JoinedAreGone
  <2>2. PICK w \in Workers : TRUE
    BY PoolAssumption
  <2>3. ~InSeq(i, tasks)
    BY <2>1, <2>2 DEF PoolInv, LeaversSawEmpty
  <2>4. \A u \in Workers : ~InSeq(i, batch[u])
    BY <2>1 DEF PoolInv, BatchesRun, InSeq
  <2>5. i \in 1..pushed
    BY DEF PoolInv, DueWerePushed
  <2> QED
    BY <2>3, <2>4, <2>5 DEF PoolInv, TasksAccounted
<1> QED
  BY <1>1, PoolInvariance, PTL
=============================================================================
