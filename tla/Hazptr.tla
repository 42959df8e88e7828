------------------------------- MODULE Hazptr -------------------------------
(***************************************************************************)
(* Hazard pointers (src/concurrent/hazptr.h, hazptr.hpp): HazptrHolder     *)
(* publishes the pointer a thread is about to use in a HazptrRecord;       *)
(* retired objects are collected per thread, handed to the HazptrManager   *)
(* in batches, and deleted by whoever finds enough of them, unless a       *)
(* record still names them.                                                *)
(*                                                                         *)
(* The client is the usual one (LockFreeLIFO of the unit test, the bucket  *)
(* list of the hash map): one shared pointer src, replaced by a fresh      *)
(* object, whose old target is retired once.  Addresses are reused: a      *)
(* deleted object is free and may be allocated again.                      *)
(*                                                                         *)
(* Records are never unlinked and new ones go to the front of              *)
(* _hazptr_list, so the list is hazptr_list, hazptr_list - 1, ..., 1.      *)
(* An intrusive list of objects is the set of its objects.                 *)
(***************************************************************************)
EXTENDS Integers, FiniteSets

CONSTANTS
  Readers,                \* threads that protect src and use what it points to
  Writers,                \* threads that replace src without a holder
  Objects,                \* addresses of HazptrObj
  NULL,
  MaxRecords,             \* bound: records ever allocated
  MaxCount,               \* bound: value of _retired_count
  SCAN_THRESHOLD,         \* HAZPTR_SCAN_THRESHOLD, 5 in the code
  SCAN_MULT,              \* HAZPTR_SCAN_MULT, 2 in the code
  RECORD_CACHE_SIZE       \* HAZPTR_RECORD_CACHE_SIZE, 10 in the code

Threads == Readers \cup Writers
Records == 1..MaxRecords

ASSUME HazptrAssumption ==
  /\ NULL \notin Objects
  /\ IsFiniteSet(Objects) /\ IsFiniteSet(Threads)
  /\ MaxRecords \in Nat /\ MaxCount \in Nat
  /\ SCAN_THRESHOLD \in Nat \ {0} /\ SCAN_MULT \in Nat
  /\ RECORD_CACHE_SIZE \in Nat

VARIABLES
  USE_THREAD_LOCAL_CACHE,  \* how the library was built
  src,            \* the client's shared pointer
  state,          \* of an object: "free", "linked" (in src) or "retired"
  hazptr_list,    \* number of the newest record; 0 is the empty list
  hazptr_count,   \* _hazptr_count
  active,         \* HazptrRecord::active
  realptr,        \* HazptrRecord::realptr
  retired_list,   \* objects on _retired_list
  retired_count,  \* _retired_count
  priv_list,      \* HazptrPrivate::priv_list of each thread
  pool,           \* records in each thread's HazptrPool
  pc,             \* where each thread is
  rec,            \* the record of the thread's holder, 0 if it has none
  ptr,            \* the pointer the thread works with
  pos,            \* position in a walk along _hazptr_list
  set,            \* bulkReclaim: the pointers found in records
  batch,          \* objects taken from _retired_list, or to be appended to it
  cnt,            \* a count read before it is used
  exiting         \* the thread is running ~HazptrPrivate

client  == <<src, state>>
records == <<hazptr_list, hazptr_count, active, realptr, pool>>
retired == <<retired_list, retired_count, priv_list>>
vars    == <<USE_THREAD_LOCAL_CACHE, client, records, retired, pc, rec, ptr, pos, set, batch, cnt, exiting>>

Goto(t, label) == pc' = [pc EXCEPT ![t] = label]

Set(f, x, v) == [f EXCEPT ![x] = v]

Init ==
  /\ USE_THREAD_LOCAL_CACHE \in BOOLEAN
  /\ src = NULL
  /\ state = [o \in Objects |-> "free"]
  /\ hazptr_list = 0 /\ hazptr_count = 0
  /\ active = [r \in Records |-> FALSE]
  /\ realptr = [r \in Records |-> NULL]
  /\ retired_list = {} /\ retired_count = 0
  /\ priv_list = [t \in Threads |-> {}]
  /\ pool = [t \in Threads |-> {}]
  /\ pc = [t \in Threads |-> "idle"]
  /\ rec = [t \in Threads |-> 0]
  /\ ptr = [t \in Threads |-> NULL]
  /\ pos = [t \in Threads |-> 0]
  /\ set = [t \in Threads |-> {}]
  /\ batch = [t \in Threads |-> {}]
  /\ cnt = [t \in Threads |-> 0]
  /\ exiting = [t \in Threads |-> FALSE]

-----------------------------------------------------------------------------
(* HazptrHolder(): HazptrManager::acquire_record.                          *)

\* A record from the thread's own pool.
AcquireCached(t) ==
  /\ pc[t] = "idle" /\ USE_THREAD_LOCAL_CACHE
  /\ \E r \in pool[t] :
       /\ pool' = Set(pool, t, pool[t] \ {r})
       /\ rec' = Set(rec, t, r)
  /\ Goto(t, "load_src")
  /\ UNCHANGED <<client, hazptr_list, hazptr_count, active, realptr, retired, ptr,
                 pos, set, batch, cnt, exiting>>

AcquireBegin(t) ==
  /\ pc[t] = "idle"
  /\ USE_THREAD_LOCAL_CACHE => pool[t] = {}
  /\ IF USE_THREAD_LOCAL_CACHE \/ hazptr_list = 0
     THEN Goto(t, "acquire_new") /\ UNCHANGED pos
     ELSE Goto(t, "acquire_scan") /\ pos' = Set(pos, t, hazptr_list)
  /\ UNCHANGED <<client, records, retired, rec, ptr, set, batch, cnt, exiting>>

\* The next record of the walk, or the end of it.
AcquireSkip(t) ==
  /\ pos' = Set(pos, t, pos[t] - 1)
  /\ Goto(t, IF pos[t] = 1 THEN "acquire_new" ELSE "acquire_scan")

AcquireScan(t) ==
  /\ pc[t] = "acquire_scan"
  /\ IF active[pos[t]] THEN AcquireSkip(t)
                       ELSE Goto(t, "acquire_cas") /\ UNCHANGED pos
  /\ UNCHANGED <<client, records, retired, rec, ptr, set, batch, cnt, exiting>>

\* Mutation: active is stored instead of compared and exchanged.
AcquireStore(t) ==
  /\ pc[t] = "acquire_cas"
  /\ active' = Set(active, pos[t], TRUE)
  /\ rec' = Set(rec, t, pos[t])
  /\ pos' = Set(pos, t, 0)
  /\ Goto(t, "load_src")
  /\ UNCHANGED <<client, hazptr_list, hazptr_count, realptr, pool, retired, ptr, set,
                 batch, cnt, exiting>>

AcquireCas(t) ==
  /\ pc[t] = "acquire_cas"
  /\ IF active[pos[t]]
     THEN AcquireSkip(t) /\ UNCHANGED <<active, rec>>
     ELSE /\ active' = Set(active, pos[t], TRUE)
          /\ rec' = Set(rec, t, pos[t])
          /\ pos' = Set(pos, t, 0)
          /\ Goto(t, "load_src")
  /\ UNCHANGED <<client, hazptr_list, hazptr_count, realptr, pool, retired, ptr, set,
                 batch, cnt, exiting>>

\* new HazptrRecord, pushed with a CAS loop.
AcquireNew(t) ==
  /\ pc[t] = "acquire_new" /\ hazptr_list < MaxRecords
  /\ hazptr_list' = hazptr_list + 1
  /\ active' = Set(active, hazptr_list + 1, TRUE)
  /\ rec' = Set(rec, t, hazptr_list + 1)
  /\ Goto(t, "acquire_count")
  /\ UNCHANGED <<client, hazptr_count, realptr, pool, retired, ptr, pos, set, batch,
                 cnt, exiting>>

AcquireCount(t) ==
  /\ pc[t] = "acquire_count"
  /\ hazptr_count' = hazptr_count + 1
  /\ Goto(t, "load_src")
  /\ UNCHANGED <<client, hazptr_list, active, realptr, pool, retired, rec, ptr, pos,
                 set, batch, cnt, exiting>>

-----------------------------------------------------------------------------
(* get_protected and try_protect, and the end of the holder.               *)

LoadSrc(t) ==
  /\ pc[t] = "load_src"
  /\ ptr' = Set(ptr, t, src)
  /\ Goto(t, "publish")
  /\ UNCHANGED <<client, records, retired, rec, pos, set, batch, cnt, exiting>>

Publish(t) ==
  /\ pc[t] = "publish"
  /\ realptr' = Set(realptr, rec[t], ptr[t])
  /\ Goto(t, "validate")
  /\ UNCHANGED <<client, hazptr_list, hazptr_count, active, pool, retired, rec, ptr,
                 pos, set, batch, cnt, exiting>>

Validate(t) ==
  /\ pc[t] = "validate"
  /\ ptr' = Set(ptr, t, src)
  /\ Goto(t, IF ptr[t] = src THEN "using" ELSE "unpublish")
  /\ UNCHANGED <<client, records, retired, rec, pos, set, batch, cnt, exiting>>

Unpublish(t) ==
  /\ pc[t] = "unpublish"
  /\ realptr' = Set(realptr, rec[t], NULL)
  /\ Goto(t, "publish")
  /\ UNCHANGED <<client, hazptr_list, hazptr_count, active, pool, retired, rec, ptr,
                 pos, set, batch, cnt, exiting>>

\* A holder may drop what it protects, and protect src again.
Reset(t) ==
  /\ pc[t] = "using" /\ ptr[t] # NULL
  /\ realptr' = Set(realptr, rec[t], NULL)
  /\ ptr' = Set(ptr, t, NULL)
  /\ UNCHANGED <<client, hazptr_list, hazptr_count, active, pool, retired, pc, rec, pos,
                 set, batch, cnt, exiting>>

ProtectAgain(t) ==
  /\ pc[t] = "using"
  /\ ptr' = Set(ptr, t, NULL)
  /\ Goto(t, "load_src")
  /\ UNCHANGED <<client, records, retired, rec, pos, set, batch, cnt, exiting>>

\* ~HazptrHolder: _rec->clear() ...
Clear(t) ==
  /\ pc[t] = "using"
  /\ realptr' = Set(realptr, rec[t], NULL)
  /\ ptr' = Set(ptr, t, NULL)
  /\ Goto(t, "release")
  /\ UNCHANGED <<client, hazptr_list, hazptr_count, active, pool, retired, rec, pos,
                 set, batch, cnt, exiting>>

\* Mutation: the record is not given back.
ReleaseKeeps(t) ==
  /\ pc[t] = "release"
  /\ rec' = Set(rec, t, 0)
  /\ Goto(t, "idle")
  /\ UNCHANGED <<client, records, retired, ptr, pos, set, batch, cnt, exiting>>

\* ... and release_record; a full pool drops the record.
Release(t) ==
  /\ pc[t] = "release"
  /\ IF USE_THREAD_LOCAL_CACHE
     THEN /\ pool' = IF Cardinality(pool[t]) < RECORD_CACHE_SIZE
                     THEN Set(pool, t, pool[t] \cup {rec[t]}) ELSE pool
          /\ UNCHANGED active
     ELSE active' = Set(active, rec[t], FALSE) /\ UNCHANGED pool
  /\ rec' = Set(rec, t, 0)
  /\ Goto(t, "idle")
  /\ UNCHANGED <<client, hazptr_list, hazptr_count, realptr, retired, ptr, pos, set,
                 batch, cnt, exiting>>

-----------------------------------------------------------------------------
(* The client: put a fresh object into src and retire the one it replaces. *)

\* Where retire() returns to: the holder's scope, the thread's exit, or idle.
Return(t) == IF exiting[t] THEN "exit_pool" ELSE IF rec[t] # 0 THEN "using" ELSE "idle"

\* HazptrNode::retire of old: HazptrPrivate::push, including reached_threshold.
Retire(t, old) ==
  LET n == Cardinality(priv_list[t] \cup {old})
  IN  /\ priv_list' = Set(priv_list, t, priv_list[t] \cup {old})
      /\ Goto(t, IF n >= SCAN_THRESHOLD /\ n >= SCAN_MULT * hazptr_count
                 THEN "append" ELSE Return(t))

Replace(t, fresh) ==
  /\ state[fresh] = "free"
  /\ src' = fresh
  /\ state' = [state EXCEPT ![fresh] = "linked", ![src] = "retired"]

\* The first object.
Install(t, fresh) ==
  /\ pc[t] = "idle" /\ src = NULL /\ state[fresh] = "free"
  /\ src' = fresh
  /\ state' = Set(state, fresh, "linked")
  /\ UNCHANGED <<records, retired, pc, rec, ptr, pos, set, batch, cnt, exiting>>

\* src.exchange(fresh), then retire.
ExchangeSrc(t, fresh) ==
  /\ pc[t] = "idle" /\ src # NULL
  /\ Replace(t, fresh)
  /\ Retire(t, src)
  /\ UNCHANGED <<records, retired_list, retired_count, rec, ptr, pos, set, batch, cnt,
                 exiting>>

\* compare_exchange of the protected pointer, then retire under the holder.
CasSrc(t, fresh) ==
  /\ pc[t] = "using" /\ ptr[t] # NULL /\ src = ptr[t]
  /\ Replace(t, fresh)
  /\ Retire(t, src)
  /\ UNCHANGED <<records, retired_list, retired_count, rec, ptr, pos, set, batch, cnt,
                 exiting>>

-----------------------------------------------------------------------------
(* pushAlltoDomain: append, priv_list.clear, tryBulkReclaim.               *)

\* The CAS loop that puts the whole private list in front of _retired_list.
Append(t) ==
  /\ pc[t] = "append"
  /\ retired_list' = retired_list \cup priv_list[t]
  /\ cnt' = Set(cnt, t, Cardinality(priv_list[t]))
  /\ priv_list' = Set(priv_list, t, {})
  /\ Goto(t, "append_count")
  /\ UNCHANGED <<client, records, retired_count, rec, ptr, pos, set, batch, exiting>>

AppendCount(t) ==
  /\ pc[t] = "append_count" /\ retired_count + cnt[t] <= MaxCount
  /\ retired_count' = retired_count + cnt[t]
  /\ cnt' = Set(cnt, t, 0)
  /\ Goto(t, "try_load")
  /\ UNCHANGED <<client, records, retired_list, priv_list, rec, ptr, pos, set, batch,
                 exiting>>

TryLoad(t) ==
  /\ pc[t] = "try_load"
  /\ cnt' = Set(cnt, t, retired_count)
  /\ Goto(t, "try_check")
  /\ UNCHANGED <<client, records, retired, rec, ptr, pos, set, batch, exiting>>

TryCheck(t) ==
  /\ pc[t] = "try_check"
  /\ IF cnt[t] < SCAN_THRESHOLD \/ cnt[t] < SCAN_MULT * hazptr_count
     THEN Goto(t, Return(t)) /\ cnt' = Set(cnt, t, 0)
     ELSE Goto(t, "try_cas") /\ UNCHANGED cnt
  /\ UNCHANGED <<client, records, retired, rec, ptr, pos, set, batch, exiting>>

TryCas(t) ==
  /\ pc[t] = "try_cas" /\ retired_count = cnt[t]
  /\ retired_count' = 0
  /\ cnt' = Set(cnt, t, 0)
  /\ Goto(t, "take")
  /\ UNCHANGED <<client, records, retired_list, priv_list, rec, ptr, pos, set, batch,
                 exiting>>

\* A failed compare_exchange_weak, spurious or not, reloads the count.
TryCasFails(t) ==
  /\ pc[t] = "try_cas"
  /\ cnt' = Set(cnt, t, retired_count)
  /\ Goto(t, "try_check")
  /\ UNCHANGED <<client, records, retired, rec, ptr, pos, set, batch, exiting>>

-----------------------------------------------------------------------------
(* bulkReclaim.                                                            *)

\* Mutation: _retired_list is loaded, not exchanged.
TakeCopy(t) ==
  /\ pc[t] = "take"
  /\ batch' = Set(batch, t, retired_list)
  /\ Goto(t, "load_list")
  /\ UNCHANGED <<client, records, retired, rec, ptr, pos, set, cnt, exiting>>

Take(t) ==
  /\ pc[t] = "take"
  /\ batch' = Set(batch, t, retired_list)
  /\ retired_list' = {}
  /\ Goto(t, "load_list")
  /\ UNCHANGED <<client, records, retired_count, priv_list, rec, ptr, pos, set, cnt,
                 exiting>>

LoadList(t) ==
  /\ pc[t] = "load_list"
  /\ pos' = Set(pos, t, hazptr_list)
  /\ Goto(t, IF hazptr_list = 0 THEN "sweep" ELSE "scan")
  /\ UNCHANGED <<client, records, retired, rec, ptr, set, batch, cnt, exiting>>

\* Mutation: the walk stops before the oldest record.
ScanShort(t) ==
  /\ pc[t] = "scan"
  /\ set' = Set(set, t, IF pos[t] = 1 THEN set[t] ELSE set[t] \cup {realptr[pos[t]]})
  /\ pos' = Set(pos, t, pos[t] - 1)
  /\ Goto(t, IF pos[t] = 1 THEN "sweep" ELSE "scan")
  /\ UNCHANGED <<client, records, retired, rec, ptr, batch, cnt, exiting>>

Scan(t) ==
  /\ pc[t] = "scan"
  /\ set' = Set(set, t, set[t] \cup {realptr[pos[t]]})
  /\ pos' = Set(pos, t, pos[t] - 1)
  /\ Goto(t, IF pos[t] = 1 THEN "sweep" ELSE "scan")
  /\ UNCHANGED <<client, records, retired, rec, ptr, batch, cnt, exiting>>

\* Delete what no record names; the rest is the left_list.
Sweep(t) ==
  /\ pc[t] = "sweep"
  /\ state' = [o \in Objects |-> IF o \in batch[t] \ set[t] THEN "free" ELSE state[o]]
  /\ batch' = Set(batch, t, batch[t] \cap set[t])
  /\ set' = Set(set, t, {})
  /\ Goto(t, IF batch[t] \cap set[t] = {} THEN Return(t) ELSE "append_left")
  /\ UNCHANGED <<src, records, retired, rec, ptr, pos, cnt, exiting>>

\* Mutation: what is left goes back to the list uncounted.
AppendLeftUncounted(t) ==
  /\ pc[t] = "append_left"
  /\ retired_list' = retired_list \cup batch[t]
  /\ batch' = Set(batch, t, {})
  /\ Goto(t, Return(t))
  /\ UNCHANGED <<client, records, retired_count, priv_list, rec, ptr, pos, set, cnt,
                 exiting>>

AppendLeft(t) ==
  /\ pc[t] = "append_left"
  /\ retired_list' = retired_list \cup batch[t]
  /\ cnt' = Set(cnt, t, Cardinality(batch[t]))
  /\ batch' = Set(batch, t, {})
  /\ Goto(t, "append_left_count")
  /\ UNCHANGED <<client, records, retired_count, priv_list, rec, ptr, pos, set, exiting>>

AppendLeftCount(t) ==
  /\ pc[t] = "append_left_count" /\ retired_count + cnt[t] <= MaxCount
  /\ retired_count' = retired_count + cnt[t]
  /\ cnt' = Set(cnt, t, 0)
  /\ Goto(t, Return(t))
  /\ UNCHANGED <<client, records, retired_list, priv_list, rec, ptr, pos, set, batch,
                 exiting>>

-----------------------------------------------------------------------------
(* Thread exit and process exit.                                           *)

\* ~HazptrPrivate hands over what is left, then ~HazptrPool frees the records.
Exit(t) ==
  /\ pc[t] = "idle"
  /\ priv_list[t] # {} \/ pool[t] # {}
  /\ exiting' = Set(exiting, t, TRUE)
  /\ Goto(t, IF priv_list[t] # {} THEN "append" ELSE "exit_pool")
  /\ UNCHANGED <<client, records, retired, rec, ptr, pos, set, batch, cnt>>

\* The thread's number is free for a new thread afterwards.
ExitPool(t) ==
  /\ pc[t] = "exit_pool"
  /\ active' = [r \in Records |-> active[r] /\ r \notin pool[t]]
  /\ pool' = Set(pool, t, {})
  /\ exiting' = Set(exiting, t, FALSE)
  /\ Goto(t, "idle")
  /\ UNCHANGED <<client, hazptr_list, hazptr_count, realptr, retired, rec, ptr, pos, set,
                 batch, cnt>>

\* ~HazptrManager, after every thread has ended: everything retired is deleted,
\* and all records.  The next process starts with an empty manager.
DestroyManager ==
  /\ \A t \in Threads : pc[t] = "idle" /\ priv_list[t] = {} /\ pool[t] = {}
  /\ hazptr_list # 0 \/ retired_list # {}
  /\ state' = [o \in Objects |-> IF o \in retired_list THEN "free" ELSE state[o]]
  /\ retired_list' = {} /\ retired_count' = 0
  /\ hazptr_list' = 0 /\ hazptr_count' = 0
  /\ active' = [r \in Records |-> FALSE]
  /\ realptr' = [r \in Records |-> NULL]
  /\ UNCHANGED <<src, priv_list, pool, pc, rec, ptr, pos, set, batch, cnt, exiting>>

-----------------------------------------------------------------------------
Holder(t) ==
  \/ AcquireCached(t) \/ AcquireBegin(t) \/ AcquireScan(t) \/ AcquireCas(t)
  \/ AcquireNew(t) \/ AcquireCount(t)
  \/ LoadSrc(t) \/ Publish(t) \/ Validate(t) \/ Unpublish(t)
  \/ Reset(t) \/ ProtectAgain(t) \/ Clear(t) \/ Release(t)

Reclaim(t) ==
  \/ Append(t) \/ AppendCount(t) \/ TryLoad(t) \/ TryCheck(t) \/ TryCas(t)
  \/ TryCasFails(t) \/ Take(t) \/ LoadList(t) \/ Scan(t) \/ Sweep(t)
  \/ AppendLeft(t) \/ AppendLeftCount(t)

Next ==
  /\ \/ \E t \in Readers : Holder(t) \/ \E o \in Objects : CasSrc(t, o)
     \/ \E t \in Writers : \E o \in Objects : Install(t, o) \/ ExchangeSrc(t, o)
     \/ \E t \in Threads : Reclaim(t) \/ Exit(t) \/ ExitPool(t)
     \/ DestroyManager
  /\ UNCHANGED USE_THREAD_LOCAL_CACHE

Spec == Init /\ [][Next]_vars

-----------------------------------------------------------------------------
(* Properties.                                                             *)

Labels ==
  {"idle", "acquire_scan", "acquire_cas", "acquire_new", "acquire_count", "load_src",
   "publish", "validate", "unpublish", "using", "release", "append", "append_count",
   "try_load", "try_check", "try_cas", "take", "load_list", "scan", "sweep",
   "append_left", "append_left_count", "exit_pool"}

\* Every variable has its type; positions and record numbers stay on the list.
TypeOK ==
  /\ USE_THREAD_LOCAL_CACHE \in BOOLEAN
  /\ src \in Objects \cup {NULL}
  /\ state \in [Objects -> {"free", "linked", "retired"}]
  /\ hazptr_list \in 0..MaxRecords
  /\ hazptr_count \in 0..MaxRecords
  /\ active \in [Records -> BOOLEAN]
  /\ realptr \in [Records -> Objects \cup {NULL}]
  /\ retired_list \in SUBSET Objects
  /\ retired_count \in 0..MaxCount
  /\ priv_list \in [Threads -> SUBSET Objects]
  /\ pool \in [Threads -> SUBSET Records]
  /\ pc \in [Threads -> Labels]
  /\ rec \in [Threads -> 0..MaxRecords]
  /\ ptr \in [Threads -> Objects \cup {NULL}]
  /\ pos \in [Threads -> 0..MaxRecords]
  /\ set \in [Threads -> SUBSET (Objects \cup {NULL})]
  /\ batch \in [Threads -> SUBSET Objects]
  /\ cnt \in [Threads -> Nat]
  /\ exiting \in [Threads -> BOOLEAN]

\* The thread is in the scope of a holder whose get_protected has returned.
Protecting(t) ==
  /\ rec[t] # 0 /\ ptr[t] # NULL
  /\ pc[t] \in Labels \ {"acquire_count", "load_src", "publish", "validate",
                         "unpublish", "release"}

\* No use after free: what get_protected returned is not deleted while the
\* holder lives, whoever retires and reclaims it in the meantime.
ProtectedNotFreed ==
  \A t \in Threads : Protecting(t) => state[ptr[t]] # "free"

\* No leak and no double delete: a retired object sits in exactly one private
\* list, batch or the global list, and nothing else does.
Places(o) ==
  Cardinality({t \in Threads : o \in priv_list[t]})
  + Cardinality({t \in Threads : o \in batch[t]})
  + (IF o \in retired_list THEN 1 ELSE 0)

RetiredOnce ==
  \A o \in Objects : Places(o) = (IF state[o] = "retired" THEN 1 ELSE 0)

\* A record serves one holder at a time, and only while it is active: an idle
\* record in some thread's pool is nobody's.
RecordExclusive ==
  /\ \A t, u \in Threads : rec[t] # 0 /\ rec[t] = rec[u] => t = u
  /\ \A t, u \in Threads : t # u => pool[t] \cap pool[u] = {}
  /\ \A t, u \in Threads : rec[t] \notin pool[u]
  /\ \A t \in Threads : rec[t] # 0 => active[rec[t]]

\* Threads that have extended the list and not yet the count, and by how much:
\* <<t, 1>> up to <<t, cnt[t]>> for each of them.
CountLabels == {"append_count", "append_left_count"}

Uncounted ==
  {x \in Threads \X (1..Cardinality(Objects)) : pc[x[1]] \in CountLabels /\ x[2] <= cnt[x[1]]}

\* The count never understates the list for good: unless some thread is about
\* to take the whole list, every object on it has been counted or is about to be.
RetiredCountCovers ==
  \/ \E t \in Threads : pc[t] = "take"
  \/ Cardinality(retired_list) <= retired_count + Cardinality(Uncounted)

\* Every variable has its type, and shared records are reused: there are never
\* more of them than threads that can hold one at a time, so scans and the
\* reclamation threshold stay bounded.
RecordsBounded ==
  /\ TypeOK
  /\ ~USE_THREAD_LOCAL_CACHE => hazptr_list <= Cardinality(Readers)
=============================================================================
