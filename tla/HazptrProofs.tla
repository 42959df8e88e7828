----------------------------- MODULE HazptrProofs -----------------------------
(***************************************************************************)
(* Hazard pointers protect: proved for any number of readers, writers,     *)
(* objects and records, for every threshold and cache size, and for both   *)
(* ways to build the library.                                              *)
(***************************************************************************)
EXTENDS Hazptr, TLAPS, FiniteSetTheorems

-----------------------------------------------------------------------------
(* The inductive invariant.                                                *)

\* Steps of a thread that has a holder, of one that has none, and of retire(),
\* which either may call.
HolderLabels ==
  {"acquire_count", "load_src", "publish", "validate", "unpublish", "using", "release"}

FreeLabels == {"idle", "acquire_scan", "acquire_cas", "acquire_new", "exit_pool"}

ReclaimLabels == Labels \ (HolderLabels \cup FreeLabels)

\* Local variables fit the step a thread is at.
LocalFits(t) ==
  /\ pc[t] \in HolderLabels => rec[t] # 0
  /\ pc[t] \in FreeLabels => rec[t] = 0
  /\ exiting[t] => rec[t] = 0 /\ pc[t] \in ReclaimLabels \cup {"exit_pool"}
  /\ pc[t] \in {"acquire_scan", "acquire_cas", "scan"} => pos[t] \in 1..hazptr_list
  /\ batch[t] # {} => pc[t] \in {"load_list", "scan", "sweep", "append_left"}

LocalsFit == \A t \in Threads : LocalFits(t)

\* Records in use are on the list and active; without caches an active record is
\* in some holder.
RecordsInUse ==
  /\ \A t \in Threads : rec[t] <= hazptr_list
  /\ \A t \in Threads : \A r \in pool[t] : r <= hazptr_list /\ active[r]
  /\ \A t \in Threads : pool[t] # {} => USE_THREAD_LOCAL_CACHE
  /\ ~USE_THREAD_LOCAL_CACHE =>
       \A r \in Records : active[r] => \E t \in Readers : rec[t] = r

\* The count of records lags behind the list by those just pushed.
Counting == {t \in Threads : pc[t] = "acquire_count"}

RecordsCounted == hazptr_count + Cardinality(Counting) = hazptr_list

\* The walk for an inactive record: t has passed record j, or holds one the walk
\* reaches after j.
Below(t, j) ==
  \/ pc[t] = "acquire_new"
  \/ pc[t] \in {"acquire_scan", "acquire_cas"} /\ pos[t] < j
  \/ rec[t] # 0 /\ rec[t] < j

Above(j) == {t \in Readers : ~Below(t, j)}

\* Nobody passes record j unless there are enough other threads to occupy it and
\* all records the walk visits before it.
WalkersCrowdedOut ==
  ~USE_THREAD_LOCAL_CACHE =>
    \A j \in 1..hazptr_list :
      (\E t \in Readers : Below(t, j)) => hazptr_list - j + 1 <= Cardinality(Above(j))

\* So there are never more shared records than readers.
RecordsFew == ~USE_THREAD_LOCAL_CACHE => hazptr_list <= Cardinality(Readers)

\* The object in src is the linked one.
SrcIsLinked == \A o \in Objects : state[o] = "linked" <=> src = o

\* A retired object is in some list, nothing else is, and no two lists share one.
ListsDisjoint ==
  /\ \A o \in Objects :
       state[o] = "retired" <=>
         \/ o \in retired_list
         \/ \E t \in Threads : o \in priv_list[t] \cup batch[t]
  /\ \A t, u \in Threads : t # u =>
       /\ priv_list[t] \cap priv_list[u] = {}
       /\ batch[t] \cap batch[u] = {}
  /\ \A t, u \in Threads : priv_list[t] \cap batch[u] = {}
  /\ \A t \in Threads : (priv_list[t] \cup batch[t]) \cap retired_list = {}

\* A record names what its holder protects, or is about to validate.
RecordNames ==
  \A t \in Threads :
    Protecting(t) \/ pc[t] = "validate" => realptr[rec[t]] = ptr[t]

\* A thread that is about to delete a protected object has seen the record that
\* names it, or is going to.
ScansCover ==
  \A t, u \in Threads : Protecting(t) /\ ptr[t] \in batch[u] =>
    /\ pc[u] = "scan" => ptr[t] \in set[u] \/ rec[t] <= pos[u]
    /\ pc[u] = "sweep" => ptr[t] \in set[u]

HazptrInv ==
  /\ TypeOK
  /\ LocalsFit
  /\ RecordExclusive
  /\ RecordsInUse
  /\ RecordsCounted
  /\ WalkersCrowdedOut
  /\ RecordsFew
  /\ SrcIsLinked
  /\ ListsDisjoint
  /\ RecordNames
  /\ ScansCover
  /\ ProtectedNotFreed

-----------------------------------------------------------------------------
(* Types.                                                                  *)

\* The set of threads in retire(), written out.
LEMMA ReclaimLabelsAre ==
  ReclaimLabels = {"append", "append_count", "try_load", "try_check", "try_cas", "take",
                   "load_list", "scan", "sweep", "append_left", "append_left_count"}
BY DEF ReclaimLabels, Labels, HolderLabels, FreeLabels

\* Where retire() returns to.
LEMMA ReturnLabel ==
  ASSUME NEW t
  PROVE  Return(t) \in {"exit_pool", "using", "idle"}
BY DEF Return

\* A subset of the objects has a size.
LEMMA ObjectsCount == \A S \in SUBSET Objects : IsFiniteSet(S) /\ Cardinality(S) \in Nat
BY HazptrAssumption, FS_Subset, FS_CardinalityType

\* Every variable has its type initially.
LEMMA TypeInit == Init => TypeOK
<1> SUFFICES ASSUME Init PROVE TypeOK
  OBVIOUS
<1>1. USE_THREAD_LOCAL_CACHE \in BOOLEAN
  BY Zenon DEF Init
<1>2. active \in [Records -> BOOLEAN] /\ exiting \in [Threads -> BOOLEAN]
  BY Zenon DEF Init
<1>3. 0 \in 0..MaxRecords /\ 0 \in 0..MaxCount
  BY HazptrAssumption
<1> QED
  BY <1>1, <1>2, <1>3 DEF Init, TypeOK, Labels

\* The steps of a holder preserve the types.
LEMMA TypeHolder ==
  ASSUME TypeOK, LocalsFit, RecordsInUse, RecordsCounted, NEW t \in Threads, Holder(t),
         UNCHANGED USE_THREAD_LOCAL_CACHE
  PROVE  TypeOK'
<1> USE HazptrAssumption DEF Goto, Set, client, records, retired
<1>1. CASE AcquireCached(t)
  BY <1>1 DEF AcquireCached, TypeOK, Labels, Records
<1>2. CASE AcquireBegin(t)
  BY <1>2 DEF AcquireBegin, TypeOK, Labels
<1>3. ASSUME pc[t] \in {"acquire_scan", "acquire_cas"}
      PROVE  pos[t] \in Records /\ pos[t] - 1 \in 0..MaxRecords
  BY <1>3 DEF LocalsFit, LocalFits, TypeOK, Records
<1>4. CASE AcquireScan(t)
  BY <1>3, <1>4 DEF AcquireScan, AcquireSkip, TypeOK, Labels
<1>5. CASE AcquireCas(t)
  <2>1. CASE active[pos[t]]
    BY <1>3, <1>5, <2>1 DEF AcquireCas, AcquireSkip, TypeOK, Labels
  <2>2. CASE ~active[pos[t]]
    <3>1. active' = [active EXCEPT ![pos[t]] = TRUE] /\ rec' = [rec EXCEPT ![t] = pos[t]]
          /\ pos' = [pos EXCEPT ![t] = 0] /\ pc' = [pc EXCEPT ![t] = "load_src"]
      BY <1>5, <2>2 DEF AcquireCas
    <3>2. pos[t] \in 0..MaxRecords
      BY <1>3, <1>5 DEF AcquireCas, Records
    <3>3. active' \in [Records -> BOOLEAN]
      BY <3>1 DEF TypeOK
    <3>4. /\ rec' \in [Threads -> 0..MaxRecords] /\ pos' \in [Threads -> 0..MaxRecords]
          /\ pc' \in [Threads -> Labels]
      BY <3>1, <3>2 DEF TypeOK, Labels
    <3>5. UNCHANGED <<src, state, hazptr_list, hazptr_count, realptr, pool, retired_list,
                      retired_count, priv_list, ptr, set, batch, cnt, exiting>>
      BY <1>5 DEF AcquireCas
    <3> QED
      BY <3>3, <3>4, <3>5 DEF TypeOK
  <2> QED
    BY <2>1, <2>2
<1>6. CASE AcquireNew(t)
  BY <1>6 DEF AcquireNew, TypeOK, Labels, Records
<1>7. CASE AcquireCount(t)
  <2>1. hazptr_count + 1 \in 0..MaxRecords
    <3>1. t \in Counting /\ IsFiniteSet(Counting)
      BY <1>7, FS_Subset DEF AcquireCount, Counting
    <3>2. Cardinality(Counting) \in Nat /\ Cardinality(Counting) # 0
      BY <3>1, FS_CardinalityType, FS_EmptySet
    <3> QED
      BY <3>2 DEF RecordsCounted, TypeOK
  <2> QED
    BY <1>7, <2>1 DEF AcquireCount, TypeOK, Labels
<1>8. CASE LoadSrc(t)
  BY <1>8 DEF LoadSrc, TypeOK, Labels
<1>9. CASE Publish(t)
  BY <1>9 DEF Publish, TypeOK, Labels
<1>10. CASE Validate(t)
  BY <1>10 DEF Validate, TypeOK, Labels
<1>11. CASE Unpublish(t)
  BY <1>11 DEF Unpublish, TypeOK, Labels
<1>12. CASE Reset(t)
  BY <1>12 DEF Reset, TypeOK, Labels
<1>13. CASE ProtectAgain(t)
  BY <1>13 DEF ProtectAgain, TypeOK, Labels
<1>14. CASE Clear(t)
  BY <1>14 DEF Clear, TypeOK, Labels
<1>15. CASE Release(t)
  <2>1. rec[t] \in Records
    BY <1>15 DEF Release, LocalsFit, LocalFits, HolderLabels, TypeOK, Records
  <2>2. pool' \in [Threads -> SUBSET Records]
    BY <1>15, <2>1 DEF Release, TypeOK
  <2>3. active' \in [Records -> BOOLEAN]
    BY <1>15, <2>1 DEF Release, TypeOK
  <2>4. rec' \in [Threads -> 0..MaxRecords] /\ pc' \in [Threads -> Labels]
    BY <1>15 DEF Release, TypeOK, Labels
  <2>5. UNCHANGED <<src, state, hazptr_list, hazptr_count, realptr, retired_list,
                    retired_count, priv_list, ptr, pos, set, batch, cnt, exiting>>
    BY <1>15 DEF Release
  <2> QED
    BY <2>2, <2>3, <2>4, <2>5 DEF TypeOK
<1> QED
  BY <1>1, <1>2, <1>4, <1>5, <1>6, <1>7, <1>8, <1>9, <1>10, <1>11, <1>12, <1>13, <1>14,
     <1>15
  DEF Holder

\* Retiring the object in src preserves the types.
LEMMA TypeReplace ==
  ASSUME TypeOK, SrcIsLinked, NEW t \in Threads, NEW o \in Objects, src # NULL,
         Replace(t, o), Retire(t, src)
  PROVE  /\ src' \in Objects \cup {NULL}
         /\ state' \in [Objects -> {"free", "linked", "retired"}]
         /\ priv_list' \in [Threads -> SUBSET Objects]
         /\ pc' \in [Threads -> Labels]
<1>1. priv_list' = [priv_list EXCEPT ![t] = priv_list[t] \cup {src}]
  BY DEF Retire, Set
<1>2. PICK l \in {"append", "exit_pool", "using", "idle"} : pc' = [pc EXCEPT ![t] = l]
  <2>1. PICK l : l \in {"append", Return(t)} /\ pc' = [pc EXCEPT ![t] = l]
    BY DEF Retire, Goto
  <2> QED
    BY <2>1, ReturnLabel
<1> QED
  BY <1>1, <1>2 DEF Replace, TypeOK, Labels

\* The steps of retire() preserve the types.
LEMMA TypeReclaim ==
  ASSUME TypeOK, LocalsFit, NEW t \in Threads, Reclaim(t), UNCHANGED USE_THREAD_LOCAL_CACHE
  PROVE  TypeOK'
<1> USE HazptrAssumption DEF Goto, Set, client, records, retired
<1>0. Return(t) \in Labels
  BY ReturnLabel DEF Labels
<1>1. CASE Append(t)
  <2>1. Cardinality(priv_list[t]) \in Nat
    BY ObjectsCount DEF TypeOK
  <2> QED
    BY <1>1, <2>1 DEF Append, TypeOK, Labels
<1>2. CASE AppendCount(t)
  BY <1>2 DEF AppendCount, TypeOK, Labels
<1>3. CASE TryLoad(t)
  BY <1>3 DEF TryLoad, TypeOK, Labels
<1>4. CASE TryCheck(t)
  <2>1. CASE cnt[t] < SCAN_THRESHOLD \/ cnt[t] < SCAN_MULT * hazptr_count
    BY <1>0, <1>4, <2>1 DEF TryCheck, TypeOK
  <2>2. CASE ~(cnt[t] < SCAN_THRESHOLD \/ cnt[t] < SCAN_MULT * hazptr_count)
    BY <1>4, <2>2 DEF TryCheck, TypeOK, Labels
  <2> QED
    BY <2>1, <2>2
<1>5. CASE TryCas(t)
  BY <1>5 DEF TryCas, TypeOK, Labels
<1>6. CASE TryCasFails(t)
  BY <1>6 DEF TryCasFails, TypeOK, Labels
<1>7. CASE Take(t)
  BY <1>7 DEF Take, TypeOK, Labels
<1>8. CASE LoadList(t)
  BY <1>8 DEF LoadList, TypeOK, Labels
<1>9. CASE Scan(t)
  <2>1. pos[t] \in Records /\ pos[t] - 1 \in 0..MaxRecords
    BY <1>9 DEF Scan, LocalsFit, LocalFits, TypeOK, Records
  <2> QED
    BY <1>9, <2>1 DEF Scan, TypeOK, Labels
<1>10. CASE Sweep(t)
  <2>1. pc' \in [Threads -> Labels]
    <3>1. PICK l \in Labels : pc' = [pc EXCEPT ![t] = l]
      BY <1>0, <1>10 DEF Sweep, Labels
    <3> QED
      BY <3>1 DEF TypeOK
  <2>2. state' \in [Objects -> {"free", "linked", "retired"}]
    BY <1>10 DEF Sweep, TypeOK
  <2>3. batch[t] \cap set[t] \in SUBSET Objects
    BY DEF TypeOK
  <2> QED
    BY <1>10, <2>1, <2>2, <2>3 DEF Sweep, TypeOK
<1>11. CASE AppendLeft(t)
  <2>1. Cardinality(batch[t]) \in Nat
    BY ObjectsCount DEF TypeOK
  <2> QED
    BY <1>11, <2>1 DEF AppendLeft, TypeOK, Labels
<1>12. CASE AppendLeftCount(t)
  BY <1>0, <1>12 DEF AppendLeftCount, TypeOK
<1> QED
  BY <1>1, <1>2, <1>3, <1>4, <1>5, <1>6, <1>7, <1>8, <1>9, <1>10, <1>11, <1>12
  DEF Reclaim

\* Every step preserves the types.
LEMMA TypeNext ==
  ASSUME TypeOK, LocalsFit, RecordsInUse, RecordsCounted, SrcIsLinked, [Next]_vars
  PROVE  TypeOK'
<1> USE HazptrAssumption DEF Goto, Set, client, records, retired
<1>1. CASE UNCHANGED vars
  BY <1>1 DEF vars, TypeOK
<1>2. ASSUME Next PROVE UNCHANGED USE_THREAD_LOCAL_CACHE
  BY <1>2 DEF Next
<1>3. ASSUME Next, NEW t \in Readers, NEW o \in Objects, CasSrc(t, o) PROVE TypeOK'
  <2>1. t \in Threads /\ src # NULL
    BY <1>3 DEF Threads, CasSrc
  <2> QED
    BY <1>2, <1>3, <2>1, TypeReplace DEF CasSrc, TypeOK
<1>4. ASSUME Next, NEW t \in Writers, NEW o \in Objects, ExchangeSrc(t, o) PROVE TypeOK'
  <2>1. t \in Threads
    BY DEF Threads
  <2> QED
    BY <1>2, <1>4, <2>1, TypeReplace DEF ExchangeSrc, TypeOK
<1>5. ASSUME Next, NEW t \in Writers, NEW o \in Objects, Install(t, o) PROVE TypeOK'
  BY <1>2, <1>5 DEF Install, TypeOK
<1>6. ASSUME Next, NEW t \in Threads, Exit(t) PROVE TypeOK'
  BY <1>2, <1>6 DEF Exit, TypeOK, Labels
<1>7. ASSUME Next, NEW t \in Threads, ExitPool(t) PROVE TypeOK'
  <2>1. active' \in [Records -> BOOLEAN] /\ exiting' \in [Threads -> BOOLEAN]
    BY <1>7 DEF ExitPool, TypeOK
  <2> QED
    BY <1>2, <1>7, <2>1 DEF ExitPool, TypeOK, Labels
<1>8. ASSUME Next, DestroyManager PROVE TypeOK'
  <2>1. state' \in [Objects -> {"free", "linked", "retired"}]
    BY <1>8 DEF DestroyManager, TypeOK
  <2>2. active' \in [Records -> BOOLEAN]
    BY <1>8, Zenon DEF DestroyManager
  <2>3. 0 \in 0..MaxRecords /\ 0 \in 0..MaxCount
    OBVIOUS
  <2> QED
    BY <1>2, <1>8, <2>1, <2>2, <2>3 DEF DestroyManager, TypeOK
<1>9. ASSUME Next, NEW t \in Readers, Holder(t) PROVE TypeOK'
  BY <1>2, <1>9, TypeHolder DEF Threads
<1>10. ASSUME Next, NEW t \in Threads, Reclaim(t) PROVE TypeOK'
  BY <1>2, <1>10, TypeReclaim
<1> QED
  BY <1>1, <1>3, <1>4, <1>5, <1>6, <1>7, <1>8, <1>9, <1>10 DEF Next
-----------------------------------------------------------------------------
(* What a step of thread t leaves alone.                                   *)

\* The other threads' variables.
OthersKept(t) ==
  \A u \in Threads \ {t} :
    /\ pc'[u] = pc[u] /\ rec'[u] = rec[u] /\ ptr'[u] = ptr[u] /\ pos'[u] = pos[u]
    /\ set'[u] = set[u] /\ batch'[u] = batch[u] /\ exiting'[u] = exiting[u]
    /\ pool'[u] = pool[u] /\ priv_list'[u] = priv_list[u]

\* A holder's steps are its own, and touch no retired object.
LEMMA HolderFrame ==
  ASSUME TypeOK, NEW t \in Threads, Holder(t)
  PROVE  /\ OthersKept(t)
         /\ UNCHANGED <<src, state, retired_list, priv_list, batch, set, exiting>>
<1> USE DEF Goto, Set, client, records, retired, OthersKept, TypeOK
<1>1. CASE AcquireCached(t) \/ AcquireBegin(t) \/ AcquireScan(t)
  BY <1>1 DEF AcquireCached, AcquireBegin, AcquireScan, AcquireSkip
<1>2. CASE AcquireCas(t) \/ AcquireNew(t) \/ AcquireCount(t)
  BY <1>2 DEF AcquireCas, AcquireSkip, AcquireNew, AcquireCount
<1>3. CASE LoadSrc(t) \/ Publish(t) \/ Validate(t) \/ Unpublish(t)
  BY <1>3 DEF LoadSrc, Publish, Validate, Unpublish
<1>4. CASE Reset(t) \/ ProtectAgain(t) \/ Clear(t)
  BY <1>4 DEF Reset, ProtectAgain, Clear
<1>5. CASE Release(t)
  BY <1>5 DEF Release
<1> QED
  BY <1>1, <1>2, <1>3, <1>4, <1>5 DEF Holder

\* The steps of retire() are the thread's own, and touch no record.
LEMMA ReclaimFrame ==
  ASSUME TypeOK, NEW t \in Threads, Reclaim(t)
  PROVE  /\ OthersKept(t)
         /\ UNCHANGED <<src, records, rec, ptr, exiting>>
<1> USE DEF Goto, Set, client, records, retired, OthersKept, TypeOK
<1>1. CASE Append(t) \/ AppendCount(t) \/ TryLoad(t) \/ TryCheck(t)
  BY <1>1 DEF Append, AppendCount, TryLoad, TryCheck
<1>2. CASE TryCas(t) \/ TryCasFails(t) \/ Take(t) \/ LoadList(t)
  BY <1>2 DEF TryCas, TryCasFails, Take, LoadList
<1>3. CASE Scan(t) \/ Sweep(t) \/ AppendLeft(t) \/ AppendLeftCount(t)
  BY <1>3 DEF Scan, Sweep, AppendLeft, AppendLeftCount
<1> QED
  BY <1>1, <1>2, <1>3 DEF Reclaim

\* So are the client's steps and the end of a thread.
LEMMA ClientFrame ==
  ASSUME TypeOK, NEW t \in Threads, NEW o \in Objects,
         Install(t, o) \/ ExchangeSrc(t, o) \/ CasSrc(t, o)
  PROVE  /\ OthersKept(t)
         /\ UNCHANGED <<records, retired_list, rec, ptr, pos, set, batch, exiting>>
BY DEF Install, ExchangeSrc, CasSrc, Retire, Goto, Set, client, records, retired,
       OthersKept, TypeOK

LEMMA ExitFrame ==
  ASSUME TypeOK, NEW t \in Threads, Exit(t) \/ ExitPool(t)
  PROVE  /\ OthersKept(t)
         /\ UNCHANGED <<src, state, retired_list, priv_list, hazptr_list, hazptr_count,
                        realptr, rec, ptr, pos, set, batch>>
BY DEF Exit, ExitPool, Goto, Set, client, records, retired, OthersKept, TypeOK
-----------------------------------------------------------------------------
(* Local variables.                                                        *)

\* The step of t has to be looked at for t only.
LEMMA LocalsKept ==
  ASSUME TypeOK, LocalsFit, NEW t \in Threads, OthersKept(t), LocalFits(t)',
         hazptr_list' \in Nat, hazptr_list <= hazptr_list'
  PROVE  LocalsFit'
<1> SUFFICES ASSUME NEW u \in Threads, u # t PROVE LocalFits(u)'
  BY DEF LocalsFit
<1>1. hazptr_list \in Nat
  BY DEF TypeOK
<1>2. \A i \in 1..hazptr_list : i \in 1..hazptr_list'
  BY <1>1
<1> QED
  BY <1>2 DEF LocalsFit, LocalFits, OthersKept

LEMMA LocalsHolder ==
  ASSUME TypeOK, LocalsFit, RecordsInUse, NEW t \in Threads, Holder(t)
  PROVE  LocalsFit'
<1> USE ReclaimLabelsAre DEF Goto, Set, client, records, retired, LocalFits, HolderLabels, FreeLabels
<1>0. OthersKept(t) /\ batch'[t] = batch[t] /\ exiting'[t] = exiting[t]
  BY HolderFrame
<1>1. hazptr_list' \in Nat /\ hazptr_list <= hazptr_list'
  BY DEF Holder, AcquireCached, AcquireBegin, AcquireScan, AcquireCas, AcquireNew, AcquireCount,
     LoadSrc, Publish, Validate, Unpublish, Reset, ProtectAgain, Clear, Release, TypeOK
<1>2. LocalFits(t)
  BY DEF LocalsFit
<1>3. ASSUME AcquireCached(t) PROVE LocalFits(t)'
  <2>1. PICK r \in pool[t] : rec'[t] = r
    BY <1>3 DEF AcquireCached, TypeOK
  <2>2. rec'[t] # 0
    BY <2>1 DEF TypeOK, Records
  <2> QED
    BY <1>0, <1>2, <1>3, <2>2 DEF AcquireCached, TypeOK
<1>4. ASSUME AcquireBegin(t) PROVE LocalFits(t)'
  BY <1>0, <1>2, <1>4 DEF AcquireBegin, TypeOK
<1>5. ASSUME AcquireScan(t) PROVE LocalFits(t)'
  BY <1>0, <1>2, <1>5 DEF AcquireScan, AcquireSkip, TypeOK
<1>6. ASSUME AcquireCas(t) PROVE LocalFits(t)'
  <2>1. CASE active[pos[t]]
    BY <1>0, <1>2, <1>6, <2>1 DEF AcquireCas, AcquireSkip, TypeOK
  <2>2. CASE ~active[pos[t]]
    BY <1>0, <1>2, <1>6, <2>2 DEF AcquireCas, TypeOK
  <2> QED
    BY <2>1, <2>2
<1>7. ASSUME AcquireNew(t) PROVE LocalFits(t)'
  BY <1>0, <1>2, <1>7 DEF AcquireNew, TypeOK
<1>8. ASSUME AcquireCount(t) \/ LoadSrc(t) \/ Publish(t) PROVE LocalFits(t)'
  BY <1>0, <1>2, <1>8 DEF AcquireCount, LoadSrc, Publish, TypeOK
<1>9. ASSUME Validate(t) \/ Unpublish(t) \/ Reset(t) PROVE LocalFits(t)'
  BY <1>0, <1>2, <1>9 DEF Validate, Unpublish, Reset, TypeOK
<1>10. ASSUME ProtectAgain(t) \/ Clear(t) PROVE LocalFits(t)'
  BY <1>0, <1>2, <1>10 DEF ProtectAgain, Clear, TypeOK
<1>11. ASSUME Release(t) PROVE LocalFits(t)'
  BY <1>0, <1>2, <1>11 DEF Release, TypeOK
<1> QED
  BY <1>0, <1>1, <1>3, <1>4, <1>5, <1>6, <1>7, <1>8, <1>9, <1>10, <1>11, LocalsKept
  DEF Holder

\* After retire() a thread is where its holder, its end or its caller wants it.
LEMMA ReturnFits ==
  ASSUME TypeOK, NEW t \in Threads, pc'[t] = Return(t), UNCHANGED <<rec, exiting>>,
         batch'[t] = {}, exiting[t] => rec[t] = 0
  PROVE  LocalFits(t)'
BY ReclaimLabelsAre DEF Return, LocalFits, HolderLabels, FreeLabels, TypeOK

LEMMA LocalsReclaim ==
  ASSUME TypeOK, LocalsFit, NEW t \in Threads, Reclaim(t)
  PROVE  LocalsFit'
<1> USE ReclaimLabelsAre DEF Goto, Set, client, records, retired, LocalFits, HolderLabels, FreeLabels
<1>0. OthersKept(t) /\ UNCHANGED <<rec, exiting, hazptr_list>>
  BY ReclaimFrame DEF records
<1>1. hazptr_list' \in Nat /\ hazptr_list <= hazptr_list'
  BY <1>0 DEF TypeOK
<1>2. LocalFits(t)
  BY DEF LocalsFit
<1>3. ASSUME Append(t) \/ AppendCount(t) \/ TryLoad(t) PROVE LocalFits(t)'
  BY <1>0, <1>2, <1>3 DEF Append, AppendCount, TryLoad, TypeOK
<1>4. ASSUME TryCheck(t) PROVE LocalFits(t)'
  <2>1. CASE pc'[t] = Return(t)
    <3>1. batch'[t] = {} /\ (exiting[t] => rec[t] = 0)
      BY <1>2, <1>4 DEF TryCheck, TypeOK
    <3> QED
      BY <1>0, <2>1, <3>1, ReturnFits
  <2>2. CASE pc'[t] = "try_cas"
    BY <1>0, <1>2, <1>4, <2>2 DEF TryCheck, TypeOK
  <2> QED
    BY <1>4, <2>1, <2>2 DEF TryCheck, TypeOK
<1>5. ASSUME TryCas(t) \/ TryCasFails(t) \/ Take(t) PROVE LocalFits(t)'
  BY <1>0, <1>2, <1>5 DEF TryCas, TryCasFails, Take, TypeOK
<1>6. ASSUME LoadList(t) \/ Scan(t) PROVE LocalFits(t)'
  BY <1>0, <1>2, <1>6 DEF LoadList, Scan, TypeOK
<1>7. ASSUME Sweep(t) PROVE LocalFits(t)'
  <2>1. /\ pc[t] = "sweep" /\ batch'[t] = batch[t] \cap set[t] /\ UNCHANGED pos
        /\ pc'[t] = IF batch[t] \cap set[t] = {} THEN Return(t) ELSE "append_left"
    BY <1>7 DEF Sweep, TypeOK
  <2>2. CASE batch[t] \cap set[t] = {}
    BY <1>0, <1>2, <2>1, <2>2, ReturnFits
  <2>3. CASE batch[t] \cap set[t] # {}
    BY <1>0, <1>2, <2>1, <2>3
  <2> QED
    BY <2>2, <2>3
<1>8. ASSUME AppendLeft(t) PROVE LocalFits(t)'
  BY <1>0, <1>2, <1>8 DEF AppendLeft, TypeOK
<1>9. ASSUME AppendLeftCount(t) PROVE LocalFits(t)'
  <2>1. batch'[t] = {} /\ (exiting[t] => rec[t] = 0) /\ pc'[t] = Return(t)
    BY <1>2, <1>9 DEF AppendLeftCount, TypeOK
  <2> QED
    BY <1>0, <2>1, ReturnFits
<1> QED
  BY <1>0, <1>1, <1>3, <1>4, <1>5, <1>6, <1>7, <1>8, <1>9, LocalsKept DEF Reclaim

LEMMA LocalsNext ==
  ASSUME TypeOK, LocalsFit, RecordsInUse, [Next]_vars
  PROVE  LocalsFit'
<1> USE ReclaimLabelsAre DEF Goto, Set, client, records, retired, HolderLabels, FreeLabels
<1>1. CASE UNCHANGED vars
  BY <1>1 DEF vars, LocalsFit, LocalFits
<1>2. ASSUME NEW t \in Threads, NEW o \in Objects,
             Install(t, o) \/ ExchangeSrc(t, o) \/ CasSrc(t, o)
      PROVE  LocalsFit'
  <2>1. /\ OthersKept(t)
        /\ UNCHANGED <<hazptr_list, rec, pos, batch, exiting>>
    BY <1>2, ClientFrame DEF records
  <2>2. LocalFits(t) /\ pc[t] \in {"idle", "using"}
    BY <1>2 DEF LocalsFit, Install, ExchangeSrc, CasSrc
  <2>3. pc'[t] \in {pc[t], "append", Return(t)}
    BY <1>2 DEF Install, ExchangeSrc, CasSrc, Retire, TypeOK
  <2>4. batch[t] = {} /\ (exiting[t] => rec[t] = 0)
    BY <2>2 DEF LocalFits
  <2>5. LocalFits(t)'
    <3>1. CASE pc'[t] = Return(t)
      BY <2>1, <2>4, <3>1, ReturnFits
    <3>2. CASE pc'[t] \in {pc[t], "append"}
      BY <2>1, <2>2, <2>4, <3>2 DEF LocalFits
    <3> QED
      BY <2>3, <3>1, <3>2
  <2>6. hazptr_list' \in Nat /\ hazptr_list <= hazptr_list'
    BY <2>1 DEF TypeOK
  <2> QED
    BY <2>1, <2>5, <2>6, LocalsKept
<1>3. ASSUME NEW t \in Threads, Exit(t) \/ ExitPool(t) PROVE LocalsFit'
  <2>1. OthersKept(t) /\ UNCHANGED <<hazptr_list, rec, pos, batch>>
    BY <1>3, ExitFrame
  <2>2. LocalFits(t)
    BY DEF LocalsFit
  <2>3. LocalFits(t)'
    BY <1>3, <2>1, <2>2 DEF LocalFits, Exit, ExitPool, TypeOK
  <2>4. hazptr_list' \in Nat /\ hazptr_list <= hazptr_list'
    BY <2>1 DEF TypeOK
  <2> QED
    BY <2>1, <2>3, <2>4, LocalsKept
<1>4. CASE DestroyManager
  BY <1>4 DEF DestroyManager, LocalsFit, LocalFits
<1>5. ASSUME NEW t \in Readers, Holder(t) PROVE LocalsFit'
  BY <1>5, LocalsHolder DEF Threads
<1>6. ASSUME NEW t \in Threads, Reclaim(t) PROVE LocalsFit'
  BY <1>6, LocalsReclaim
<1> QED
  BY <1>1, <1>2, <1>3, <1>4, <1>5, <1>6 DEF Next, Threads

-----------------------------------------------------------------------------
(* Records.                                                                *)

\* Who has a record: its holder, or the thread in whose pool it is.
RecordsKept ==
  UNCHANGED <<USE_THREAD_LOCAL_CACHE, hazptr_list, active, pool, rec>>

LEMMA RecordsUnchanged ==
  ASSUME RecordExclusive, RecordsInUse, RecordsKept
  PROVE  RecordExclusive' /\ RecordsInUse'
BY DEF RecordExclusive, RecordsInUse, RecordsKept

\* Only acquire_record, release_record and the end of a thread change that.
LEMMA RecordsMove ==
  ASSUME NEW t \in Threads, Holder(t), UNCHANGED USE_THREAD_LOCAL_CACHE
  PROVE  \/ RecordsKept
         \/ AcquireCached(t) \/ AcquireCas(t) \/ AcquireNew(t) \/ Release(t)
BY DEF Holder, AcquireBegin, AcquireScan, AcquireCount, LoadSrc, Publish, Validate,
       Unpublish, Reset, ProtectAgain, Clear, records, RecordsKept

\* A reader without a record gets one that is in nobody's hands.
LEMMA GainRecord ==
  ASSUME TypeOK, RecordExclusive, RecordsInUse, NEW t \in Readers, rec[t] = 0,
         NEW r \in Records, \A u \in Threads : rec[u] # r /\ r \notin pool[u],
         active' = [active EXCEPT ![r] = TRUE], rec' = [rec EXCEPT ![t] = r],
         UNCHANGED <<USE_THREAD_LOCAL_CACHE, pool>>,
         hazptr_list' \in Nat, hazptr_list <= hazptr_list', r <= hazptr_list'
  PROVE  RecordExclusive' /\ RecordsInUse'
<1>0. t \in Threads /\ r # 0
  BY HazptrAssumption DEF Threads, Records
<1>1. /\ rec'[t] = r /\ \A u \in Threads \ {t} : rec'[u] = rec[u]
      /\ active'[r] /\ \A x \in Records \ {r} : active'[x] = active[x]
  BY <1>0 DEF TypeOK
<1>2. /\ \A u \in Threads : rec[u] \in Nat /\ (rec[u] # 0 => rec[u] \in Records)
      /\ \A u \in Threads : pool[u] \subseteq Records
      /\ Records \subseteq Nat
  BY HazptrAssumption DEF TypeOK, Records
<1>3. RecordExclusive'
  BY <1>0, <1>1, <1>2 DEF RecordExclusive
<1>4. \A u \in Threads : rec'[u] <= hazptr_list'
  <2>1. hazptr_list \in Nat
    BY DEF TypeOK
  <2> QED
    BY <1>1, <1>2, <2>1 DEF RecordsInUse
<1>5. ASSUME NEW u \in Threads, NEW x \in pool'[u]
      PROVE  x <= hazptr_list' /\ active'[x]
  <2>1. hazptr_list \in Nat /\ x \in pool[u] /\ x # r /\ x \in Records /\ x \in Nat
    BY <1>2 DEF TypeOK
  <2>2. x <= hazptr_list /\ active[x]
    BY <2>1 DEF RecordsInUse
  <2>3. active'[x]
    BY <1>1, <2>1, <2>2
  <2> QED
    BY <2>1, <2>2, <2>3
<1>6. ASSUME ~USE_THREAD_LOCAL_CACHE, NEW x \in Records, active'[x]
      PROVE  \E u \in Readers : rec'[u] = x
  <2>1. CASE x = r
    BY <1>1, <2>1
  <2>2. CASE x # r
    <3>1. PICK u \in Readers : rec[u] = x
      BY <1>1, <1>6, <2>2 DEF RecordsInUse
    <3>2. u # t /\ u \in Threads
      BY <3>1, HazptrAssumption DEF Records, Threads
    <3> QED
      BY <1>1, <3>1, <3>2
  <2> QED
    BY <2>1, <2>2
<1> QED
  BY <1>3, <1>4, <1>5, <1>6 DEF RecordsInUse

LEMMA RecordsHolder ==
  ASSUME TypeOK, LocalsFit, RecordExclusive, RecordsInUse, NEW t \in Readers, Holder(t),
         UNCHANGED USE_THREAD_LOCAL_CACHE
  PROVE  RecordExclusive' /\ RecordsInUse'
<1> USE HazptrAssumption DEF Goto, Set
<1>0. t \in Threads /\ LocalFits(t)
  BY DEF Threads, LocalsFit
<1>1. CASE RecordsKept
  BY <1>1, RecordsUnchanged
<1>2. CASE AcquireCached(t)
  <2>1. PICK r \in pool[t] : /\ pool' = [pool EXCEPT ![t] = pool[t] \ {r}]
                             /\ rec' = [rec EXCEPT ![t] = r]
    BY <1>2 DEF AcquireCached
  <2>2. UNCHANGED <<hazptr_list, active>> /\ USE_THREAD_LOCAL_CACHE
    BY <1>2 DEF AcquireCached
  <2>3. /\ rec'[t] = r /\ pool'[t] = pool[t] \ {r}
        /\ \A u \in Threads \ {t} : rec'[u] = rec[u] /\ pool'[u] = pool[u]
    BY <1>0, <2>1 DEF TypeOK
  <2>4. r # 0 /\ active[r] /\ r <= hazptr_list
    BY <1>0, <2>1 DEF RecordsInUse, TypeOK, Records
  <2>5. RecordExclusive'
    BY <1>0, <2>1, <2>2, <2>3, <2>4 DEF RecordExclusive
  <2>6. RecordsInUse'
    BY <1>0, <2>2, <2>3, <2>4 DEF RecordsInUse
  <2> QED
    BY <2>5, <2>6
<1>3. CASE AcquireCas(t)
  <2>1. CASE active[pos[t]]
    BY <1>3, <2>1, RecordsUnchanged DEF AcquireCas, RecordsKept
  <2>2. CASE ~active[pos[t]]
    <3>1. pos[t] \in Records /\ pos[t] <= hazptr_list /\ hazptr_list \in Nat /\ rec[t] = 0
      BY <1>0, <1>3 DEF AcquireCas, LocalFits, FreeLabels, TypeOK, Records
    <3>2. \A u \in Threads : rec[u] # pos[t] /\ pos[t] \notin pool[u]
      BY <2>2, <3>1 DEF RecordExclusive, RecordsInUse, Records
    <3>3. /\ active' = [active EXCEPT ![pos[t]] = TRUE]
          /\ rec' = [rec EXCEPT ![t] = pos[t]]
          /\ UNCHANGED <<hazptr_list, pool>>
      BY <1>3, <2>2 DEF AcquireCas
    <3>4. /\ hazptr_list' \in Nat /\ hazptr_list <= hazptr_list' /\ pos[t] <= hazptr_list'
          /\ UNCHANGED <<USE_THREAD_LOCAL_CACHE, pool>>
      BY <3>1, <3>3
    <3> HIDE DEF Set
    <3> QED
      BY <3>1, <3>2, <3>3, <3>4, GainRecord
  <2> QED
    BY <2>1, <2>2
<1>4. CASE AcquireNew(t)
  <2>1. /\ hazptr_list + 1 \in Records /\ hazptr_list' = hazptr_list + 1
        /\ hazptr_list \in Nat /\ rec[t] = 0
    BY <1>0, <1>4 DEF AcquireNew, LocalFits, FreeLabels, TypeOK, Records
  <2>2. \A u \in Threads : rec[u] # hazptr_list + 1 /\ hazptr_list + 1 \notin pool[u]
    BY <2>1 DEF RecordsInUse, TypeOK
  <2>3. /\ active' = [active EXCEPT ![hazptr_list + 1] = TRUE]
        /\ rec' = [rec EXCEPT ![t] = hazptr_list + 1]
        /\ UNCHANGED pool
    BY <1>4 DEF AcquireNew
  <2>4. /\ hazptr_list' \in Nat /\ hazptr_list <= hazptr_list'
        /\ hazptr_list + 1 <= hazptr_list' /\ UNCHANGED <<USE_THREAD_LOCAL_CACHE, pool>>
    BY <2>1, <2>3
  <2> QED
    BY <2>1, <2>2, <2>3, <2>4, GainRecord
<1>5. CASE Release(t)
  <2> DEFINE r == rec[t]
  <2>1. r \in Records /\ r # 0 /\ r <= hazptr_list /\ active[r]
    BY <1>0, <1>5 DEF Release, LocalFits, HolderLabels, TypeOK, Records, RecordsInUse,
                      RecordExclusive
  <2>2. /\ rec'[t] = 0 /\ \A u \in Threads \ {t} : rec'[u] = rec[u]
        /\ UNCHANGED hazptr_list
    BY <1>0, <1>5 DEF Release, TypeOK
  <2>3. /\ \A u \in Threads : rec[u] \in Nat /\ (rec[u] # 0 => rec[u] \in Records)
        /\ \A u \in Threads : pool[u] \subseteq Records
        /\ 0 \notin Records
    BY DEF TypeOK, Records
  <2>4. CASE USE_THREAD_LOCAL_CACHE
    <3>1. /\ UNCHANGED active
          /\ pool'[t] = pool[t] \/ pool'[t] = pool[t] \cup {r}
          /\ \A u \in Threads \ {t} : pool'[u] = pool[u]
      BY <1>0, <1>5, <2>4 DEF Release, TypeOK
    <3>2. RecordExclusive'
      BY <1>0, <2>1, <2>2, <2>3, <3>1 DEF RecordExclusive
    <3>3. RecordsInUse'
      BY <1>0, <2>1, <2>2, <2>3, <2>4, <3>1 DEF RecordsInUse, TypeOK
    <3> QED
      BY <3>2, <3>3
  <2>5. CASE ~USE_THREAD_LOCAL_CACHE
    <3>1. UNCHANGED pool /\ active' = [active EXCEPT ![r] = FALSE]
      BY <1>5, <2>5 DEF Release
    <3>2. ~active'[r] /\ \A x \in Records \ {r} : active'[x] = active[x]
      BY <2>1, <3>1 DEF TypeOK
    <3>3. RecordExclusive'
      BY <1>0, <2>1, <2>2, <2>3, <3>1, <3>2 DEF RecordExclusive
    <3>4. \A u \in Threads : pool[u] = {}
      BY <2>5 DEF RecordsInUse
    <3>5. ASSUME NEW x \in Records, active'[x] PROVE \E u \in Readers : rec'[u] = x
      <4>1. x # r /\ active[x]
        BY <3>2, <3>5
      <4>2. PICK u \in Readers : rec[u] = x
        BY <2>5, <4>1 DEF RecordsInUse
      <4>3. u \in Threads \ {t}
        BY <4>1, <4>2 DEF Threads
      <4> QED
        BY <2>2, <4>2, <4>3
    <3>6. \A u \in Threads : rec'[u] <= hazptr_list
      BY <2>2 DEF RecordsInUse, TypeOK
    <3> QED
      BY <2>2, <3>1, <3>3, <3>4, <3>5, <3>6 DEF RecordsInUse
  <2> QED
    BY <2>4, <2>5
<1> QED
  BY <1>0, <1>1, <1>2, <1>3, <1>4, <1>5, RecordsMove

\* Who has a record changes only as acquire, release and exit change it.
LEMMA RecordsNext ==
  ASSUME TypeOK, LocalsFit, RecordExclusive, RecordsInUse, [Next]_vars
  PROVE  RecordExclusive' /\ RecordsInUse'
<1>1. CASE UNCHANGED vars
  BY <1>1, RecordsUnchanged DEF vars, records, RecordsKept
<1>2. ASSUME Next PROVE UNCHANGED USE_THREAD_LOCAL_CACHE
  BY <1>2 DEF Next
<1>3. ASSUME Next, NEW t \in Threads, NEW o \in Objects,
             Install(t, o) \/ ExchangeSrc(t, o) \/ CasSrc(t, o)
      PROVE  RecordExclusive' /\ RecordsInUse'
  BY <1>2, <1>3, ClientFrame, RecordsUnchanged DEF records, RecordsKept
<1>4. ASSUME Next, NEW t \in Threads, Exit(t) PROVE RecordExclusive' /\ RecordsInUse'
  BY <1>2, <1>4, RecordsUnchanged DEF Exit, records, RecordsKept
<1>5. ASSUME Next, NEW t \in Threads, ExitPool(t) PROVE RecordExclusive' /\ RecordsInUse'
  <2>1. /\ \A r \in Records : active'[r] <=> active[r] /\ r \notin pool[t]
        /\ pool'[t] = {} /\ \A u \in Threads \ {t} : pool'[u] = pool[u]
        /\ UNCHANGED <<hazptr_list, rec>>
    BY <1>5 DEF ExitPool, Set, TypeOK
  <2>2. /\ \A u \in Threads : rec[u] # 0 => rec[u] \in Records
        /\ \A u \in Threads : pool[u] \subseteq Records
    BY HazptrAssumption DEF TypeOK, Records
  <2>3. RecordExclusive'
    BY <2>1, <2>2 DEF RecordExclusive
  <2>4. RecordsInUse'
    BY <1>2, <1>5, <2>1, <2>2 DEF RecordsInUse, RecordExclusive
  <2> QED
    BY <2>3, <2>4
<1>6. ASSUME Next, DestroyManager PROVE RecordExclusive' /\ RecordsInUse'
  <2>1. /\ \A u \in Threads : rec'[u] = 0 /\ pool'[u] = {}
        /\ hazptr_list' = 0 /\ \A r \in Records : ~active'[r]
    BY <1>6 DEF DestroyManager, LocalsFit, LocalFits, FreeLabels
  <2> QED
    BY <2>1 DEF RecordExclusive, RecordsInUse
<1>7. ASSUME Next, NEW t \in Readers, Holder(t) PROVE RecordExclusive' /\ RecordsInUse'
  BY <1>2, <1>7, RecordsHolder
<1>8. ASSUME Next, NEW t \in Threads, Reclaim(t) PROVE RecordExclusive' /\ RecordsInUse'
  BY <1>2, <1>8, ReclaimFrame, RecordsUnchanged DEF records, RecordsKept
<1> QED
  BY <1>1, <1>3, <1>4, <1>5, <1>6, <1>7, <1>8 DEF Next, Threads

\* _hazptr_count catches up with the list, one pushed record at a time.
LEMMA CountingNext ==
  ASSUME TypeOK, RecordsCounted, [Next]_vars
  PROVE  RecordsCounted'
<1> USE HazptrAssumption DEF Goto, Set, client, records, retired
<1>0. /\ IsFiniteSet(Counting) /\ Cardinality(Counting) \in Nat
      /\ hazptr_list \in Nat /\ hazptr_count \in Nat
      /\ pc \in [Threads -> Labels]
  BY FS_Subset, FS_CardinalityType DEF Counting, TypeOK
<1>1. ASSUME Counting' = Counting, UNCHANGED <<hazptr_list, hazptr_count>>
      PROVE  RecordsCounted'
  BY <1>1 DEF RecordsCounted
<1>2. ASSUME NEW t \in Threads, NEW l, l # "acquire_count", pc[t] # "acquire_count",
             pc' = [pc EXCEPT ![t] = l]
      PROVE  Counting' = Counting
  BY <1>0, <1>2 DEF Counting
<1>3. ASSUME NEW t \in Threads, AcquireNew(t) PROVE RecordsCounted'
  <2>1. Counting' = Counting \cup {t} /\ t \notin Counting
    BY <1>0, <1>3 DEF AcquireNew, Counting
  <2>2. Cardinality(Counting') = Cardinality(Counting) + 1
    BY <1>0, <2>1, FS_AddElement
  <2> QED
    BY <1>0, <1>3, <2>2 DEF AcquireNew, RecordsCounted
<1>4. ASSUME NEW t \in Threads, AcquireCount(t) PROVE RecordsCounted'
  <2>1. Counting' = Counting \ {t} /\ t \in Counting
    BY <1>0, <1>4 DEF AcquireCount, Counting
  <2>2. Cardinality(Counting') = Cardinality(Counting) - 1
    BY <1>0, <2>1, FS_RemoveElement
  <2> QED
    BY <1>0, <1>4, <2>2 DEF AcquireCount, RecordsCounted
<1>5. ASSUME NEW t \in Threads,
             \/ AcquireCached(t) \/ AcquireBegin(t) \/ AcquireScan(t) \/ AcquireCas(t)
             \/ LoadSrc(t) \/ Publish(t) \/ Validate(t) \/ Unpublish(t)
             \/ Reset(t) \/ ProtectAgain(t) \/ Clear(t) \/ Release(t)
      PROVE  RecordsCounted'
  <2>1. UNCHANGED <<hazptr_list, hazptr_count>> /\ pc[t] # "acquire_count"
    BY <1>5 DEF AcquireCached, AcquireBegin, AcquireScan, AcquireCas, LoadSrc, Publish,
                Validate, Unpublish, Reset, ProtectAgain, Clear, Release
  <2>2. \/ UNCHANGED pc
        \/ \E l \in Labels \ {"acquire_count"} : pc' = [pc EXCEPT ![t] = l]
    BY <1>5 DEF AcquireCached, AcquireBegin, AcquireScan, AcquireSkip, AcquireCas, LoadSrc,
                Publish, Validate, Unpublish, Reset, ProtectAgain, Clear, Release, Labels
  <2> QED
    BY <1>1, <1>2, <2>1, <2>2 DEF Counting
<1>6. ASSUME NEW t \in Threads, Reclaim(t) PROVE RecordsCounted'
  <2>1. pc[t] # "acquire_count" /\ UNCHANGED <<hazptr_list, hazptr_count>>
    BY <1>6, ReclaimFrame DEF Reclaim, Append, AppendCount, TryLoad, TryCheck, TryCas,
       TryCasFails, Take, LoadList, Scan, Sweep, AppendLeft, AppendLeftCount
  <2>2. PICK l : l # "acquire_count" /\ pc' = [pc EXCEPT ![t] = l]
    BY <1>6 DEF Reclaim, Append, AppendCount, TryLoad, TryCheck, TryCas, TryCasFails, Take,
       LoadList, Scan, Sweep, AppendLeft, AppendLeftCount, Return
  <2> QED
    BY <1>1, <1>2, <2>1, <2>2
<1>7. ASSUME NEW t \in Threads, NEW o \in Objects,
             Install(t, o) \/ ExchangeSrc(t, o) \/ CasSrc(t, o)
      PROVE  RecordsCounted'
  <2>1. pc[t] # "acquire_count" /\ UNCHANGED <<hazptr_list, hazptr_count>>
    BY <1>7 DEF Install, ExchangeSrc, CasSrc
  <2>2. UNCHANGED pc \/ \E l : l # "acquire_count" /\ pc' = [pc EXCEPT ![t] = l]
    BY <1>7 DEF Install, ExchangeSrc, CasSrc, Retire, Return
  <2> QED
    BY <1>1, <1>2, <2>1, <2>2 DEF Counting
<1>8. ASSUME NEW t \in Threads, Exit(t) \/ ExitPool(t) PROVE RecordsCounted'
  <2>1. pc[t] # "acquire_count" /\ UNCHANGED <<hazptr_list, hazptr_count>>
    BY <1>8 DEF Exit, ExitPool
  <2>2. \E l : l # "acquire_count" /\ pc' = [pc EXCEPT ![t] = l]
    BY <1>8 DEF Exit, ExitPool
  <2> QED
    BY <1>1, <1>2, <2>1, <2>2
<1>9. CASE DestroyManager
  <2>1. Counting' = {} /\ hazptr_list' = 0 /\ hazptr_count' = 0
    BY <1>9 DEF DestroyManager, Counting
  <2> QED
    BY <2>1, FS_EmptySet DEF RecordsCounted
<1>10. CASE UNCHANGED vars
  BY <1>1, <1>10 DEF vars, Counting
<1>11. ASSUME NEW t \in Readers, Holder(t) PROVE RecordsCounted'
  BY <1>3, <1>4, <1>5, <1>11 DEF Holder, Threads
<1> QED
  BY <1>6, <1>7, <1>8, <1>9, <1>10, <1>11 DEF Next, Threads

-----------------------------------------------------------------------------
(* The number of records.                                                  *)

LEMMA AboveCount ==
  /\ IsFiniteSet(Readers) /\ Cardinality(Readers) \in Nat
  /\ \A S \in SUBSET Readers :
       IsFiniteSet(S) /\ Cardinality(S) \in Nat /\ Cardinality(S) <= Cardinality(Readers)
  /\ \A S \in SUBSET Readers : \A R \in SUBSET S : Cardinality(R) <= Cardinality(S)
<1>1. IsFiniteSet(Readers)
  BY HazptrAssumption, FS_Subset DEF Threads
<1> QED
  BY <1>1, FS_Subset, FS_CardinalityType

\* The acquisition of a reader that gets no lower position crowds out nobody.
LEMMA CrowdKept ==
  ASSUME TypeOK, WalkersCrowdedOut, RecordsFew,
         UNCHANGED <<USE_THREAD_LOCAL_CACHE, hazptr_list>>,
         \A u \in Readers : \A j \in 1..hazptr_list : Below(u, j)' => Below(u, j)
  PROVE  WalkersCrowdedOut' /\ RecordsFew'
<1>1. RecordsFew'
  BY DEF RecordsFew
<1>2. ASSUME ~USE_THREAD_LOCAL_CACHE, NEW j \in 1..hazptr_list,
             NEW t \in Readers, Below(t, j)'
      PROVE  hazptr_list - j + 1 <= Cardinality(Above(j)')
  <2>1. hazptr_list - j + 1 <= Cardinality(Above(j))
    BY <1>2 DEF WalkersCrowdedOut
  <2>2. Above(j) \subseteq Above(j)' /\ Above(j)' \subseteq Readers
    BY <1>2 DEF Above
  <2>3. Cardinality(Above(j)) <= Cardinality(Above(j)')
    BY <2>2, AboveCount
  <2>4. /\ Cardinality(Above(j)) \in Nat /\ Cardinality(Above(j)') \in Nat
        /\ hazptr_list \in Nat
    BY <2>2, AboveCount DEF TypeOK, Above
  <2> QED
    BY <2>1, <2>3, <2>4
<1> QED
  BY <1>1, <1>2 DEF WalkersCrowdedOut

\* Passing a record that is in use: its holder is one more thread in the crowd.
LEMMA CrowdPassed ==
  ASSUME TypeOK, LocalsFit, RecordsInUse, WalkersCrowdedOut, RecordsFew,
         UNCHANGED <<USE_THREAD_LOCAL_CACHE, hazptr_list, rec>>,
         NEW t \in Readers, pc[t] \in {"acquire_scan", "acquire_cas"},
         active[pos[t]], AcquireSkip(t)
  PROVE  WalkersCrowdedOut' /\ RecordsFew'
<1> USE HazptrAssumption
<1>0. t \in Threads
  BY DEF Threads
<1>p. PICK p : p = pos[t]
  OBVIOUS
<1>1. p \in 1..hazptr_list /\ rec[t] = 0 /\ p \in Records /\ hazptr_list \in Nat
  BY <1>0, <1>p DEF LocalsFit, LocalFits, FreeLabels, TypeOK, Records
<1>2. /\ \A u \in Readers \ {t} : \A j \in Nat : Below(u, j)' <=> Below(u, j)
      /\ \A j \in 1..hazptr_list : Below(t, j)' <=> p <= j
      /\ \A j \in 1..hazptr_list : Below(t, j) <=> p < j
  BY <1>0, <1>p, <1>1 DEF Below, AcquireSkip, Goto, Set, TypeOK, Threads
<1>3. RecordsFew'
  BY DEF RecordsFew
<1>4. ASSUME ~USE_THREAD_LOCAL_CACHE, NEW j \in 1..hazptr_list,
             NEW v \in Readers, Below(v, j)'
      PROVE  hazptr_list - j + 1 <= Cardinality(Above(j)')
  <2>1. CASE j # p
    <3>1. Above(j)' = Above(j) /\ Below(v, j)
      BY <1>1, <1>2, <1>4, <2>1 DEF Above
    <3> QED
      BY <1>4, <3>1 DEF WalkersCrowdedOut
  <2>2. CASE j = p
    <3>1. PICK u \in Readers : rec[u] = p
      BY <1>p, <1>1, <1>4 DEF RecordsInUse
    <3>2. u # t /\ u \in Threads /\ pc[u] \notin FreeLabels
      BY <1>1, <3>1 DEF Threads, LocalsFit, LocalFits
    <3>3. ~Below(u, p) /\ (\A j2 \in Nat : p < j2 => Below(u, j2))
      BY <1>1, <3>1, <3>2 DEF Below, FreeLabels
    <3>4. Above(p)' \subseteq Readers /\ u \in Above(p)'
      BY <1>1, <1>2, <3>2, <3>3 DEF Above
    <3>5. CASE p = hazptr_list
      <4>1. Cardinality(Above(p)') \in Nat /\ Cardinality(Above(p)') # 0
        BY <3>4, AboveCount, FS_EmptySet
      <4> QED
        BY <1>1, <2>2, <3>5, <4>1
    <3>6. CASE p < hazptr_list
      <4> DEFINE A == Above(p + 1)
      <4>1. p + 1 \in 1..hazptr_list /\ Below(t, p + 1)
        BY <1>1, <1>2, <3>6
      <4>2. hazptr_list - p <= Cardinality(A)
        BY <1>1, <1>4, <4>1 DEF WalkersCrowdedOut
      <4>3. u \notin A /\ t \notin A /\ A \subseteq Readers
        BY <1>1, <3>3, <4>1 DEF Above
      <4>4. \A w \in Readers : Below(w, p) => Below(w, p + 1)
        BY <1>1 DEF Below, TypeOK, Threads
      <4>5. A \cup {u} \subseteq Above(p)'
        BY <1>1, <1>2, <3>4, <4>3, <4>4 DEF Above
      <4>6. Cardinality(A \cup {u}) = Cardinality(A) + 1 /\ Cardinality(A) \in Nat
        BY <4>3, AboveCount, FS_AddElement
      <4>7. Cardinality(A) + 1 <= Cardinality(Above(p)') /\ Cardinality(Above(p)') \in Nat
        BY <3>4, <4>5, <4>6, AboveCount
      <4> HIDE DEF A
      <4> QED
        BY <1>1, <2>2, <4>2, <4>6, <4>7
    <3> QED
      BY <1>1, <3>5, <3>6
  <2> QED
    BY <2>1, <2>2
<1> QED
  BY <1>3, <1>4 DEF WalkersCrowdedOut

\* A new record: whoever adds one found all the others in use.
LEMMA CrowdGrows ==
  ASSUME TypeOK, LocalsFit, WalkersCrowdedOut, RecordsFew,
         UNCHANGED USE_THREAD_LOCAL_CACHE, NEW t \in Readers, AcquireNew(t)
  PROVE  WalkersCrowdedOut' /\ RecordsFew'
<1> DEFINE M == hazptr_list
<1> USE HazptrAssumption
<1>1. t \in Threads /\ M \in Nat /\ M + 1 \in Nat /\ hazptr_list' = M + 1
  BY DEF Threads, AcquireNew, TypeOK
<1>2. /\ \A u \in Readers \ {t} : \A j \in Nat : Below(u, j)' <=> Below(u, j)
      /\ \A j \in Nat : Below(t, j)
      /\ \A j \in 1..(M + 1) : ~Below(t, j)'
  BY <1>1 DEF Below, AcquireNew, Goto, Set, TypeOK, Threads
<1>3. \A j \in Nat : Above(j) \subseteq Readers /\ t \notin Above(j) /\ Above(j)' \subseteq Readers
  BY <1>2 DEF Above
<1>4. \A j \in 1..(M + 1) : Above(j)' = Above(j) \cup {t}
  BY <1>1, <1>2 DEF Above
<1>5. \A j \in 1..(M + 1) : Cardinality(Above(j)') = Cardinality(Above(j)) + 1
  BY <1>1, <1>3, <1>4, AboveCount, FS_AddElement
<1>6. ASSUME ~USE_THREAD_LOCAL_CACHE, NEW j \in 1..(M + 1)
      PROVE  M + 1 - j + 1 <= Cardinality(Above(j)')
  <2>1. Cardinality(Above(j)) \in Nat /\ Cardinality(Above(j)') = Cardinality(Above(j)) + 1
    BY <1>1, <1>3, <1>5, AboveCount
  <2>2. CASE j = M + 1
    BY <1>1, <2>1, <2>2
  <2>3. CASE j \in 1..M
    <3>1. M - j + 1 <= Cardinality(Above(j))
      BY <1>1, <1>2, <1>6, <2>3 DEF WalkersCrowdedOut
    <3> QED
      BY <1>1, <2>1, <3>1
  <2> QED
    BY <1>1, <2>2, <2>3
<1>7. ASSUME ~USE_THREAD_LOCAL_CACHE PROVE M + 1 <= Cardinality(Readers)
  <2>1. M + 1 - 1 + 1 <= Cardinality(Above(1)')
    BY <1>1, <1>6, <1>7
  <2>2. Cardinality(Above(1)') <= Cardinality(Readers) /\ Cardinality(Above(1)') \in Nat
    BY <1>3, AboveCount
  <2> QED
    BY <1>1, <2>1, <2>2, AboveCount
<1>8. WalkersCrowdedOut'
  BY <1>1, <1>6 DEF WalkersCrowdedOut
<1> QED
  BY <1>1, <1>7, <1>8 DEF RecordsFew

LEMMA CrowdHolder ==
  ASSUME TypeOK, LocalsFit, RecordsInUse, WalkersCrowdedOut, RecordsFew,
         UNCHANGED USE_THREAD_LOCAL_CACHE, NEW t \in Readers, Holder(t)
  PROVE  WalkersCrowdedOut' /\ RecordsFew'
<1> USE DEF Goto, Set, client, records, retired
<1>0. t \in Threads /\ OthersKept(t) /\ LocalFits(t)
  BY HolderFrame DEF Threads, LocalsFit
<1>1. ASSUME UNCHANGED hazptr_list, \A j \in 1..hazptr_list : Below(t, j)' => Below(t, j)
      PROVE  WalkersCrowdedOut' /\ RecordsFew'
  <2>1. \A u \in Readers \ {t} : \A j \in 1..hazptr_list : Below(u, j)' => Below(u, j)
    BY <1>0 DEF Below, OthersKept, Threads
  <2> QED
    BY <1>1, <2>1, CrowdKept
<1>2. CASE AcquireCached(t)
  BY <1>1, <1>2, CrowdKept DEF AcquireCached, WalkersCrowdedOut, RecordsFew
<1>3. CASE AcquireBegin(t)
  <2>1. CASE USE_THREAD_LOCAL_CACHE
    BY <2>1 DEF WalkersCrowdedOut, RecordsFew
  <2>2. CASE ~USE_THREAD_LOCAL_CACHE
    <3>1. UNCHANGED <<hazptr_list, rec>> /\ hazptr_list \in Nat /\ rec[t] = 0
      BY <1>0, <1>3 DEF AcquireBegin, LocalFits, FreeLabels, TypeOK
    <3>2. CASE hazptr_list = 0
      BY <1>1, <3>1, <3>2
    <3>3. CASE hazptr_list # 0
      <4>1. pc'[t] = "acquire_scan" /\ pos'[t] = hazptr_list
        BY <1>0, <1>3, <2>2, <3>3 DEF AcquireBegin, TypeOK
      <4> QED
        BY <1>1, <3>1, <4>1 DEF Below
    <3> QED
      BY <3>2, <3>3
  <2> QED
    BY <2>1, <2>2
<1>4. CASE AcquireScan(t) \/ AcquireCas(t)
  <2>1. CASE active[pos[t]]
    <3>1. AcquireSkip(t) /\ UNCHANGED <<hazptr_list, rec>>
          /\ pc[t] \in {"acquire_scan", "acquire_cas"}
      BY <1>4, <2>1 DEF AcquireScan, AcquireCas
    <3> QED
      BY <2>1, <3>1, CrowdPassed
  <2>2. CASE ~active[pos[t]]
    <3>1. /\ pc[t] \in {"acquire_scan", "acquire_cas"} /\ UNCHANGED hazptr_list
          /\ pos[t] \in 1..hazptr_list /\ rec[t] = 0
      BY <1>0, <1>4 DEF AcquireScan, AcquireCas, LocalFits, FreeLabels
    <3>2. \/ pc'[t] = "acquire_cas" /\ pos'[t] = pos[t] /\ rec'[t] = rec[t]
          \/ pc'[t] = "load_src" /\ rec'[t] = pos[t]
      BY <1>0, <1>4, <2>2 DEF AcquireScan, AcquireCas, TypeOK
    <3> QED
      BY <1>1, <3>1, <3>2 DEF Below
  <2> QED
    BY <2>1, <2>2
<1>5. CASE AcquireNew(t)
  BY <1>5, CrowdGrows
<1>6. CASE AcquireCount(t) \/ LoadSrc(t) \/ Publish(t) \/ Validate(t) \/ Unpublish(t)
           \/ Reset(t) \/ ProtectAgain(t) \/ Clear(t)
  <2>1. UNCHANGED <<hazptr_list, rec>> /\ pc'[t] \in HolderLabels
    BY <1>0, <1>6 DEF AcquireCount, LoadSrc, Publish, Validate, Unpublish, Reset, ProtectAgain,
       Clear, TypeOK, HolderLabels
  <2> QED
    BY <1>1, <2>1 DEF Below, HolderLabels
<1>7. CASE Release(t)
  <2>1. UNCHANGED hazptr_list /\ pc'[t] = "idle" /\ rec'[t] = 0
    BY <1>0, <1>7 DEF Release, TypeOK
  <2> QED
    BY <1>1, <2>1 DEF Below
<1> QED
  BY <1>2, <1>3, <1>4, <1>5, <1>6, <1>7 DEF Holder

\* Without caches there are never more records than readers.
LEMMA CrowdNext ==
  ASSUME TypeOK, LocalsFit, RecordsInUse, WalkersCrowdedOut, RecordsFew, [Next]_vars
  PROVE  WalkersCrowdedOut' /\ RecordsFew'
<1> USE DEF Goto, Set, client, records, retired
<1>1. CASE UNCHANGED vars
  BY <1>1, CrowdKept DEF vars, Below
<1>2. ASSUME Next PROVE UNCHANGED USE_THREAD_LOCAL_CACHE
  BY <1>2 DEF Next
<1>3. ASSUME Next, NEW t \in Threads, OthersKept(t), UNCHANGED <<hazptr_list, rec>>,
             pc'[t] \notin {"acquire_new", "acquire_scan", "acquire_cas"}
      PROVE  WalkersCrowdedOut' /\ RecordsFew'
  <2>1. \A u \in Readers \ {t} : \A j \in 1..hazptr_list : Below(u, j)' => Below(u, j)
    BY <1>3 DEF Below, OthersKept, Threads
  <2>2. \A j \in 1..hazptr_list : Below(t, j)' => Below(t, j)
    BY <1>3 DEF Below
  <2> QED
    BY <1>2, <1>3, <2>1, <2>2, CrowdKept
<1>4. ASSUME Next, NEW t \in Threads, NEW o \in Objects,
             Install(t, o) \/ ExchangeSrc(t, o) \/ CasSrc(t, o)
      PROVE  WalkersCrowdedOut' /\ RecordsFew'
  <2>1. OthersKept(t) /\ UNCHANGED <<hazptr_list, rec>>
    BY <1>4, ClientFrame
  <2>2. pc'[t] \notin {"acquire_new", "acquire_scan", "acquire_cas"}
    BY <1>4 DEF Install, ExchangeSrc, CasSrc, Retire, Return, TypeOK
  <2> QED
    BY <1>3, <1>4, <2>1, <2>2
<1>5. ASSUME Next, NEW t \in Threads, Exit(t) \/ ExitPool(t)
      PROVE  WalkersCrowdedOut' /\ RecordsFew'
  <2>1. OthersKept(t) /\ UNCHANGED <<hazptr_list, rec>>
    BY <1>5, ExitFrame
  <2>2. pc'[t] \notin {"acquire_new", "acquire_scan", "acquire_cas"}
    BY <1>5 DEF Exit, ExitPool, TypeOK
  <2> QED
    BY <1>3, <1>5, <2>1, <2>2
<1>6. ASSUME Next, NEW t \in Threads, Reclaim(t) PROVE WalkersCrowdedOut' /\ RecordsFew'
  <2>1. OthersKept(t) /\ UNCHANGED <<hazptr_list, rec>>
    BY <1>6, ReclaimFrame
  <2>2. pc'[t] \notin {"acquire_new", "acquire_scan", "acquire_cas"}
    BY <1>6 DEF Reclaim, Append, AppendCount, TryLoad, TryCheck, TryCas, TryCasFails, Take,
       LoadList, Scan, Sweep, AppendLeft, AppendLeftCount, Return, TypeOK
  <2> QED
    BY <1>3, <1>6, <2>1, <2>2
<1>7. ASSUME Next, DestroyManager PROVE WalkersCrowdedOut' /\ RecordsFew'
  <2>1. hazptr_list' = 0
    BY <1>7 DEF DestroyManager
  <2> QED
    BY <2>1, AboveCount DEF WalkersCrowdedOut, RecordsFew
<1>8. ASSUME Next, NEW t \in Readers, Holder(t) PROVE WalkersCrowdedOut' /\ RecordsFew'
  BY <1>2, <1>8, CrowdHolder
<1> QED
  BY <1>1, <1>4, <1>5, <1>6, <1>7, <1>8 DEF Next, Threads

-----------------------------------------------------------------------------
(* Where retired objects are.                                              *)

\* Everything the two invariants of this section look at.
ListsKept == UNCHANGED <<src, state, retired_list, priv_list, batch>>

LEMMA ListsUnchanged ==
  ASSUME SrcIsLinked, ListsDisjoint, ListsKept
  PROVE  SrcIsLinked' /\ ListsDisjoint'
BY DEF SrcIsLinked, ListsDisjoint, ListsKept

\* Retiring the object in src: it was in no list.
LEMMA ListsReplace ==
  ASSUME TypeOK, SrcIsLinked, ListsDisjoint, NEW t \in Threads, NEW o \in Objects,
         src # NULL, Replace(t, o), Retire(t, src), UNCHANGED <<retired_list, batch>>
  PROVE  SrcIsLinked' /\ ListsDisjoint'
<1>1. src \in Objects /\ state[src] = "linked" /\ src # o /\ src' = o
  BY DEF SrcIsLinked, Replace, TypeOK
<1>2. /\ state'[o] = "linked" /\ state'[src] = "retired" /\ state[o] = "free"
      /\ \A x \in Objects \ {o, src} : state'[x] = state[x]
  BY <1>1 DEF Replace, TypeOK
<1>3. /\ priv_list'[t] = priv_list[t] \cup {src}
      /\ \A u \in Threads \ {t} : priv_list'[u] = priv_list[u]
  BY DEF Retire, Set, TypeOK
<1>4. /\ src \notin retired_list
      /\ \A u \in Threads : src \notin priv_list[u] /\ src \notin batch[u]
  BY <1>1 DEF ListsDisjoint
<1>5. SrcIsLinked'
  BY <1>1, <1>2 DEF SrcIsLinked
<1>6. \A x \in Objects :
        state'[x] = "retired" <=>
          \/ x \in retired_list
          \/ \E u \in Threads : x \in priv_list'[u] \cup batch[u]
  BY <1>1, <1>2, <1>3, <1>4 DEF ListsDisjoint
<1>7. \A u, v \in Threads : u # v =>
        priv_list'[u] \cap priv_list'[v] = {} /\ batch[u] \cap batch[v] = {}
  BY <1>3, <1>4 DEF ListsDisjoint
<1>8. \A u, v \in Threads : priv_list'[u] \cap batch[v] = {}
  BY <1>3, <1>4 DEF ListsDisjoint
<1>9. \A u \in Threads : (priv_list'[u] \cup batch[u]) \cap retired_list = {}
  BY <1>3, <1>4 DEF ListsDisjoint
<1> QED
  BY <1>5, <1>6, <1>7, <1>8, <1>9 DEF ListsDisjoint

\* retire() moves objects from list to list, and deletes what it takes off one.
LEMMA ListsReclaim ==
  ASSUME TypeOK, LocalsFit, SrcIsLinked, ListsDisjoint, NEW t \in Threads, Reclaim(t)
  PROVE  SrcIsLinked' /\ ListsDisjoint'
<1> USE DEF Goto, Set, client, records, retired
<1>1. CASE AppendCount(t) \/ TryLoad(t) \/ TryCheck(t) \/ TryCas(t) \/ TryCasFails(t)
           \/ LoadList(t) \/ Scan(t) \/ AppendLeftCount(t)
  <2>1. ListsKept
    BY <1>1 DEF AppendCount, TryLoad, TryCheck, TryCas, TryCasFails, LoadList, Scan,
       AppendLeftCount, ListsKept
  <2> QED
    BY <2>1, ListsUnchanged
<1>2. CASE Append(t)
  <2>1. /\ retired_list' = retired_list \cup priv_list[t]
        /\ priv_list'[t] = {} /\ \A u \in Threads \ {t} : priv_list'[u] = priv_list[u]
        /\ UNCHANGED <<src, state, batch>>
    BY <1>2 DEF Append, TypeOK
  <2>2. \A x \in Objects :
          state[x] = "retired" <=>
            \/ x \in retired_list'
            \/ \E u \in Threads : x \in priv_list'[u] \cup batch[u]
    BY <2>1 DEF ListsDisjoint
  <2>3. /\ \A u, v \in Threads : u # v =>
             priv_list'[u] \cap priv_list'[v] = {} /\ batch[u] \cap batch[v] = {}
        /\ \A u, v \in Threads : priv_list'[u] \cap batch[v] = {}
    BY <2>1 DEF ListsDisjoint
  <2>4. \A u \in Threads : (priv_list'[u] \cup batch[u]) \cap retired_list' = {}
    BY <2>1 DEF ListsDisjoint
  <2> QED
    BY <2>1, <2>2, <2>3, <2>4 DEF SrcIsLinked, ListsDisjoint
<1>3. CASE Take(t)
  <2>1. /\ retired_list' = {} /\ batch[t] = {} /\ batch'[t] = retired_list
        /\ \A u \in Threads \ {t} : batch'[u] = batch[u]
        /\ UNCHANGED <<src, state, priv_list>>
    BY <1>3 DEF Take, LocalsFit, LocalFits, TypeOK
  <2>2. \A x \in Objects :
          state[x] = "retired" <=> \E u \in Threads : x \in priv_list[u] \cup batch'[u]
    BY <2>1 DEF ListsDisjoint
  <2>3. /\ \A u, v \in Threads : u # v =>
             priv_list[u] \cap priv_list[v] = {} /\ batch'[u] \cap batch'[v] = {}
        /\ \A u, v \in Threads : priv_list[u] \cap batch'[v] = {}
    BY <2>1 DEF ListsDisjoint
  <2> QED
    BY <2>1, <2>2, <2>3 DEF SrcIsLinked, ListsDisjoint
<1>4. CASE Sweep(t)
  <2>1. /\ \A x \in Objects : state'[x] = IF x \in batch[t] \ set[t] THEN "free" ELSE state[x]
        /\ batch'[t] = batch[t] \cap set[t]
        /\ \A u \in Threads \ {t} : batch'[u] = batch[u]
        /\ UNCHANGED <<src, retired_list, priv_list>>
    BY <1>4 DEF Sweep, TypeOK
  <2>2. \A x \in batch[t] : state[x] = "retired"
    BY DEF ListsDisjoint, TypeOK
  <2>3. SrcIsLinked'
    BY <2>1, <2>2 DEF SrcIsLinked
  <2>4. ASSUME NEW x \in Objects
        PROVE  state'[x] = "retired" <=>
                 \/ x \in retired_list
                 \/ \E u \in Threads : x \in priv_list[u] \cup batch'[u]
    <3>1. CASE x \in batch[t] \ set[t]
      <4>1. /\ x \notin retired_list
            /\ \A u \in Threads : x \notin priv_list[u] \cup batch'[u]
        BY <2>1, <3>1 DEF ListsDisjoint
      <4> QED
        BY <2>1, <3>1, <4>1
    <3>2. CASE x \notin batch[t] \ set[t]
      <4>1. \A u \in Threads : x \in batch'[u] <=> x \in batch[u]
        BY <2>1, <3>2
      <4> QED
        BY <2>1, <3>2, <4>1 DEF ListsDisjoint
    <3> QED
      BY <3>1, <3>2
  <2>5. \A u \in Threads : batch'[u] \subseteq batch[u]
    BY <2>1
  <2>6. /\ \A u, v \in Threads : u # v =>
             priv_list[u] \cap priv_list[v] = {} /\ batch'[u] \cap batch'[v] = {}
        /\ \A u, v \in Threads : priv_list[u] \cap batch'[v] = {}
        /\ \A u \in Threads : (priv_list[u] \cup batch'[u]) \cap retired_list = {}
    BY <2>5 DEF ListsDisjoint
  <2> QED
    BY <2>1, <2>3, <2>4, <2>6 DEF ListsDisjoint
<1>5. CASE AppendLeft(t)
  <2>1. /\ retired_list' = retired_list \cup batch[t]
        /\ batch'[t] = {} /\ \A u \in Threads \ {t} : batch'[u] = batch[u]
        /\ UNCHANGED <<src, state, priv_list>>
    BY <1>5 DEF AppendLeft, TypeOK
  <2>2. \A x \in Objects :
          state[x] = "retired" <=>
            \/ x \in retired_list'
            \/ \E u \in Threads : x \in priv_list[u] \cup batch'[u]
    BY <2>1 DEF ListsDisjoint
  <2>3. /\ \A u, v \in Threads : u # v =>
             priv_list[u] \cap priv_list[v] = {} /\ batch'[u] \cap batch'[v] = {}
        /\ \A u, v \in Threads : priv_list[u] \cap batch'[v] = {}
    BY <2>1 DEF ListsDisjoint
  <2>4. \A u \in Threads : (priv_list[u] \cup batch'[u]) \cap retired_list' = {}
    BY <2>1 DEF ListsDisjoint
  <2> QED
    BY <2>1, <2>2, <2>3, <2>4 DEF SrcIsLinked, ListsDisjoint
<1> QED
  BY <1>1, <1>2, <1>3, <1>4, <1>5 DEF Reclaim

LEMMA ListsNext ==
  ASSUME TypeOK, LocalsFit, SrcIsLinked, ListsDisjoint, [Next]_vars
  PROVE  SrcIsLinked' /\ ListsDisjoint'
<1> USE DEF client, records, retired
<1>1. CASE UNCHANGED vars
  BY <1>1, ListsUnchanged DEF vars, ListsKept
<1>2. ASSUME NEW t \in Threads, NEW o \in Objects, Install(t, o)
      PROVE  SrcIsLinked' /\ ListsDisjoint'
  <2>1. /\ src = NULL /\ src' = o /\ state[o] = "free" /\ state'[o] = "linked"
        /\ \A x \in Objects \ {o} : state'[x] = state[x]
        /\ UNCHANGED <<retired_list, priv_list, batch>>
    BY <1>2 DEF Install, Set, TypeOK
  <2> QED
    BY <2>1, HazptrAssumption DEF SrcIsLinked, ListsDisjoint
<1>3. ASSUME NEW t \in Threads, NEW o \in Objects, ExchangeSrc(t, o) \/ CasSrc(t, o)
      PROVE  SrcIsLinked' /\ ListsDisjoint'
  <2>1. src # NULL /\ Replace(t, o) /\ Retire(t, src) /\ UNCHANGED <<retired_list, batch>>
    BY <1>3 DEF ExchangeSrc, CasSrc
  <2> QED
    BY <2>1, ListsReplace
<1>4. ASSUME NEW t \in Threads, Exit(t) \/ ExitPool(t) PROVE SrcIsLinked' /\ ListsDisjoint'
  BY <1>4, ExitFrame, ListsUnchanged DEF ListsKept
<1>5. CASE DestroyManager
  <2>1. /\ \A t \in Threads : priv_list[t] = {} /\ batch[t] = {}
        /\ \A o \in Objects : state'[o] = IF o \in retired_list THEN "free" ELSE state[o]
        /\ retired_list' = {} /\ UNCHANGED <<src, priv_list, batch>>
    BY <1>5 DEF DestroyManager, LocalsFit, LocalFits
  <2>2. \A o \in retired_list : state[o] = "retired"
    BY DEF ListsDisjoint, TypeOK
  <2>3. SrcIsLinked'
    BY <2>1, <2>2 DEF SrcIsLinked
  <2>4. \A o \in Objects : state'[o] # "retired"
    BY <2>1 DEF ListsDisjoint
  <2> QED
    BY <2>1, <2>3, <2>4 DEF ListsDisjoint
<1>6. ASSUME NEW t \in Threads, Holder(t) PROVE SrcIsLinked' /\ ListsDisjoint'
  BY <1>6, HolderFrame, ListsUnchanged DEF ListsKept
<1>7. ASSUME NEW t \in Threads, Reclaim(t) PROVE SrcIsLinked' /\ ListsDisjoint'
  BY <1>7, ListsReclaim
<1> QED
  BY <1>1, <1>2, <1>3, <1>4, <1>5, <1>6, <1>7 DEF Next, Threads

-----------------------------------------------------------------------------
(* Protection.                                                             *)

\* What holds of a thread that protects something: its record is its own.
LEMMA HasRecord ==
  ASSUME TypeOK, LocalsFit, RecordsInUse, NEW t \in Threads,
         Protecting(t) \/ pc[t] = "validate"
  PROVE  /\ rec[t] \in Records /\ rec[t] # 0
         /\ rec[t] <= hazptr_list /\ hazptr_list \in Nat
  BY HazptrAssumption DEF TypeOK, LocalsFit, LocalFits, HolderLabels, Protecting, RecordsInUse, Records

\* Protection starts when src still holds the pointer that the record names.
StartsProtecting(t) ==
  /\ pc[t] = "validate" /\ ptr[t] = src /\ src \in Objects
  /\ UNCHANGED <<src, state, batch>>

\* The actors of a step.
Acts(u) ==
  \/ u \in Readers /\ Holder(u)
  \/ Reclaim(u) \/ Exit(u) \/ ExitPool(u)
  \/ \E o \in Objects : Install(u, o) \/ ExchangeSrc(u, o) \/ CasSrc(u, o)

LEMMA SomebodyActs ==
  ASSUME Next
  PROVE  DestroyManager \/ \E u \in Threads : Acts(u)
BY DEF Next, Acts, Threads

LEMMA ActsFrame ==
  ASSUME TypeOK, NEW u \in Threads, Acts(u)
  PROVE  OthersKept(u)
BY HolderFrame, ReclaimFrame, ExitFrame, ClientFrame DEF Acts

LEMMA ProtectingOwn ==
  ASSUME TypeOK, LocalsFit, NEW t \in Threads, Acts(t), Protecting(t)'
  PROVE  /\ rec'[t] = rec[t] /\ ptr'[t] = ptr[t]
         /\ Protecting(t) \/ StartsProtecting(t)
<1> USE DEF Goto, Set, client, records, retired
<1>0. LocalFits(t) /\ pc[t] \in Labels /\ t \in DOMAIN pc /\ t \in DOMAIN rec /\ t \in DOMAIN ptr
  BY DEF LocalsFit, TypeOK
<1>1. CASE AcquireCached(t) \/ AcquireBegin(t) \/ AcquireScan(t)
  BY <1>0, <1>1 DEF AcquireCached, AcquireBegin, AcquireScan, AcquireSkip, Protecting, LocalFits,
     FreeLabels, TypeOK
<1>2. CASE AcquireCas(t)
  <2>1. pc'[t] = "load_src" \/ rec'[t] = 0
    BY <1>0, <1>2 DEF AcquireCas, AcquireSkip, LocalFits, FreeLabels, TypeOK
  <2> QED
    BY <2>1 DEF Protecting
<1>3. CASE AcquireNew(t) \/ AcquireCount(t) \/ LoadSrc(t) \/ Publish(t)
  BY <1>0, <1>3 DEF AcquireNew, AcquireCount, LoadSrc, Publish, Protecting, TypeOK
<1>4. CASE Validate(t)
  <2>1. ptr[t] = src /\ ptr'[t] = src /\ UNCHANGED <<rec, src, state, batch>> /\ pc[t] = "validate"
    BY <1>0, <1>4 DEF Validate, Protecting, TypeOK
  <2>2. src # NULL
    BY <2>1 DEF Protecting
  <2> QED
    BY <2>1, <2>2 DEF StartsProtecting, TypeOK
<1>5. CASE Unpublish(t) \/ Reset(t) \/ ProtectAgain(t) \/ Clear(t)
  BY <1>0, <1>5 DEF Unpublish, Reset, ProtectAgain, Clear, Protecting, TypeOK
<1>6. CASE Release(t)
  BY <1>0, <1>6 DEF Release, Protecting, TypeOK
<1>7. CASE Reclaim(t)
  <2>1. UNCHANGED <<rec, ptr>>
    BY <1>7, ReclaimFrame
  <2>2. pc[t] \in ReclaimLabels
    BY <1>7, ReclaimLabelsAre DEF Reclaim, Append, AppendCount, TryLoad, TryCheck, TryCas, TryCasFails,
       Take, LoadList, Scan, Sweep, AppendLeft, AppendLeftCount
  <2> QED
    BY <2>1, <2>2, ReclaimLabelsAre DEF Protecting, Labels
<1>8. CASE Exit(t) \/ ExitPool(t)
  BY <1>0, <1>8 DEF Exit, ExitPool, Protecting
<1>9. ASSUME NEW o \in Objects, Install(t, o) \/ ExchangeSrc(t, o) \/ CasSrc(t, o)
      PROVE  /\ rec'[t] = rec[t] /\ ptr'[t] = ptr[t]
             /\ Protecting(t) \/ StartsProtecting(t)
  <2>1. UNCHANGED <<rec, ptr>>
    BY <1>9, ClientFrame
  <2>2. pc[t] \in {"idle", "using"}
    BY <1>9 DEF Install, ExchangeSrc, CasSrc
  <2> QED
    BY <2>1, <2>2 DEF Protecting, Labels
<1> QED
  BY <1>1, <1>2, <1>3, <1>4, <1>5, <1>6, <1>7, <1>8, <1>9 DEF Acts, Holder

\* A step of u, and what it can do to another thread's protection: nothing.
LEMMA ProtectingOther ==
  ASSUME NEW u \in Threads, OthersKept(u), NEW t \in Threads \ {u}
  PROVE  /\ Protecting(t)' <=> Protecting(t)
         /\ rec'[t] = rec[t] /\ ptr'[t] = ptr[t] /\ pc'[t] = pc[t]
BY DEF OthersKept, Protecting

\* Nobody protects anything at the end of the process.
LEMMA NobodyProtects ==
  ASSUME LocalsFit, DestroyManager, NEW t \in Threads
  PROVE  ~Protecting(t)' /\ pc'[t] = "idle"
BY DEF LocalsFit, LocalFits, FreeLabels, DestroyManager, Protecting

\* Who protects after a step protected before it, or has just validated.
LEMMA ProtectingNext ==
  ASSUME TypeOK, LocalsFit, NEW u \in Threads, Acts(u), NEW t \in Threads, Protecting(t)'
  PROVE  /\ rec'[t] = rec[t] /\ ptr'[t] = ptr[t]
         /\ Protecting(t) \/ StartsProtecting(t)
BY ActsFrame, ProtectingOther, ProtectingOwn

\* A record is written by its holder only.
LEMMA RealptrStep ==
  ASSUME TypeOK, NEW u \in Threads, Acts(u)
  PROVE  \/ UNCHANGED realptr /\ pc'[u] # "validate"
         \/ Publish(u)
         \/ /\ pc[u] \in HolderLabels /\ ~Protecting(u)' /\ pc'[u] # "validate"
            /\ realptr' = [realptr EXCEPT ![rec[u]] = NULL]
<1> USE DEF Goto, Set, client, records, retired
<1>1. CASE Unpublish(u) \/ Reset(u) \/ Clear(u)
  BY <1>1 DEF Unpublish, Reset, Clear, Protecting, HolderLabels, TypeOK
<1>2. CASE AcquireCached(u) \/ AcquireBegin(u) \/ AcquireScan(u) \/ AcquireNew(u)
  BY <1>2 DEF AcquireCached, AcquireBegin, AcquireScan, AcquireSkip, AcquireNew, TypeOK
<1>3. CASE AcquireCas(u) \/ AcquireCount(u) \/ LoadSrc(u) \/ Validate(u)
  BY <1>3 DEF AcquireCas, AcquireSkip, AcquireCount, LoadSrc, Validate, TypeOK
<1>4. CASE ProtectAgain(u) \/ Release(u)
  BY <1>4 DEF ProtectAgain, Release, TypeOK
<1>5. CASE Reclaim(u)
  BY <1>5, ReclaimFrame DEF Reclaim, Append, AppendCount, TryLoad, TryCheck, TryCas, TryCasFails,
     Take, LoadList, Scan, Sweep, AppendLeft, AppendLeftCount, Return, TypeOK
<1>6. CASE Exit(u) \/ ExitPool(u)
  BY <1>6 DEF Exit, ExitPool, TypeOK
<1>7. ASSUME NEW o \in Objects, Install(u, o) \/ ExchangeSrc(u, o) \/ CasSrc(u, o)
      PROVE  UNCHANGED realptr /\ pc'[u] # "validate"
  BY <1>7 DEF Install, ExchangeSrc, CasSrc, Retire, Return, TypeOK
<1> QED
  BY <1>1, <1>2, <1>3, <1>4, <1>5, <1>6, <1>7 DEF Acts, Holder

\* A holder's record keeps naming what the holder protects.
LEMMA NamesNext ==
  ASSUME TypeOK, LocalsFit, RecordExclusive, RecordsInUse, RecordNames, [Next]_vars
  PROVE  RecordNames'
<1>1. CASE UNCHANGED vars
  BY <1>1 DEF vars, records, RecordNames, Protecting
<1>2. CASE DestroyManager
  BY <1>2, NobodyProtects DEF RecordNames
<1>3. ASSUME NEW u \in Threads, Acts(u), NEW t \in Threads,
             Protecting(t)' \/ pc'[t] = "validate"
      PROVE  realptr'[rec'[t]] = ptr'[t]
  <2>0. /\ pc[u] \in HolderLabels => rec[u] # 0 /\ rec[u] \in Records
        /\ realptr \in [Records -> Objects \cup {NULL}]
    BY HazptrAssumption DEF LocalsFit, LocalFits, TypeOK, Records
  <2>1. CASE t # u
    <3>1. /\ Protecting(t) \/ pc[t] = "validate"
          /\ rec'[t] = rec[t] /\ ptr'[t] = ptr[t]
      BY <1>3, <2>1, ActsFrame, ProtectingOther
    <3>2. rec[t] \in Records /\ rec[t] # 0 /\ realptr[rec[t]] = ptr[t]
      BY <3>1, HasRecord DEF RecordNames
    <3>3. rec[t] # rec[u]
      BY <2>1, <3>2 DEF RecordExclusive
    <3>4. \/ UNCHANGED realptr
          \/ \E v : realptr' = [realptr EXCEPT ![rec[u]] = v]
      BY <1>3, RealptrStep DEF Publish, Set
    <3> QED
      BY <2>0, <3>1, <3>2, <3>3, <3>4
  <2>2. CASE t = u
    <3>1. CASE Publish(t)
      <4>1. pc[t] \in HolderLabels
        BY <3>1 DEF Publish, HolderLabels
      <4> QED
        BY <2>0, <2>2, <3>1, <4>1 DEF Publish, Set
    <3>2. CASE UNCHANGED realptr /\ pc'[t] # "validate"
      BY <1>3, <3>2, ProtectingNext DEF RecordNames, StartsProtecting
    <3> QED
      BY <1>3, <2>2, <3>1, <3>2, RealptrStep
  <2> QED
    BY <2>1, <2>2
<1> QED
  BY <1>1, <1>2, <1>3, SomebodyActs DEF RecordNames

\* Objects are deleted by a sweep of what a thread has taken.
LEMMA DeletedBySweep ==
  ASSUME TypeOK, SrcIsLinked, NEW u \in Threads, Acts(u),
         NEW x \in Objects, state'[x] = "free", state[x] # "free"
  PROVE  pc[u] = "sweep" /\ x \in batch[u] \ set[u]
<1> USE DEF client, records, retired
<1>1. ASSUME NEW o \in Objects, Install(u, o) \/ ExchangeSrc(u, o) \/ CasSrc(u, o)
      PROVE  FALSE
  BY <1>1 DEF Install, ExchangeSrc, CasSrc, Replace, Set, SrcIsLinked, TypeOK
<1>2. CASE Sweep(u)
  BY <1>2 DEF Sweep, TypeOK
<1>3. CASE Reclaim(u) /\ ~Sweep(u)
  BY <1>3 DEF Reclaim, Append, AppendCount, TryLoad, TryCheck, TryCas, TryCasFails,
     Take, LoadList, Scan, AppendLeft, AppendLeftCount
<1>4. CASE Holder(u) \/ Exit(u) \/ ExitPool(u)
  BY <1>4, HolderFrame, ExitFrame
<1> QED
  BY <1>1, <1>2, <1>3, <1>4 DEF Acts

\* What a thread protects survives every step.
LEMMA ProtectedNext ==
  ASSUME TypeOK, LocalsFit, SrcIsLinked, ScansCover, ProtectedNotFreed, [Next]_vars
  PROVE  ProtectedNotFreed'
<1>1. CASE UNCHANGED vars
  BY <1>1 DEF vars, client, ProtectedNotFreed, Protecting
<1>2. CASE DestroyManager
  BY <1>2, NobodyProtects DEF ProtectedNotFreed
<1>3. ASSUME NEW u \in Threads, Acts(u), NEW t \in Threads, Protecting(t)'
      PROVE  state'[ptr'[t]] # "free"
  <2>1. ptr'[t] = ptr[t] /\ (Protecting(t) \/ StartsProtecting(t))
    BY <1>3, ProtectingNext
  <2>2. CASE StartsProtecting(t)
    BY <2>1, <2>2 DEF StartsProtecting, SrcIsLinked
  <2>3. CASE Protecting(t)
    <3>1. ptr[t] \in Objects /\ state[ptr[t]] # "free"
      BY <2>3 DEF Protecting, ProtectedNotFreed, TypeOK
    <3>2. ~(pc[u] = "sweep" /\ ptr[t] \in batch[u] \ set[u])
      BY <2>3 DEF ScansCover
    <3> QED
      BY <1>3, <2>1, <3>1, <3>2, DeletedBySweep
  <2> QED
    BY <2>1, <2>2, <2>3
<1> QED
  BY <1>1, <1>2, <1>3, SomebodyActs DEF ProtectedNotFreed

LEMMA ScanningStep ==
  ASSUME TypeOK, NEW u \in Threads, Acts(u), pc'[u] \in {"scan", "sweep"}
  PROVE  LoadList(u) \/ Scan(u)
<1> USE DEF Goto
<1>1. CASE Holder(u)
  <2>1. pc[u] \notin {"scan", "sweep"}
    BY <1>1 DEF Holder, AcquireCached, AcquireBegin, AcquireScan, AcquireCas, AcquireNew,
       AcquireCount, LoadSrc, Publish, Validate, Unpublish, Reset, ProtectAgain, Clear, Release
  <2>2. pc'[u] = pc[u] \/ pc'[u] \in HolderLabels \cup FreeLabels
    BY <1>1 DEF Holder, AcquireCached, AcquireBegin, AcquireScan, AcquireSkip, AcquireCas,
       AcquireNew, AcquireCount, LoadSrc, Publish, Validate, Unpublish, Reset, ProtectAgain, Clear,
       Release, HolderLabels, FreeLabels, TypeOK
  <2> QED
    BY <2>1, <2>2 DEF HolderLabels, FreeLabels
<1>2. CASE Reclaim(u)
  BY <1>2 DEF Reclaim, Append, AppendCount, TryLoad, TryCheck, TryCas, TryCasFails,
     Take, Sweep, AppendLeft, AppendLeftCount, Return, TypeOK
<1>3. CASE Exit(u) \/ ExitPool(u)
  BY <1>3 DEF Exit, ExitPool, TypeOK
<1>4. ASSUME NEW o \in Objects, Install(u, o) \/ ExchangeSrc(u, o) \/ CasSrc(u, o)
      PROVE  FALSE
  BY <1>4 DEF Install, ExchangeSrc, CasSrc, Retire, Return, TypeOK
<1> QED
  BY <1>1, <1>2, <1>3, <1>4 DEF Acts

\* A scan under way finds every record that protects what it is about to delete:
\* an object can only be protected anew while it is still in src.
LEMMA ScansNext ==
  ASSUME TypeOK, LocalsFit, RecordsInUse, SrcIsLinked, ListsDisjoint, RecordNames, ScansCover,
         [Next]_vars
  PROVE  ScansCover'
<1> USE HazptrAssumption
<1>1. CASE UNCHANGED vars
  BY <1>1 DEF vars, ScansCover, Protecting
<1>2. CASE DestroyManager
  BY <1>2, NobodyProtects DEF ScansCover
<1>3. ASSUME NEW u \in Threads, Acts(u), NEW t \in Threads, NEW w \in Threads,
             Protecting(t)', ptr'[t] \in batch'[w], pc'[w] \in {"scan", "sweep"}
      PROVE  /\ pc'[w] = "scan" => ptr'[t] \in set'[w] \/ rec'[t] <= pos'[w]
             /\ pc'[w] = "sweep" => ptr'[t] \in set'[w]
  <2>1. /\ ptr'[t] = ptr[t] /\ rec'[t] = rec[t]
        /\ Protecting(t) \/ StartsProtecting(t)
    BY <1>3, ProtectingNext
  <2>2. batch'[w] = batch[w]
    <3>1. CASE w # u
      BY <1>3, <3>1, ActsFrame DEF OthersKept
    <3>2. CASE w = u
      BY <1>3, <3>2, ScanningStep DEF LoadList, Scan
    <3> QED
      BY <3>1, <3>2
  <2>3. Protecting(t)
    <3>1. ASSUME StartsProtecting(t) PROVE FALSE
      BY <1>3, <2>1, <2>2, <3>1 DEF StartsProtecting, SrcIsLinked, ListsDisjoint
    <3> QED
      BY <2>1, <3>1
  <2>4. /\ rec[t] \in Records /\ rec[t] # 0 /\ rec[t] <= hazptr_list /\ hazptr_list \in Nat
        /\ rec[t] \in Nat /\ realptr[rec[t]] = ptr[t]
    BY <2>3, HasRecord DEF RecordNames, Records
  <2>5. /\ pc[w] = "scan" => ptr[t] \in set[w] \/ rec[t] <= pos[w]
        /\ pc[w] = "sweep" => ptr[t] \in set[w]
    BY <1>3, <2>1, <2>2, <2>3 DEF ScansCover
  <2>6. CASE w # u
    <3>1. pc'[w] = pc[w] /\ set'[w] = set[w] /\ pos'[w] = pos[w]
      BY <1>3, <2>6, ActsFrame DEF OthersKept
    <3> QED
      BY <2>1, <2>5, <3>1
  <2>7. CASE w = u /\ LoadList(u)
    <3>1. /\ pos'[u] = hazptr_list
          /\ pc'[u] = IF hazptr_list = 0 THEN "sweep" ELSE "scan"
      BY <2>7 DEF LoadList, Goto, Set, TypeOK
    <3> QED
      BY <2>1, <2>4, <2>7, <3>1
  <2>8. CASE w = u /\ Scan(u)
    <3>1. /\ pc[u] = "scan" /\ pos'[u] = pos[u] - 1
          /\ set'[u] = set[u] \cup {realptr[pos[u]]}
          /\ pc'[u] = IF pos[u] = 1 THEN "sweep" ELSE "scan"
      BY <2>8 DEF Scan, Goto, Set, TypeOK
    <3>2. pos[u] \in Nat /\ pos[u] # 0
      BY <3>1 DEF LocalsFit, LocalFits, TypeOK
    <3>3. ptr[t] \in set'[u] \/ rec[t] <= pos[u] - 1
      BY <2>4, <2>5, <2>8, <3>1, <3>2
    <3> QED
      BY <2>1, <2>4, <2>8, <3>1, <3>2, <3>3
  <2> QED
    BY <1>3, <2>6, <2>7, <2>8, ScanningStep
<1> QED
  BY <1>1, <1>2, <1>3, SomebodyActs DEF ScansCover

-----------------------------------------------------------------------------
(* The theorems.                                                           *)

LEMMA HazptrInit == Init => HazptrInv
<1> SUFFICES ASSUME Init PROVE HazptrInv
  OBVIOUS
<1>1. TypeOK
  BY TypeInit
<1>2. LocalsFit /\ RecordExclusive /\ RecordsInUse
  BY HazptrAssumption, ReclaimLabelsAre DEF Init, LocalsFit, LocalFits, HolderLabels, FreeLabels,
     RecordExclusive, RecordsInUse
<1>3. RecordsCounted
  <2>1. Counting = {}
    BY DEF Init, Counting
  <2> QED
    BY <2>1, FS_EmptySet DEF Init, RecordsCounted
<1>4. WalkersCrowdedOut /\ RecordsFew
  BY AboveCount DEF Init, WalkersCrowdedOut, RecordsFew
<1>5. SrcIsLinked /\ ListsDisjoint
  BY HazptrAssumption DEF Init, SrcIsLinked, ListsDisjoint
<1>6. RecordNames /\ ScansCover /\ ProtectedNotFreed
  BY DEF Init, RecordNames, ScansCover, ProtectedNotFreed, Protecting
<1> QED
  BY <1>1, <1>2, <1>3, <1>4, <1>5, <1>6 DEF HazptrInv

LEMMA HazptrStep == HazptrInv /\ [Next]_vars => HazptrInv'
<1> SUFFICES ASSUME HazptrInv, [Next]_vars PROVE HazptrInv'
  OBVIOUS
<1>1. TypeOK' /\ LocalsFit'
  BY TypeNext, LocalsNext DEF HazptrInv
<1>2. RecordExclusive' /\ RecordsInUse' /\ RecordsCounted'
  BY RecordsNext, CountingNext DEF HazptrInv
<1>3. WalkersCrowdedOut' /\ RecordsFew'
  BY CrowdNext DEF HazptrInv
<1>4. SrcIsLinked' /\ ListsDisjoint'
  BY ListsNext DEF HazptrInv
<1>5. RecordNames' /\ ScansCover' /\ ProtectedNotFreed'
  BY NamesNext, ScansNext, ProtectedNext DEF HazptrInv
<1> QED
  BY <1>1, <1>2, <1>3, <1>4, <1>5 DEF HazptrInv

\* The inductive invariant: the state of holders, records, private lists, batches
\* and scans after any number of steps of any threads.
THEOREM HazptrInvariance == Spec => []HazptrInv
BY HazptrInit, HazptrStep, PTL DEF Spec

\* What get_protected returned is not deleted while the holder lives: the hazard
\* pointer is published before src is read again, and bulkReclaim reads the
\* records after it has taken the objects.
THEOREM ProtectionHolds == Spec => []ProtectedNotFreed
BY HazptrInvariance, PTL DEF HazptrInv

\* acquire_record gives a record to one holder at a time, from the list or from
\* the caller's pool.
THEOREM RecordsAreExclusive == Spec => []RecordExclusive
BY HazptrInvariance, PTL DEF HazptrInv

\* Without thread caches acquire_record never allocates more records than there
\* are readers, although its walk and its CAS race with release_record.
THEOREM RecordsAreBounded == Spec => []RecordsBounded
<1>1. HazptrInv => RecordsBounded
  BY DEF HazptrInv, RecordsBounded, RecordsFew
<1> QED
  BY <1>1, HazptrInvariance, PTL

\* An object that is in no list, or in one.
LEMMA PlacesOf ==
  ASSUME ListsDisjoint, NEW o \in Objects
  PROVE  Places(o) = IF state[o] = "retired" THEN 1 ELSE 0
<1> DEFINE P == {t \in Threads : o \in priv_list[t]}
           B == {t \in Threads : o \in batch[t]}
<1>1. Places(o) = Cardinality(P) + Cardinality(B) + (IF o \in retired_list THEN 1 ELSE 0)
  BY DEF Places
<1>2. (P # {} => B = {} /\ o \notin retired_list) /\ (B # {} => o \notin retired_list)
  BY DEF ListsDisjoint
<1>3. (P = {} \/ \E t : P = {t}) /\ (B = {} \/ \E t : B = {t})
  <2>1. \A t, u \in P : t = u
    BY DEF ListsDisjoint
  <2>2. \A t, u \in B : t = u
    BY DEF ListsDisjoint
  <2> HIDE DEF P, B
  <2>3. ASSUME NEW t \in P PROVE P = {t}
    BY <2>1, <2>3
  <2>4. ASSUME NEW t \in B PROVE B = {t}
    BY <2>2, <2>4
  <2> QED
    BY <2>3, <2>4
<1>4. state[o] = "retired" <=> o \in retired_list \/ P # {} \/ B # {}
  BY DEF ListsDisjoint
<1>5. /\ Cardinality(P) = IF P = {} THEN 0 ELSE 1
      /\ Cardinality(B) = IF B = {} THEN 0 ELSE 1
  <2>1. \A t : Cardinality({t}) = 1
    BY FS_Singleton
  <2>2. Cardinality({}) = 0
    BY FS_EmptySet
  <2> HIDE DEF P, B
  <2> QED
    BY <1>3, <2>1, <2>2
<1> HIDE DEF P, B
<1> QED
  BY <1>1, <1>2, <1>4, <1>5

\* A retired object is on exactly one list until it is deleted, and an object that
\* is not retired is on none: nothing leaks and nothing is deleted twice.
THEOREM RetiredOnOneList == Spec => []RetiredOnce
<1>1. HazptrInv => RetiredOnce
  BY PlacesOf DEF HazptrInv, RetiredOnce
<1> QED
  BY <1>1, HazptrInvariance, PTL

-----------------------------------------------------------------------------
(* The count of retired objects.                                           *)

\* What a thread will count is no more than there are objects.
CountsFit == \A t \in Threads : pc[t] \in CountLabels => cnt[t] <= Cardinality(Objects)

CountInv == CountsFit /\ RetiredCountCovers

\* The set Uncounted and a thread's share of it, for any value of pc and cnt.
UncountedOf(p, c) ==
  {x \in Threads \X (1..Cardinality(Objects)) : p[x[1]] \in CountLabels /\ x[2] <= c[x[1]]}

Share(p, c, t) == IF p[t] \in CountLabels THEN c[t] ELSE 0

Rest(p, c, t) == {x \in UncountedOf(p, c) : x[1] # t}

LEMMA ShareOf ==
  ASSUME NEW p, NEW c \in [Threads -> Nat], NEW t \in Threads,
         p[t] \in CountLabels => c[t] <= Cardinality(Objects)
  PROVE  /\ Cardinality(Rest(p, c, t)) \in Nat /\ Share(p, c, t) \in Nat
         /\ Cardinality(UncountedOf(p, c)) = Cardinality(Rest(p, c, t)) + Share(p, c, t)
<1>1. PICK N : N = Cardinality(Objects)
  OBVIOUS
<1>2. N \in Nat
  BY <1>1, ObjectsCount
<1>3. PICK k : k = Share(p, c, t)
  OBVIOUS
<1>4. k \in Nat /\ k <= N
  BY <1>1, <1>2, <1>3 DEF Share
<1>5. PICK U, R, O : /\ U = UncountedOf(p, c) /\ R = Rest(p, c, t)
                     /\ O = {t} \X (1..k)
  OBVIOUS
<1>6. IsFiniteSet(Threads \X (1..N))
  <2>1. IsFiniteSet(1..N)
    BY <1>2, FS_Interval
  <2> QED
    BY <2>1, HazptrAssumption, FS_Product
<1>7. IsFiniteSet(R)
  <2>1. R \in SUBSET (Threads \X (1..N))
    BY <1>1, <1>5 DEF Rest, UncountedOf
  <2> QED
    BY <1>6, <2>1, FS_Subset
<1>8. IsFiniteSet(O) /\ Cardinality(O) = k
  <2>1. IsFiniteSet(1..k) /\ Cardinality(1..k) = k
    <3>1. CASE k = 0
      <4>1. 1..k = {}
        BY <3>1
      <4> QED
        BY <3>1, <4>1, FS_EmptySet
    <3>2. CASE k # 0
      <4>1. 1 \in Int /\ k \in Int /\ ~(1 > k) /\ k - 1 + 1 = k
        BY <1>4, <3>2
      <4>2. IsFiniteSet(1..k) /\ Cardinality(1..k) = IF 1 > k THEN 0 ELSE k - 1 + 1
        BY <4>1, FS_Interval
      <4> QED
        BY <4>1, <4>2
    <3> QED
      BY <3>1, <3>2
  <2>2. IsFiniteSet({t}) /\ Cardinality({t}) = 1
    BY FS_Singleton
  <2>3. IsFiniteSet({t} \X (1..k)) /\ Cardinality({t} \X (1..k)) = Cardinality({t}) * Cardinality(1..k)
    BY <2>1, <2>2, FS_Product
  <2> QED
    BY <1>4, <1>5, <2>1, <2>2, <2>3
<1>9. U = R \cup O /\ R \cap O = {}
  <2>1. \A x \in U : x[1] = t => x \in O
    <3> SUFFICES ASSUME NEW x \in U, x[1] = t PROVE x \in O
      OBVIOUS
    <3>1. /\ x \in Threads \X (1..N) /\ p[x[1]] \in CountLabels /\ x[2] <= c[x[1]]
      BY <1>1, <1>5 DEF UncountedOf
    <3>2. x = <<x[1], x[2]>> /\ x[2] \in 1..N
      BY <3>1
    <3>3. x[2] <= k
      BY <1>3, <3>1 DEF Share
    <3>4. x[2] \in 1..k
      BY <1>2, <1>4, <3>2, <3>3
    <3> QED
      BY <1>5, <3>2, <3>4
  <2>2. \A x \in O : x \in U /\ x[1] = t
    <3> SUFFICES ASSUME NEW i \in 1..k PROVE <<t, i>> \in U
      BY <1>5
    <3>1. k # 0 /\ i \in 1..N /\ i <= k
      BY <1>2, <1>4
    <3>2. p[t] \in CountLabels /\ k = c[t]
      BY <1>3, <3>1 DEF Share
    <3> QED
      BY <1>1, <1>5, <3>1, <3>2 DEF UncountedOf
  <2>3. \A x : x \in R <=> x \in U /\ x[1] # t
    BY <1>5 DEF Rest
  <2> QED
    BY <2>1, <2>2, <2>3
<1>10. Cardinality(U) = Cardinality(R) + Cardinality(O) - Cardinality(R \cap O)
  BY <1>7, <1>8, <1>9, FS_Union
<1>11. Cardinality(R \cap O) = 0
  BY <1>9, FS_EmptySet
<1>12. Cardinality(R) \in Nat
  BY <1>7, FS_CardinalityType
<1> QED
  BY <1>3, <1>4, <1>5, <1>8, <1>10, <1>11, <1>12

\* A step of t changes the uncounted part by t's share only.
LEMMA ShareStep ==
  ASSUME TypeOK, TypeOK', CountsFit, CountsFit', NEW t \in Threads,
         \A u \in Threads \ {t} : pc'[u] = pc[u] /\ cnt'[u] = cnt[u]
  PROVE  /\ Cardinality(Uncounted) \in Nat /\ Cardinality(Uncounted)' \in Nat
         /\ Share(pc, cnt, t) \in Nat /\ Share(pc', cnt', t) \in Nat
         /\ Cardinality(Uncounted)' + Share(pc, cnt, t) =
              Cardinality(Uncounted) + Share(pc', cnt', t)
<1>1. cnt \in [Threads -> Nat] /\ cnt' \in [Threads -> Nat]
  BY DEF TypeOK
<1>2. /\ pc[t] \in CountLabels => cnt[t] <= Cardinality(Objects)
      /\ pc'[t] \in CountLabels => cnt'[t] <= Cardinality(Objects)
  BY DEF CountsFit
<1>3. Uncounted = UncountedOf(pc, cnt) /\ Uncounted' = UncountedOf(pc', cnt')
  BY DEF Uncounted, UncountedOf
<1>4. /\ Cardinality(Rest(pc, cnt, t)) \in Nat /\ Share(pc, cnt, t) \in Nat
      /\ Cardinality(UncountedOf(pc, cnt)) = Cardinality(Rest(pc, cnt, t)) + Share(pc, cnt, t)
  BY <1>1, <1>2, ShareOf
<1>5. /\ Cardinality(Rest(pc', cnt', t)) \in Nat /\ Share(pc', cnt', t) \in Nat
      /\ Cardinality(UncountedOf(pc', cnt')) = Cardinality(Rest(pc', cnt', t)) + Share(pc', cnt', t)
  BY <1>1, <1>2, ShareOf
<1>6. Rest(pc', cnt', t) = Rest(pc, cnt, t)
  <2>1. \A x \in Threads \X (1..Cardinality(Objects)) :
          x[1] # t => pc'[x[1]] = pc[x[1]] /\ cnt'[x[1]] = cnt[x[1]]
    OBVIOUS
  <2> QED
    BY <2>1 DEF Rest, UncountedOf
<1> QED
  BY <1>3, <1>4, <1>5, <1>6

\* A step that leaves list and count alone, of a thread that has nothing to count.
LEMMA CountQuiet ==
  ASSUME TypeOK, TypeOK', CountInv, NEW t \in Threads,
         \A u \in Threads \ {t} : pc'[u] = pc[u] /\ cnt'[u] = cnt[u],
         pc[t] \notin CountLabels, pc'[t] \notin CountLabels, pc[t] # "take",
         retired_list' = retired_list, retired_count' = retired_count
  PROVE  CountInv'
<1>1. CountsFit'
  BY DEF CountInv, CountsFit
<1>2. CountsFit /\ RetiredCountCovers
  BY DEF CountInv
<1>3. Share(pc, cnt, t) = 0 /\ Share(pc', cnt', t) = 0
  BY DEF Share
<1>4. Cardinality(Uncounted)' = Cardinality(Uncounted)
  BY <1>1, <1>2, <1>3, ShareStep
<1>5. RetiredCountCovers'
  <2>1. CASE \E u \in Threads : pc[u] = "take"
    BY <2>1 DEF RetiredCountCovers
  <2>2. CASE ~\E u \in Threads : pc[u] = "take"
    BY <1>2, <1>4, <2>2 DEF RetiredCountCovers
  <2> QED
    BY <2>1, <2>2
<1> QED
  BY <1>1, <1>5 DEF CountInv

\* A list of k objects is appended, and will be counted.
LEMMA CountAppended ==
  ASSUME TypeOK, TypeOK', CountInv, NEW t \in Threads,
         \A u \in Threads \ {t} : pc'[u] = pc[u] /\ cnt'[u] = cnt[u],
         pc[t] \notin CountLabels, pc'[t] \in CountLabels, pc[t] # "take",
         NEW S \in SUBSET Objects, cnt'[t] = Cardinality(S),
         retired_list' = retired_list \cup S, retired_count' = retired_count
  PROVE  CountInv'
<1>1. IsFiniteSet(S) /\ Cardinality(S) \in Nat /\ Cardinality(S) <= Cardinality(Objects)
  BY HazptrAssumption, ObjectsCount, FS_Subset
<1>2. CountsFit'
  BY <1>1 DEF CountInv, CountsFit
<1>3. CountsFit /\ RetiredCountCovers
  BY DEF CountInv
<1>4. Share(pc, cnt, t) = 0 /\ Share(pc', cnt', t) = Cardinality(S)
  BY DEF Share
<1>5. /\ Cardinality(Uncounted) \in Nat
      /\ Cardinality(Uncounted)' = Cardinality(Uncounted) + Cardinality(S)
  BY <1>1, <1>2, <1>3, <1>4, ShareStep
<1>6. /\ Cardinality(retired_list \cup S) <= Cardinality(retired_list) + Cardinality(S)
      /\ Cardinality(retired_list) \in Nat /\ Cardinality(retired_list \cup S) \in Nat
  <2>1. retired_list \in SUBSET Objects /\ retired_list \cup S \in SUBSET Objects
        /\ retired_list \cap S \in SUBSET Objects
    BY DEF TypeOK
  <2>2. IsFiniteSet(retired_list) /\ Cardinality(retired_list \cap S) \in Nat
        /\ Cardinality(retired_list) \in Nat /\ Cardinality(retired_list \cup S) \in Nat
    BY <2>1, ObjectsCount
  <2>3. Cardinality(retired_list \cup S) =
          Cardinality(retired_list) + Cardinality(S) - Cardinality(retired_list \cap S)
    BY <1>1, <2>2, FS_Union
  <2> QED
    BY <1>1, <2>2, <2>3
<1>7. RetiredCountCovers'
  <2>1. CASE \E u \in Threads : pc[u] = "take"
    BY <2>1 DEF RetiredCountCovers
  <2>2. CASE ~\E u \in Threads : pc[u] = "take"
    <3>1. Cardinality(retired_list) <= retired_count + Cardinality(Uncounted)
      BY <1>3, <2>2 DEF RetiredCountCovers
    <3>2. retired_count \in Nat
      BY HazptrAssumption DEF TypeOK
    <3>3. Cardinality(retired_list \cup S) <=
            retired_count + (Cardinality(Uncounted) + Cardinality(S))
      BY <1>1, <1>5, <1>6, <3>1, <3>2
    <3>4. Cardinality(retired_list)' = Cardinality(retired_list \cup S)
      OBVIOUS
    <3> QED
      BY <1>5, <3>3, <3>4 DEF RetiredCountCovers
  <2> QED
    BY <2>1, <2>2
<1> QED
  BY <1>2, <1>7 DEF CountInv

\* What was appended is counted.
LEMMA CountAdded ==
  ASSUME TypeOK, TypeOK', CountInv, NEW t \in Threads,
         \A u \in Threads \ {t} : pc'[u] = pc[u] /\ cnt'[u] = cnt[u],
         pc[t] \in CountLabels, pc'[t] \notin CountLabels,
         retired_list' = retired_list, retired_count' = retired_count + cnt[t]
  PROVE  CountInv'
<1>1. CountsFit'
  BY DEF CountInv, CountsFit
<1>2. CountsFit /\ RetiredCountCovers
  BY DEF CountInv
<1>3. Share(pc, cnt, t) = cnt[t] /\ Share(pc', cnt', t) = 0 /\ cnt[t] \in Nat
  BY DEF Share, TypeOK
<1>4. /\ Cardinality(Uncounted) \in Nat /\ Cardinality(Uncounted)' \in Nat
      /\ Cardinality(Uncounted)' + cnt[t] = Cardinality(Uncounted)
  BY <1>1, <1>2, <1>3, ShareStep
<1>5. pc[t] # "take"
  BY DEF CountLabels
<1>6. RetiredCountCovers'
  <2>1. CASE \E u \in Threads : pc[u] = "take"
    BY <1>5, <2>1 DEF RetiredCountCovers
  <2>2. CASE ~\E u \in Threads : pc[u] = "take"
    <3>1. Cardinality(retired_list) <= retired_count + Cardinality(Uncounted)
      BY <1>2, <2>2 DEF RetiredCountCovers
    <3>2. retired_count \in Nat /\ Cardinality(retired_list) \in Nat
      BY HazptrAssumption, ObjectsCount DEF TypeOK
    <3>3. Cardinality(retired_list)' = Cardinality(retired_list)
      OBVIOUS
    <3> QED
      BY <1>3, <1>4, <3>1, <3>2, <3>3 DEF RetiredCountCovers
  <2> QED
    BY <2>1, <2>2
<1> QED
  BY <1>1, <1>6 DEF CountInv

\* Somebody is about to take the list, or it is empty.
LEMMA CountExcused ==
  ASSUME TypeOK, TypeOK', CountInv, NEW t \in Threads,
         \A u \in Threads \ {t} : pc'[u] = pc[u] /\ cnt'[u] = cnt[u],
         pc'[t] \notin CountLabels, pc'[t] = "take" \/ retired_list' = {}
  PROVE  CountInv'
<1>1. CountsFit'
  BY DEF CountInv, CountsFit
<1>2. CountsFit
  BY DEF CountInv
<1>3. Cardinality(Uncounted)' \in Nat
  BY <1>1, <1>2, ShareStep
<1>4. retired_count' \in Nat
  BY HazptrAssumption DEF TypeOK
<1>5. RetiredCountCovers'
  <2>1. CASE pc'[t] = "take"
    BY <2>1 DEF RetiredCountCovers
  <2>2. CASE retired_list' = {}
    <3>1. Cardinality(retired_list)' = 0
      BY <2>2, FS_EmptySet
    <3> QED
      BY <1>3, <1>4, <3>1 DEF RetiredCountCovers
  <2> QED
    BY <2>1, <2>2
<1> QED
  BY <1>1, <1>5 DEF CountInv

LEMMA CountReclaim ==
  ASSUME TypeOK, TypeOK', CountInv, NEW t \in Threads, Reclaim(t)
  PROVE  CountInv'
<1> USE DEF Goto, Set, client, records, retired
<1>1. /\ pc \in [Threads -> Labels] /\ cnt \in [Threads -> Nat]
      /\ priv_list[t] \in SUBSET Objects /\ batch[t] \in SUBSET Objects
  BY DEF TypeOK
<1>2. \A u \in Threads \ {t} : pc'[u] = pc[u] /\ cnt'[u] = cnt[u]
  <2>1. \A u \in Threads \ {t} : pc'[u] = pc[u]
    BY ReclaimFrame DEF OthersKept
  <2>2. UNCHANGED cnt \/ \E v : cnt' = [cnt EXCEPT ![t] = v]
    BY DEF Reclaim, Append, AppendCount, TryLoad, TryCheck, TryCas, TryCasFails, Take,
       LoadList, Scan, Sweep, AppendLeft, AppendLeftCount
  <2> QED
    BY <1>1, <2>1, <2>2
<1>3. Return(t) \notin CountLabels
  BY ReturnLabel DEF CountLabels
<1>4. CASE Append(t)
  <2>1. /\ pc[t] = "append" /\ pc'[t] = "append_count" /\ cnt'[t] = Cardinality(priv_list[t])
        /\ retired_list' = retired_list \cup priv_list[t] /\ retired_count' = retired_count
    BY <1>1, <1>4 DEF Append
  <2>2. pc[t] \notin CountLabels /\ pc'[t] \in CountLabels /\ pc[t] # "take"
    BY <2>1 DEF CountLabels
  <2> QED
    BY <1>1, <1>2, <2>1, <2>2, CountAppended
<1>5. CASE AppendLeft(t)
  <2>1. /\ pc[t] = "append_left" /\ pc'[t] = "append_left_count"
        /\ cnt'[t] = Cardinality(batch[t])
        /\ retired_list' = retired_list \cup batch[t] /\ retired_count' = retired_count
    BY <1>1, <1>5 DEF AppendLeft
  <2>2. pc[t] \notin CountLabels /\ pc'[t] \in CountLabels /\ pc[t] # "take"
    BY <2>1 DEF CountLabels
  <2> QED
    BY <1>1, <1>2, <2>1, <2>2, CountAppended
<1>6. CASE AppendCount(t) \/ AppendLeftCount(t)
  <2>1. /\ pc[t] \in CountLabels /\ pc'[t] \in {"try_load", Return(t)}
        /\ retired_list' = retired_list /\ retired_count' = retired_count + cnt[t]
    BY <1>1, <1>6 DEF AppendCount, AppendLeftCount, CountLabels
  <2>2. pc'[t] \notin CountLabels
    BY <1>3, <2>1 DEF CountLabels
  <2> QED
    BY <1>2, <2>1, <2>2, CountAdded
<1>7. CASE TryLoad(t) \/ TryCheck(t) \/ TryCasFails(t)
  <2>1. /\ pc[t] \in {"try_load", "try_check", "try_cas"}
        /\ pc'[t] \in {"try_check", "try_cas", Return(t)}
        /\ retired_list' = retired_list /\ retired_count' = retired_count
    BY <1>1, <1>7 DEF TryLoad, TryCheck, TryCasFails
  <2>2. pc[t] \notin CountLabels /\ pc'[t] \notin CountLabels /\ pc[t] # "take"
    BY <1>3, <2>1 DEF CountLabels
  <2> QED
    BY <1>2, <2>1, <2>2, CountQuiet
<1>8. CASE LoadList(t) \/ Scan(t) \/ Sweep(t)
  <2>1. /\ pc[t] \in {"load_list", "scan", "sweep"}
        /\ pc'[t] \in {"scan", "sweep", "append_left", Return(t)}
        /\ retired_list' = retired_list /\ retired_count' = retired_count
    BY <1>1, <1>8 DEF LoadList, Scan, Sweep
  <2>2. pc[t] \notin CountLabels /\ pc'[t] \notin CountLabels /\ pc[t] # "take"
    BY <1>3, <2>1 DEF CountLabels
  <2> QED
    BY <1>2, <2>1, <2>2, CountQuiet
<1>9. CASE TryCas(t) \/ Take(t)
  <2>1. /\ pc'[t] \in {"take", "load_list"}
        /\ pc'[t] = "take" \/ retired_list' = {}
    BY <1>1, <1>9 DEF TryCas, Take
  <2>2. pc'[t] \notin CountLabels
    BY <2>1 DEF CountLabels
  <2> QED
    BY <1>2, <2>1, <2>2, CountExcused
<1> QED
  BY <1>4, <1>5, <1>6, <1>7, <1>8, <1>9 DEF Reclaim

LEMMA CountHolder ==
  ASSUME TypeOK, TypeOK', CountInv, NEW t \in Threads, Holder(t)
  PROVE  CountInv'
<1> USE DEF Goto, Set, client, records, retired
<1>1. pc \in [Threads -> Labels]
  BY DEF TypeOK
<1>2. \A u \in Threads \ {t} : pc'[u] = pc[u]
  BY HolderFrame DEF OthersKept
<1>3. UNCHANGED <<retired_list, retired_count, cnt>>
  BY DEF Holder, AcquireCached, AcquireBegin, AcquireScan, AcquireSkip, AcquireCas, AcquireNew,
     AcquireCount, LoadSrc, Publish, Validate, Unpublish, Reset, ProtectAgain, Clear, Release
<1>4. pc[t] \in HolderLabels \cup FreeLabels
  BY DEF Holder, AcquireCached, AcquireBegin, AcquireScan, AcquireCas, AcquireNew, AcquireCount,
     LoadSrc, Publish, Validate, Unpublish, Reset, ProtectAgain, Clear, Release,
     HolderLabels, FreeLabels
<1>5. pc'[t] \in HolderLabels \cup FreeLabels
  <2>1. CASE AcquireCached(t) \/ AcquireBegin(t) \/ AcquireScan(t) \/ AcquireCas(t)
    BY <1>1, <2>1 DEF AcquireCached, AcquireBegin, AcquireScan, AcquireSkip, AcquireCas,
       HolderLabels, FreeLabels
  <2>2. CASE AcquireNew(t) \/ AcquireCount(t) \/ LoadSrc(t) \/ Publish(t) \/ Validate(t)
    BY <1>1, <2>2 DEF AcquireNew, AcquireCount, LoadSrc, Publish, Validate,
       HolderLabels, FreeLabels
  <2>3. CASE Unpublish(t) \/ Reset(t) \/ ProtectAgain(t) \/ Clear(t) \/ Release(t)
    BY <1>1, <1>4, <2>3 DEF Unpublish, Reset, ProtectAgain, Clear, Release,
       HolderLabels, FreeLabels
  <2> QED
    BY <2>1, <2>2, <2>3 DEF Holder
<1>6. \A l \in HolderLabels \cup FreeLabels : l \notin CountLabels /\ l # "take"
  BY DEF HolderLabels, FreeLabels, CountLabels
<1> QED
  BY <1>2, <1>3, <1>4, <1>5, <1>6, CountQuiet

LEMMA CountClient ==
  ASSUME TypeOK, TypeOK', CountInv, NEW t \in Threads,
         \/ \E o \in Objects : Install(t, o) \/ ExchangeSrc(t, o) \/ CasSrc(t, o)
         \/ Exit(t) \/ ExitPool(t)
  PROVE  CountInv'
<1> USE DEF Goto, Set, client, records, retired
<1>1. pc \in [Threads -> Labels]
  BY DEF TypeOK
<1>2. \A u \in Threads \ {t} : pc'[u] = pc[u]
  BY ClientFrame, ExitFrame DEF OthersKept
<1>3. UNCHANGED <<retired_list, retired_count, cnt>>
  BY DEF Install, ExchangeSrc, CasSrc, Retire, Exit, ExitPool
<1>4. pc[t] \in {"idle", "using", "exit_pool"}
  BY DEF Install, ExchangeSrc, CasSrc, Exit, ExitPool
<1>5. pc'[t] \in {"idle", "append", "exit_pool", Return(t)}
  BY <1>1 DEF Install, ExchangeSrc, CasSrc, Retire, Exit, ExitPool
<1>6. Return(t) \notin CountLabels
  BY ReturnLabel DEF CountLabels
<1>7. pc[t] \notin CountLabels /\ pc'[t] \notin CountLabels /\ pc[t] # "take"
  BY <1>4, <1>5, <1>6 DEF CountLabels
<1> QED
  BY <1>2, <1>3, <1>7, CountQuiet

LEMMA CountDestroy ==
  ASSUME TypeOK, TypeOK', CountInv, DestroyManager
  PROVE  CountInv'
<1>1. Uncounted' = {} /\ retired_list' = {} /\ retired_count' = 0
  BY DEF DestroyManager, Uncounted, CountLabels
<1>2. CountsFit'
  BY DEF DestroyManager, CountsFit, CountLabels
<1>3. Cardinality(retired_list)' = 0 /\ Cardinality(Uncounted)' = 0
  BY <1>1, FS_EmptySet
<1> QED
  BY <1>1, <1>2, <1>3 DEF CountInv, RetiredCountCovers

LEMMA CountNext ==
  ASSUME TypeOK, TypeOK', CountInv, [Next]_vars
  PROVE  CountInv'
<1>1. CASE UNCHANGED vars
  BY <1>1 DEF vars, CountInv, CountsFit, RetiredCountCovers, Uncounted, retired
<1>2. CASE DestroyManager
  BY <1>2, CountDestroy
<1>3. ASSUME NEW u \in Threads, Acts(u) PROVE CountInv'
  BY <1>3, CountHolder, CountReclaim, CountClient DEF Acts
<1> QED
  BY <1>1, <1>2, <1>3, SomebodyActs

\* _retired_count never falls short of _retired_list for good, although the list is
\* extended first: tryBulkReclaim does not overlook objects that were appended.
THEOREM CountCoversList == Spec => []RetiredCountCovers
<1>1. Init => CountInv
  <2> SUFFICES ASSUME Init PROVE CountInv
    OBVIOUS
  <2>1. Uncounted = {} /\ retired_list = {} /\ retired_count = 0 /\ CountsFit
    BY DEF Init, Uncounted, CountLabels, CountsFit
  <2>2. Cardinality(retired_list) = 0 /\ Cardinality(Uncounted) = 0
    BY <2>1, FS_EmptySet
  <2> QED
    BY <2>1, <2>2 DEF CountInv, RetiredCountCovers
<1>2. HazptrInv /\ HazptrInv' /\ CountInv /\ [Next]_vars => CountInv'
  BY CountNext DEF HazptrInv
<1>3. CountInv => RetiredCountCovers
  BY DEF CountInv
<1> QED
  BY <1>1, <1>2, <1>3, HazptrInvariance, PTL DEF Spec
=============================================================================
