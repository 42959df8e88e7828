------------------------ MODULE ConcurrentVectorProofs ------------------------
(***************************************************************************)
(* ensure_table under any number of threads: the vector stays usable, never *)
(* shrinks, and every table is deleted once.                               *)
(***************************************************************************)
EXTENDS ConcurrentVector, ModularArithmetic, FiniteSetTheorems

-----------------------------------------------------------------------------
(* The inductive invariant.                                                *)

Building(t) == pc[t] \in {"build", "install"}

RetireLabels == {"retire", "try_gc", "try_drop", "push", "push_cas"}

Alive == \A t \in Threads : pc[t] # "dead"

\* What a thread between two steps of ensure_table or retire knows.
LocalFits(t) ==
  /\ Building(t) =>
       /\ old_shard_num[t] < shard_num[t]
       /\ old_shard_num[t] <= Len(shards[old_table[t]])
       /\ Len(shards[old_table[t]]) <= shard_num[t]
       /\ Len(shards[old_table[t]]) <= Len(shards[table])
  /\ pc[t] = "install" =>
       /\ Len(shards[new_table[t]]) = shard_num[t]
       /\ \A i \in 1..old_shard_num[t] : shards[new_table[t]][i] = shards[old_table[t]][i]
  /\ ~Building(t) => Len(shards[result[t]]) >= shard_num[t]
  /\ data[t] # NULL <=> pc[t] \in RetireLabels

LocalsFit == \A t \in Threads : LocalFits(t)

\* A table that is being built is known to its builder only.
Private(b) == \E t \in Threads : new_table[t] = b /\ b # 0

TablesPrivate ==
  /\ table <= table_count
  /\ \A t \in Threads : new_table[t] <= table_count
  /\ \A t, u \in Threads : t # u /\ new_table[t] = new_table[u] => new_table[t] = 0
  /\ ~Private(table)
  /\ \A t \in Threads : /\ old_table[t] <= table_count /\ ~Private(old_table[t])
                        /\ result[t] <= table_count /\ ~Private(result[t])

\* A shard that a thread has created and not published is in no other table and
\* not destroyed.
OwnFresh(t) ==
  pc[t] = "install" =>
    \A i \in (old_shard_num[t] + 1)..shard_num[t] :
      LET s == shards[new_table[t]][i]
      IN  /\ s \notin dead_shards
          /\ \A b \in Tables \ {new_table[t]} : \A j \in 1..Len(shards[b]) : shards[b][j] # s

ShardsFresh ==
  /\ \A b \in Tables : \A j \in 1..Len(shards[b]) : shards[b][j] <= shard_count
  /\ \A s \in dead_shards : s <= shard_count
  /\ \A t \in Threads : OwnFresh(t)

\* Sequences that name a thing, and that name nothing twice.
Has(s, x) == \E i \in 1..Len(s) : s[i] = x
Once(s) == \A i, j \in 1..Len(s) : s[i] = s[j] => i = j

\* Where a table that is no longer used may be.
InDeleted(b) == Has(deleted, b)
InList(b) == Has(list, b)
InData(b) == \E t \in Threads : data[t] = b
Gone(b) == InDeleted(b) \/ InList(b) \/ InData(b) \/ b \in freed

\* The destructor ends the life of the vector for every thread.
DeadTogether == (\E t \in Threads : pc[t] = "dead") => \A t \in Threads : pc[t] = "dead"

\* A table is gone when it is neither the current one nor being built.
GoneExactly ==
  /\ \A b \in Tables : Gone(b) => b <= table_count
  /\ \A b \in 0..table_count : Gone(b) <=> ~(b = table /\ Alive) /\ ~Private(b)

\* It is gone in one way.
GoneOnce ==
  /\ Once(deleted) /\ Once(list)
  /\ \A t, u \in Threads : t # u /\ data[t] = data[u] => data[t] = NULL
  /\ \A b \in Tables : /\ InDeleted(b) => ~InList(b) /\ ~InData(b) /\ b \notin freed
                       /\ InList(b) => ~InData(b) /\ b \notin freed
                       /\ InData(b) => b \notin freed

TablesOnce == DeadTogether /\ GoneExactly /\ GoneOnce

VectorInv ==
  /\ TypeOK
  /\ LocalsFit
  /\ TablesPrivate
  /\ ShardsFresh
  /\ NoDeadShard
  /\ TablesOnce

-----------------------------------------------------------------------------
(* Types.                                                                  *)

Labels == {"idle", "build", "install", "retire", "try_gc", "try_drop", "push", "push_cas",
           "dead"}

\* Lengths are numbers, and what is in a table is a shard.
LEMMA ShardTypes ==
  ASSUME TypeOK
  PROVE  \A b \in Tables : /\ Len(shards[b]) \in Nat
                           /\ \A i \in 1..Len(shards[b]) : shards[b][i] \in Shards
BY DEF TypeOK

\* The head word has its type.
LEMMA HeadType ==
  ASSUME TypeOK
  PROVE  head \in (Tables \cup {NULL}) \X (0..(TimeMod - 1))
<1>1. list \in Seq(Tables) /\ stamp \in 0..(TimeMod - 1)
  BY DEF TypeOK
<1>2. list # <<>> => list[1] \in Tables
  BY <1>1
<1> QED
  BY <1>1, <1>2 DEF head, Head_

LEMMA EmptyHeadType == Head_(<<>>, 0) \in (Tables \cup {NULL}) \X (0..(TimeMod - 1))
BY VectorAssumption DEF Head_

LEMMA TypeInit == Init => TypeOK
<1> SUFFICES ASSUME Init PROVE TypeOK
  OBVIOUS
<1>1. 0 \in Tables /\ 0 \in 0..MaxTime /\ 0 \in 0..(TimeMod - 1) /\ 0 \in 0..MaxShards
      /\ 0 \in 0..MaxShardNum
  BY VectorAssumption DEF Tables
<1>2. old_head \in [Threads -> (Tables \cup {NULL}) \X (0..(TimeMod - 1))]
  BY EmptyHeadType DEF Init, RetireInit
<1>3. list \in Seq(Tables) /\ deleted \in Seq(Tables) /\ shards \in [Tables -> Seq(Shards)]
  BY DEF Init, RetireInit
<1> QED
  BY <1>1, <1>2, <1>3 DEF Init, RetireInit, TypeOK

\* What a step of retire does to the list, to what it deleted and to the data.
QuietRetire(t) == UNCHANGED <<list, deleted, data>>
DropRetire(t) == deleted' = deleted \o list /\ list' = <<>> /\ UNCHANGED data
PushRetire(t) ==
  list' = <<data[t]>> \o list /\ data' = [data EXCEPT ![t] = NULL] /\ UNCHANGED deleted

LEMMA RetireFrame ==
  ASSUME TypeOK, NEW t \in Threads, RetireStep(t)
  PROVE  /\ pc[t] \in RetireLabels
         /\ \/ QuietRetire(t) /\ \E l \in RetireLabels : pc' = [pc EXCEPT ![t] = l]
            \/ DropRetire(t) /\ pc' = [pc EXCEPT ![t] = "push"]
            \/ PushRetire(t) /\ pc' = [pc EXCEPT ![t] = "idle"]
<1> USE DEF RetireLabels, Goto, QuietRetire
<1>1. CASE retire(t)
  BY <1>1 DEF retire
<1>2. CASE try_gc(t)
  <2>1. PICK l \in {"try_drop", "push"} : pc' = [pc EXCEPT ![t] = l]
    BY <1>2 DEF try_gc
  <2> QED
    BY <1>2, <2>1 DEF try_gc
<1>3. CASE try_drop(t)
  BY <1>3 DEF try_drop, DropRetire
<1>4. CASE TryDropFails(t)
  BY <1>4 DEF TryDropFails
<1>5. CASE PushLoad(t)
  BY <1>5 DEF PushLoad
<1>6. CASE PushCas(t)
  BY <1>6 DEF PushCas, PushRetire
<1>7. CASE PushCasFails(t)
  <2>1. pc[t] = "push_cas" /\ pc' = pc
    BY <1>7 DEF PushCasFails
  <2>2. pc' = [pc EXCEPT ![t] = "push_cas"]
    BY <2>1 DEF TypeOK
  <2>3. QuietRetire(t)
    BY <1>7 DEF PushCasFails
  <2> QED
    BY <2>1, <2>2, <2>3
<1> QED
  BY <1>1, <1>2, <1>3, <1>4, <1>5, <1>6, <1>7 DEF RetireStep

\* The steps of retire keep the types.
LEMMA TypeRetire ==
  ASSUME TypeOK, LocalsFit, NEW t \in Threads, RetireStep(t), UNCHANGED vectorVars
  PROVE  TypeOK'
<1> DEFINE Times == 0..(TimeMod - 1)
           Words == (Tables \cup {NULL}) \X Times
<1>1. clock \in Nat /\ clock % TimeMod \in Times /\ 0 \in Times
  <2>1. clock \in Nat /\ TimeMod \in Nat \ {0} /\ 0 \in Times
    BY VectorAssumption DEF TypeOK
  <2>2. clock % TimeMod \in Times
    BY <2>1, ModRange
  <2> QED
    BY <2>1, <2>2
<1>2. UNCHANGED <<table, shards, table_count, shard_count, dead_shards, freed, shard_num, old_table,
                  new_table, old_shard_num, result>>
  BY DEF vectorVars
<1>3. pc \in [Threads -> Labels] /\ now \in [Threads -> Times] /\ stamp \in Times
      /\ old_head \in [Threads -> Words] /\ data \in [Threads -> Tables \cup {NULL}]
      /\ list \in Seq(Tables) /\ deleted \in Seq(Tables) /\ clock \in 0..MaxTime
  BY DEF TypeOK, Labels
<1>4. pc[t] \in RetireLabels /\ \E l \in RetireLabels \cup {"idle"} : pc' = [pc EXCEPT ![t] = l]
  BY RetireFrame DEF RetireLabels
<1>5. /\ pc' \in [Threads -> Labels]
      /\ \A u \in Threads : pc'[u] \in {"build", "install"} <=> new_table'[u] # 0
  <2>1. PICK l \in RetireLabels \cup {"idle"} : pc' = [pc EXCEPT ![t] = l]
    BY <1>4
  <2>2. \A u \in Threads : pc[u] \in {"build", "install"} <=> new_table[u] # 0
    BY DEF TypeOK
  <2>3. \A u \in Threads : pc'[u] \in {"build", "install"} <=> pc[u] \in {"build", "install"}
    BY <1>3, <1>4, <2>1 DEF RetireLabels
  <2>4. l \in Labels
    BY DEF RetireLabels, Labels
  <2>5. new_table' = new_table
    BY <1>2
  <2> QED
    BY <1>3, <2>1, <2>2, <2>3, <2>4, <2>5
<1>6. now' \in [Threads -> Times]
  <2>1. PICK w \in Times : now' = [now EXCEPT ![t] = w] \/ now' = now
    BY <1>1 DEF RetireStep, retire, try_gc, try_drop, TryDropFails, PushLoad, PushCas, PushCasFails
  <2> QED
    BY <1>3, <2>1
<1>7. old_head' \in [Threads -> Words]
  <2>0. head \in Words /\ Head_(<<>>, 0) \in Words
    BY HeadType, EmptyHeadType
  <2> HIDE DEF Words
  <2>1. PICK w \in Words : old_head' = [old_head EXCEPT ![t] = w] \/ old_head' = old_head
    BY <2>0 DEF RetireStep, retire, try_gc, try_drop, TryDropFails, PushLoad, PushCas, PushCasFails
  <2> QED
    BY <1>3, <2>1
<1>8. list' \in Seq(Tables) /\ deleted' \in Seq(Tables) /\ data' \in [Threads -> Tables \cup {NULL}]
  <2>1. CASE QuietRetire(t)
    BY <1>3, <2>1 DEF QuietRetire
  <2>2. CASE DropRetire(t)
    BY <1>3, <2>2 DEF DropRetire
  <2>3. CASE PushRetire(t)
    <3>1. data[t] \in Tables
      BY <1>3, <1>4 DEF LocalsFit, LocalFits
    <3> QED
      BY <1>3, <2>3, <3>1 DEF PushRetire
  <2> QED
    BY <2>1, <2>2, <2>3, RetireFrame
<1>9. UNCHANGED clock /\ stamp' \in Times
  <2>1. now[t] \in Times
    BY <1>3
  <2> QED
    BY <1>1, <1>3, <2>1 DEF RetireStep, retire, try_gc, try_drop, TryDropFails, PushLoad, PushCas,
       PushCasFails
<1> QED
  BY <1>2, <1>3, <1>5, <1>6, <1>7, <1>8, <1>9 DEF TypeOK, Labels

\* What Build puts into the new table.
LEMMA BuiltTable ==
  ASSUME TypeOK, LocalsFit, NEW t \in Threads, Build(t)
  PROVE  \E s \in Seq(Shards) :
           /\ shards' = [shards EXCEPT ![new_table[t]] = s]
           /\ Len(s) = shard_num[t]
           /\ \A i \in 1..old_shard_num[t] : s[i] = shards[old_table[t]][i]
           /\ \A i \in (old_shard_num[t] + 1)..shard_num[t] :
                s[i] = shard_count + i - old_shard_num[t]
           /\ shard_count' = shard_count + shard_num[t] - old_shard_num[t]
           /\ shard_count' \in 0..MaxShards /\ shard_count < shard_count'
<1> DEFINE n == shard_num[t]
           k == old_shard_num[t]
           old == shards[old_table[t]]
           s == [i \in 1..n |-> IF i > k THEN shard_count + i - k ELSE old[i]]
<1>1. /\ shards' = [shards EXCEPT ![new_table[t]] = s]
      /\ shard_count' = shard_count + n - k /\ shard_count + n - k <= MaxShards
      /\ pc[t] = "build"
  BY DEF Build
<1>2. /\ n \in Nat /\ k \in Nat /\ shard_count \in Nat /\ MaxShards \in Nat
      /\ k < n /\ k <= Len(old) /\ Len(old) \in Nat
      /\ \A i \in 1..Len(old) : old[i] \in Shards
  <2>1. n \in Nat /\ k \in Nat /\ shard_count \in Nat /\ MaxShards \in Nat
    BY VectorAssumption DEF TypeOK
  <2>2. k < n /\ k <= Len(old)
    BY <1>1 DEF LocalsFit, LocalFits, Building
  <2>3. old_table[t] \in Tables
    BY DEF TypeOK
  <2>4. Len(old) \in Nat /\ \A i \in 1..Len(old) : old[i] \in Shards
    BY <2>3, ShardTypes
  <2> QED
    BY <2>1, <2>2, <2>4
<1>3. \A i \in 1..n : s[i] \in Shards
  <2>1. \A i \in 1..n : i > k => shard_count + i - k \in Shards
    BY <1>1, <1>2 DEF Shards
  <2>2. \A i \in 1..n : ~(i > k) => i \in 1..Len(old)
    BY <1>2
  <2> HIDE DEF n, k, old
  <2> QED
    BY <1>2, <2>1, <2>2
<1>4. s \in Seq(Shards) /\ Len(s) = n
  <2> HIDE DEF n, k, old
  <2> QED
    BY <1>2, <1>3
<1>5. /\ \A i \in 1..k : s[i] = old[i]
      /\ \A i \in (k + 1)..n : s[i] = shard_count + i - k
  <2> HIDE DEF n, k, old
  <2> QED
    BY <1>2
<1>6. shard_count' \in 0..MaxShards /\ shard_count < shard_count'
  <2> HIDE DEF n, k, old, s
  <2> QED
    BY <1>1, <1>2
<1> HIDE DEF s
<1> QED
  BY <1>1, <1>4, <1>5, <1>6

\* The steps of ensure_table and the destructor keep the types.
LEMMA TypeEnsure ==
  ASSUME TypeOK, LocalsFit, NEW t \in Threads, NEW n \in 1..MaxShardNum,
         EnsureEnough(t, n) \/ EnsureGrow(t, n)
  PROVE  TypeOK'
<1>0. /\ Len(shards[table]) \in Nat /\ MaxShardNum \in Nat /\ MaxTables \in Nat
      /\ n \in 0..MaxShardNum
  BY ShardTypes, VectorAssumption DEF TypeOK
<1>1. CASE EnsureEnough(t, n)
  <2>1. UNCHANGED <<clock, list, stamp, deleted, pc, data, now, old_head>>
        /\ UNCHANGED <<table, shards, table_count, shard_count, dead_shards, freed>>
    BY <1>1 DEF EnsureEnough, retireVars
  <2>2. /\ shard_num' = [shard_num EXCEPT ![t] = n]
        /\ result' = [result EXCEPT ![t] = table]
        /\ old_table' = [old_table EXCEPT ![t] = 0]
        /\ new_table' = [new_table EXCEPT ![t] = 0]
        /\ old_shard_num' = [old_shard_num EXCEPT ![t] = 0]
        /\ pc[t] = "idle"
    BY <1>1 DEF EnsureEnough, Returns
  <2>3. /\ shard_num' \in [Threads -> 0..MaxShardNum]
        /\ old_shard_num' \in [Threads -> 0..MaxShardNum]
    BY <1>0, <2>2 DEF TypeOK
  <2>4. 0 \in Tables
    BY <1>0 DEF Tables
  <2>5. /\ result' \in [Threads -> Tables] /\ old_table' \in [Threads -> Tables]
        /\ new_table' \in [Threads -> Tables]
    BY <2>2, <2>4 DEF TypeOK
  <2>6. \A u \in Threads : pc'[u] \in {"build", "install"} <=> new_table'[u] # 0
    BY <2>1, <2>2 DEF TypeOK
  <2> QED
    BY <2>1, <2>3, <2>5, <2>6 DEF TypeOK
<1>2. CASE EnsureGrow(t, n)
  <2>1. UNCHANGED <<clock, list, stamp, deleted, data, now, old_head>>
        /\ UNCHANGED <<table, shards, shard_count, dead_shards, freed, result>>
    BY <1>2 DEF EnsureGrow
  <2>2. /\ shard_num' = [shard_num EXCEPT ![t] = n]
        /\ old_table' = [old_table EXCEPT ![t] = table]
        /\ new_table' = [new_table EXCEPT ![t] = table_count + 1]
        /\ old_shard_num' = [old_shard_num EXCEPT ![t] = Len(shards[table])]
        /\ pc[t] = "idle" /\ pc' = [pc EXCEPT ![t] = "build"]
        /\ table_count' = table_count + 1 /\ table_count < MaxTables /\ Len(shards[table]) < n
    BY <1>2 DEF EnsureGrow, Goto
  <2>3. /\ shard_num' \in [Threads -> 0..MaxShardNum]
        /\ old_shard_num' \in [Threads -> 0..MaxShardNum]
    BY <1>0, <2>2 DEF TypeOK
  <2>4. table_count + 1 \in Tables /\ table_count + 1 # 0 /\ table_count \in Nat
    BY <1>0, <2>2 DEF Tables, TypeOK
  <2>5. /\ table_count' \in Tables /\ old_table' \in [Threads -> Tables]
        /\ new_table' \in [Threads -> Tables]
    BY <2>2, <2>4 DEF TypeOK
  <2>6. \A u \in Threads : pc'[u] \in {"build", "install"} <=> new_table'[u] # 0
    BY <2>2, <2>4 DEF TypeOK
  <2>7. pc' \in [Threads -> Labels]
    BY <2>2 DEF TypeOK, Labels
  <2> QED
    BY <2>1, <2>3, <2>5, <2>6, <2>7 DEF TypeOK, Labels
<1> QED
  BY <1>1, <1>2

LEMMA TypeGrow ==
  ASSUME TypeOK, LocalsFit, NEW t \in Threads, Build(t) \/ Install(t) \/ InstallFails(t)
  PROVE  TypeOK'
<1>0. /\ new_table[t] \in Tables /\ old_table[t] \in Tables /\ 0 \in 0..MaxShardNum /\ 0 \in Tables
      /\ table \in Tables
  BY VectorAssumption DEF TypeOK, Tables
<1>1. CASE Build(t)
  <2>1. UNCHANGED <<clock, list, stamp, deleted, data, now, old_head, table, table_count,
                    dead_shards, freed, shard_num, old_table, new_table, old_shard_num, result>>
    BY <1>1 DEF Build
  <2>2. pc[t] = "build" /\ pc' = [pc EXCEPT ![t] = "install"]
    BY <1>1 DEF Build, Goto
  <2>3. PICK s \in Seq(Shards) : /\ shards' = [shards EXCEPT ![new_table[t]] = s]
                                 /\ shard_count' \in 0..MaxShards
    BY <1>1, BuiltTable
  <2>4. shards' \in [Tables -> Seq(Shards)]
    BY <1>0, <2>3 DEF TypeOK
  <2>5. /\ pc' \in [Threads -> Labels]
        /\ \A u \in Threads : pc'[u] \in {"build", "install"} <=> new_table'[u] # 0
    BY <2>1, <2>2 DEF TypeOK, Labels
  <2> QED
    BY <2>1, <2>3, <2>4, <2>5 DEF TypeOK, Labels
<1>2. CASE Install(t)
  <2>1. UNCHANGED <<clock, list, stamp, deleted, now, old_head, shards, table_count, shard_count,
                    dead_shards, freed, shard_num>>
    BY <1>2 DEF Install
  <2>2. /\ pc[t] = "install" /\ pc' = [pc EXCEPT ![t] = "retire"]
        /\ table' = new_table[t] /\ data' = [data EXCEPT ![t] = old_table[t]]
        /\ result' = [result EXCEPT ![t] = new_table[t]]
        /\ old_table' = [old_table EXCEPT ![t] = 0]
        /\ new_table' = [new_table EXCEPT ![t] = 0]
        /\ old_shard_num' = [old_shard_num EXCEPT ![t] = 0]
    BY <1>2 DEF Install, Goto, Returns
  <2>3. /\ result' \in [Threads -> Tables] /\ old_table' \in [Threads -> Tables]
        /\ new_table' \in [Threads -> Tables] /\ table' \in Tables
        /\ data' \in [Threads -> Tables \cup {NULL}]
        /\ old_shard_num' \in [Threads -> 0..MaxShardNum]
    BY <1>0, <2>2 DEF TypeOK
  <2>4. /\ pc' \in [Threads -> Labels]
        /\ \A u \in Threads : pc'[u] \in {"build", "install"} <=> new_table'[u] # 0
    BY <2>2 DEF TypeOK, Labels
  <2> QED
    BY <2>1, <2>3, <2>4 DEF TypeOK, Labels
<1>3. CASE InstallFails(t)
  <2>1. UNCHANGED <<clock, list, stamp, deleted, data, now, old_head, table, shards, table_count,
                    shard_count, shard_num>>
    BY <1>3 DEF InstallFails
  <2>2. dead_shards' \subseteq Shards
    <3>1. dead_shards' = dead_shards \cup OwnShards(t) /\ pc[t] = "install"
      BY <1>3 DEF InstallFails
    <3>2. \A i \in (old_shard_num[t] + 1)..shard_num[t] : shards[new_table[t]][i] \in Shards
      <4>1. /\ Len(shards[new_table[t]]) = shard_num[t] /\ shard_num[t] \in Nat
            /\ old_shard_num[t] \in Nat
        BY <3>1 DEF LocalsFit, LocalFits, TypeOK
      <4>2. \A i \in (old_shard_num[t] + 1)..shard_num[t] : i \in 1..Len(shards[new_table[t]])
        BY <4>1
      <4> QED
        BY <1>0, <4>2, ShardTypes
    <3> QED
      BY <3>1, <3>2 DEF OwnShards, TypeOK
  <2>3. CASE IsEnough(t)
    <3>1. /\ pc[t] = "install" /\ pc' = [pc EXCEPT ![t] = "idle"]
          /\ freed' = freed \cup {new_table[t]}
          /\ result' = [result EXCEPT ![t] = table]
          /\ old_table' = [old_table EXCEPT ![t] = 0]
          /\ new_table' = [new_table EXCEPT ![t] = 0]
          /\ old_shard_num' = [old_shard_num EXCEPT ![t] = 0]
      BY <1>3, <2>3 DEF InstallFails, Goto, Returns
    <3>2. /\ result' \in [Threads -> Tables] /\ old_table' \in [Threads -> Tables]
          /\ new_table' \in [Threads -> Tables] /\ freed' \subseteq Tables
          /\ old_shard_num' \in [Threads -> 0..MaxShardNum]
      BY <1>0, <3>1 DEF TypeOK
    <3>3. /\ pc' \in [Threads -> Labels]
          /\ \A u \in Threads : pc'[u] \in {"build", "install"} <=> new_table'[u] # 0
      BY <3>1 DEF TypeOK, Labels
    <3> QED
      BY <2>1, <2>2, <3>2, <3>3 DEF TypeOK, Labels
  <2>4. CASE ~IsEnough(t)
    <3>1. /\ pc[t] = "install" /\ pc' = [pc EXCEPT ![t] = "build"]
          /\ old_table' = [old_table EXCEPT ![t] = table]
          /\ UNCHANGED <<freed, new_table, old_shard_num, result>>
      BY <1>3, <2>4 DEF InstallFails, Goto
    <3>2. old_table' \in [Threads -> Tables]
      BY <1>0, <3>1 DEF TypeOK
    <3>3. /\ pc' \in [Threads -> Labels]
          /\ \A u \in Threads : pc'[u] \in {"build", "install"} <=> new_table'[u] # 0
      BY <3>1 DEF TypeOK, Labels
    <3> QED
      BY <2>1, <2>2, <3>1, <3>2, <3>3 DEF TypeOK, Labels
  <2> QED
    BY <2>3, <2>4
<1> QED
  BY <1>1, <1>2, <1>3

\* Range speaks of the indices of a sequence.
LEMMA RangeOf == ASSUME NEW S, NEW s \in Seq(S) PROVE Range(s) = {s[i] : i \in 1..Len(s)}
BY DEF Range

LEMMA TypeDestroy == ASSUME TypeOK, Destroy PROVE TypeOK'
<1>1. UNCHANGED <<clock, data, now, old_head, table, shards, table_count, shard_count,
                  shard_num, old_table, new_table, old_shard_num, result>>
  BY DEF Destroy
<1>2. dead_shards' \subseteq Shards /\ freed' \subseteq Tables
  <2>1. dead_shards' = dead_shards \cup Range(shards[table]) /\ freed' = freed \cup {table}
    BY DEF Destroy
  <2>2. shards[table] \in Seq(Shards)
    BY DEF TypeOK
  <2>3. Range(shards[table]) \subseteq Shards
    BY <2>2, RangeOf
  <2> QED
    BY <2>1, <2>3 DEF TypeOK
<1>3. list' \in Seq(Tables) /\ deleted' \in Seq(Tables)
  <2>1. list \in Seq(Tables) /\ deleted \in Seq(Tables)
    BY DEF TypeOK
  <2>2. \/ deleted' = deleted \o list /\ list' = <<>>
        \/ deleted' = deleted /\ list' = list
    BY DEF Destroy
  <2>3. CASE deleted' = deleted \o list /\ list' = <<>>
    BY <2>1, <2>3
  <2>4. CASE deleted' = deleted /\ list' = list
    BY <2>1, <2>4
  <2> QED
    BY <2>2, <2>3, <2>4
<1>4. stamp' \in 0..(TimeMod - 1)
  BY VectorAssumption DEF Destroy, TypeOK
<1>5. /\ pc' \in [Threads -> Labels]
      /\ \A u \in Threads : pc'[u] \in {"build", "install"} <=> new_table'[u] # 0
  <2>1. (\A u \in Threads : pc[u] = "idle") /\ pc' = [u \in Threads |-> "dead"]
    BY DEF Destroy
  <2> QED
    BY <1>1, <2>1 DEF TypeOK, Labels
<1> QED
  BY <1>1, <1>2, <1>3, <1>4, <1>5 DEF TypeOK, Labels

LEMMA TypeTick == ASSUME TypeOK, Tick, UNCHANGED vectorVars PROVE TypeOK'
<1>1. UNCHANGED <<list, stamp, deleted, pc, data, now, old_head>> /\ clock' \in 0..MaxTime
  BY VectorAssumption DEF Tick, TypeOK
<1> QED
  BY <1>1 DEF vectorVars, TypeOK

-----------------------------------------------------------------------------
(* What each action does, with the definitions of the helpers expanded.    *)

LEMMA EnoughDoes ==
  ASSUME NEW t \in Threads, NEW n \in 1..MaxShardNum, EnsureEnough(t, n)
  PROVE  /\ UNCHANGED <<list, deleted, pc, data>>
         /\ UNCHANGED <<table, shards, table_count, shard_count, dead_shards, freed>>
         /\ pc[t] = "idle" /\ Len(shards[table]) >= n
         /\ shard_num' = [shard_num EXCEPT ![t] = n]
         /\ result' = [result EXCEPT ![t] = table]
         /\ old_table' = [old_table EXCEPT ![t] = 0]
         /\ new_table' = [new_table EXCEPT ![t] = 0]
         /\ old_shard_num' = [old_shard_num EXCEPT ![t] = 0]
BY DEF EnsureEnough, Returns, retireVars

LEMMA GrowDoes ==
  ASSUME NEW t \in Threads, NEW n \in 1..MaxShardNum, EnsureGrow(t, n)
  PROVE  /\ UNCHANGED <<list, deleted, data>>
         /\ UNCHANGED <<table, shards, shard_count, dead_shards, freed, result>>
         /\ pc[t] = "idle" /\ pc' = [pc EXCEPT ![t] = "build"]
         /\ Len(shards[table]) < n
         /\ table_count' = table_count + 1 /\ table_count < MaxTables
         /\ shard_num' = [shard_num EXCEPT ![t] = n]
         /\ old_table' = [old_table EXCEPT ![t] = table]
         /\ new_table' = [new_table EXCEPT ![t] = table_count + 1]
         /\ old_shard_num' = [old_shard_num EXCEPT ![t] = Len(shards[table])]
BY DEF EnsureGrow, Goto

LEMMA BuildDoes ==
  ASSUME NEW t \in Threads, Build(t)
  PROVE  /\ UNCHANGED <<list, deleted, data>>
         /\ UNCHANGED <<table, table_count, dead_shards, freed, shard_num, old_table, new_table,
                        old_shard_num, result>>
         /\ pc[t] = "build" /\ pc' = [pc EXCEPT ![t] = "install"]
BY DEF Build, Goto

LEMMA InstallDoes ==
  ASSUME NEW t \in Threads, Install(t)
  PROVE  /\ UNCHANGED <<list, deleted>>
         /\ UNCHANGED <<shards, table_count, shard_count, dead_shards, freed, shard_num>>
         /\ pc[t] = "install" /\ pc' = [pc EXCEPT ![t] = "retire"]
         /\ table = old_table[t] /\ table' = new_table[t]
         /\ data' = [data EXCEPT ![t] = old_table[t]]
         /\ result' = [result EXCEPT ![t] = new_table[t]]
         /\ old_table' = [old_table EXCEPT ![t] = 0]
         /\ new_table' = [new_table EXCEPT ![t] = 0]
         /\ old_shard_num' = [old_shard_num EXCEPT ![t] = 0]
BY DEF Install, Goto, Returns

LEMMA FailsDoes ==
  ASSUME NEW t \in Threads, InstallFails(t)
  PROVE  /\ UNCHANGED <<list, deleted, data>>
         /\ UNCHANGED <<table, shards, table_count, shard_count, shard_num>>
         /\ pc[t] = "install" /\ table # old_table[t]
         /\ dead_shards' = dead_shards \cup OwnShards(t)
         /\ \/ /\ IsEnough(t)
               /\ pc' = [pc EXCEPT ![t] = "idle"]
               /\ freed' = freed \cup {new_table[t]}
               /\ result' = [result EXCEPT ![t] = table]
               /\ old_table' = [old_table EXCEPT ![t] = 0]
               /\ new_table' = [new_table EXCEPT ![t] = 0]
               /\ old_shard_num' = [old_shard_num EXCEPT ![t] = 0]
            \/ /\ ~IsEnough(t)
               /\ pc' = [pc EXCEPT ![t] = "build"]
               /\ old_table' = [old_table EXCEPT ![t] = table]
               /\ UNCHANGED <<freed, new_table, old_shard_num, result>>
BY DEF InstallFails, Goto, Returns

-----------------------------------------------------------------------------
(* Locals.                                                                 *)

\* A thread whose locals, and the tables they name, are left alone.
LEMMA SameLocals ==
  ASSUME TypeOK, LocalsFit, NEW u \in Threads,
         pc'[u] = pc[u], data'[u] = data[u], shard_num'[u] = shard_num[u],
         old_shard_num'[u] = old_shard_num[u], old_table'[u] = old_table[u],
         new_table'[u] = new_table[u], result'[u] = result[u],
         shards'[old_table[u]] = shards[old_table[u]],
         shards'[result[u]] = shards[result[u]],
         shards'[new_table[u]] = shards[new_table[u]] \/ pc[u] # "install",
         Len(shards'[table']) \in Nat,
         Len(shards'[table']) >= Len(shards[table])
  PROVE  LocalFits(u)'
<1>1. LocalFits(u)
  BY DEF LocalsFit
<1>2. /\ Len(shards[table]) \in Nat /\ Len(shards[old_table[u]]) \in Nat
      /\ shard_num[u] \in Nat
  BY ShardTypes DEF TypeOK
<1>3. ASSUME Building(u), Len(shards[old_table[u]]) <= Len(shards[table])
      PROVE  Len(shards[old_table[u]]) <= Len(shards'[table'])
  BY <1>2, <1>3
<1> QED
  BY <1>1, <1>3 DEF LocalFits, Building

\* A table that is known to others than its builder is not written.
LEMMA BuildFrame ==
  ASSUME TypeOK, LocalsFit, TablesPrivate, NEW t \in Threads, Build(t)
  PROVE  /\ \A b \in Tables : b # new_table[t] => shards'[b] = shards[b]
         /\ new_table[t] # 0 /\ table # new_table[t] /\ new_table[t] \in Tables
         /\ \A u \in Threads : /\ old_table[u] # new_table[t] /\ result[u] # new_table[t]
                               /\ u # t => new_table[u] # new_table[t]
<1>1. pc[t] = "build"
  BY BuildDoes
<1>2. new_table[t] # 0 /\ new_table[t] \in Tables
  BY <1>1 DEF TypeOK
<1>3. \A b \in Tables : b # new_table[t] => shards'[b] = shards[b]
  <2>1. PICK s \in Seq(Shards) : shards' = [shards EXCEPT ![new_table[t]] = s]
    BY BuiltTable
  <2> QED
    BY <2>1 DEF TypeOK
<1>4. Private(new_table[t])
  BY <1>2 DEF Private
<1>5. \A u \in Threads : u # t => new_table[u] # new_table[t]
  BY <1>2 DEF TablesPrivate
<1> QED
  BY <1>2, <1>3, <1>4, <1>5 DEF TablesPrivate

LEMMA LocalsNext ==
  ASSUME VectorInv, Next, TypeOK'
  PROVE  LocalsFit'
<1>0. /\ TypeOK /\ LocalsFit /\ TablesPrivate
      /\ table \in Tables /\ Len(shards[table]) \in Nat /\ Len(shards'[table']) \in Nat
      /\ NULL \notin Tables
  <2>1. TypeOK /\ LocalsFit /\ TablesPrivate
    BY DEF VectorInv
  <2>2. table \in Tables /\ table' \in Tables /\ shards' \in [Tables -> Seq(Shards)]
    BY <2>1 DEF TypeOK
  <2>3. Len(shards[table]) \in Nat
    BY <2>1, <2>2, ShardTypes
  <2>4. Len(shards'[table']) \in Nat
    BY <2>2
  <2> QED
    BY <2>1, <2>2, <2>3, <2>4, VectorAssumption DEF Tables
<1>t. /\ pc \in [Threads -> Labels] /\ data \in [Threads -> Tables \cup {NULL}]
      /\ shard_num \in [Threads -> 0..MaxShardNum] /\ old_shard_num \in [Threads -> 0..MaxShardNum]
      /\ old_table \in [Threads -> Tables] /\ new_table \in [Threads -> Tables]
      /\ result \in [Threads -> Tables] /\ shards \in [Tables -> Seq(Shards)]
  BY <1>0 DEF TypeOK, Labels
<1>1. ASSUME NEW t \in Threads, NEW n \in 1..MaxShardNum, EnsureEnough(t, n) PROVE LocalsFit'
  <2>1. LocalFits(t)'
    BY <1>1, <1>0, <1>t, EnoughDoes DEF LocalsFit, LocalFits, Building, RetireLabels
  <2>2. ASSUME NEW u \in Threads, u # t PROVE LocalFits(u)'
    <3>1. shards' = shards /\ table' = table
      BY <1>1, EnoughDoes
    <3>2. /\ pc'[u] = pc[u] /\ data'[u] = data[u] /\ shard_num'[u] = shard_num[u]
          /\ old_shard_num'[u] = old_shard_num[u] /\ old_table'[u] = old_table[u]
          /\ new_table'[u] = new_table[u] /\ result'[u] = result[u]
      BY <2>2, <1>1, <1>t, EnoughDoes
    <3>3. Len(shards'[table']) >= Len(shards[table])
      BY <3>1, <1>0
    <3> QED
      BY <1>0, <3>1, <3>2, <3>3, SameLocals
  <2> QED
    BY <2>1, <2>2 DEF LocalsFit
<1>2. ASSUME NEW t \in Threads, NEW n \in 1..MaxShardNum, EnsureGrow(t, n) PROVE LocalsFit'
  <2>1. LocalFits(t)'
    <3>1. /\ shards' = shards /\ table' = table /\ data' = data /\ pc[t] = "idle"
          /\ pc'[t] = "build" /\ shard_num'[t] = n /\ old_table'[t] = table
          /\ old_shard_num'[t] = Len(shards[table]) /\ Len(shards[table]) < n
      BY <1>2, <1>t, GrowDoes
    <3>2. data[t] = NULL
      BY <1>0, <3>1 DEF LocalsFit, LocalFits, RetireLabels
    <3> QED
      BY <1>0, <3>1, <3>2 DEF LocalFits, Building, RetireLabels
  <2>2. ASSUME NEW u \in Threads, u # t PROVE LocalFits(u)'
    <3>1. shards' = shards /\ table' = table
      BY <1>2, GrowDoes
    <3>2. /\ pc'[u] = pc[u] /\ data'[u] = data[u] /\ shard_num'[u] = shard_num[u]
          /\ old_shard_num'[u] = old_shard_num[u] /\ old_table'[u] = old_table[u]
          /\ new_table'[u] = new_table[u] /\ result'[u] = result[u]
      BY <2>2, <1>2, <1>t, GrowDoes
    <3>3. Len(shards'[table']) >= Len(shards[table])
      BY <3>1, <1>0
    <3> QED
      BY <1>0, <3>1, <3>2, <3>3, SameLocals
  <2> QED
    BY <2>1, <2>2 DEF LocalsFit
<1>3. ASSUME NEW t \in Threads, Build(t) PROVE LocalsFit'
  <2>1. LocalFits(t)'
    <3>1. PICK s \in Seq(Shards) :
            /\ shards' = [shards EXCEPT ![new_table[t]] = s]
            /\ Len(s) = shard_num[t]
            /\ \A i \in 1..old_shard_num[t] : s[i] = shards[old_table[t]][i]
      BY <1>0, <1>3, BuiltTable
    <3>2. shards'[new_table[t]] = s /\ shards'[old_table[t]] = shards[old_table[t]]
          /\ shards'[table] = shards[table] /\ shards'[result[t]] = shards[result[t]]
      BY <1>0, <1>3, <1>t, <3>1, BuildFrame
    <3>3. LocalFits(t)
      BY <1>0 DEF LocalsFit
    <3> QED
      BY <1>3, <1>t, <3>1, <3>2, <3>3, BuildDoes DEF LocalFits, Building, RetireLabels
  <2>2. ASSUME NEW u \in Threads, u # t PROVE LocalFits(u)'
    <3>1. /\ shards'[old_table[u]] = shards[old_table[u]]
          /\ shards'[result[u]] = shards[result[u]]
          /\ shards'[new_table[u]] = shards[new_table[u]]
          /\ shards'[table] = shards[table] /\ table' = table
      BY <2>2, <1>0, <1>3, <1>t, BuildFrame, BuildDoes
    <3>2. /\ pc'[u] = pc[u] /\ data'[u] = data[u] /\ shard_num'[u] = shard_num[u]
          /\ old_shard_num'[u] = old_shard_num[u] /\ old_table'[u] = old_table[u]
          /\ new_table'[u] = new_table[u] /\ result'[u] = result[u]
      BY <2>2, <1>3, <1>t, BuildDoes
    <3>3. Len(shards'[table']) >= Len(shards[table])
      BY <3>1, <1>0
    <3> QED
      BY <1>0, <3>1, <3>2, <3>3, SameLocals
  <2> QED
    BY <2>1, <2>2 DEF LocalsFit
<1>4. ASSUME NEW t \in Threads, Install(t) PROVE LocalsFit'
  <2>0. Len(shards'[table']) >= Len(shards[table])
    <3>1. /\ Len(shards[new_table[t]]) = shard_num[t]
          /\ Len(shards[old_table[t]]) <= shard_num[t]
      BY <1>0, <1>4, InstallDoes DEF LocalsFit, LocalFits, Building
    <3> QED
      BY <1>4, <3>1, InstallDoes
  <2>1. LocalFits(t)'
    <3>1. Len(shards[new_table[t]]) = shard_num[t] /\ shard_num[t] \in Nat
      BY <1>0, <1>4, <1>t, InstallDoes DEF LocalsFit, LocalFits
    <3>2. data'[t] \in Tables /\ pc'[t] = "retire" /\ result'[t] = new_table[t]
      BY <1>4, <1>t, InstallDoes
    <3> QED
      BY <1>0, <1>4, <3>1, <3>2, InstallDoes DEF LocalFits, Building, RetireLabels
  <2>2. ASSUME NEW u \in Threads, u # t PROVE LocalFits(u)'
    <3>1. shards' = shards
      BY <1>4, InstallDoes
    <3>2. /\ pc'[u] = pc[u] /\ data'[u] = data[u] /\ shard_num'[u] = shard_num[u]
          /\ old_shard_num'[u] = old_shard_num[u] /\ old_table'[u] = old_table[u]
          /\ new_table'[u] = new_table[u] /\ result'[u] = result[u]
      BY <2>2, <1>4, <1>t, InstallDoes
    <3>3. Len(shards'[table']) \in Nat
      BY <1>0, <1>4, <1>t, <3>1, InstallDoes, ShardTypes
    <3> QED
      BY <1>0, <2>0, <3>1, <3>2, <3>3, SameLocals
  <2> QED
    BY <2>1, <2>2 DEF LocalsFit
<1>5. ASSUME NEW t \in Threads, InstallFails(t) PROVE LocalsFit'
  <2>1. LocalFits(t)'
    <3>1. LocalFits(t) /\ shard_num[t] \in Nat /\ old_shard_num[t] \in Nat
          /\ Len(shards[old_table[t]]) \in Nat
      BY <1>0, <1>t, ShardTypes DEF LocalsFit
    <3>2. CASE IsEnough(t)
      BY <1>5, <1>0, <1>t, <3>1, <3>2, FailsDoes DEF LocalFits, Building, RetireLabels, IsEnough
    <3>3. CASE ~IsEnough(t)
      BY <1>5, <1>0, <1>t, <3>1, <3>3, FailsDoes DEF LocalFits, Building, RetireLabels, IsEnough
    <3> QED
      BY <3>2, <3>3
  <2>2. ASSUME NEW u \in Threads, u # t PROVE LocalFits(u)'
    <3>1. shards' = shards /\ table' = table
      BY <1>5, FailsDoes
    <3>2. /\ pc'[u] = pc[u] /\ data'[u] = data[u] /\ shard_num'[u] = shard_num[u]
          /\ old_shard_num'[u] = old_shard_num[u] /\ old_table'[u] = old_table[u]
          /\ new_table'[u] = new_table[u] /\ result'[u] = result[u]
      <4>1. CASE IsEnough(t)
        BY <4>1, <2>2, <1>5, <1>t, FailsDoes
      <4>2. CASE ~IsEnough(t)
        BY <4>2, <2>2, <1>5, <1>t, FailsDoes
      <4> QED
        BY <4>1, <4>2
    <3>3. Len(shards'[table']) >= Len(shards[table])
      BY <3>1, <1>0
    <3> QED
      BY <1>0, <3>1, <3>2, <3>3, SameLocals
  <2> QED
    BY <2>1, <2>2 DEF LocalsFit
<1>6. ASSUME NEW t \in Threads, RetireStep(t), UNCHANGED vectorVars PROVE LocalsFit'
  <2>0. UNCHANGED <<table, shards, shard_num, old_table, new_table, old_shard_num, result>>
    BY <1>6 DEF vectorVars
  <2>1. LocalFits(t)'
    <3>1. LocalFits(t)
      BY <1>0 DEF LocalsFit
    <3>2. pc[t] \in RetireLabels /\ data[t] # NULL
      BY <3>1, <1>0, <1>6, RetireFrame DEF LocalFits
    <3>3. \/ pc'[t] \in RetireLabels /\ data'[t] = data[t]
          \/ pc'[t] = "idle" /\ data'[t] = NULL
      BY <1>0, <1>6, <1>t, RetireFrame DEF RetireLabels, QuietRetire, DropRetire, PushRetire
    <3>4. ~Building(t) /\ ~Building(t)'
      BY <3>2, <3>3 DEF Building, RetireLabels
    <3>5. data'[t] # NULL <=> pc'[t] \in RetireLabels
      BY <3>2, <3>3 DEF RetireLabels
    <3>6. pc'[t] # "install"
      BY <3>4 DEF Building
    <3> QED
      BY <2>0, <3>1, <3>4, <3>5, <3>6 DEF LocalFits
  <2>2. ASSUME NEW u \in Threads, u # t PROVE LocalFits(u)'
    <3>1. pc'[u] = pc[u] /\ data'[u] = data[u]
      BY <2>2, <1>0, <1>6, <1>t, RetireFrame DEF QuietRetire, DropRetire, PushRetire
    <3> QED
      BY <2>0, <3>1, <1>0, SameLocals
  <2> QED
    BY <2>1, <2>2 DEF LocalsFit
<1>7. ASSUME Tick, UNCHANGED vectorVars PROVE LocalsFit'
  <2>1. UNCHANGED <<table, shards, shard_num, old_table, new_table, old_shard_num, result, pc, data>>
    BY <1>7 DEF vectorVars, Tick
  <2> QED
    BY <2>1, <1>0, SameLocals DEF LocalsFit
<1>8. ASSUME Destroy PROVE LocalsFit'
  <2>1. UNCHANGED <<table, shards, shard_num, old_table, new_table, old_shard_num, result, data>>
    BY <1>8 DEF Destroy
  <2>2. \A u \in Threads : pc[u] = "idle" /\ pc'[u] = "dead"
    BY <1>8 DEF Destroy
  <2>3. ASSUME NEW u \in Threads PROVE LocalFits(u)'
    <3>1. LocalFits(u)
      BY <1>0 DEF LocalsFit
    <3> QED
      BY <2>1, <2>2, <3>1 DEF LocalFits, Building, RetireLabels
  <2> QED
    BY <2>3 DEF LocalsFit
<1> QED
  BY <1>1, <1>2, <1>3, <1>4, <1>5, <1>6, <1>7, <1>8 DEF Next

-----------------------------------------------------------------------------
(* Tables under construction.                                              *)

\* A thread that gives up its new table makes no other table private.
LEMMA PrivateLess ==
  ASSUME TypeOK, TablesPrivate, NEW t \in Threads, new_table' = [new_table EXCEPT ![t] = 0]
  PROVE  /\ \A b \in Tables : Private(b)' <=> Private(b) /\ b # new_table[t]
         /\ \A u \in Threads : new_table'[u] \in {new_table[u], 0}
<1>1. \A u \in Threads : new_table'[u] = IF u = t THEN 0 ELSE new_table[u]
  BY DEF TypeOK
<1>2. ASSUME NEW b \in Tables PROVE Private(b)' <=> Private(b) /\ b # new_table[t]
  BY <1>1 DEF Private, TablesPrivate
<1> QED
  BY <1>1, <1>2

\* The tables are numbers, and 0 is the smallest one.
LEMMA TablesAre ==
  ASSUME TypeOK
  PROVE  /\ Tables \subseteq Nat /\ 0 \in Tables /\ table \in Tables /\ table_count \in Tables
         /\ \A u \in Threads : /\ new_table[u] \in Tables /\ old_table[u] \in Tables
                               /\ result[u] \in Tables
         /\ MaxTables \in Nat /\ NULL \notin Tables
BY VectorAssumption DEF TypeOK, Tables

LEMMA PrivateNext ==
  ASSUME VectorInv, Next, TypeOK'
  PROVE  TablesPrivate'
<1>0. TypeOK /\ TablesPrivate
  BY DEF VectorInv
<1>a. /\ Tables \subseteq Nat /\ 0 \in Tables /\ table \in Tables /\ table_count \in Tables
      /\ \A u \in Threads : /\ new_table[u] \in Tables /\ old_table[u] \in Tables
                            /\ result[u] \in Tables
  BY <1>0, TablesAre
<1>t. /\ old_table \in [Threads -> Tables] /\ new_table \in [Threads -> Tables]
      /\ result \in [Threads -> Tables]
  BY <1>0 DEF TypeOK
<1>z. ~Private(0) /\ 0 <= table_count
  BY <1>a DEF Private
<1>1. ASSUME NEW t \in Threads, NEW n \in 1..MaxShardNum, EnsureEnough(t, n) PROVE TablesPrivate'
  <2>1. \A b \in Tables : Private(b)' => Private(b)
    BY <1>0, <1>1, EnoughDoes, PrivateLess
  <2>2. table' = table /\ table_count' = table_count
    BY <1>1, EnoughDoes
  <2>3. \A u \in Threads : /\ new_table'[u] = IF u = t THEN 0 ELSE new_table[u]
                           /\ old_table'[u] = IF u = t THEN 0 ELSE old_table[u]
                           /\ result'[u] = IF u = t THEN table ELSE result[u]
    BY <1>1, <1>t, EnoughDoes
  <2> QED
    BY <1>0, <1>a, <1>z, <2>1, <2>2, <2>3 DEF TablesPrivate
<1>2. ASSUME NEW t \in Threads, NEW n \in 1..MaxShardNum, EnsureGrow(t, n) PROVE TablesPrivate'
  <2>2. table' = table /\ table_count' = table_count + 1
    BY <1>2, GrowDoes
  <2>3. \A u \in Threads : /\ new_table'[u] = IF u = t THEN table_count + 1 ELSE new_table[u]
                           /\ old_table'[u] = IF u = t THEN table ELSE old_table[u]
                           /\ result'[u] = result[u]
    BY <1>2, <1>t, GrowDoes
  <2>4. /\ table_count + 1 # 0 /\ table_count + 1 <= table_count + 1
        /\ \A b \in Tables : b <= table_count => b <= table_count + 1 /\ b # table_count + 1
    <3>1. PICK c \in Nat : c = table_count
      BY <1>a
    <3>2. /\ c + 1 # 0 /\ c + 1 <= c + 1
          /\ \A b \in Nat : b <= c => b <= c + 1 /\ b # c + 1
      OBVIOUS
    <3> QED
      BY <1>a, <3>1, <3>2
  <2>1. \A b \in Tables : b <= table_count /\ Private(b)' => Private(b)
    BY <2>3, <2>4 DEF Private
  <2>5. \A u \in Threads : new_table'[u] <= table_count'
    BY <1>0, <1>a, <2>2, <2>3, <2>4 DEF TablesPrivate
  <2>6. \A u, v \in Threads : u # v /\ new_table'[u] = new_table'[v] => new_table'[u] = 0
    BY <1>0, <1>a, <2>3, <2>4 DEF TablesPrivate
  <2>7. table' <= table_count' /\ ~Private(table)'
    BY <1>0, <1>a, <2>1, <2>2, <2>4 DEF TablesPrivate, Private
  <2>8. \A u \in Threads : /\ old_table'[u] <= table_count' /\ ~Private(old_table[u])'
                           /\ result'[u] <= table_count' /\ ~Private(result[u])'
    <3> TAKE u \in Threads
    <3>1. old_table'[u] \in Tables /\ old_table'[u] <= table_count /\ ~Private(old_table'[u])
      BY <1>0, <1>a, <2>3 DEF TablesPrivate
    <3>2. result'[u] \in Tables /\ result'[u] <= table_count /\ ~Private(result'[u])
      BY <1>0, <1>a, <2>3 DEF TablesPrivate
    <3>3. ASSUME NEW b \in Tables, b <= table_count, ~Private(b)
          PROVE  b <= table_count' /\ ~(\E v \in Threads : new_table'[v] = b /\ b # 0)
      BY <3>3, <2>1, <2>2, <2>4 DEF Private
    <3> QED
      BY <3>1, <3>2, <3>3 DEF Private
  <2> QED
    BY <2>5, <2>6, <2>7, <2>8 DEF TablesPrivate
<1>3. ASSUME NEW t \in Threads, Build(t) PROVE TablesPrivate'
  BY <1>0, <1>3, BuildDoes DEF TablesPrivate, Private
<1>4. ASSUME NEW t \in Threads, Install(t) PROVE TablesPrivate'
  <2>1. \A b \in Tables : Private(b)' <=> Private(b) /\ b # new_table[t]
    BY <1>0, <1>4, InstallDoes, PrivateLess
  <2>2. table' = new_table[t] /\ table_count' = table_count
    BY <1>4, InstallDoes
  <2>3. \A u \in Threads : /\ new_table'[u] = IF u = t THEN 0 ELSE new_table[u]
                           /\ old_table'[u] = IF u = t THEN 0 ELSE old_table[u]
                           /\ result'[u] = IF u = t THEN new_table[t] ELSE result[u]
    BY <1>4, <1>t, InstallDoes
  <2>4. ASSUME NEW b \in Tables, ~Private(b) \/ b = new_table[t]
        PROVE  ~(\E v \in Threads : new_table'[v] = b /\ b # 0)
    BY <2>1, <2>4 DEF Private
  <2>5. \A u \in Threads : new_table'[u] <= table_count'
    BY <1>0, <1>a, <1>z, <2>2, <2>3 DEF TablesPrivate
  <2>6. \A u, v \in Threads : u # v /\ new_table'[u] = new_table'[v] => new_table'[u] = 0
    BY <1>0, <2>3 DEF TablesPrivate
  <2>7. table' <= table_count' /\ ~Private(table)'
    BY <1>0, <1>a, <2>2, <2>4 DEF TablesPrivate, Private
  <2>8. \A u \in Threads : /\ old_table'[u] <= table_count' /\ ~Private(old_table[u])'
                           /\ result'[u] <= table_count' /\ ~Private(result[u])'
    <3> TAKE u \in Threads
    <3>1. old_table'[u] \in Tables /\ old_table'[u] <= table_count /\ ~Private(old_table'[u])
      BY <1>0, <1>a, <1>z, <2>3 DEF TablesPrivate
    <3>2. /\ result'[u] \in Tables /\ result'[u] <= table_count
          /\ ~Private(result'[u]) \/ result'[u] = new_table[t]
      BY <1>0, <1>a, <2>3 DEF TablesPrivate
    <3> QED
      BY <2>2, <2>4, <3>1, <3>2 DEF Private
  <2> QED
    BY <2>5, <2>6, <2>7, <2>8 DEF TablesPrivate
<1>5. ASSUME NEW t \in Threads, InstallFails(t), IsEnough(t) PROVE TablesPrivate'
  <2>1. \A b \in Tables : Private(b)' => Private(b)
    BY <1>0, <1>5, FailsDoes, PrivateLess
  <2>2. table' = table /\ table_count' = table_count
    BY <1>5, FailsDoes
  <2>3. \A u \in Threads : /\ new_table'[u] = IF u = t THEN 0 ELSE new_table[u]
                           /\ old_table'[u] = IF u = t THEN 0 ELSE old_table[u]
                           /\ result'[u] = IF u = t THEN table ELSE result[u]
    BY <1>5, <1>t, FailsDoes
  <2> QED
    BY <1>0, <1>a, <1>z, <2>1, <2>2, <2>3 DEF TablesPrivate
<1>6. ASSUME NEW t \in Threads, InstallFails(t), ~IsEnough(t) PROVE TablesPrivate'
  <2>1. table' = table /\ table_count' = table_count /\ new_table' = new_table /\ result' = result
    BY <1>6, FailsDoes
  <2>2. \A u \in Threads : old_table'[u] = IF u = t THEN table ELSE old_table[u]
    BY <1>6, <1>t, FailsDoes
  <2> QED
    BY <1>0, <2>1, <2>2 DEF TablesPrivate, Private
<1>7. ASSUME UNCHANGED <<table, table_count, new_table, old_table, result>> PROVE TablesPrivate'
  BY <1>0, <1>7 DEF TablesPrivate, Private
<1>8. ASSUME UNCHANGED vectorVars \/ Destroy PROVE TablesPrivate'
  BY <1>7, <1>8 DEF vectorVars, Destroy
<1> QED
  BY <1>1, <1>2, <1>3, <1>4, <1>5, <1>6, <1>8 DEF Next

-----------------------------------------------------------------------------
(* Shards.                                                                 *)

\* The shards of thread t's new table, one by one.
LEMMA OwnShardsAre ==
  ASSUME TypeOK, LocalsFit, NEW t \in Threads, pc[t] = "install"
  PROVE  /\ Len(shards[new_table[t]]) = shard_num[t]
         /\ old_shard_num[t] \in Nat /\ shard_num[t] \in Nat
         /\ \A i \in (old_shard_num[t] + 1)..shard_num[t] : i \in 1..Len(shards[new_table[t]])
         /\ \A s \in OwnShards(t) : \E i \in (old_shard_num[t] + 1)..shard_num[t] :
              s = shards[new_table[t]][i]
         /\ new_table[t] \in Tables /\ new_table[t] # 0
<1>1. /\ Len(shards[new_table[t]]) = shard_num[t]
      /\ old_shard_num[t] \in Nat /\ shard_num[t] \in Nat
  BY DEF TypeOK, LocalsFit, LocalFits
<1>2. \A i \in (old_shard_num[t] + 1)..shard_num[t] : i \in 1..Len(shards[new_table[t]])
  BY <1>1
<1>3. new_table[t] \in Tables /\ new_table[t] # 0
  BY DEF TypeOK
<1> QED
  BY <1>1, <1>2, <1>3 DEF OwnShards

\* What is created is new: no table names it and nobody has destroyed it.
LEMMA FreshNext ==
  ASSUME VectorInv, Next, TypeOK'
  PROVE  ShardsFresh'
<1>0. TypeOK /\ LocalsFit /\ TablesPrivate /\ ShardsFresh
  BY DEF VectorInv
<1>t. /\ pc \in [Threads -> Labels] /\ shards \in [Tables -> Seq(Shards)]
      /\ shard_num \in [Threads -> 0..MaxShardNum] /\ old_shard_num \in [Threads -> 0..MaxShardNum]
      /\ old_table \in [Threads -> Tables] /\ new_table \in [Threads -> Tables]
      /\ \A u \in Threads : pc[u] = "install" => new_table[u] # 0
  BY <1>0 DEF TypeOK, Labels
<1>a. ASSUME UNCHANGED <<shards, shard_count, dead_shards>>,
             \A u \in Threads : pc'[u] = "install" =>
               /\ pc[u] = "install" /\ new_table'[u] = new_table[u]
               /\ shard_num'[u] = shard_num[u] /\ old_shard_num'[u] = old_shard_num[u]
      PROVE  ShardsFresh'
  <2>1. \A u \in Threads : OwnFresh(u)'
    BY <1>0, <1>a DEF ShardsFresh, OwnFresh
  <2> QED
    BY <1>0, <1>a, <2>1 DEF ShardsFresh
<1>1. ASSUME NEW t \in Threads, NEW n \in 1..MaxShardNum, EnsureEnough(t, n) PROVE ShardsFresh'
  BY <1>1, <1>a, <1>t, EnoughDoes
<1>2. ASSUME NEW t \in Threads, NEW n \in 1..MaxShardNum, EnsureGrow(t, n) PROVE ShardsFresh'
  BY <1>2, <1>a, <1>t, GrowDoes
<1>3. ASSUME NEW t \in Threads, Build(t) PROVE ShardsFresh'
  <2>1. PICK s \in Seq(Shards) :
          /\ shards' = [shards EXCEPT ![new_table[t]] = s]
          /\ Len(s) = shard_num[t]
          /\ \A i \in 1..old_shard_num[t] : s[i] = shards[old_table[t]][i]
          /\ \A i \in (old_shard_num[t] + 1)..shard_num[t] :
               s[i] = shard_count + i - old_shard_num[t]
          /\ shard_count' = shard_count + shard_num[t] - old_shard_num[t]
          /\ shard_count < shard_count'
    BY <1>0, <1>3, BuiltTable
  <2>2. /\ \A b \in Tables : b # new_table[t] => shards'[b] = shards[b]
        /\ \A u \in Threads : /\ old_table[u] # new_table[t]
                              /\ u # t => new_table[u] # new_table[t]
        /\ new_table[t] \in Tables
    BY <1>0, <1>3, BuildFrame
  <2>3. shards'[new_table[t]] = s
    BY <1>t, <2>1, <2>2
  <2>4. /\ shard_num[t] \in Nat /\ old_shard_num[t] \in Nat /\ shard_count \in Nat
        /\ shard_count' \in Nat
        /\ old_shard_num[t] <= Len(shards[old_table[t]]) /\ Len(shards[old_table[t]]) \in Nat
        /\ old_table[t] \in Tables
    <3>1. pc[t] = "build"
      BY <1>3, BuildDoes
    <3>2. old_shard_num[t] <= Len(shards[old_table[t]]) /\ old_table[t] \in Tables
      BY <1>0, <1>t, <3>1 DEF LocalsFit, LocalFits, Building
    <3>3. Len(shards[old_table[t]]) \in Nat
      BY <1>0, <3>2, ShardTypes
    <3>4. shard_count \in Nat /\ shard_count' \in Nat
      BY <1>0, VectorAssumption DEF TypeOK
    <3> QED
      BY <1>t, <3>2, <3>3, <3>4
  <2>5. \A i \in 1..Len(s) : \/ /\ i \in 1..Len(shards[old_table[t]])
                                /\ s[i] = shards[old_table[t]][i]
                             \/ shard_count < s[i] /\ s[i] <= shard_count'
    <3> TAKE i \in 1..Len(s)
    <3>1. CASE i <= old_shard_num[t]
      <4>1. i \in 1..old_shard_num[t] /\ i \in 1..Len(shards[old_table[t]])
        BY <2>1, <2>4, <3>1
      <4> QED
        BY <2>1, <4>1
    <3>2. CASE i > old_shard_num[t]
      <4>1. i \in (old_shard_num[t] + 1)..shard_num[t]
        BY <2>1, <2>4, <3>2
      <4>2. s[i] = shard_count + i - old_shard_num[t]
        BY <2>1, <4>1
      <4> QED
        BY <2>1, <2>4, <4>1, <4>2
    <3> QED
      BY <2>1, <2>4, <3>1, <3>2
  <2>6. \A b \in Tables : \A j \in 1..Len(shards[b]) : /\ shards[b][j] <= shard_count
                                                       /\ shards[b][j] \in Nat
    BY <1>0, ShardTypes DEF ShardsFresh, Shards
  <2>7. \A x \in Nat : x <= shard_count => x <= shard_count' /\ ~(shard_count < x)
    BY <2>1, <2>4
  <2>8. \A b \in Tables : \A j \in 1..Len(shards'[b]) : shards'[b][j] <= shard_count'
    <3> TAKE b \in Tables
    <3>1. CASE b = new_table[t]
      BY <2>3, <2>4, <2>5, <2>6, <2>7, <3>1
    <3>2. CASE b # new_table[t]
      BY <2>2, <2>6, <2>7, <3>2
    <3> QED
      BY <3>1, <3>2
  <2>9. dead_shards' = dead_shards /\ \A x \in dead_shards : x <= shard_count /\ x \in Nat
    BY <1>0, <1>3, BuildDoes DEF TypeOK, ShardsFresh, Shards
  <2>10. ASSUME NEW u \in Threads, u # t PROVE OwnFresh(u)'
    <3>1. /\ pc'[u] = pc[u] /\ new_table' = new_table /\ shard_num' = shard_num
          /\ old_shard_num' = old_shard_num
      BY <2>10, <1>3, <1>t, BuildDoes
    <3> SUFFICES ASSUME pc[u] = "install",
                        NEW i \in (old_shard_num[u] + 1)..shard_num[u]
                 PROVE  LET x == shards'[new_table[u]][i]
                        IN  /\ x \notin dead_shards'
                            /\ \A b \in Tables \ {new_table[u]} :
                                 \A j \in 1..Len(shards'[b]) : shards'[b][j] # x
      BY <3>1 DEF OwnFresh
    <3>2. shards'[new_table[u]] = shards[new_table[u]]
      BY <2>10, <2>2, <1>t
    <3>3. PICK x : x = shards[new_table[u]][i]
      OBVIOUS
    <3>4. x \notin dead_shards /\ \A b \in Tables \ {new_table[u]} :
            \A j \in 1..Len(shards[b]) : shards[b][j] # x
      BY <1>0, <3>3 DEF ShardsFresh, OwnFresh
    <3>5. x \in Nat /\ ~(shard_count < x)
      BY <1>0, <2>6, <2>7, <3>3, OwnShardsAre
    <3>6. old_table[t] \in Tables \ {new_table[u]}
      <4>1. Private(new_table[u])
        BY <1>t DEF Private
      <4> QED
        BY <1>0, <2>4, <4>1 DEF TablesPrivate
    <3>7. \A j \in 1..Len(s) : s[j] # x
      BY <2>5, <3>4, <3>5, <3>6
    <3>8. \A b \in Tables \ {new_table[u]} : \A j \in 1..Len(shards'[b]) : shards'[b][j] # x
      BY <2>2, <2>3, <3>4, <3>7
    <3> QED
      BY <2>9, <3>2, <3>3, <3>4, <3>8
  <2>11. OwnFresh(t)'
    <3>1. new_table' = new_table /\ shard_num' = shard_num /\ old_shard_num' = old_shard_num
      BY <1>3, BuildDoes
    <3> SUFFICES ASSUME NEW i \in (old_shard_num[t] + 1)..shard_num[t]
                 PROVE  /\ s[i] \notin dead_shards'
                        /\ \A b \in Tables \ {new_table[t]} :
                             \A j \in 1..Len(shards'[b]) : shards'[b][j] # s[i]
      BY <2>3, <3>1 DEF OwnFresh
    <3>2. s[i] = shard_count + i - old_shard_num[t]
      BY <2>1
    <3>3. shard_count < s[i] /\ s[i] \in Nat
      BY <2>4, <3>2
    <3> QED
      BY <2>2, <2>6, <2>7, <2>9, <3>3
  <2> QED
    BY <2>7, <2>8, <2>9, <2>10, <2>11 DEF ShardsFresh
<1>4. ASSUME NEW t \in Threads, Install(t) PROVE ShardsFresh'
  BY <1>4, <1>a, <1>t, InstallDoes
<1>5. ASSUME NEW t \in Threads, InstallFails(t) PROVE ShardsFresh'
  <2>1. /\ UNCHANGED <<shards, shard_count, shard_num>> /\ pc[t] = "install"
        /\ dead_shards' = dead_shards \cup OwnShards(t)
    BY <1>5, FailsDoes
  <2>2. \A u \in Threads : pc'[u] = "install" =>
          /\ pc[u] = "install" /\ u # t /\ new_table'[u] = new_table[u]
          /\ old_shard_num'[u] = old_shard_num[u]
    <3>1. CASE IsEnough(t)
      BY <1>5, <1>t, <3>1, FailsDoes
    <3>2. CASE ~IsEnough(t)
      BY <1>5, <1>t, <3>2, FailsDoes
    <3> QED
      BY <3>1, <3>2
  <2>3. \A x \in OwnShards(t) : \E j \in 1..Len(shards[new_table[t]]) : shards[new_table[t]][j] = x
    BY <1>0, <2>1, OwnShardsAre
  <2>4. \A x \in dead_shards' : x <= shard_count
    BY <1>0, <1>t, <2>1, <2>3 DEF ShardsFresh
  <2>5. ASSUME NEW u \in Threads, pc'[u] = "install" PROVE OwnFresh(u)'
    <3>1. /\ pc[u] = "install" /\ u # t /\ new_table'[u] = new_table[u]
          /\ old_shard_num'[u] = old_shard_num[u] /\ shard_num'[u] = shard_num[u]
      BY <2>1, <2>2, <2>5
    <3>2. new_table[t] \in Tables \ {new_table[u]}
      BY <1>0, <1>t, <2>1, <3>1 DEF TablesPrivate
    <3>3. ASSUME NEW i \in (old_shard_num[u] + 1)..shard_num[u]
          PROVE  shards[new_table[u]][i] \notin OwnShards(t)
      BY <1>0, <2>3, <3>1, <3>2 DEF ShardsFresh, OwnFresh
    <3> QED
      BY <1>0, <2>1, <3>1, <3>3 DEF ShardsFresh, OwnFresh
  <2>6. \A u \in Threads : OwnFresh(u)'
    BY <2>5 DEF OwnFresh
  <2> QED
    BY <1>0, <2>1, <2>4, <2>6 DEF ShardsFresh
<1>6. ASSUME NEW t \in Threads, RetireStep(t), UNCHANGED vectorVars PROVE ShardsFresh'
  <2>1. \A u \in Threads : pc'[u] = "install" => pc[u] = "install"
    BY <1>0, <1>6, <1>t, RetireFrame DEF RetireLabels
  <2>2. UNCHANGED <<shards, shard_count, dead_shards, new_table, shard_num, old_shard_num>>
    BY <1>6 DEF vectorVars
  <2> QED
    BY <1>a, <2>1, <2>2
<1>7. ASSUME Tick, UNCHANGED vectorVars PROVE ShardsFresh'
  BY <1>7, <1>a DEF vectorVars, Tick
<1>8. ASSUME Destroy PROVE ShardsFresh'
  <2>1. /\ UNCHANGED <<shards, shard_count>>
        /\ dead_shards' = dead_shards \cup Range(shards[table])
        /\ \A u \in Threads : pc'[u] = "dead"
    BY <1>8 DEF Destroy
  <2>2. table \in Tables /\ shards[table] \in Seq(Shards)
    BY <1>0 DEF TypeOK
  <2>3. \A x \in Range(shards[table]) : \E j \in 1..Len(shards[table]) : shards[table][j] = x
    BY <2>2, RangeOf
  <2>4. \A x \in dead_shards' : x <= shard_count
    BY <1>0, <2>1, <2>2, <2>3 DEF ShardsFresh
  <2> QED
    BY <1>0, <2>1, <2>4 DEF ShardsFresh, OwnFresh
<1> QED
  BY <1>1, <1>2, <1>3, <1>4, <1>5, <1>6, <1>7, <1>8 DEF Next

\* The thread that takes a step is alive, and so is the vector.
LEMMA ActorAlive ==
  ASSUME TypeOK, TablesOnce, NEW t \in Threads, pc[t] # "dead", NEW l \in Labels \ {"dead"},
         pc' = [pc EXCEPT ![t] = l]
  PROVE  /\ Alive /\ Alive'
         /\ DeadTogether'
BY DEF TypeOK, TablesOnce, DeadTogether, Alive

\* Every step but the destructor's keeps the vector alive or changes no thread's place.
LEMMA AliveStep ==
  ASSUME VectorInv, Next
  PROVE  (~Destroy => /\ Alive' <=> Alive
                      /\ DeadTogether')
<1>0. TypeOK /\ TablesOnce
  BY DEF VectorInv
<1>1. ASSUME NEW t \in Threads, NEW n \in 1..MaxShardNum, EnsureGrow(t, n)
      PROVE  pc[t] # "dead" /\ \E l \in Labels \ {"dead"} : pc' = [pc EXCEPT ![t] = l]
  BY <1>1, GrowDoes DEF Labels
<1>2. ASSUME NEW t \in Threads, Build(t)
      PROVE  pc[t] # "dead" /\ \E l \in Labels \ {"dead"} : pc' = [pc EXCEPT ![t] = l]
  BY <1>2, BuildDoes DEF Labels
<1>3. ASSUME NEW t \in Threads, Install(t)
      PROVE  pc[t] # "dead" /\ \E l \in Labels \ {"dead"} : pc' = [pc EXCEPT ![t] = l]
  BY <1>3, InstallDoes DEF Labels
<1>4. ASSUME NEW t \in Threads, InstallFails(t)
      PROVE  pc[t] # "dead" /\ \E l \in Labels \ {"dead"} : pc' = [pc EXCEPT ![t] = l]
  BY <1>4, FailsDoes DEF Labels
<1>5. ASSUME NEW t \in Threads, RetireStep(t)
      PROVE  pc[t] # "dead" /\ \E l \in Labels \ {"dead"} : pc' = [pc EXCEPT ![t] = l]
  BY <1>0, <1>5, RetireFrame DEF RetireLabels, Labels
<1>6. ASSUME pc' = pc
      PROVE  /\ Alive' <=> Alive
             /\ DeadTogether'
  BY <1>0, <1>6 DEF Alive, TablesOnce, DeadTogether
<1>7. ASSUME NEW t \in Threads, NEW n \in 1..MaxShardNum, EnsureEnough(t, n) PROVE pc' = pc
  BY <1>7, EnoughDoes
<1>8. Tick => pc' = pc
  BY DEF Tick
<1> QED
  BY <1>0, <1>1, <1>2, <1>3, <1>4, <1>5, <1>6, <1>7, <1>8, ActorAlive DEF Next

\* Nobody destroys a shard of the current table.
LEMMA DeadNext ==
  ASSUME VectorInv, Next, TypeOK'
  PROVE  NoDeadShard'
<1>0. TypeOK /\ LocalsFit /\ TablesPrivate /\ ShardsFresh /\ NoDeadShard
  BY DEF VectorInv
<1>t. table \in Tables /\ table' \in Tables /\ shards \in [Tables -> Seq(Shards)]
      /\ shards' \in [Tables -> Seq(Shards)]
  BY <1>0 DEF TypeOK
<1>1. NoDeadShard <=> (Alive => \A i \in 1..Len(shards[table]) : shards[table][i] \notin dead_shards)
  <2>1. Range(shards[table]) = {shards[table][i] : i \in 1..Len(shards[table])}
    BY <1>t, RangeOf
  <2> QED
    BY <2>1 DEF NoDeadShard, Alive
<1>2. NoDeadShard' <=>
        (Alive' => \A i \in 1..Len(shards'[table']) : shards'[table'][i] \notin dead_shards')
  <2>1. Range(shards'[table']) = {shards'[table'][i] : i \in 1..Len(shards'[table'])}
    BY <1>t, RangeOf
  <2> QED
    BY <2>1 DEF NoDeadShard, Alive
<1>3. CASE Destroy
  <2>1. \A u \in Threads : pc'[u] = "dead"
    BY <1>3 DEF Destroy
  <2> QED
    BY <1>2, <2>1, VectorAssumption DEF Alive
<1>4. CASE ~Destroy
  <2> SUFFICES ASSUME Alive', NEW i \in 1..Len(shards'[table'])
               PROVE  shards'[table'][i] \notin dead_shards'
    BY <1>2
  <2>0. \A j \in 1..Len(shards[table]) : shards[table][j] \notin dead_shards
    BY <1>0, <1>1, <1>4, AliveStep
  <2>1. ASSUME shards'[table'] = shards[table], dead_shards' = dead_shards
        PROVE  shards'[table'][i] \notin dead_shards'
    BY <2>0, <2>1
  <2>2. ASSUME NEW t \in Threads, NEW n \in 1..MaxShardNum, EnsureEnough(t, n) \/ EnsureGrow(t, n)
        PROVE  shards'[table'][i] \notin dead_shards'
    BY <2>1, <2>2, EnoughDoes, GrowDoes
  <2>3. ASSUME NEW t \in Threads, Build(t) PROVE shards'[table'][i] \notin dead_shards'
    BY <1>0, <1>t, <2>1, <2>3, BuildDoes, BuildFrame
  <2>4. ASSUME NEW t \in Threads, Install(t) PROVE shards'[table'][i] \notin dead_shards'
    <3>1. /\ table' = new_table[t] /\ shards' = shards /\ dead_shards' = dead_shards
          /\ pc[t] = "install" /\ table = old_table[t]
      BY <2>4, InstallDoes
    <3>2. /\ Len(shards[new_table[t]]) = shard_num[t]
          /\ old_shard_num[t] \in Nat /\ shard_num[t] \in Nat
          /\ \A j \in 1..old_shard_num[t] : shards[new_table[t]][j] = shards[table][j]
          /\ old_shard_num[t] <= Len(shards[table]) /\ Len(shards[table]) \in Nat
      <4>1. LocalFits(t) /\ Len(shards[table]) \in Nat
        BY <1>0, <1>t, ShardTypes DEF LocalsFit
      <4> QED
        BY <1>0, <3>1, <4>1, OwnShardsAre DEF LocalFits, Building
    <3>3. i \in 1..shard_num[t]
      BY <3>1, <3>2
    <3>4. CASE i <= old_shard_num[t]
      <4>1. i \in 1..old_shard_num[t] /\ i \in 1..Len(shards[table])
        BY <3>2, <3>3, <3>4
      <4> QED
        BY <2>0, <3>1, <3>2, <4>1
    <3>5. CASE i > old_shard_num[t]
      <4>1. i \in (old_shard_num[t] + 1)..shard_num[t]
        BY <3>2, <3>3, <3>5
      <4> QED
        BY <1>0, <3>1, <4>1 DEF ShardsFresh, OwnFresh
    <3> QED
      BY <3>2, <3>3, <3>4, <3>5
  <2>5. ASSUME NEW t \in Threads, InstallFails(t) PROVE shards'[table'][i] \notin dead_shards'
    <3>1. /\ table' = table /\ shards' = shards /\ dead_shards' = dead_shards \cup OwnShards(t)
          /\ pc[t] = "install"
      BY <2>5, FailsDoes
    <3>2. table \in Tables \ {new_table[t]}
      <4>1. Private(new_table[t])
        BY <1>0, <3>1, OwnShardsAre DEF Private
      <4> QED
        BY <1>0, <1>t, <4>1 DEF TablesPrivate
    <3>3. \A x \in OwnShards(t) : shards[table][i] # x
      BY <1>0, <3>1, <3>2, OwnShardsAre DEF ShardsFresh, OwnFresh
    <3> QED
      BY <2>0, <3>1, <3>3
  <2>6. ASSUME UNCHANGED vectorVars PROVE shards'[table'][i] \notin dead_shards'
    BY <2>1, <2>6 DEF vectorVars
  <2> QED
    BY <1>4, <2>2, <2>3, <2>4, <2>5, <2>6 DEF Next
<1> QED
  BY <1>3, <1>4

-----------------------------------------------------------------------------
(* Tables that are gone.                                                   *)

\* Joining two sequences that name each thing once.
LEMMA JoinOnce ==
  ASSUME NEW S, NEW a \in Seq(S), NEW b \in Seq(S)
  PROVE  /\ \A x : Has(a \o b, x) <=> Has(a, x) \/ Has(b, x)
         /\ Once(a) /\ Once(b) /\ (\A x : ~(Has(a, x) /\ Has(b, x))) => Once(a \o b)
<1> DEFINE m == Len(a)
           n == Len(b)
           c == a \o b
<1>1. /\ m \in Nat /\ n \in Nat /\ Len(c) = m + n
      /\ \A i \in 1..m : c[i] = a[i]
      /\ \A i \in 1..(m + n) : i > m => c[i] = b[i - m]
  OBVIOUS
<1>2. \A i \in 1..n : i + m \in 1..(m + n) /\ i + m > m /\ (i + m) - m = i
  BY <1>1
<1>3. \A i \in 1..(m + n) : i \in 1..m \/ (i > m /\ i - m \in 1..n)
  BY <1>1
<1>4. \A i \in 1..m : i \in 1..(m + n)
  BY <1>1
<1>5. \A i, j \in 1..(m + n) : i - m = j - m => i = j
  BY <1>1
<1>6. \A i \in 1..n : c[i + m] = b[i]
  <2> TAKE i \in 1..n
  <2> HIDE DEF m, n, c
  <2> QED
    BY <1>1, <1>2
<1> HIDE DEF m, n, c
<1>7. \A x : (\E i \in 1..Len(c) : c[i] = x) <=>
               (\E i \in 1..m : a[i] = x) \/ (\E i \in 1..n : b[i] = x)
  <2> TAKE x
  <2>1. ASSUME NEW i \in 1..m, a[i] = x PROVE \E j \in 1..(m + n) : c[j] = x
    BY <1>1, <1>4, <2>1
  <2>2. ASSUME NEW i \in 1..n, b[i] = x PROVE \E j \in 1..(m + n) : c[j] = x
    BY <1>2, <1>6, <2>2
  <2>3. ASSUME NEW j \in 1..(m + n), c[j] = x
        PROVE  (\E i \in 1..m : a[i] = x) \/ (\E i \in 1..n : b[i] = x)
    BY <1>1, <1>3, <2>3
  <2> QED
    BY <1>1, <2>1, <2>2, <2>3
<1>8. ASSUME \A i, j \in 1..m : a[i] = a[j] => i = j,
             \A i, j \in 1..n : b[i] = b[j] => i = j,
             \A i \in 1..m : \A j \in 1..n : a[i] # b[j],
             NEW i \in 1..Len(c), NEW j \in 1..Len(c), c[i] = c[j]
      PROVE  i = j
  <2>1. i \in 1..(m + n) /\ j \in 1..(m + n)
    BY <1>1
  <2>2. CASE i \in 1..m /\ j \in 1..m
    BY <1>1, <1>8, <2>2
  <2>3. CASE i > m /\ i - m \in 1..n /\ j > m /\ j - m \in 1..n
    BY <1>1, <1>5, <1>8, <2>1, <2>3
  <2>4. CASE i \in 1..m /\ j > m /\ j - m \in 1..n
    BY <1>1, <1>8, <2>1, <2>4
  <2>5. CASE j \in 1..m /\ i > m /\ i - m \in 1..n
    BY <1>1, <1>8, <2>1, <2>5
  <2> QED
    BY <1>3, <2>1, <2>2, <2>3, <2>4, <2>5
<1>9. \A x : Has(c, x) <=> Has(a, x) \/ Has(b, x)
  BY <1>7 DEF Has, m, n
<1>10. ASSUME Once(a), Once(b), \A x : ~(Has(a, x) /\ Has(b, x)) PROVE Once(c)
  <2>1. \A i \in 1..m : \A j \in 1..n : a[i] # b[j]
    BY <1>10 DEF Has, m, n
  <2>2. (\A i, j \in 1..m : a[i] = a[j] => i = j) /\ (\A i, j \in 1..n : b[i] = b[j] => i = j)
    BY <1>10 DEF Once, m, n
  <2> QED
    BY <1>8, <2>1, <2>2 DEF Once
<1> QED
  BY <1>9, <1>10 DEF c

\* Things that are in no place yet become free; the list stays, or all of it is deleted.
LEMMA GoneFreed ==
  ASSUME TypeOK, GoneOnce, NEW X \in SUBSET Tables, \A x \in X : ~Gone(x),
         data' = data, freed' = freed \cup X,
         \/ UNCHANGED <<list, deleted>>
         \/ deleted' = deleted \o list /\ list' = <<>>
  PROVE  /\ GoneOnce'
         /\ \A b \in Tables : Gone(b)' <=> Gone(b) \/ b \in X
<1>1. CASE UNCHANGED <<list, deleted>>
  <2>1. \A b \in Tables : /\ InDeleted(b)' <=> InDeleted(b)
                          /\ InList(b)' <=> InList(b)
                          /\ InData(b)' <=> InData(b)
                          /\ b \in freed' <=> b \in freed \/ b \in X
    BY <1>1 DEF InDeleted, InList, InData
  <2>2. \A b \in Tables : Gone(b)' <=> Gone(b) \/ b \in X
    BY <2>1 DEF Gone
  <2>3. \A b \in Tables : /\ InDeleted(b)' => ~InList(b)' /\ ~InData(b)' /\ b \notin freed'
                          /\ InList(b)' => ~InData(b)' /\ b \notin freed'
                          /\ InData(b)' => b \notin freed'
    BY <2>1 DEF Gone, GoneOnce
  <2>4. /\ Once(deleted') /\ Once(list')
        /\ \A t, u \in Threads : t # u /\ data'[t] = data'[u] => data'[t] = NULL
    BY <1>1 DEF GoneOnce
  <2> QED
    BY <2>2, <2>3, <2>4 DEF GoneOnce
<1>2. CASE deleted' = deleted \o list /\ list' = <<>>
  <2>0. list \in Seq(Tables) /\ deleted \in Seq(Tables)
    BY DEF TypeOK
  <2>a. \A x : ~(Has(deleted, x) /\ Has(list, x))
    <3>1. \A x : Has(deleted, x) => x \in Tables
      BY <2>0 DEF Has
    <3> QED
      BY <3>1 DEF GoneOnce, InDeleted, InList
  <2>b. (\A x : ~Has(list', x)) /\ Once(list')
    BY <1>2 DEF Has, Once
  <2>c. /\ \A x : Has(deleted', x) <=> Has(deleted, x) \/ Has(list, x)
        /\ Once(deleted')
    BY <1>2, <2>0, <2>a, JoinOnce DEF GoneOnce
  <2>1. \A b \in Tables : /\ InDeleted(b)' <=> InDeleted(b) \/ InList(b)
                          /\ ~InList(b)'
                          /\ InData(b)' <=> InData(b)
                          /\ b \in freed' <=> b \in freed \/ b \in X
    BY <2>b, <2>c DEF InDeleted, InList, InData
  <2>2. \A b \in Tables : Gone(b)' <=> Gone(b) \/ b \in X
    BY <2>1 DEF Gone
  <2>3. \A b \in Tables : /\ InDeleted(b)' => ~InList(b)' /\ ~InData(b)' /\ b \notin freed'
                          /\ InList(b)' => ~InData(b)' /\ b \notin freed'
                          /\ InData(b)' => b \notin freed'
    BY <2>1 DEF Gone, GoneOnce
  <2>4. \A t, u \in Threads : t # u /\ data'[t] = data'[u] => data'[t] = NULL
    BY DEF GoneOnce
  <2> QED
    BY <2>b, <2>c, <2>2, <2>3, <2>4 DEF GoneOnce
<1> QED
  BY <1>1, <1>2

\* A thread pushes what it retires.
LEMMA GonePushed ==
  ASSUME TypeOK, GoneOnce, NEW t \in Threads, data[t] \in Tables, freed' = freed, PushRetire(t)
  PROVE  /\ GoneOnce'
         /\ \A b \in Tables : Gone(b)' <=> Gone(b)
<1>0. list \in Seq(Tables) /\ <<data[t]>> \in Seq(Tables) /\ NULL \notin Tables
  <2>1. list \in Seq(Tables) /\ NULL \notin Tables
    BY TablesAre DEF TypeOK
  <2>2. <<data[t]>> \in Seq(Tables)
    OBVIOUS
  <2> QED
    BY <2>1, <2>2
<1>1. /\ list' = <<data[t]>> \o list /\ deleted' = deleted
      /\ \A u \in Threads : data'[u] = IF u = t THEN NULL ELSE data[u]
  BY DEF PushRetire, TypeOK
<1>2. Once(<<data[t]>>) /\ \A x : Has(<<data[t]>>, x) <=> x = data[t]
  <2>1. Len(<<data[t]>>) = 1 /\ <<data[t]>>[1] = data[t]
    OBVIOUS
  <2>2. \A i \in 1..1 : i = 1
    OBVIOUS
  <2>3. 1 \in 1..1
    OBVIOUS
  <2> QED
    BY <2>1, <2>2, <2>3 DEF Once, Has
<1>4. InData(data[t]) /\ ~Has(list, data[t])
  BY DEF InData, InList, GoneOnce
<1>3. Once(list') /\ \A x : Has(list', x) <=> x = data[t] \/ Has(list, x)
  <2>1. PICK one \in Seq(Tables) : one = <<data[t]>>
    BY <1>0
  <2>2. Once(one) /\ Once(list) /\ \A x : Has(one, x) <=> x = data[t]
    BY <1>2, <2>1 DEF GoneOnce
  <2>3. \A x : ~(Has(one, x) /\ Has(list, x))
    BY <1>4, <2>2
  <2>4. Once(one \o list) /\ \A x : Has(one \o list, x) <=> Has(one, x) \/ Has(list, x)
    BY <1>0, <2>2, <2>3, JoinOnce
  <2>5. list' = one \o list
    BY <1>1, <2>1
  <2> QED
    BY <2>2, <2>4, <2>5
<1>5. \A b \in Tables : /\ InDeleted(b)' <=> InDeleted(b)
                        /\ InList(b)' <=> InList(b) \/ b = data[t]
                        /\ InData(b)' <=> InData(b) /\ b # data[t]
  <2> TAKE b \in Tables
  <2>1. InDeleted(b)' <=> InDeleted(b)
    BY <1>1 DEF InDeleted
  <2>2. InList(b)' <=> InList(b) \/ b = data[t]
    BY <1>3 DEF InList
  <2>3. InData(b)' <=> InData(b) /\ b # data[t]
    <3>1. ASSUME NEW u \in Threads, data'[u] = b PROVE data[u] = b /\ b # data[t]
      BY <1>0, <1>1, <3>1 DEF GoneOnce
    <3>2. ASSUME NEW u \in Threads, data[u] = b, b # data[t] PROVE data'[u] = b
      BY <1>1, <3>2
    <3> QED
      BY <3>1, <3>2 DEF InData
  <2> QED
    BY <2>1, <2>2, <2>3
<1>6. \A b \in Tables : Gone(b)' <=> Gone(b)
  BY <1>4, <1>5 DEF Gone
<1>7. \A b \in Tables : /\ InDeleted(b)' => ~InList(b)' /\ ~InData(b)' /\ b \notin freed'
                        /\ InList(b)' => ~InData(b)' /\ b \notin freed'
                        /\ InData(b)' => b \notin freed'
  BY <1>4, <1>5 DEF GoneOnce
<1>9. \A u, v \in Threads : u # v /\ data'[u] = data'[v] => data'[u] = NULL
  BY <1>1 DEF GoneOnce
<1>10. Once(deleted')
  BY <1>1 DEF GoneOnce
<1> QED
  BY <1>3, <1>6, <1>7, <1>9, <1>10 DEF GoneOnce

\* A thread is about to retire the table that it has replaced.
LEMMA GoneRetired ==
  ASSUME TypeOK, GoneOnce, NEW t \in Threads, NEW x \in Tables, ~Gone(x), data[t] = NULL,
         data' = [data EXCEPT ![t] = x], UNCHANGED <<list, deleted, freed>>
  PROVE  /\ GoneOnce'
         /\ \A b \in Tables : Gone(b)' <=> Gone(b) \/ b = x
<1>0. NULL \notin Tables
  BY TablesAre
<1>1. \A u \in Threads : data'[u] = IF u = t THEN x ELSE data[u]
  BY DEF TypeOK
<1>2. \A b \in Tables : /\ InDeleted(b)' <=> InDeleted(b)
                        /\ InList(b)' <=> InList(b)
                        /\ InData(b)' <=> InData(b) \/ b = x
  <2> TAKE b \in Tables
  <2>1. (InDeleted(b)' <=> InDeleted(b)) /\ (InList(b)' <=> InList(b))
    BY DEF InDeleted, InList
  <2>2. ASSUME NEW u \in Threads, data'[u] = b PROVE data[u] = b \/ b = x
    BY <1>1, <2>2
  <2>3. ASSUME NEW u \in Threads, data[u] = b PROVE data'[u] = b
    BY <1>0, <1>1, <2>3
  <2>4. data'[t] = x
    BY <1>1
  <2> QED
    BY <2>1, <2>2, <2>3, <2>4 DEF InData
<1>3. \A b \in Tables : Gone(b)' <=> Gone(b) \/ b = x
  BY <1>2 DEF Gone
<1>4. \A b \in Tables : /\ InDeleted(b)' => ~InList(b)' /\ ~InData(b)' /\ b \notin freed'
                        /\ InList(b)' => ~InData(b)' /\ b \notin freed'
                        /\ InData(b)' => b \notin freed'
  BY <1>2 DEF GoneOnce, Gone
<1>5. \A u, v \in Threads : u # v /\ data'[u] = data'[v] => data'[u] = NULL
  <2>1. \A u \in Threads : data[u] # x
    BY DEF Gone, InData
  <2> QED
    BY <1>1, <2>1 DEF GoneOnce
<1>6. Once(list') /\ Once(deleted')
  BY DEF GoneOnce
<1> QED
  BY <1>3, <1>4, <1>5, <1>6 DEF GoneOnce

LEMMA OnceNext ==
  ASSUME VectorInv, Next, TypeOK'
  PROVE  TablesOnce'
<1>0. TypeOK /\ LocalsFit /\ TablesPrivate /\ DeadTogether /\ GoneExactly /\ GoneOnce
  BY DEF VectorInv, TablesOnce
<1>a. /\ Tables = 0..MaxTables /\ Tables \subseteq Nat /\ MaxTables \in Nat
      /\ table \in Tables /\ table_count \in Tables /\ 0..table_count \subseteq Tables
      /\ \A u \in Threads : new_table[u] \in Tables /\ old_table[u] \in Tables
      /\ NULL \notin Tables
      /\ \A b \in Tables : b \in 0..table_count <=> b <= table_count
  <2>1. /\ Tables = 0..MaxTables /\ Tables \subseteq Nat /\ MaxTables \in Nat
        /\ table \in Tables /\ table_count \in Tables
        /\ \A u \in Threads : new_table[u] \in Tables /\ old_table[u] \in Tables
        /\ NULL \notin Tables
    BY <1>0, TablesAre DEF Tables
  <2>2. 0..table_count \subseteq Tables
    BY <2>1
  <2>3. \A b \in Tables : b \in 0..table_count <=> b <= table_count
    BY <2>1
  <2> QED
    BY <2>1, <2>2, <2>3
<1>b. ASSUME NEW t \in Threads, pc[t] \notin RetireLabels PROVE data[t] = NULL
  BY <1>0, <1>b DEF LocalsFit, LocalFits
\* Nothing is gone that was not, and the same tables are in use.
<1>c. ASSUME UNCHANGED <<table, table_count>>, Alive' <=> Alive, DeadTogether', GoneOnce',
             \A b \in Tables : Gone(b)' <=> Gone(b),
             \A b \in Tables : Private(b)' <=> Private(b)
      PROVE  TablesOnce'
  BY <1>0, <1>a, <1>c DEF TablesOnce, GoneExactly
<1>d. ASSUME UNCHANGED <<list, deleted, data, freed>>
      PROVE  GoneOnce' /\ \A b \in Tables : Gone(b)' <=> Gone(b)
  <2>1. freed' = freed \cup {} /\ {} \in SUBSET Tables
    BY <1>d
  <2> QED
    BY <1>0, <1>d, <2>1, GoneFreed
<1>1. ASSUME NEW t \in Threads, NEW n \in 1..MaxShardNum, EnsureEnough(t, n) PROVE TablesOnce'
  <2>1. UNCHANGED <<table, table_count, list, deleted, data, freed, pc>> /\ pc[t] = "idle"
        /\ new_table' = [new_table EXCEPT ![t] = 0]
    BY <1>1, EnoughDoes
  <2>2. new_table[t] = 0 /\ ~Private(0)
    BY <1>0, <2>1 DEF TypeOK, Private
  <2>3. \A b \in Tables : Private(b)' <=> Private(b)
    BY <1>0, <2>1, <2>2, PrivateLess
  <2>4. (Alive' <=> Alive) /\ DeadTogether'
    BY <1>0, <2>1 DEF Alive, DeadTogether
  <2> QED
    BY <1>c, <1>d, <2>1, <2>3, <2>4
<1>2. ASSUME NEW t \in Threads, NEW n \in 1..MaxShardNum, EnsureGrow(t, n) PROVE TablesOnce'
  <2>1. /\ UNCHANGED <<list, deleted, data, table, freed>>
        /\ pc[t] = "idle" /\ pc' = [pc EXCEPT ![t] = "build"]
        /\ table_count' = table_count + 1
        /\ new_table' = [new_table EXCEPT ![t] = table_count + 1]
    BY <1>2, GrowDoes
  <2>2. Alive /\ Alive' /\ DeadTogether'
    BY <1>0, <2>1, ActorAlive DEF Labels, TablesOnce
  <2>3. GoneOnce' /\ \A b \in Tables : Gone(b)' <=> Gone(b)
    BY <1>d, <2>1
  <2>4. /\ table_count + 1 \in Tables /\ table_count + 1 # 0
        /\ \A b \in Tables : b <= table_count => b <= table_count + 1 /\ b # table_count + 1
        /\ \A b \in 0..(table_count + 1) : b \in 0..table_count \/ b = table_count + 1
        /\ ~(table_count + 1 <= table_count)
    BY <1>0, <1>2, <1>a, GrowDoes
  <2>5. \A u \in Threads : new_table'[u] = IF u = t THEN table_count + 1 ELSE new_table[u]
    BY <1>0, <2>1 DEF TypeOK
  <2>6. new_table[t] = 0
    BY <1>0, <2>1 DEF TypeOK
  <2>7. \A b \in Tables : b <= table_count => (Private(b)' <=> Private(b))
    <3>1. ASSUME NEW b \in Tables, b <= table_count
          PROVE  (\E u \in Threads : new_table'[u] = b /\ b # 0) <=>
                 (\E u \in Threads : new_table[u] = b /\ b # 0)
      <4>1. ASSUME NEW u \in Threads, new_table'[u] = b PROVE new_table[u] = b
        BY <2>4, <2>5, <3>1, <4>1
      <4>2. ASSUME NEW u \in Threads, new_table[u] = b, b # 0 PROVE new_table'[u] = b
        BY <2>5, <2>6, <4>2
      <4> QED
        BY <4>1, <4>2
    <3> QED
      BY <3>1 DEF Private
  <2>8. \A b \in Tables : Gone(b)' => b <= table_count'
    BY <1>0, <2>1, <2>3, <2>4 DEF GoneExactly
  <2>9. \A b \in 0..table_count' : Gone(b)' <=> ~(b = table' /\ Alive') /\ ~Private(b)'
    <3> TAKE b \in 0..table_count'
    <3>1. CASE b \in 0..table_count
      BY <1>0, <1>a, <2>1, <2>2, <2>3, <2>7, <3>1 DEF GoneExactly
    <3>2. CASE b = table_count + 1
      <4>1. ~Gone(b) /\ b \in Tables
        BY <1>0, <2>4, <3>2 DEF GoneExactly
      <4>2. \E u \in Threads : new_table'[u] = b /\ b # 0
        BY <2>4, <2>5, <3>2
      <4> QED
        BY <2>3, <4>1, <4>2 DEF Private
    <3> QED
      BY <2>1, <2>4, <3>1, <3>2
  <2> QED
    BY <2>2, <2>3, <2>8, <2>9 DEF TablesOnce, GoneExactly
<1>3. ASSUME NEW t \in Threads, Build(t) PROVE TablesOnce'
  <2>1. /\ UNCHANGED <<table, table_count, list, deleted, data, freed, new_table>>
        /\ pc[t] = "build" /\ pc' = [pc EXCEPT ![t] = "install"]
    BY <1>3, BuildDoes
  <2>2. Alive /\ Alive' /\ DeadTogether'
    BY <1>0, <2>1, ActorAlive DEF Labels, TablesOnce
  <2>3. \A b \in Tables : Private(b)' <=> Private(b)
    BY <2>1 DEF Private
  <2> QED
    BY <1>c, <1>d, <2>1, <2>2, <2>3
<1>4. ASSUME NEW t \in Threads, Install(t) PROVE TablesOnce'
  <2>1. /\ UNCHANGED <<list, deleted, freed, table_count>>
        /\ pc[t] = "install" /\ pc' = [pc EXCEPT ![t] = "retire"]
        /\ table' = new_table[t] /\ data' = [data EXCEPT ![t] = table]
        /\ new_table' = [new_table EXCEPT ![t] = 0]
    BY <1>4, InstallDoes
  <2>2. Alive /\ Alive' /\ DeadTogether'
    BY <1>0, <2>1, ActorAlive DEF Labels, TablesOnce
  <2>3. /\ ~Gone(table) /\ ~Private(table) /\ table \in 0..table_count
        /\ Private(new_table[t]) /\ new_table[t] \in 0..table_count
    <3>1. table \in 0..table_count /\ new_table[t] \in 0..table_count
      BY <1>0, <1>a DEF TablesPrivate
    <3>2. new_table[t] # 0
      BY <1>0, <2>1 DEF TypeOK
    <3> QED
      BY <1>0, <2>2, <3>1, <3>2 DEF GoneExactly, TablesPrivate, Private
  <2>4. data[t] = NULL
    BY <1>b, <2>1 DEF RetireLabels
  <2>5. GoneOnce' /\ \A b \in Tables : Gone(b)' <=> Gone(b) \/ b = table
    BY <1>0, <1>a, <2>1, <2>3, <2>4, GoneRetired
  <2>6. \A b \in Tables : Private(b)' <=> Private(b) /\ b # new_table[t]
    BY <1>0, <2>1, PrivateLess
  <2>7. \A b \in Tables : Gone(b)' => b <= table_count'
    BY <1>0, <1>a, <2>1, <2>3, <2>5 DEF GoneExactly
  <2>8. \A b \in 0..table_count' : Gone(b)' <=> ~(b = table' /\ Alive') /\ ~Private(b)'
    BY <1>0, <1>a, <2>1, <2>2, <2>3, <2>5, <2>6 DEF GoneExactly
  <2> QED
    BY <2>2, <2>5, <2>7, <2>8 DEF TablesOnce, GoneExactly
<1>5. ASSUME NEW t \in Threads, InstallFails(t), IsEnough(t) PROVE TablesOnce'
  <2>1. /\ UNCHANGED <<list, deleted, data, table, table_count>>
        /\ pc[t] = "install" /\ pc' = [pc EXCEPT ![t] = "idle"]
        /\ freed' = freed \cup {new_table[t]}
        /\ new_table' = [new_table EXCEPT ![t] = 0]
    BY <1>5, FailsDoes
  <2>2. Alive /\ Alive' /\ DeadTogether'
    BY <1>0, <2>1, ActorAlive DEF Labels, TablesOnce
  <2>3. /\ ~Gone(new_table[t]) /\ Private(new_table[t]) /\ new_table[t] \in 0..table_count
        /\ ~Private(table)
    <3>1. new_table[t] \in 0..table_count
      BY <1>0, <1>a DEF TablesPrivate
    <3>2. new_table[t] # 0
      BY <1>0, <2>1 DEF TypeOK
    <3> QED
      BY <1>0, <2>2, <3>1, <3>2 DEF GoneExactly, TablesPrivate, Private
  <2>4. GoneOnce' /\ \A b \in Tables : Gone(b)' <=> Gone(b) \/ b \in {new_table[t]}
    <3>1. {new_table[t]} \in SUBSET Tables /\ \A x \in {new_table[t]} : ~Gone(x)
      BY <1>a, <2>3
    <3> QED
      BY <1>0, <2>1, <3>1, GoneFreed
  <2>5. \A b \in Tables : Private(b)' <=> Private(b) /\ b # new_table[t]
    BY <1>0, <2>1, PrivateLess
  <2>6. \A b \in Tables : Gone(b)' => b <= table_count'
    BY <1>0, <1>a, <2>1, <2>3, <2>4 DEF GoneExactly
  <2>7. \A b \in 0..table_count' : Gone(b)' <=> ~(b = table' /\ Alive') /\ ~Private(b)'
    BY <1>0, <1>a, <2>1, <2>2, <2>3, <2>4, <2>5 DEF GoneExactly
  <2> QED
    BY <2>2, <2>4, <2>6, <2>7 DEF TablesOnce, GoneExactly
<1>6. ASSUME NEW t \in Threads, InstallFails(t), ~IsEnough(t) PROVE TablesOnce'
  <2>1. /\ UNCHANGED <<table, table_count, list, deleted, data, freed, new_table>>
        /\ pc[t] = "install" /\ pc' = [pc EXCEPT ![t] = "build"]
    BY <1>6, FailsDoes
  <2>2. Alive /\ Alive' /\ DeadTogether'
    BY <1>0, <2>1, ActorAlive DEF Labels, TablesOnce
  <2>3. \A b \in Tables : Private(b)' <=> Private(b)
    BY <2>1 DEF Private
  <2> QED
    BY <1>c, <1>d, <2>1, <2>2, <2>3
<1>7. ASSUME NEW t \in Threads, RetireStep(t), UNCHANGED vectorVars PROVE TablesOnce'
  <2>1. UNCHANGED <<table, table_count, new_table, freed>>
    BY <1>7 DEF vectorVars
  <2>2. /\ pc[t] \in RetireLabels
        /\ QuietRetire(t) \/ DropRetire(t) \/ PushRetire(t)
        /\ \E l \in Labels \ {"dead"} : pc' = [pc EXCEPT ![t] = l]
    BY <1>0, <1>7, RetireFrame DEF RetireLabels, Labels
  <2>3. Alive /\ Alive' /\ DeadTogether'
    BY <1>0, <2>2, ActorAlive DEF TablesOnce, RetireLabels
  <2>4. \A b \in Tables : Private(b)' <=> Private(b)
    BY <2>1 DEF Private
  <2>5. GoneOnce' /\ \A b \in Tables : Gone(b)' <=> Gone(b)
    <3>1. CASE QuietRetire(t)
      BY <1>d, <2>1, <3>1 DEF QuietRetire
    <3>2. CASE DropRetire(t)
      <4>1. freed' = freed \cup {} /\ {} \in SUBSET Tables
        BY <2>1
      <4> QED
        BY <1>0, <3>2, <4>1, GoneFreed DEF DropRetire
    <3>3. CASE PushRetire(t)
      <4>1. data[t] \in Tables
        BY <1>0, <2>2 DEF LocalsFit, LocalFits, TypeOK
      <4> QED
        BY <1>0, <2>1, <3>3, <4>1, GonePushed
    <3> QED
      BY <2>2, <3>1, <3>2, <3>3
  <2> QED
    BY <1>c, <2>1, <2>3, <2>4, <2>5
<1>8. ASSUME Tick, UNCHANGED vectorVars PROVE TablesOnce'
  <2>1. UNCHANGED <<table, table_count, list, deleted, data, freed, new_table, pc>>
    BY <1>8 DEF vectorVars, Tick
  <2>2. (Alive' <=> Alive) /\ DeadTogether' /\ \A b \in Tables : Private(b)' <=> Private(b)
    BY <1>0, <2>1 DEF Alive, DeadTogether, Private
  <2> QED
    BY <1>c, <1>d, <2>1, <2>2
<1>9. ASSUME Destroy PROVE TablesOnce'
  <2>1. /\ UNCHANGED <<table, table_count, data, new_table>>
        /\ freed' = freed \cup {table}
        /\ \/ UNCHANGED <<list, deleted>>
           \/ deleted' = deleted \o list /\ list' = <<>>
        /\ \A u \in Threads : pc[u] = "idle" /\ pc'[u] = "dead"
    BY <1>9 DEF Destroy
  <2>2. Alive /\ ~Alive' /\ DeadTogether'
    BY <2>1, VectorAssumption DEF Alive, DeadTogether
  <2>3. ~Gone(table) /\ table \in 0..table_count
    BY <1>0, <1>a, <2>2 DEF GoneExactly, TablesPrivate
  <2>4. GoneOnce' /\ \A b \in Tables : Gone(b)' <=> Gone(b) \/ b \in {table}
    <3>1. {table} \in SUBSET Tables /\ \A x \in {table} : ~Gone(x)
      BY <1>a, <2>3
    <3> QED
      BY <1>0, <2>1, <3>1, GoneFreed
  <2>5. \A b \in Tables : (Private(b)' <=> Private(b)) /\ ~Private(table)
    BY <1>0, <2>1 DEF Private, TablesPrivate
  <2>6. \A b \in Tables : Gone(b)' => b <= table_count'
    BY <1>0, <1>a, <2>1, <2>3, <2>4 DEF GoneExactly
  <2>7. \A b \in 0..table_count' : Gone(b)' <=> ~(b = table' /\ Alive') /\ ~Private(b)'
    BY <1>0, <1>a, <2>1, <2>2, <2>3, <2>4, <2>5 DEF GoneExactly
  <2> QED
    BY <2>2, <2>4, <2>6, <2>7 DEF TablesOnce, GoneExactly
<1> QED
  BY <1>1, <1>2, <1>3, <1>4, <1>5, <1>6, <1>7, <1>8, <1>9 DEF Next

-----------------------------------------------------------------------------
(* The theorems.                                                           *)

LEMMA VectorInit == Init => VectorInv
<1> SUFFICES ASSUME Init PROVE VectorInv
  OBVIOUS
<1>1. TypeOK
  BY TypeInit
<1>2. /\ list = <<>> /\ deleted = <<>> /\ freed = {} /\ dead_shards = {}
      /\ table = 0 /\ table_count = 0 /\ shard_count = 0
      /\ \A b \in Tables : shards[b] = <<>>
      /\ \A t \in Threads : /\ pc[t] = "idle" /\ data[t] = NULL /\ shard_num[t] = 0
                            /\ old_table[t] = 0 /\ new_table[t] = 0 /\ result[t] = 0
  BY DEF Init, RetireInit
<1>3. 0 \in Tables /\ NULL \notin Tables /\ Len(shards[0]) = 0 /\ Len(list) = 0 /\ Len(deleted) = 0
  BY <1>1, <1>2, TablesAre
<1>4. LocalsFit
  <2> SUFFICES ASSUME NEW t \in Threads PROVE LocalFits(t)
    BY DEF LocalsFit
  <2>1. pc[t] = "idle" /\ data[t] = NULL /\ shard_num[t] = 0 /\ result[t] = 0
    BY <1>2
  <2>2. Len(shards[result[t]]) >= shard_num[t]
    BY <1>3, <2>1
  <2> QED
    BY <2>1, <2>2 DEF LocalFits, Building, RetireLabels
<1>5. TablesPrivate
  BY <1>2 DEF TablesPrivate, Private
<1>6. ShardsFresh
  <2>1. \A b \in Tables : Len(shards[b]) = 0
    BY <1>2
  <2> QED
    BY <1>2, <2>1 DEF ShardsFresh, OwnFresh
<1>7. NoDeadShard
  BY <1>2 DEF NoDeadShard
<1>8. \A b \in Tables : ~Gone(b)
  BY <1>2, <1>3 DEF Gone, InDeleted, InList, InData, Has
<1>9. TablesOnce
  <2>1. DeadTogether /\ Alive
    BY <1>2 DEF DeadTogether, Alive
  <2>2. GoneExactly
    <3>1. \A b \in 0..table_count : b = table /\ b \in Tables
      BY <1>2, <1>3
    <3> QED
      BY <1>8, <2>1, <3>1 DEF GoneExactly
  <2>3. GoneOnce
    BY <1>2, <1>3, <1>8 DEF GoneOnce, Gone, Once
  <2> QED
    BY <2>1, <2>2, <2>3 DEF TablesOnce
<1> QED
  BY <1>1, <1>4, <1>5, <1>6, <1>7, <1>9 DEF VectorInv

LEMMA TypeNext == ASSUME VectorInv, Next PROVE TypeOK'
<1>1. TypeOK /\ LocalsFit
  BY DEF VectorInv
<1> QED
  BY <1>1, TypeEnsure, TypeGrow, TypeRetire, TypeTick, TypeDestroy DEF Next

LEMMA VectorStep == VectorInv /\ [Next]_vars => VectorInv'
<1> SUFFICES ASSUME VectorInv, [Next]_vars PROVE VectorInv'
  OBVIOUS
<1>1. CASE Next
  BY <1>1, TypeNext, LocalsNext, PrivateNext, FreshNext, DeadNext, OnceNext DEF VectorInv
<1>2. CASE UNCHANGED vars
  <2>1. UNCHANGED <<clock, list, stamp, deleted, pc, data, now, old_head>>
    BY <1>2 DEF vars, retireVars
  <2>2. UNCHANGED <<table, shards, table_count, shard_count, dead_shards, freed, shard_num,
                    old_table, new_table, old_shard_num, result>>
    BY <1>2 DEF vars, vectorVars
  <2>3. TypeOK'
    BY <2>1, <2>2 DEF VectorInv, TypeOK
  <2>4. LocalsFit' /\ TablesPrivate'
    BY <2>1, <2>2 DEF VectorInv, LocalsFit, LocalFits, Building, TablesPrivate, Private
  <2>5. ShardsFresh' /\ NoDeadShard'
    BY <2>1, <2>2 DEF VectorInv, ShardsFresh, OwnFresh, NoDeadShard
  <2>6. TablesOnce'
    BY <2>1, <2>2 DEF VectorInv, TablesOnce, DeadTogether, GoneExactly, GoneOnce, Gone, InDeleted,
       InList, InData, Alive, Private
  <2> QED
    BY <2>3, <2>4, <2>5, <2>6 DEF VectorInv
<1> QED
  BY <1>1, <1>2

\* The inductive invariant of ensure_table and of the retirement of old tables holds
\* for any number of threads, tables and shards.
THEOREM VectorInvariance == Spec => []VectorInv
<1> QED
  BY VectorInit, VectorStep, PTL DEF Spec

\* ensure_table always leaves the vector usable: no shard of the current table has been
\* destroyed by a thread that lost the race to install its own, and the table it returns
\* has at least the shards asked for.
THEOREM VectorStaysUsable == Spec => []VectorUsable
<1>1. VectorInv => VectorUsable
  <2> SUFFICES ASSUME VectorInv PROVE VectorUsable
    OBVIOUS
  <2>1. Suffices
    BY DEF VectorInv, LocalsFit, LocalFits, Building, Suffices
  <2> QED
    BY <2>1 DEF VectorInv, VectorUsable
<1> QED
  BY <1>1, VectorInvariance, PTL

\* In how many ways a table that is gone in at most one way is gone.
LEMMA DeletionsOf ==
  ASSUME TypeOK, GoneOnce, NEW b \in Tables
  PROVE  Deletions(b) = IF Gone(b) THEN 1 ELSE 0
<1> DEFINE D == {i \in 1..Len(deleted) : deleted[i] = b}
           L == {i \in 1..Len(list) : list[i] = b}
           H == {t \in Threads : data[t] = b}
<1>1. Deletions(b) = Cardinality(D) + Cardinality(L) + Cardinality(H)
                     + (IF b \in freed THEN 1 ELSE 0)
  BY DEF Deletions
<1>2. /\ InDeleted(b) <=> D # {}
      /\ InList(b) <=> L # {}
      /\ InData(b) <=> H # {}
  BY DEF InDeleted, InList, InData, Has
<1>3. (\A x, y \in D : x = y) /\ (\A x, y \in L : x = y) /\ (\A x, y \in H : x = y)
  <2>1. (\A x, y \in D : x = y) /\ (\A x, y \in L : x = y)
    BY DEF GoneOnce, Once
  <2>2. NULL # b
    BY TablesAre
  <2>3. \A x, y \in H : x = y
    BY <2>2 DEF GoneOnce
  <2> QED
    BY <2>1, <2>3
<1> HIDE DEF D, L, H
<1>4. ASSUME NEW S, \A x, y \in S : x = y
      PROVE  Cardinality(S) = IF S = {} THEN 0 ELSE 1
  <2>1. CASE S = {}
    BY <2>1, FS_EmptySet
  <2>2. ASSUME NEW x \in S PROVE S = {x}
    BY <1>4, <2>2
  <2>3. \A x : Cardinality({x}) = 1
    BY FS_Singleton
  <2> QED
    BY <2>1, <2>2, <2>3
<1>5. /\ Cardinality(D) = IF D = {} THEN 0 ELSE 1
      /\ Cardinality(L) = IF L = {} THEN 0 ELSE 1
      /\ Cardinality(H) = IF H = {} THEN 0 ELSE 1
  BY <1>3, <1>4
<1>6. /\ InDeleted(b) => ~InList(b) /\ ~InData(b) /\ b \notin freed
      /\ InList(b) => ~InData(b) /\ b \notin freed
      /\ InData(b) => b \notin freed
  BY DEF GoneOnce
<1> QED
  BY <1>1, <1>2, <1>5, <1>6 DEF Gone

\* No table is deleted twice and none is forgotten, whichever threads win and lose the
\* race to install theirs and however their steps mix with those of the RetireList.
THEOREM TablesAreDeletedOnce == Spec => []TableDeletedOnce
<1>1. VectorInv => TableDeletedOnce
  <2> SUFFICES ASSUME VectorInv, NEW b \in 0..table_count
               PROVE  Deletions(b) =
                        IF \/ b = table /\ \A t \in Threads : pc[t] # "dead"
                           \/ \E t \in Threads : new_table[t] = b /\ b # 0
                        THEN 0 ELSE 1
    BY DEF TableDeletedOnce
  <2>1. TypeOK /\ GoneOnce /\ GoneExactly
    BY DEF VectorInv, TablesOnce
  <2>2. b \in Tables
    BY <2>1, VectorAssumption DEF TypeOK, Tables
  <2>3. Deletions(b) = IF Gone(b) THEN 1 ELSE 0
    BY <2>1, <2>2, DeletionsOf
  <2>4. Gone(b) <=> ~(b = table /\ \A t \in Threads : pc[t] # "dead")
                    /\ ~(\E t \in Threads : new_table[t] = b /\ b # 0)
    BY <2>1 DEF GoneExactly, Alive, Private
  <2> QED
    BY <2>3, <2>4
<1> QED
  BY <1>1, VectorInvariance, PTL

\* The current table never gets shorter.
LEMMA LengthStep ==
  ASSUME VectorInv, [Next]_vars
  PROVE  Len(shards'[table']) >= Len(shards[table])
<1>0. TypeOK /\ LocalsFit /\ TablesPrivate
  BY DEF VectorInv
<1>1. Len(shards[table]) \in Nat /\ table \in Tables
  BY <1>0, ShardTypes DEF TypeOK
<1>2. ASSUME shards'[table'] = shards[table] PROVE Len(shards'[table']) >= Len(shards[table])
  BY <1>1, <1>2
<1>3. ASSUME NEW t \in Threads, Install(t) PROVE Len(shards'[table']) >= Len(shards[table])
  <2>1. /\ Len(shards[new_table[t]]) = shard_num[t]
        /\ Len(shards[old_table[t]]) <= shard_num[t]
    BY <1>0, <1>3, InstallDoes DEF LocalsFit, LocalFits, Building
  <2> QED
    BY <1>3, <2>1, InstallDoes
<1>4. ASSUME NEW t \in Threads, Build(t) PROVE shards'[table'] = shards[table]
  BY <1>0, <1>1, <1>4, BuildDoes, BuildFrame
<1>5. ASSUME NEW t \in Threads, NEW n \in 1..MaxShardNum, EnsureEnough(t, n) \/ EnsureGrow(t, n)
      PROVE  shards'[table'] = shards[table]
  BY <1>5, EnoughDoes, GrowDoes
<1>6. ASSUME NEW t \in Threads, InstallFails(t) PROVE shards'[table'] = shards[table]
  BY <1>6, FailsDoes
<1>7. ASSUME Destroy \/ UNCHANGED vectorVars \/ UNCHANGED vars PROVE shards'[table'] = shards[table]
  BY <1>7 DEF Destroy, vars, vectorVars
<1> QED
  BY <1>2, <1>3, <1>4, <1>5, <1>6, <1>7 DEF Next

\* The vector never shrinks, whichever of several growing threads is last.
THEOREM VectorNeverShrinks == Spec => NeverShrinks
<1>1. VectorInv /\ [Next]_vars => [Len(shards'[table']) >= Len(shards[table])]_vars
  BY LengthStep
<1> QED
  BY <1>1, VectorInvariance, PTL DEF Spec, NeverShrinks
=============================================================================
