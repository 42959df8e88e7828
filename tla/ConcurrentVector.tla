-------------------------- MODULE ConcurrentVector --------------------------
(***************************************************************************)
(* ConcurrentVector (src/concurrent/vector.h, vector.hpp): elements live   *)
(* in shards, and a table lists the shards.  ensure_table replaces the     *)
(* table by a longer one that starts with the old one's shards; the old    *)
(* table goes to the RetireList.                                           *)
(*                                                                         *)
(* Tables and shards are numbers, in the order of their allocation; table  *)
(* 0 is EMPTY_TABLE.  The elements of a shard are left out: an element is  *)
(* kept as long as its shard is.  A table is not written once published.   *)
(***************************************************************************)
EXTENDS RetireList, FiniteSets, SequencesExt

CONSTANTS
  MaxShardNum,   \* bound: shards asked for
  MaxTables,     \* bound: tables allocated
  MaxShards      \* bound: shards allocated

ASSUME VectorAssumption ==
  /\ Threads # {}
  /\ TimeMod \in Nat \ {0} /\ MaxTime \in Nat
  /\ MaxShardNum \in Nat /\ MaxTables \in Nat /\ MaxShards \in Nat
  /\ NULL \notin 0..MaxTables

Tables == 0..MaxTables
Shards == 1..MaxShards

VARIABLES
  table,          \* _table
  shards,         \* the shards of every table; its shard_num is the length
  table_count,    \* tables allocated
  shard_count,    \* shards allocated
  dead_shards,    \* shards delete_shard has destroyed
  freed,          \* tables ensure_table or the destructor has deleted
  shard_num,      \* ensure_table's argument
  old_table,
  new_table,
  old_shard_num,
  result          \* the table ensure_table returned last

vectorVars == <<table, shards, table_count, shard_count, dead_shards, freed, shard_num,
                old_table, new_table, old_shard_num, result>>
vars == <<retireVars, vectorVars>>

Init ==
  /\ RetireInit
  /\ table = 0
  /\ shards = [b \in Tables |-> <<>>]
  /\ table_count = 0 /\ shard_count = 0
  /\ dead_shards = {} /\ freed = {}
  /\ shard_num = [t \in Threads |-> 0]
  /\ old_table = [t \in Threads |-> 0]
  /\ new_table = [t \in Threads |-> 0]
  /\ old_shard_num = [t \in Threads |-> 0]
  /\ result = [t \in Threads |-> 0]

\* The thread's locals are gone when ensure_table returns table b.
Returns(t, b) ==
  /\ result' = [result EXCEPT ![t] = b]
  /\ old_table' = [old_table EXCEPT ![t] = 0]
  /\ new_table' = [new_table EXCEPT ![t] = 0]
  /\ old_shard_num' = [old_shard_num EXCEPT ![t] = 0]

-----------------------------------------------------------------------------
(* ensure_table, called by ensure, reserve, fill_n and copy_n.             *)

EnsureEnough(t, n) ==
  /\ pc[t] = "idle"
  /\ Len(shards[table]) >= n
  /\ shard_num' = [shard_num EXCEPT ![t] = n]
  /\ Returns(t, table)
  /\ UNCHANGED <<retireVars, table, shards, table_count, shard_count, dead_shards, freed>>

EnsureGrow(t, n) ==
  /\ pc[t] = "idle"
  /\ Len(shards[table]) < n
  /\ table_count < MaxTables
  /\ table_count' = table_count + 1
  /\ shard_num' = [shard_num EXCEPT ![t] = n]
  /\ old_table' = [old_table EXCEPT ![t] = table]
  /\ new_table' = [new_table EXCEPT ![t] = table_count + 1]
  /\ old_shard_num' = [old_shard_num EXCEPT ![t] = Len(shards[table])]
  /\ Goto(t, "build")
  /\ UNCHANGED <<clock, list, stamp, deleted, data, now, old_head, table, shards,
                 shard_count, dead_shards, freed, result>>

\* Copy the old table's shards, then create the ones from old_shard_num on.
Build(t) ==
  LET n == shard_num[t]
      k == old_shard_num[t]
      old == shards[old_table[t]]
  IN  /\ pc[t] = "build"
      /\ shard_count + n - k <= MaxShards
      /\ shards' = [shards EXCEPT ![new_table[t]] =
                      [i \in 1..n |-> IF i > k THEN shard_count + i - k ELSE old[i]]]
      /\ shard_count' = shard_count + n - k
      /\ Goto(t, "install")
      /\ UNCHANGED <<clock, list, stamp, deleted, data, now, old_head, table,
                     table_count, dead_shards, freed, shard_num, old_table, new_table,
                     old_shard_num, result>>

\* Mutation: the new table is stored whatever the current one is.
InstallBlindly(t) ==
  /\ pc[t] = "install"
  /\ table' = new_table[t]
  /\ data' = [data EXCEPT ![t] = old_table[t]]
  /\ Returns(t, new_table[t])
  /\ Goto(t, "retire")
  /\ UNCHANGED <<clock, list, stamp, deleted, now, old_head, shards, table_count,
                 shard_count, dead_shards, freed, shard_num>>

Install(t) ==
  /\ pc[t] = "install" /\ table = old_table[t]
  /\ table' = new_table[t]
  /\ data' = [data EXCEPT ![t] = old_table[t]]
  /\ Returns(t, new_table[t])
  /\ Goto(t, "retire")
  /\ UNCHANGED <<clock, list, stamp, deleted, now, old_head, shards, table_count,
                 shard_count, dead_shards, freed, shard_num>>

\* Mutation: all shards of the new table are destroyed, the copied ones, too.
OwnShardsAll(t) == {shards[new_table[t]][i] : i \in 1..shard_num[t]}

\* The shards the thread created itself.
OwnShards(t) ==
  {shards[new_table[t]][i] : i \in (old_shard_num[t] + 1)..shard_num[t]}

\* The table another thread installed is large enough.
IsEnough(t) == Len(shards[table]) > shard_num[t]

\* Another thread was faster: use its table, or build again on top of it.
InstallFails(t) ==
  /\ pc[t] = "install" /\ table # old_table[t]
  /\ dead_shards' = dead_shards \cup OwnShards(t)
  /\ \/ /\ IsEnough(t)
        /\ freed' = freed \cup {new_table[t]}
        /\ Returns(t, table)
        /\ Goto(t, "idle")
     \/ /\ ~IsEnough(t)
        /\ old_table' = [old_table EXCEPT ![t] = table]
        /\ Goto(t, "build")
        /\ UNCHANGED <<freed, new_table, old_shard_num, result>>
  /\ UNCHANGED <<clock, list, stamp, deleted, data, now, old_head, table, shards,
                 table_count, shard_count, shard_num>>

-----------------------------------------------------------------------------
\* ~ConcurrentVector: the shards, the table, and what is retired (force_gc).
Destroy ==
  /\ \A t \in Threads : pc[t] = "idle"
  /\ dead_shards' = dead_shards \cup Range(shards[table])
  /\ freed' = freed \cup {table}
  /\ \/ deleted' = deleted \o list /\ list' = <<>> /\ stamp' = 0
     \/ UNCHANGED <<deleted, list, stamp>>
  /\ pc' = [t \in Threads |-> "dead"]
  /\ UNCHANGED <<clock, data, now, old_head, table, shards, table_count, shard_count,
                 shard_num, old_table, new_table, old_shard_num, result>>

-----------------------------------------------------------------------------
Next ==
  \/ \E t \in Threads :
       \/ \E n \in 1..MaxShardNum : EnsureEnough(t, n) \/ EnsureGrow(t, n)
       \/ Build(t) \/ Install(t) \/ InstallFails(t)
       \/ RetireStep(t) /\ UNCHANGED vectorVars
  \/ Tick /\ UNCHANGED vectorVars
  \/ Destroy

Spec == Init /\ [][Next]_vars

-----------------------------------------------------------------------------
(* Properties.                                                             *)

\* Every variable has its type; a thread builds only while it has a new table.
TypeOK ==
  /\ clock \in 0..MaxTime
  /\ list \in Seq(Tables) /\ deleted \in Seq(Tables)
  /\ stamp \in 0..(TimeMod - 1)
  /\ pc \in [Threads -> {"idle", "build", "install", "retire", "try_gc", "try_drop",
                         "push", "push_cas", "dead"}]
  /\ data \in [Threads -> Tables \cup {NULL}]
  /\ now \in [Threads -> 0..(TimeMod - 1)]
  /\ old_head \in [Threads -> (Tables \cup {NULL}) \X (0..(TimeMod - 1))]
  /\ table \in Tables
  /\ shards \in [Tables -> Seq(Shards)]
  /\ table_count \in Tables /\ shard_count \in 0..MaxShards
  /\ dead_shards \subseteq Shards /\ freed \subseteq Tables
  /\ shard_num \in [Threads -> 0..MaxShardNum]
  /\ old_table \in [Threads -> Tables]
  /\ new_table \in [Threads -> Tables]
  /\ old_shard_num \in [Threads -> 0..MaxShardNum]
  /\ result \in [Threads -> Tables]
  /\ \A t \in Threads : pc[t] \in {"build", "install"} <=> new_table[t] # 0

\* How often table b was or is going to be deleted.
Deletions(b) ==
  Cardinality({i \in 1..Len(deleted) : deleted[i] = b})
  + Cardinality({i \in 1..Len(list) : list[i] = b})
  + Cardinality({t \in Threads : data[t] = b})
  + (IF b \in freed THEN 1 ELSE 0)

\* No table is deleted twice, and none is forgotten: one that is neither the
\* current table nor under construction is retired or deleted exactly once.
TableDeletedOnce ==
  \A b \in 0..table_count :
    Deletions(b) =
      IF \/ b = table /\ \A t \in Threads : pc[t] # "dead"
         \/ \E t \in Threads : new_table[t] = b /\ b # 0
      THEN 0 ELSE 1

\* No shard of the current table has been destroyed by a thread that lost the
\* race to install its own.
NoDeadShard ==
  (\A t \in Threads : pc[t] # "dead") => Range(shards[table]) \cap dead_shards = {}

\* ensure_table returns a table of at least the size asked for.
Suffices ==
  \A t \in Threads : pc[t] = "idle" => Len(shards[result[t]]) >= shard_num[t]

\* The vector is usable: every variable has its type, the current table holds live
\* shards only, and ensure_table has returned one that is large enough, however
\* many threads lost the race to grow it.
VectorUsable == TypeOK /\ NoDeadShard /\ Suffices

\* The vector never shrinks, whichever of several growing threads is last.
NeverShrinks == [][Len(shards'[table']) >= Len(shards[table])]_vars

\* Growing copies the old data: a shard keeps its place in the table, so that an
\* element once ensured stays where it is.
ShardsKept ==
  [][\A i \in 1..Len(shards[table]) :
       i <= Len(shards'[table']) => shards'[table'][i] = shards[table][i]]_vars
=============================================================================
