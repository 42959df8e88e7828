SPECIFICATION Spec
CONSTANTS
  t1 = t1  t2 = t2  t3 = t3
  NULL = NULL
  Threads = {t1, t2}
  TimeMod = 3
  MaxTime = 3
  MaxShardNum = 3
  MaxTables = 4
  MaxShards = 7
SYMMETRY Symmetry
INVARIANTS TableDeletedOnce VectorUsable
PROPERTIES NeverShrinks
CHECK_DEADLOCK FALSE
