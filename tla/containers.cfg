SPECIFICATION MCSpec
CONSTANTS
  Addr = {1, 2, 3, 4, 5, 6}
  t1 = t1  t2 = t2  t3 = t3
  Threads = {t1, t2, t3}
  Pushers = {t1}
  MaxCount = 5
  MaxCalls = 6
  ShardSizes = {0, 1, 2, 3, 4}
  MaxIndex = 10
  Structures = {"spsc", "stack", "queue", "pushes", "list", "ring", "skiplist", "table", "range"}
INVARIANTS MemoryExact NodesInUseKept FoundWasThere
  RingShowsElements SkipListAgrees TableKeepsRows
  CrossingRangeVisited ReservedIsAddressable
PROPERTY ImplementsSequence
CHECK_DEADLOCK FALSE
