CONSTANTS
  k1 = k1
  k2 = k2
  None = None
  Keys = {k1, k2}
  Nodes = {1, 2, 3, 4, 5}
  Lists = {11, 12, 13}
  Writers = {w1, w2}
  Readers = {r1}
  Hash <- MCHash
  InitBuckets = {1}
  Reserves = {2, 8}
  MaxBuckets = 8
  MaxCalls = 3
SPECIFICATION Spec
INVARIANTS FinderOnLiveMemory RefcountExact FindAnswersInTime MapWellFormed NothingLeaked
CHECK_DEADLOCK FALSE
