CONSTANTS
  Addr = {1, 2, 3, 4, 5, 6}
  t1 = t1
  t2 = t2
  t3 = t3
  Threads = {t1, t2, t3}
  Pushers = {t1, t2, t3}
  MaxCount = 5
  ShardSizes = {}
  MaxIndex = 1
  MaxCalls = 6
  Structures = {"queue"}
SPECIFICATION MCSpec
INVARIANT HeadIsNode
CHECK_DEADLOCK FALSE
