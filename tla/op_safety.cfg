SPECIFICATION Spec
CONSTANTS
  t1 = t1  t2 = t2  t3 = t3  p1 = p1  p2 = p2
  NULL = NULL
  Threads = {t1, t2}
  Pools = {p1, p2}
  Uses <- OwnCaches
  num = 3
  TC_CAPACITY = 1
  TagMod = 8
  MaxTag = 1
  MaxHeld = 2
SYMMETRY Symmetry
INVARIANTS NodeOwnedOnce CollectiveApart
CHECK_DEADLOCK FALSE
