SPECIFICATION FairSpec
CONSTANTS
  w1 = w1  w2 = w2  c1 = c1  c2 = c2  s1 = s1  s2 = s2
  NULL = NULL
  Workers = {w1, w2}
  Clients = {c1, c2}
  Stoppers = {s1, s2}
  queue_size = 2
  batch_num = 2
  MaxTasks = 3
INVARIANTS StopDrains
PROPERTIES StopReturns EnqueuedRuns
CHECK_DEADLOCK FALSE
