SPECIFICATION FairSpec
CONSTANTS
  w1 = w1  w2 = w2  c1 = c1  c2 = c2  s1 = s1  s2 = s2
  NULL = NULL
  Workers = {w1}
  Clients = {c1, c2}
  Stoppers = {}
  queue_size = 2
  batch_num = 2
  MaxTasks = 2
PROPERTIES EnqueuedRuns
CHECK_DEADLOCK FALSE
