CONSTANTS
  Threads = {t1, t2}
  Stoppers = {s1}
  Named = {key1}
  Intervals = {2}
  Delays <- MCDelays
  None = None
  Orphan = Orphan
  MaxLag = 1
  MaxCalls = 3
SPECIFICATION FairSpec
INVARIANT TimerCovers
PROPERTIES DueTasksRun StopEndsLoop
