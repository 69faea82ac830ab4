CONSTANTS
  c1 = c1  c2 = c2  c3 = c3  c4 = c4  p1 = p1  p2 = p2
  NoThread = NoThread
  Calls = {c1, c2, c3, c4}
  Stoppers = {p1, p2}
  PoolSize = 2
  AcquireBounded = TRUE
SPECIFICATION FairPoolSpec
INVARIANTS PrewarmIsAlone SleeperHasWaker OneMissedWakeup
PROPERTIES SleepersWake
