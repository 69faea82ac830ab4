CONSTANTS
  c1 = c1  c2 = c2  p1 = p1  p2 = p2  i1 = i1
  Calls = {c1, c2}
  Stoppers = {p1, p2}
  Inspectors = {i1}
  UpstreamCount = 1
  PoolSize = 2
  MaxCalls = 3
  DrainBounded = TRUE
SPECIFICATION FairObservedSpec
INVARIANTS StoppedEventIsTrue UncrossedReportsAgree
           StoppedSnapshotIsAtRest
PROPERTIES StoppedIsTheLastWord
