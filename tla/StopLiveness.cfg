CONSTANTS
  c1 = c1  c2 = c2  c3 = c3  p1 = p1  p2 = p2
  NoThread = NoThread
  Calls = {c1, c2}
  Stoppers = {p1, p2}
  UpstreamCount = 1
  PoolSize = 1
  SessionMode = "persistent"
  Offers = {"supported"}
  AcquireBounded = FALSE
  DrainBounded = FALSE
  Hosting = FALSE
SPECIFICATION FairSpec
PROPERTIES StopReturns ImplementsFairLifecycle
