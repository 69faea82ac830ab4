CONSTANTS
  c1 = c1  c2 = c2  c3 = c3  p1 = p1  p2 = p2
  NoThread = NoThread
  Calls = {c1, c2}
  Stoppers = {p1, p2}
  UpstreamCount = 2
  PoolSize = 1
  SessionMode = "per_call"
  Offers = {"supported", "unsupported"}
  AcquireBounded = FALSE
  DrainBounded = TRUE
  Hosting = TRUE
SPECIFICATION Spec
SYMMETRY ThreadSymmetry
INVARIANTS StoppedIsQuiescent
