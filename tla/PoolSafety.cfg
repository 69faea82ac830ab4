CONSTANTS
  c1 = c1  c2 = c2  c3 = c3  p1 = p1  p2 = p2
  NoThread = NoThread
  Calls = {c1, c2, c3}
  Stoppers = {p1}
  UpstreamCount = 1
  PoolSize = 2
  SessionMode = "persistent"
  Offers = {"supported"}
  AcquireBounded = TRUE
  DrainBounded = TRUE
  Hosting = FALSE
SPECIFICATION Spec
SYMMETRY ThreadSymmetry
INVARIANTS TypeOK ActiveCallsExact SlotOwnership TransientStatusHasAuthor DegradedPoolHasBrokenSlot RetainedSessionIsRecorded
PROPERTIES ImplementsLifecycle
