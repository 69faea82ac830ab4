CONSTANTS
  h1 = h1  h2 = h2  q1 = q1
  NoThread = NoThread
  Hosts = {h1, h2}
  Requests = {q1}
  UpstreamCount = 2
  MaxStarts = 2
  DrainBounded = TRUE
SPECIFICATION FairHostedSpec
\* The runtime's life ends.
CHECK_DEADLOCK FALSE
INVARIANTS ServingIsReachable StoppedServesNothing
           RuntimeOutlivesRequests ServedAdvertisementHolds
PROPERTIES HostCallsReturn
