CONSTANTS
  Enabled <- MCEnabled
  Alphabet <- MCAlphabet
  MaxLength = 4
  Values <- MCValues
SPECIFICATION RoutingSpec
\* The life of an identifier ends when it is routed or rejected.
CHECK_DEADLOCK FALSE
INVARIANTS RoutedToPublisher ExposedIsAccepted ExpandedReachesPublisher
