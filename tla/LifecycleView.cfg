SPECIFICATION ViewFairSpec
CONSTANTS
  Conn = {c1}
  Mode <- AllModes
  Flow <- AllFlows
  Slow = TRUE
INVARIANTS ReadyHasBroker
PROPERTIES WatcherReturns
CHECK_DEADLOCK FALSE
