SPECIFICATION FairSpec
CONSTANTS
  Conn = {c1, c2}
  Mode <- AllModes
INVARIANTS TypeOK ReadyHasClient TunnelOutlivesBroker ConnectedLeavesCluster
PROPERTIES DaemonEnds
CHECK_DEADLOCK FALSE
