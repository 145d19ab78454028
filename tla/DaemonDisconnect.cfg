SPECIFICATION Spec
CONSTANTS
  Conn = {c1}
  Mode <- ConnectOnly
INVARIANTS DisconnectKeepsCluster
CHECK_DEADLOCK FALSE
