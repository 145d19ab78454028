CONSTANTS
  Daemon = {d1, d2, d3}
  Client = {c1, c2, c3}
  Commands = {"up", "down"}
  UpsInTurn = TRUE
  Prompt = TRUE
  None = None
  d1 = d1
  d2 = d2
  x1 = x1
  x2 = x2
SPECIFICATION RunSpec
INVARIANTS OneReachable UnwarnedIsCurrent
PROPERTIES EveryUpEnds TeardownEnds
CHECK_DEADLOCK FALSE
