SPECIFICATION ViewSpec
CONSTANTS
  Conn = {c1}
  Mode <- LocalOnly
  Flow <- DownFlow
  Slow = FALSE
INVARIANTS FailureReported
CHECK_DEADLOCK FALSE
