SPECIFICATION ViewSpec
CONSTANTS
  Conn = {c1}
  Mode <- LocalOnly
  Flow <- LogFlow
  Slow = FALSE
PROPERTIES StoppingReported
CHECK_DEADLOCK FALSE
