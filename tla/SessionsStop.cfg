SPECIFICATION FairSpec
CONSTANTS
  a = a
  b = b
  c = c
  Session = {s1, s2}
  Work = {a}
  Plans <- Single
  LocalWork = {}
PROPERTIES StopEndsSession
CHECK_DEADLOCK FALSE
