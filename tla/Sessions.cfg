SPECIFICATION JobsEndSpec
CONSTANTS
  a = a
  b = b
  c = c
  Session = {s1}
  Work = {a, b, c}
  Plans <- Join
  LocalWork = {c}
INVARIANTS TypeOK StepOrder TerminalQuiet DoneMeansSucceeded JobTracked ParamsBeforeJob
PROPERTIES NoPostAfterEnd StagedRunSpec SessionEnds
CHECK_DEADLOCK FALSE
