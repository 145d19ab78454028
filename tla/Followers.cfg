CONSTANTS
  Client = {c1, c2}
  MaxLines = 4
  TailLines = 2
  w1 = w1
  w2 = w2
SPECIFICATION RunSpec
INVARIANTS EndedHasAll OrderIsEntries
PROPERTIES SessionFollowersEnd StepLinesAdvance GhostsGo LastValueShown
CHECK_DEADLOCK FALSE
