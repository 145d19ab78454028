SPECIFICATION Spec
CONSTANTS
  a = a
  b = b
  c = c
  x = x
  root = root
  Name = {a, b}
  Ref = {a, b}
  Root = root
  Pipelines <- OneEach
INVARIANTS DependenciesPrior
