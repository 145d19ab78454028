SPECIFICATION Spec
CONSTANTS
  a = a
  b = b
  c = c
  x = x
  root = root
  Name = {a, b, c}
  Ref = {a, b, c, x, root}
  Root = root
  Pipelines <- Shapes
INVARIANTS TypeOK ValidateExact StepsArePlan StepsOrdered StepsEarly
