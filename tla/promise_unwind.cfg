SPECIFICATION Spec
CONSTANTS
  Promise = {p1, p2, p3}
  Value = {v}
  Object = object
  Derived = {p3}
  CycleError = cycle
  None = none
  MaxOps = 5
  MaxAwaits = 2
  p1 = p1
  p2 = p2
  p3 = p3
  v = v
  object = object
  cycle = cycle
  none = none
CONSTRAINT InOrder
CHECK_DEADLOCK FALSE
PROPERTY AwaitUntilSettled
