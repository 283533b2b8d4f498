SPECIFICATION FairSpec
CONSTANTS
  Promise = {p1, p2, p3}
  Value = {v}
  Object = object
  Derived = {p3}
  CycleError = cycle
  None = none
  MaxOps = 5
  MaxAwaits = 2
  p1 = p1
  p2 = p2
  p3 = p3
  v = v
  object = object
  cycle = cycle
  none = none
CHECK_DEADLOCK FALSE
CONSTRAINT InOrder
INVARIANTS TypeOK ReactionsOnce NoneLost SettleScheduled UnhandledReported AdoptionKept
PROPERTIES SettledForGood ReactionsInOrder ReactionsRun
