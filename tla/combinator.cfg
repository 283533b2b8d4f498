SPECIFICATION Spec
CONSTANTS
  N = 4
  Thenable = {1, 3}
  Val = {v1, v2}
  None = None
  Paths = {"spec", "native", "drain"}
  OverriddenResolve = FALSE
  v1 = v1
  v2 = v2
CHECK_DEADLOCK FALSE
INVARIANTS TypeOK FinishExact ResultsComplete
PROPERTIES ResultsStable ImplementsJoin
