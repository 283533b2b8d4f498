SPECIFICATION Spec
CONSTANTS
  Value = {"v"}
  Undefined = "undefined"
  MaxNest = 3
  AllJumps = FALSE
CHECK_DEADLOCK FALSE
PROPERTY FinallyAlwaysRuns
