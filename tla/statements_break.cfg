SPECIFICATION Spec
CONSTANTS
  Value = {"v"}
  Undefined = "undefined"
  MaxNest = 3
  AllJumps = TRUE
CHECK_DEADLOCK FALSE
INVARIANT HandlersMatch
