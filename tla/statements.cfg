SPECIFICATION Spec
CONSTANTS
  Value = {"v"}
  Undefined = "undefined"
  MaxNest = 4
  AllJumps = FALSE
CHECK_DEADLOCK FALSE
INVARIANTS TypeOK HandlersMatch ScopesMatch
PROPERTIES IteratorsClosed 
