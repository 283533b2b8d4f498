SPECIFICATION Spec
CONSTANTS
  Kinds = {"sync", "async"}
  MaxRequests = 4
  MaxTry = 2
CHECK_DEADLOCK FALSE
INVARIANTS TypeOK HandlersBalanced AnswersExact NothingForgotten SettledOnReturn NoValueAfterEnd
PROPERTIES CompletedForGood
