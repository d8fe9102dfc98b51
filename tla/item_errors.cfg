CONSTANTS
  Messages <- MCAnyItems
  Requests <- MCNoRequests
SPECIFICATION MCSpec
INVARIANTS
  ErrorsReported
CHECK_DEADLOCK FALSE
