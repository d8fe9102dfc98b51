CONSTANTS
  Messages <- MCMessages
  Requests <- MCRequests
SPECIFICATION MCSpec
INVARIANTS
  TypeOK
  ReportsExactly
  NoSpuriousErrors
  ErrorsReported
  FailFastAgrees
  FieldValueAtPath
  PathsOnTheWayUp
  AnswersDeserved
PROPERTIES
  FailFastStops
  ViolationsKept
  AllAnswered
CHECK_DEADLOCK FALSE
