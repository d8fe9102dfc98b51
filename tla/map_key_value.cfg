CONSTANTS
  Messages <- MCMaps
  Requests <- MCNoRequests
SPECIFICATION MCSpec
INVARIANTS
  FieldValueIsTheOneChecked
CHECK_DEADLOCK FALSE
