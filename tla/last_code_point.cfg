CONSTANTS
  Calls <- MCHostCalls
  Texts <- MCNoTexts
SPECIFICATION MCSpec
INVARIANTS
  NothingBeyondLastCodePoint
CHECK_DEADLOCK FALSE
