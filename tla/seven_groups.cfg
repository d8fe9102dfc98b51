CONSTANT
  Texts <- MCTexts
SPECIFICATION LoopSpec
INVARIANTS
  AtMostSevenWithDoubleColon
CHECK_DEADLOCK FALSE
