CONSTANT
  Texts <- MCTexts
SPECIFICATION LoopSpec
INVARIANTS
  NoSingleColonAtTheEnds
CHECK_DEADLOCK FALSE
