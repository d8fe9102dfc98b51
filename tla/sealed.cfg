CONSTANTS
  t1 = t1  t2 = t2  A = A  B = B  C = C  D = D
  Threads = {t1, t2}
  Types = {A, B, C, D}
  Fields <- MapFields
  Listed <- MapListed
  Compile <- UnknownRuleInC
  TableMoves = TRUE
  NoThread = NoThread
  MaxCalls = 3
  MaxDepth = 3
SPECIFICATION SealedSpec
INVARIANTS
  PointersLive
  EntriesMatchConfig
  LoadedClosed
PROPERTIES
  NotFoundOnlyForUndeclared
CHECK_DEADLOCK FALSE
