CONSTANTS
  t1 = t1  t2 = t2  A = A  B = B  C = C  D = D
  Threads = {t1, t2}
  Types = {A, B, C}
  Fields <- CyclicFields
  Listed <- CyclicFields
  Compile <- AllCompile
  TableMoves = TRUE
  NoThread = NoThread
  MaxCalls = 2
  MaxDepth = 3
SPECIFICATION Spec
PROPERTIES
  AddPopulates
CHECK_DEADLOCK FALSE
