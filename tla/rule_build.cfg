CONSTANT
  Descriptors <- MCDescriptors
SPECIFICATION Spec
INVARIANTS
  TypeOK
  FailsOnFirstProblem
  RunsEveryExpression
  OneofMembersIgnoreEmpty
  EveryCheckRuns
CHECK_DEADLOCK FALSE
