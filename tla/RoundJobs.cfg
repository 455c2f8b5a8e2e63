CONSTANTS
  Last = 4
  Parallelism = 2
SPECIFICATION Spec
CHECK_DEADLOCK FALSE
INVARIANTS
  TypeOK
  NilMeansAll
  ErrorsSurface
PROPERTIES
  IsBarrier
  EveryStepCounts
  Returns
