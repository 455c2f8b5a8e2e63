CONSTANTS
  Last = 2
  Slots = 1
  Tries = 3
SPECIFICATION JobSpec
CHECK_DEADLOCK FALSE
INVARIANTS
  TypeOK
  NilMeansStored
  SentIsReceived
  QueriesAreSeen
PROPERTIES
  IsOneStep
  EveryStepCounts
  Returns
