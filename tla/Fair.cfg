CONSTANTS
  K = 3
  N = 2
  Byz = {2}
  Rho = 1
  Adversary = "collude"
  MinCommittee = 2
  Attempts = 2
  MaxFaults = 1
  MaxOverruns = 1
  MaxErrors = 1
SPECIFICATION FairSpec
INVARIANTS
  ConflictsPaid
  UnheardIsPaid
  QueryLedger
PROPERTIES
  EveryStepCounts
  Terminates
