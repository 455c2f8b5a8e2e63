CONSTANTS
  K = 7
  N = 3
  Byz = {0, 2, 4, 6}
  Rho = 1
  Adversary = "drip"
  MinCommittee = 2
  Attempts = 1
  MaxFaults = 0
  MaxOverruns = 0
  MaxErrors = 0
SPECIFICATION Spec
INVARIANTS
  QueryComplexity
PROPERTIES
  DripForcesConflict
  ImplementsDownload
