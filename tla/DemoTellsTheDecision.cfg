CONSTANTS
  K = 4
  N = 1
  Byz = {1}
  Rho = 1
  Adversary = "flood"
  MinCommittee = 3
  Attempts = 2
  MaxFaults = 1
  MaxOverruns = 0
  MaxErrors = 0
SPECIFICATION ViewSpec
INVARIANTS
  DemoTellsTheDecision
