CONSTANTS
  K = 3
  N = 2
  Byz = {1}
  Rho = 0
  Adversary = "flood"
  MinCommittee = 0
  Attempts = 1
  MaxFaults = 1
  MaxOverruns = 1
  MaxErrors = 0
SPECIFICATION Spec
INVARIANTS
  MemoryIsOneRound
