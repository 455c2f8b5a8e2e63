CONSTANTS
  K = 3
  N = 2
  Byz = {1}
  Rho = 0
  Adversary = "drip"
  MinCommittee = 0
  Attempts = 2
  MaxFaults = 1
  MaxOverruns = 1
  MaxErrors = 0
SPECIFICATION Spec
INVARIANTS
  RepresentativeBlacklist
