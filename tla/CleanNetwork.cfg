CONSTANTS
  K = 5
  N = 2
  Byz = {1, 3}
  Rho = 1
  Adversary = "random"
  MinCommittee = 0
  Attempts = 1
  MaxFaults = 0
  MaxOverruns = 1
  MaxErrors = 1
SPECIFICATION Spec
INVARIANTS
  SyncAgreement
  CompleteAtEnd
  DecompositionIsOnePeer
  AllOrNothing
