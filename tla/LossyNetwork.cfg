CONSTANTS
  K = 5
  N = 2
  Byz = {1, 2, 3}
  Rho = 1
  Adversary = "drip"
  MinCommittee = 0
  Attempts = 2
  MaxFaults = 1
  MaxOverruns = 1
  MaxErrors = 0
SPECIFICATION ViewSpec
INVARIANTS
  TypeOK
  HonestNeverBlacklisted
  LeaksArePaid
  CaughtAreSilent
  ViewsTellTheDecision
PROPERTIES
  RepresentativeDecidesTruth
  WindowIsClosed
  ImplementsDownload
