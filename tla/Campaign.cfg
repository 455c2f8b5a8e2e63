CONSTANTS
  Agents <- MCAgents
  Predicted <- MCPredicted
  HandRatios = 2
  HandPort = 0
  Concurrent = 2
  PortBase = 7
  PortStride = 4
  Reused = {1}
  Gap = 1
  Buffer = 2
  MaxFaults = 1
  MaxTorn = 1
  MaxDelays = 1
SPECIFICATION Spec
CHECK_DEADLOCK FALSE
INVARIANTS
  TypeOK
  PortsIsolated
  SlotsConserved
  WholeReports
  RunsThePrediction
PROPERTIES
  EveryStepCounts
  CampaignEnds
