SPECIFICATION FairSpec
CONSTANTS
  Requests = {r1, r2}
  MaxSteps = 1
  MaxCalls = 1
  MaxTurns = 2
  MaxResumes = 1
  MaxCrashes = 1
  MaxFaults = 0
  MaxInputs = 1
CHECK_DEADLOCK FALSE
PROPERTIES
  TurnsSettle
