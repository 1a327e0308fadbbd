SPECIFICATION ReportsSpec
CONSTANTS
  Requests = {r1, r2}
  Initial = initial
  StaleAttempts = FALSE
  MaxEvents = 3
  MaxTurns = 2
  MaxFaults = 1
  Keys = {k1, k2}
  MaxPage = 2
  MaxReceipts = 2
  MaxIntents = 1
  Controls = 1
INVARIANTS
  SteerLogTruthful
  
  
  ParentSeesAll
SYMMETRY Symmetry
CHECK_DEADLOCK FALSE
