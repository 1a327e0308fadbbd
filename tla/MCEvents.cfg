SPECIFICATION FairSpec
CHECK_DEADLOCK FALSE
CONSTANTS
  s1 = s1
  Streams = {s1}
  MaxTurns = 2
  MaxBody = 1
  MaxSide = 2
  MaxRestarts = 1
  MaxFaults = 1
  MaxPages = 2
  BusCap = 2
  RingCap = 2
  PipeCap = 1
  PageLimit = 1
  QueueCap = 2
INVARIANTS
  
  ReplayComplete
