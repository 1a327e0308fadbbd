SPECIFICATION Spec
CONSTANTS
  Requests = {r1, r2}
  MaxSteps = 1
  MaxCalls = 2
  MaxTurns = 1
  MaxResumes = 2
  MaxCrashes = 2
  MaxFaults = 1
  MaxInputs = 0
CHECK_DEADLOCK FALSE
SYMMETRY RequestSymmetry
INVARIANTS
  AtMostOnceUnsafe
  EffectsDurablyKnown
  OutcomesTruthful
  ReconciliationHasWork
  ReplayAgrees
  RecoveryMatches
PROPERTIES
  BatchKeptUntilComplete
