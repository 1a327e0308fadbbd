SPECIFICATION Spec
CONSTANTS
  MaxSteps = 1
  MaxCalls = 2
  MaxTurns = 2
  MaxResumes = 1
  MaxCrashes = 1
  MaxFaults = 1
  MaxInputs = 1
  MaxCompacts = 1
  MaxEvents = 3
  MaxAttempts = 5
  ConnectRetries = 2
  RetryDelays <- MCRetryDelays
  Window = 14
  MaxBytes = 3
  Sizes = {1, 2}
  Durations = {0, 2}
  MaxPieces = 3
  MaxStored = 2
  MaxSent = 2
  MaxInline = 3
  ImageSizes = {1, 2}
  MaxSaved = 4
  MaxRestarts = 1
INVARIANTS
  GroupsKept
  OnlyAnswerShown
  ImagesHold
PROPERTIES
  AgreementKept
  RetriesWithinWindow
CHECK_DEADLOCK FALSE
