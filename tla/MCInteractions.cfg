SPECIFICATION FairSpec
CHECK_DEADLOCK FALSE
CONSTANTS
  Turns <- MCTurns
  Executions <- MCExecutions
  NQ = 2
  Answers = {yes}
  yes = yes
  ResolvedCap = 1
  EventCap = 1
  EarlyAnswers = FALSE
  Actions = {"shell", "secret"}
  Scopes = {"once", "session"}
  MaxCalls = 2
  MaxRequests = 2
  MaxCrashes = 1
  MaxFaults = 1
  GrantCap = 1
INVARIANTS
  ApprovalsHold
  
PROPERTIES
  
  InterruptedTurnEnds
