\* One Goal after another with every command of the clients, one crash and one
\* fault.
SPECIFICATION Spec
CONSTANTS
  ClientOps = {"set", "pause", "resume", "clear", "start", "continue", "followUp"}
  Budgets = {0, 2}
  Tokens = {1}
  TotalMilestones = 2
  MaxLoops = 2
  MaxGoals = 2
  MaxCommands = 3
  MaxCrashes = 1
  MaxFaults = 1
INVARIANTS
  StoppedGoalsDoNotRun
PROPERTIES
  VerdictsAreCurrent
  GoalsSettle
CHECK_DEADLOCK FALSE
