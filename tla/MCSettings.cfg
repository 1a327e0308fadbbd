SPECIFICATION SettingsSpec
CONSTANTS
    Clients = {c1, c2}
    Updates <- MCUpdates
    MaxRev = 3
    MaxFailures = 2
    MaxThreads = 2
SYMMETRY ClientSymmetry
INVARIANTS SettingsAgree PlanHolds
CHECK_DEADLOCK FALSE
