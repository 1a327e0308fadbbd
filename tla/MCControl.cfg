CONSTANTS
    main = main
    side = side
    fresh = fresh
    ThreadIds <- MCThreadIds
    Main = main
    FreshIds <- MCFreshIds
    MaxRequests = 2
    MaxTurns = 3
    MaxQueued = 1
    MaxCrashes = 1
SPECIFICATION LiveSpec
INVARIANTS
    StopKeepsWork
PROPERTIES
    FreezeHolds
    ControlSettles
CHECK_DEADLOCK FALSE
