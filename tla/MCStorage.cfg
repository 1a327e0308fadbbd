CONSTANTS
    p1 = p1
    p2 = p2
    p3 = p3
    main = main
    fork1 = fork1
    fork2 = fork2
    child = child
    Pids <- MCPids
    Main = main
    Spare <- MCSpare
    Threads = {child}
    MaxRecords = 1
    MaxStored = 2
    MaxResults = 1
    MaxFaults = 1
    ReclaimRaces = FALSE
    DoctorAlone = TRUE
SPECIFICATION Spec
INVARIANTS
    
    AcknowledgedKept
    ForkAgrees
    
SYMMETRY Symmetry
CHECK_DEADLOCK FALSE
