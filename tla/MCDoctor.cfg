CONSTANTS
    p1 = p1
    p2 = p2
    p3 = p3
    main = main
    fork1 = fork1
    fork2 = fork2
    child = child
    Pids <- MCPids
    Main = main
    Spare <- MCSpare
    Threads = {child}
    MaxRecords = 1
    MaxStored = 0
    MaxResults = 1
    MaxFaults = 0
    ReclaimRaces = FALSE
    DoctorAlone = FALSE
SPECIFICATION Spec
PROPERTY RepairOnlyTail
CHECK_DEADLOCK FALSE
