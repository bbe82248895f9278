SPECIFICATION Spec
CONSTANTS
    p1 = p1
    p2 = p2
    t1 = t1
    t2 = t2
    Procs = {p1, p2}
    Txns = {t1, t2}
    Paths <- MCPaths
    Files <- MCFiles
    Private <- MCPaths
    Operations <- TwoUpdates
    InitDisks <- InitialDisk
    Editable <- None
    Budget <- OneFault
    ExclusiveRecovery = FALSE
    OperatorClearsLock = TRUE
    TornFaults = FALSE
SYMMETRY Symmetry
PROPERTIES
    SettlesTruthfully
CHECK_DEADLOCK FALSE
