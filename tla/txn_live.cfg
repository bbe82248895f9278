SPECIFICATION FairSpec
CONSTANTS
    p1 = p1
    p2 = p2
    t1 = t1
    t2 = t2
    Procs = {p1, p2}
    Txns = {t1, t2}
    Paths <- MCPaths
    Files <- MCFiles
    Private <- MCPaths
    Operations <- OneDeletion
    InitDisks <- InitialDisk
    Editable <- None
    Budget <- FaultAndCrash
    ExclusiveRecovery = TRUE
    OperatorClearsLock = TRUE
    TornFaults = FALSE
PROPERTIES
    EveryTransactionResolves
CHECK_DEADLOCK FALSE
