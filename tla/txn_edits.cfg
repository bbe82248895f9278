SPECIFICATION Spec
CONSTANTS
    p1 = p1
    p2 = p2
    t1 = t1
    t2 = t2
    Procs = {p1, p2}
    Txns = {t1, t2}
    Paths <- MCPaths
    Files <- MCFiles
    Private <- MCPaths
    Operations <- FileOperations
    InitDisks <- InitialDisk
    Editable <- MCPaths
    Budget <- EditAndFault
    ExclusiveRecovery = TRUE
    OperatorClearsLock = TRUE
    TornFaults = FALSE
SYMMETRY Symmetry
INVARIANTS
    AlwaysRecoverable
    OfferedRecoveryIsExecutable
PROPERTIES
    OnlyLateEditsAreLost
CHECK_DEADLOCK FALSE
