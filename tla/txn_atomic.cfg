SPECIFICATION Spec
CONSTANTS
    p1 = p1
    p2 = p2
    t1 = t1
    t2 = t2
    Procs = {p1, p2}
    Txns = {t1, t2}
    Paths <- MCPathsAndDirectory
    Files <- MCFiles
    Private <- MCPathsAndDirectory
    Operations <- AllOperations
    InitDisks <- InitialDiskAndDirectory
    Editable <- None
    Budget <- FaultAndCrash
    ExclusiveRecovery = TRUE
    OperatorClearsLock = TRUE
    TornFaults = TRUE
SYMMETRY Symmetry
INVARIANTS
    TypeOK
    LockExclusion
    NoLostTransaction
    TornRecordsAreHarmless
    PointerDiscipline
PROPERTIES
    SettlesTruthfully
    MutatesUnderPointer
    ImplementsAtomicWorkspace
CHECK_DEADLOCK FALSE
