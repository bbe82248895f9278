SPECIFICATION Spec
CONSTANTS
    Procs = {p1, p2}
    Providers = {codex}
    Exports = {e1}
    MaxBirths = 2
    MaxClaims = 2
    Faults = 2
    TornFaults = FALSE
    SweepFaults = FALSE
    ReinitWaits = TRUE
    NULL = NULL
    TORN = TORN
SYMMETRY Symmetry
INVARIANTS TypeOK LockExclusion InterruptedPurgesRecover
PROPERTIES ExportedBeforeRemoved StraysAreArchived PendingPurgeBlocks
CHECK_DEADLOCK FALSE
