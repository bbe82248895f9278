SPECIFICATION Spec
CONSTANTS
    Procs = {p1, p2}
    Providers = {codex}
    Exports = {e1}
    MaxBirths = 2
    MaxClaims = 2
    Faults = 1
    TornFaults = FALSE
    SweepFaults = TRUE
    ReinitWaits = TRUE
    NULL = NULL
    TORN = TORN
SYMMETRY Symmetry
INVARIANT InterruptedPurgesRecover
CHECK_DEADLOCK FALSE
