SPECIFICATION Spec
CONSTANTS
    i1 = i1
    i2 = i2
    s1 = s1
    s2 = s2
    Workers = {w1}
    Sessions = {s1, s2}
    MaxGeneration = 2
    Invocations = {i1, i2}
    Contexts = {c0, c1}
    InitialContext = c0
    Milestones <- MCMilestones
    MaxInterruptions = 1
SYMMETRY Symmetry
INVARIANTS
    TypeOK
    ReleaseIsLast
    AuditsNameEndedClaims
PROPERTIES
    OnlyTheHolderWrites
    ClaimsSucceed
    CheckpointsAreTruthful
    ImplementsClaimedNotebook
