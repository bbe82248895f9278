\* Two providers that may share AGENTS.md, two edits, an upgrade interrupted once.
SPECIFICATION Spec
CONSTANTS
    MISSING = MISSING
    NULL = NULL
    Providers = {"codex", "claude-code"}
    Facts = {"", "true"}
    Edits = {"prepend", "strip"}
    MaxEdits = 2
    MaxInterruptions = 1
INVARIANTS
    TypeOK
    NoStrayBridges
    DetachingRestores
    HealthyCanBeRemoved
    VersionTellsLayout
PROPERTIES
    CommandsKeepBridges
    OutsideIsKept
    RepairHeals
    UpgradesOnlyHealthy
    OnlyBareUpgradesStop
CHECK_DEADLOCK FALSE
