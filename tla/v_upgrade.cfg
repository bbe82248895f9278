\* An upgrade that is interrupted once.
SPECIFICATION Spec
CONSTANTS
    MISSING = MISSING
    NULL = NULL
    Providers = {"codex"}
    Facts = {"", "true"}
    Edits = {"prepend"}
    MaxEdits = 1
    MaxInterruptions = 1
INVARIANT ManualOnlyAfterUserChanges
CHECK_DEADLOCK FALSE
