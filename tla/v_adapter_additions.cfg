\* Two providers that share AGENTS.md, one edit.
SPECIFICATION Spec
CONSTANTS
    MISSING = MISSING
    NULL = NULL
    Providers = {"codex", "claude-code"}
    Facts = {"", "true"}
    Edits = {"prepend"}
    MaxEdits = 1
    MaxInterruptions = 0
PROPERTIES UserLinesSurvive
CHECK_DEADLOCK FALSE
