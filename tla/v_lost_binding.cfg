SPECIFICATION Spec
CONSTANTS
    t1 = t1
    t2 = t2
    w1 = w1
    w2 = w2
    s1 = s1
    s2 = s2
    a1 = a1
    a2 = a2
    Terminals = {t1, t2}
    Workspaces = {w1, w2}
    Workers = {a1}
    Sessions = {s1, s2}
    MaxGeneration = 1
    MaxCrashes = 0
SYMMETRY Symmetry
PROPERTIES
    HandoffClearsAfterRelease
