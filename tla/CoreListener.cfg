SPECIFICATION Spec
CONSTANTS
    s1 = s1
    s2 = s2
    NoSource = none
    Sources = {s1, s2}
    Good = {s1}
    MaxHeight = 2
    Capacity = 1
    Window = 2
    Archival = FALSE
    Exchanging = FALSE
    Faults = TRUE
    MaxStarts = 1
CHECK_DEADLOCK FALSE
INVARIANTS FailureRetried
