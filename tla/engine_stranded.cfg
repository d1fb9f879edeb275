SPECIFICATION Spec
CONSTANTS
    s1 = s1
    s2 = s2
    none = none
    Transitions <- OneTransition
    Submitters <- OneSubmitter
    MaxRetries = 2
    BatchLimit = 1
    NoTransition = none
    MaxCrashes = 0
    MaxTimeouts = 0
    MaxLosses = 1
CHECK_DEADLOCK FALSE
INVARIANTS
    NothingStranded
