SPECIFICATION Spec
CONSTANTS
    s1 = s1
    s2 = s2
    none = none
    Transitions <- OneTransition
    Submitters <- OneSubmitter
    MaxRetries = 3
    BatchLimit = 1
    NoTransition = none
    MaxCrashes = 1
    MaxTimeouts = 1
    MaxLosses = 1
CHECK_DEADLOCK FALSE
INVARIANTS
    TypeOK
    NoOrphan
    SingleFlight
    RetryBudget
PROPERTIES
    StatusPromise
