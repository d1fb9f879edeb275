SPECIFICATION FairSpec
CONSTANTS
    network = network
    instance = instance
    none = none
    Resources <- NetworkOnly
    Deps <- NoDeps
    Hidden <- Nothing
    ListingLag = TRUE
    HastyUser = TRUE
    MaxRetries = 3
    MaxApplies = 3
    MaxRefusals = 2
    MaxUnreported = 0
    NoRow = none
CHECK_DEADLOCK FALSE
INVARIANTS
    SinglePipeline
PROPERTIES
    ConvergesUp
