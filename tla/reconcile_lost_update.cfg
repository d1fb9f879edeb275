SPECIFICATION Spec
CONSTANTS
    network = network
    instance = instance
    none = none
    Resources <- NetworkOnly
    Deps <- NoDeps
    Hidden <- Nothing
    ListingLag = FALSE
    HastyUser = TRUE
    MaxRetries = 2
    MaxApplies = 2
    MaxRefusals = 0
    MaxUnreported = 0
    NoRow = none
CHECK_DEADLOCK FALSE
INVARIANTS
    WishKept
