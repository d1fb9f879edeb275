SPECIFICATION FairSpec
CONSTANTS
    network = network
    instance = instance
    none = none
    Resources <- NetworkAndInstance
    Deps <- InstanceOnNetwork
    Hidden <- InstanceOnly
    ListingLag = TRUE
    HastyUser = FALSE
    MaxRetries = 2
    MaxApplies = 2
    MaxRefusals = 1
    MaxUnreported = 0
    NoRow = none
CHECK_DEADLOCK FALSE
PROPERTIES
    ConvergesUp
    ConvergesDown
