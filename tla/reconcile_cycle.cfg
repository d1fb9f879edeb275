SPECIFICATION Spec
CONSTANTS
    network = network
    instance = instance
    none = none
    Resources <- NetworkAndInstance
    Deps <- InstanceOnNetwork
    Hidden <- InstanceOnly
    ListingLag = FALSE
    HastyUser = FALSE
    MaxRetries = 2
    MaxApplies = 3
    MaxRefusals = 0
    MaxUnreported = 1
    NoRow = none
CHECK_DEADLOCK FALSE
INVARIANTS
    TypeOK
    SinglePipeline
    StatesAreTrue
PROPERTIES
    CreateAfterDependencies
    DeleteAfterDependents
    FollowsLifecycle
