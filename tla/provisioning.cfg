SPECIFICATION FairSpec
CONSTANTS
    s1 = s1
    s2 = s2
    none = none
    Kinds <- AllKinds
    Slots = 4
    Subnets <- TwoSubnets
    Delays <- LongDelays
    MaxApplies <- Applies
    MaxFaults <- Faults
    Doubling <- Instances
    NoRow = none
    NoSubnet = none
CHECK_DEADLOCK FALSE
INVARIANTS
    TypeOK
    LinkOwn
    HealthyIsReady
    SubnetsKnown
    DeletedIsGone
    TimeoutKept
PROPERTIES
    CreationEnds
    DeletionEnds
    FollowsLifecycle
