SPECIFICATION Spec
CONSTANTS
    network = network
    address = address
    instance = instance
    none = none
    a1 = a1
    a2 = a2
    Names <- AllNames
    Files <- OneFile
    Appliers <- One
    MaxStarts = 2
    MaxInterrupts = 1
    NoName = none
CHECK_DEADLOCK FALSE
PROPERTIES
    NotScheduledUntilReady
