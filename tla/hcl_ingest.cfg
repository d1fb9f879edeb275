SPECIFICATION Spec
CONSTANTS
    network = network
    address = address
    instance = instance
    none = none
    a1 = a1
    a2 = a2
    Names <- AllNames
    Files <- AllFiles
    Appliers <- Two
    MaxStarts = 3
    MaxInterrupts = 1
    NoName = none
CHECK_DEADLOCK FALSE
INVARIANTS
    TypeOK
    ReferencesSaved
    TrackedUnlessTorn
    AloneSucceeds
PROPERTIES
    ScheduledInOrder
    Catalogued
