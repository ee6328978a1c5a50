SPECIFICATION Spec
CONSTANTS
    Configurations <- Recording
    ULong = 65536
    MaxTime = 2
    MaxPackets = 2
    MaxAdditions = 2
INVARIANTS
    GrowthIsNet
CHECK_DEADLOCK FALSE
