SPECIFICATION Spec
CONSTANTS
    Configurations <- ByAge
    ULong = 65536
    MaxTime = 2
    MaxPackets = 3
    MaxAdditions = 3
PROPERTIES
    AvoidsSource
CHECK_DEADLOCK FALSE
