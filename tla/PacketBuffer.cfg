SPECIFICATION Spec
CONSTANTS
    Configurations <- MCConfigurations
    ULong = 65536
    MaxTime = 2
    MaxPackets = 3
    MaxAdditions = 4
INVARIANTS
    TypeOK
    WithinSize
    RecordsAddUp
PROPERTIES
    DropsByName
CHECK_DEADLOCK FALSE
