SPECIFICATION Spec
CONSTANTS
    Nodes <- MCNodes
    Second = 2
    Duration = 25
    PresenceFiles <- MCPresenceFiles
    TrafficFiles <- MCTrafficFiles
    TrafficTypes <- AllTypes
    FlowGap = 4
    Loads <- MCLoads
INVARIANTS
    TypeOK
    NoSelfTraffic
    BothPresent
    CountRight
CHECK_DEADLOCK FALSE
