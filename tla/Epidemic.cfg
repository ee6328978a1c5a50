SPECIFICATION Spec
CONSTANTS
    Nodes <- MCNodes
    TrafficLoad = 2
    Configurations <- Unlimited
    Encounters <- AllPairs
    Flows <- AllPairs
    MaxTime = 0
INVARIANTS
    TypeOK
    LinksLive
    PoolExact
    NoError
    NoDuplicates
    Immunity
    Truthful
PROPERTIES
    MeetingCompletes
CHECK_DEADLOCK FALSE
