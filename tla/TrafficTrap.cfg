SPECIFICATION Spec
CONSTANTS
    Nodes <- MCNodes
    Second = 2
    Duration = 25
    PresenceFiles <- ShortPresence
    TrafficFiles <- MCTrafficFiles
    TrafficTypes <- Uniform
    FlowGap = 4
    Loads <- UniformLoad
INVARIANTS
    NeverTraps
CHECK_DEADLOCK FALSE
