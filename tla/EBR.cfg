SPECIFICATION SWSpec
CONSTANTS
    Nodes <- MCNodes
    TrafficLoad = 1
    Configurations <- EBRConfigurations
    Encounters <- Diamond
    Flows <- MCFlows
    MaxTime = 1
    EncWindow = 0
INVARIANT
    QuotaKept
CHECK_DEADLOCK FALSE
