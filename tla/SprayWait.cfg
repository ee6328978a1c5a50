SPECIFICATION SWSpec
CONSTANTS
    Nodes <- MCNodes
    TrafficLoad = 1
    Configurations <- MCConfigurations
    Encounters <- Diamond
    Flows <- MCFlows
    MaxTime = 1
    EncWindow = 1
INVARIANTS
    SWTypeOK
    NoneLost
    Advised
PROPERTIES
    ImplementsQuota
    SprayCompletes
CHECK_DEADLOCK FALSE
