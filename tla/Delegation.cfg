SPECIFICATION DGFairSpec
CONSTANTS
    Nodes <- MCNodes
    TrafficLoad = 2
    Configurations <- MCConfigurations
    Encounters <- MCEncounters
    Flows <- MCFlows
    MaxTime = 2
    MaxRank = 1
INVARIANTS
    DGTypeOK
    NoError
    NothingStale
    Uphill
PROPERTIES
    Drains
CHECK_DEADLOCK FALSE
