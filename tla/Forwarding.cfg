SPECIFICATION FWSpec
CONSTANTS
    Nodes <- MCNodes
    TrafficLoad = 2
    Configurations <- MCConfigurations
    Encounters <- MCEncounters
    Flows <- MCFlows
    MaxTime = 1
    MaxRank = 2
INVARIANTS
    FWTypeOK
    NoError
    NoneLost
    Upward
    Informed
PROPERTIES
    ImplementsCustody
    AvoidsOverflow
CHECK_DEADLOCK FALSE
