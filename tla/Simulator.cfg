SPECIFICATION FairSpec
CONSTANTS
    Nodes <- MCNodes
    Contacts <- MCContacts
    Lengths <- MCLengths
    Traffics <- MCTraffics
    Splits <- MCSplits
    MaxSends = 3
INVARIANTS
    TypeOK
    SameOrder
    RunToCompletion
    LinksOfTrace
PROPERTIES
    Finishes
CHECK_DEADLOCK FALSE
