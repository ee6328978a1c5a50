SPECIFICATION ListSpec
CONSTANTS
    Times <- MCTimes
    MaxEvents = 5
INVARIANTS
    ListTypeOK
PROPERTIES
    ImplementsQueue
CHECK_DEADLOCK FALSE
