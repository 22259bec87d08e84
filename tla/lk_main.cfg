SPECIFICATION Spec
CONSTANTS
    Starts <- MCStarts
    MaxChanges = 2
    MaxQueued = 1
    MaxFaults = 1
INVARIANTS
    TypeOK
    StaleUserIsPending
    StaleServerIsPending
PROPERTIES
    ChangesAreServed
    VisitsRepair
    ServerIsListed
CHECK_DEADLOCK FALSE
