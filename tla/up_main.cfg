SPECIFICATION Spec
CONSTANTS
    VMs <- Uuids
    Filters = {f1}
    Selects <- FirstOnly
    Mortals = {1}
    MaxLimit = 2
    HighWater = 1
    ProbeSays = {TRUE}
    MaxQueue = 2
    MaxAsks = 2
    MaxFaults = 2
    Calm = TRUE
INVARIANTS
    TypeOK
PROPERTIES
    PollSeesAll
    AskedIsPolled
    AllServed
CHECK_DEADLOCK FALSE
