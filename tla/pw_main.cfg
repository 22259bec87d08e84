SPECIFICATION Spec
CONSTANTS
    Peers = {p1}
    Reqs = {r1}
    PoolSize = 3
    MaxFailures = 1
    MaxInFlight = 2
    MaxFaults = 1
INVARIANTS
    TypeOK
    NoLeak
    BlacklistEnds
PROPERTIES
    QueriesAreServed
    BehindIsNotified
    Forgiven
CHECK_DEADLOCK FALSE
