SPECIFICATION Spec
CONSTANTS
    VMs = {v1}
    Moves <- Lives
    HighWater = 2
    Retries = 2
    MaxOthers = 1
    MaxPushes = 2
    MaxFaults = 2
INVARIANTS
    TypeOK
    NeverSkipped
PROPERTIES
    LosesNothingElse
    Backstop
    Forgotten
CHECK_DEADLOCK FALSE
