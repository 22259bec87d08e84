SPECIFICATION Spec
CONSTANTS
    VMs = {v1}
    Moves <- Lives
    HighWater = 2
    Retries = 2
    MaxOthers = 1
    MaxPushes = 2
    MaxFaults = 0
PROPERTIES
    ThrowsAwayOnlyEmpty
CHECK_DEADLOCK FALSE
