SPECIFICATION Spec
CONSTANTS
    v1 = v1  v2 = v2  fwd = fwd  rev = rev
    svc = svc  inst = inst  alias = alias  ptr = ptr  a1 = a1  a2 = a2
    Zones <- MCZones
    VMs <- OneVM
    Names <- MCNames
    Vals <- MCVals
    NoSrc = NoSrc
    Records <- OneRecords
    Wants <- OneWants
    Undef = Undef
    MaxTick = 2
    MaxCrashes = 1
    MaxDeferred = 2
    MaxEarly = 1
    Callbacks = {FALSE}
INVARIANTS
    ServedSerialHasNS
    WrittenIsPending
PROPERTIES
    ZonesAreLogs
CHECK_DEADLOCK FALSE
