SPECIFICATION Spec
CONSTANTS
    v1 = v1  v2 = v2  fwd = fwd  rev = rev
    svc = svc  inst = inst  alias = alias  ptr = ptr  a1 = a1  a2 = a2
    Zones <- MCZones
    VMs <- MCVMs
    Names <- MCNames
    Vals <- MCVals
    NoSrc = NoSrc
    Records <- MCRecords
    Wants <- MCWants
    Undef = Undef
    MaxTick = 2
    MaxCrashes = 0
    MaxDeferred = 2
    MaxEarly = 0
    Callbacks = {TRUE, FALSE}
INVARIANTS
    TypeOK
    OwnRecordsExact
    NoPartialCommit
    NoOrphans
    ReportedIsTaken
PROPERTIES
    DirtyIsCommitted
    WaitingWriteRuns
CHECK_DEADLOCK FALSE
