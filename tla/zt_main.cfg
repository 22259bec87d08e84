SPECIFICATION Spec
CONSTANTS
    n1 = n1  n2 = n2  addr = addr
    Names <- MCNames
    Vals = {addr}
    Changes <- MCChanges
    Peers = {p1}
    Defaults = {3}
    MaxCommits = 3
    MaxDeletes = 0
    MaxRestarts = 0
    MaxUnanswered = 1
    MaxErrors = 1
INVARIANTS
    TypeOK
    PeerExact
    RecordIsHonest
CHECK_DEADLOCK FALSE
