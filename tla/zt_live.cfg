SPECIFICATION Spec
CONSTANTS
    n1 = n1  n2 = n2  addr = addr
    Names <- OneName
    Vals = {addr}
    Changes <- OneChange
    Peers = {p1}
    Defaults = {3}
    MaxCommits = 4
    MaxDeletes = 1
    MaxRestarts = 1
    MaxUnanswered = 0
    MaxErrors = 0
PROPERTIES
    GCSparesKnownPeers
    CatchesUp
    OldSerialsGo
CHECK_DEADLOCK FALSE
