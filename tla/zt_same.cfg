SPECIFICATION Spec
CONSTANTS
    n1 = n1  n2 = n2  addr = addr
    Names <- OneName
    Vals = {addr}
    Changes <- OneChange
    Peers = {p1}
    Defaults = {2}
    MaxCommits = 2
    MaxDeletes = 0
    MaxRestarts = 0
    MaxUnanswered = 0
    MaxErrors = 0
INVARIANTS
    PeersServeTheSame
CHECK_DEADLOCK FALSE
