SPECIFICATION Spec
CONSTANTS
    n1 = n1  n2 = n2  addr = addr
    Names <- OneName
    Vals = {addr}
    Changes <- OneChange
    Peers = {p1}
    Defaults = {}
    MaxCommits = 3
    MaxDeletes = 0
    MaxRestarts = 0
    MaxUnanswered = 0
    MaxErrors = 0
PROPERTIES
    DriftMeansBehind
CHECK_DEADLOCK FALSE
