SPECIFICATION FairSpec
CHECK_DEADLOCK FALSE
CONSTANTS
    Worlds <- Trees
    Walkers = {w1, w2}
    Workers = {c1, c2}
    None = None
    Stop = Stop
    u = u
    v = v
    MaxTries = 2
    MaxUnasked = 2
    MaxFaults = 1
INVARIANTS
    StopIsLast
    OnlyDue
    AllDue
    AllHashed
    HonestExit
PROPERTIES
    WalkEnds
