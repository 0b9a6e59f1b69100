SPECIFICATION Spec
CHECK_DEADLOCK FALSE
CONSTANTS
    Worlds <- RootOrders
    Walkers = {w1}
    Workers = {c1}
    None = None
    Stop = Stop
    u = u
    v = v
    MaxTries = 2
    MaxUnasked = 2
    MaxFaults = 0
INVARIANT RootsCovered
