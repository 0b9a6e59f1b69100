SPECIFICATION FairSpec
CONSTANTS
    w1 = w1  w2 = w2  a = a  b = b  c = c
    Workers = {w1, w2}
    Files = {a, b, c}
    Group <- Repeating
    WholeFile = {w2}
    MaxPerIoctl = 2
    MaxFaults = 1
INVARIANTS
    UsesItsOwn
    NothingLeft
    Accounted
PROPERTIES
    GroupsEnd
