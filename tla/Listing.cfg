SPECIFICATION Spec
CONSTANTS
    Files = {a, b}
    Names = {x, y}
    NoFile = NoFile
    Roots <- WholeOrPart
    MaxChanges = 2
    MaxFaults = 1
    MaxListed = 1
    a = a
    b = b
    x = x
    y = y
    z = z
SYMMETRY Symmetric
INVARIANTS
    Settled
    RequestsOwnRows
PROPERTIES
    CommittedStays
    HashedIsFresh
