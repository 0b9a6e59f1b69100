SPECIFICATION Spec
CHECK_DEADLOCK FALSE
CONSTANTS
    Commands <- AllCommands
    Found <- AnyFile
    Tree <- Trees
    FsOf <- Filesystems
    BlockSizes = {4, 8}
    BadPatterns = {"["}
    None = None
    MaxRuns = 3
    MaxFaults = 1
    MaxMoves = 1
INVARIANTS
    OneBlocksize
    ReplayWhole
    HonestStatus
    Reopens
PROPERTIES
    LeftAlone
