SPECIFICATION Spec
CHECK_DEADLOCK FALSE
CONSTANTS
    Commands <- ScanCommands
    Found <- NoFile
    Tree <- Trees
    FsOf <- Filesystems
    BlockSizes = {4}
    BadPatterns = {}
    None = None
    MaxRuns = 3
    MaxFaults = 0
    MaxMoves = 1
INVARIANT OneFilesystem
