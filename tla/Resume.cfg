SPECIFICATION FairSpec
CONSTANTS
    Shape <- Growing
    BlockLen = 2
    Interval = 3
    BatchMax = 1
    Modes = {"partial"}
    MaxFaults = 0
INVARIANTS
    DigestIsContent
    ExtentsAreContent
    NothingSkipped
    CheckpointIsPrefix
PROPERTIES
    CheckpointKept
    Converges
