SPECIFICATION Spec
CONSTANTS
    Shape <- Moving
    BlockLen = 2
    Interval = 2
    BatchMax = 1
    Modes = {"default", "whole", "partial"}
    MaxFaults = 2
INVARIANTS
    DigestIsContent
    NoKeyTwice
    CheckpointOnlyUnhashed
