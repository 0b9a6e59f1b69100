SPECIFICATION Spec
CONSTANTS
    NFiles = 3
    Groups = {g1}
    Kind <- WholeKind
    Members <- WholeMembers
    Rank <- LastIsBest
    Workers = {w1, w2}
    MaxInflight = 2
    Stride = 1
    OnlyWholeFiles = TRUE
    DoBlockHash = FALSE
    NoWork = NoWork
    MaxSeq = 3
    MaxRuns = 2
    MaxFaults = 1
    g1 = g1
    g2 = g2
    g3 = g3
    w1 = w1
    w2 = w2
SYMMETRY Symmetric
INVARIANTS
    WatermarkSound
    ExitMeansDone
    NoUseAfterFree
PROPERTIES
    TargetStays
