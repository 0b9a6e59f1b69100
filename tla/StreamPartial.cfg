SPECIFICATION FairSpec
CONSTANTS
    NFiles = 3
    Groups = {g2, g3}
    Kind <- PartialKind
    Members <- PartialMembers
    Rank <- LastIsBest
    Workers = {w1, w2}
    MaxInflight = 2
    Stride = 1
    OnlyWholeFiles = FALSE
    DoBlockHash = TRUE
    NoWork = NoWork
    MaxSeq = 3
    MaxRuns = 1
    MaxFaults = 1
    g1 = g1
    g2 = g2
    g3 = g3
    w1 = w1
    w2 = w2
INVARIANTS
    SearchScope
    NoUseAfterFree
PROPERTIES
    PhaseEnds
