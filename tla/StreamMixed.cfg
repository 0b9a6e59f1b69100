SPECIFICATION Spec
CONSTANTS
    NFiles = 4
    Groups = {g1, g2}
    Kind <- MixedKind
    Members <- MixedMembers
    Rank <- LastIsBest
    Workers = {w1, w2}
    MaxInflight = 2
    Stride = 2
    OnlyWholeFiles = FALSE
    DoBlockHash = FALSE
    NoWork = NoWork
    MaxSeq = 3
    MaxRuns = 2
    MaxFaults = 1
    g1 = g1
    g2 = g2
    g3 = g3
    w1 = w1
    w2 = w2
SYMMETRY Symmetric
INVARIANTS
    DisjointPasses
    Convergence
