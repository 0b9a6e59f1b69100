SPECIFICATION Spec
CONSTANTS
    N = 2
    BlockSize = 2
    RoundLen = 4
    CallLen = 2
    MaxLen = 7
    Kernels <- AllKernels
INVARIANTS
    CreditReal
    Complete
PROPERTIES
    EachAnsweredOnce
