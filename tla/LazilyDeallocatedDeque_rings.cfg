SPECIFICATION Spec
CONSTANTS
    Deques = {d1, d2}
    T = {a, b}
    NoElement = NoElement
    kMinimumRingSize = 2
    kReclaimThreshold = 1
    kMinimumShrinkIntervalInSeconds = 1
    MaxSize = 3
    MaxNow = 2
SYMMETRY Symmetric
INVARIANTS
    TypeOK
    RingsWellFormed
    SizesAgree
    IsItsSequence
