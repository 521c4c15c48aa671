SPECIFICATION FairSpec
CONSTANTS
    Threads = {t1, t2, t3}
    Data = {a, b}
    NoData = NoData
    buffer_size = 2
    MaxEnqueues = 3
    Running = {t1}
INVARIANTS
    TypeOK
    CellsAreExclusive
    FirstInFirstOut
    Bounded
PROPERTIES
    FalseIsTrueAlone
    LockFree
