SPECIFICATION Spec
CONSTANTS
    Elements = {e1, e2, e3, e4, e5, e6}
    NoElement = NoElement
    Keys = {1, 2, 3}
    MaxSize = 6
SYMMETRY Symmetric
INVARIANTS
    TypeOK
    HeapOrdered
    HandlesFollow
    MovesBounded
