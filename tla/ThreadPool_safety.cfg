SPECIFICATION Spec
CONSTANTS
    Workers = {w1, w2}
    Clients = {c1, c2}
    Callbacks = {cb}
    NoCallback = NoCallback
    Nobody = Nobody
    thread_num_ = 1
    MaxTasks = 3
    MaxStops = 2
SYMMETRY Symmetric
INVARIANTS
    TypeOK
    IdleMeansDone
    Accounting
    NoTaskTwice
    StrandedBound
    StopJoins
    OneCallPerTask
