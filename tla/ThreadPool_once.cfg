SPECIFICATION Spec
CONSTANTS
    Workers = {w1, w2}
    Clients = {c1}
    Callbacks = {cb}
    NoCallback = NoCallback
    Nobody = Nobody
    thread_num_ = 2
    MaxTasks = 2
    MaxStops = 0
INVARIANT
    CallbackOncePerBatch
