SPECIFICATION FairSpec
CONSTANTS
    Clients = {c1, c2}
    MaxTasks = 4
    MaxStops = 2
INVARIANTS
    TypeOK
    NothingLost
    QueuesInOrder
    OvertakingBounded
    QuitIsPrompt
PROPERTIES
    ReloadedTasksRun
    StopTerminates
