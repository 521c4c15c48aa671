SPECIFICATION FairSpec
CONSTANTS
    Clients = {c1}
    MaxTasks = 2
    MaxStops = 0
PROPERTY
    PostedTasksRun
