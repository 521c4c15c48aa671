SPECIFICATION FairSpec
CONSTANTS
    Clients = {c1}
    MaxTasks = 1
    MaxStops = 1
PROPERTY
    StopAlwaysTerminates
