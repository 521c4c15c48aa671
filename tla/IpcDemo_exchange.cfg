SPECIFICATION FairSpec
CONSTANTS
    Capacity = 2
    FirstWord = 100
    LastWord = 109
    MaxInterrupts = 3
    MaxFailures = 1
CHECK_DEADLOCK FALSE
INVARIANTS
    TypeOK
    NoWordLost
    NoSilentWord

    
