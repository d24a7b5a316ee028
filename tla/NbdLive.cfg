\* Every task is scheduled: parked replies are released.
CONSTANTS
    h1 = h1  h2 = h2
    None = None
    Handle = {h1, h2}
    QueueCap = 1
    Overlap = 2
    StaleDisk = FALSE
    MaxWrites = 2
SPECIFICATION FairSpec
PROPERTIES WriteAnswered OthersFlow
CHECK_DEADLOCK FALSE
