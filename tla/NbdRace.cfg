\* Two region writes in flight, and a host that may serve older content.
CONSTANTS
    h1 = h1  h2 = h2  h3 = h3
    None = None
    Handle = {h1, h2, h3}
    QueueCap = 1
    Overlap = 2
    StaleDisk = TRUE
    MaxWrites = 2
SPECIFICATION Spec
SYMMETRY Handles
INVARIANTS AckedIsPinned NoStaleRead ReusedHandleIsClean QuietDiskMatches
PROPERTIES RefusedIsOlder
CHECK_DEADLOCK FALSE
