\* The false alarm on an honest disk.
CONSTANTS
    h1 = h1  h2 = h2  h3 = h3
    None = None
    Handle = {h1, h2, h3}
    QueueCap = 1
    Overlap = 1
    StaleDisk = FALSE
    MaxWrites = 2
SPECIFICATION Spec
SYMMETRY Handles
INVARIANT HonestNeverRefused
CHECK_DEADLOCK FALSE
