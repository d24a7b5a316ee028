\* Clones of an image and of its disk, an upgrade, and restored disks.
CONSTANTS
    None = None k1 = k1 k2 = k2
    i1 = i1 i2 = i2 i3 = i3 d1 = d1 d2 = d2
    PcrKey = {k1, k2}
    Commitment = {0, 1, 2}
    Instance = {i1, i2, i3}
    Disk = {d1, d2}
    Genesis = {k1}
    Link <- Upgrades
    MaxLive = 2
    Restored = TRUE
    MaxWrites = 2
    MaxTries = 2
SPECIFICATION Spec
SYMMETRY Symmetry
INVARIANTS AckedIsLinear MismatchMeansTorn
PROPERTIES VerdictsAreRight
CHECK_DEADLOCK FALSE
