\* Pins of two clones, or an upgrade racing a pin, with retried writes.
CONSTANTS
    k1 = k1 k2 = k2 k3 = k3 c1 = c1 c2 = c2 p1 = p1 p2 = p2 h1 = h1 h2 = h2
    None = None
    PcrKey = {k1, k2} Commitment = {c1, c2} Pubkey = {p1, p2} LinkHash = {h1, h2}
    UpgradeWindowMin = 1 TransitionClockTolerance = 0
    Node = {n1} Call = {i1, i2, i3}
    Request <- WriteRequests
    MaxTries = 2 SnapshotEvery = 9 MaxFaults = 1 MaxTime = 0
SPECIFICATION Spec
SYMMETRY Symmetry
CONSTRAINT PinsOrUpgrades
CHECK_DEADLOCK FALSE
INVARIANTS
    TypeOK
    HistoryIsLinear
    AppliedOnce
PROPERTIES
    ImplementsOracle
