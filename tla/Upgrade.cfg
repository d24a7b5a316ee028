CONSTANTS
    Images = {1, 2}
    NoImage = 0
    Keys = {1, 2}
    NoKey = 0
    NoStash = NoStash
    Gate <- MCGate
    MaxSlot = 2
    MaxPass = 3
    SKEW = 0
    WINDOW_MIN = 1
    WINDOW_MAX = 1
    Setting <- MCSetting
    Upgradable = TRUE
    User = 0
    Delay = 1
    Tolerance = 1
    Genesis = 1
    MaxClock = 3
    MaxSigned = 2
    MaxBoots = 2
    MaxNonce = 4
SPECIFICATION Spec
INVARIANTS VolumeSafe IngestedChainWalks SignedAsIntended CommandRunsOnce DescentIsSigned
PROPERTIES RevokedNeverMoves VolumeSpec
CHECK_DEADLOCK FALSE
