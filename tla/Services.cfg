\* Parts that share no state, one at a time.
CONSTANTS
    Names = {1, 2, 3} MaxBoot = 2 FreshBound <- FreshCluster FormedBound <- FormedCluster
    Self = "a" Peer = "b" Elsewhere = {"c"} MeshCalls = {1, 2}
    OutCap = 2 WireCap = 1 MaxConns = 2 MaxWork = 3 MaxMeshBoots = 2
    Calls = {1, 2} UpgradeStreams = {1} MAX_IN_FLIGHT = 1 CmdCap = 1 BufCap = 1 PipeCap = 1
    Chunks = 2 MaxStreamWrites = 1 MaxSessions = 2 MaxFaults = 1
    Clones = {"k1", "k2"} LastVersion = 3 PinnedImage = 1 Follows = TRUE MaxChannels = 3
    Sources = {"s1", "s2"} NoSource = "none" RxCap = 1 TxCap = 1 UpCap = 1 DownCap = 1
    MaxEvents = 3
INIT ServicesInit
NEXT ServicesNext
INVARIANTS
    ClusterStaysSound
    MeshIsSound
    RepliesAreWhole RestsClean
    ChannelIsTrusted
    SealedForExpectedOnly
    ConnectsAreServed
PROPERTIES
    InitializesOnce
CHECK_DEADLOCK FALSE
