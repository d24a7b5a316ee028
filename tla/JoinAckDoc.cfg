\* raft/mod.rs: an ACKed write survives the loss of any single node.
CONSTANTS
    Names = {1, 2, 3} MaxBoot = 2 FreshBound <- FreshCluster FormedBound <- FormedCluster
SPECIFICATION JoinSpec
INVARIANT AckedSurvives
CHECK_DEADLOCK FALSE
