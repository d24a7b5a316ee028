----------------------------- MODULE MCSyncJoin -----------------------------
(* Bounds for the formation and the repair of a cluster.                      *)
EXTENDS SyncJoin

FreshCluster == [restarts |-> 1, epoch |-> 1, ops |-> 0, log |-> 5]
FormedCluster == [restarts |-> 1, epoch |-> 2, ops |-> 1, log |-> 5]
=============================================================================
