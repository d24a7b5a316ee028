\* stack.rs: a slow forwarder only paces the workload.
CONSTANTS
    Sources = {"s1"} NoSource = "none" RxCap = 1 TxCap = 1 UpCap = 1 DownCap = 1
    MaxEvents = 4
INIT EgressInit
NEXT EgressNext
INVARIANT UploadIsPrefix
CHECK_DEADLOCK FALSE
