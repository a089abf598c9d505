SPECIFICATION FairWorkerSpec
CONSTANTS
    Messages <- MCMessages
    Malformed <- MCMalformed
    Unstorable <- MCUnstorable
    Blocked <- MCBlocked
    Garbled <- MCGarbled
    Prefetch = 2
    Interruptions = {"crash", "stop", "connection", "unknown"}
    MaxInterruptions = 2
    MaxAlertInterruptions = 1
CHECK_DEADLOCK FALSE
INVARIANTS
    WorkerTypeOK
    NothingLost
    OnePlace
    NoAlertLost
    AlertIsTrailed
PROPERTIES
    ImplementsTrail
    EventuallySettled
    EventuallyAlerted
