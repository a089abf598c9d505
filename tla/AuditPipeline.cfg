SPECIFICATION FairPipelineSpec
CONSTANTS
    e1 = e1
    e2 = e2
    Events <- MCEvents
    Capacity = 1
    NoEvent = NoEvent
    Refused <- MCRefused
    Prefetch = 2
    Interruptions = {"crash", "stop", "connection", "unknown"}
    MaxInterruptions = 1
CHECK_DEADLOCK FALSE
INVARIANTS
    PipelineTypeOK
    NoneRefused
    GracefulExitDelivers
    NoGaps
PROPERTIES
    ExitReached
    EventuallyRecorded
