SPECIFICATION FairSpec
CONSTANTS
    e1 = e1
    e2 = e2
    e3 = e3
    Events <- MCEvents
    Capacity = 2
    NoEvent = NoEvent
CHECK_DEADLOCK FALSE
INVARIANTS
    Conserved
    EarlyFlushed
PROPERTIES
    CloseCompletes
