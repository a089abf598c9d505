SPECIFICATION FairSpec
CONSTANTS
    Messages <- MCMessages
    Malformed <- MCMalformed
    Unstorable <- None
    Prefetch = 3
    Interruptions = {"crash"}
    MaxInterruptions = 1
CHECK_DEADLOCK FALSE
PROPERTY DuplicateSettled
