SPECIFICATION Spec
CONSTANTS
    MaxItems = 3
    MaxDrains = 2
    MaxLapses = 1
    MaxQueueSize = 2
    Overlap = TRUE
    Crashes = TRUE
    ReadFaults = TRUE
    WriteFaults = TRUE
    MaxChanges <- MCChanges
CHECK_DEADLOCK FALSE
INVARIANTS
    HookNotStuckOffline
    StoreInOrder
    RetryCountIsEarned
    Durable
    SucceedsOncePerLapse
