SPECIFICATION ReplicasFairSpec
CONSTANTS
    Device <- MCDevices
    CacheSize = 2
    MaxWall = 1
    MaxEvents = 3
    MaxRepeats = 1
    MaxRestarts = 1
CHECK_DEADLOCK FALSE
INVARIANTS
    ConvergedUnlessTied
    TombstoneHolds
PROPERTIES
    SeesOwnWrite
    EventuallyConverged
