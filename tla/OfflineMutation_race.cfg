SPECIFICATION FairSpec
CONSTANTS
    MaxItems = 1
    MaxDrains = 4
    MaxLapses = 0
    MaxQueueSize = 2
    Overlap = TRUE
    Crashes = FALSE
    ReadFaults = FALSE
    WriteFaults = FALSE
    MaxChanges <- MCRaceChanges
CHECK_DEADLOCK FALSE
PROPERTIES
    DrainedAfterReconnect
