SPECIFICATION Spec
CONSTANTS
    Device = {1, 2}
    ClockMayStepBack = TRUE
    MaxWall = 2
    MaxEvents = 4
    MaxRestarts = 1
INVARIANTS
    CausalityWhileRunning
    DistinctWhileRunning
    CloseToWallTime
CHECK_DEADLOCK FALSE
