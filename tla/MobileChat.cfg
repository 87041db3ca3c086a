SPECIFICATION Spec
CONSTANTS
    m1 = m1
    m2 = m2
    c1 = c1
    c2 = c2
    Calls <- MCCalls
    Messages <- MCMessages
    MaxAttempts = 2
    MaxPresses = 2
    MaxTakes = 3
    MaxScreens = 2
SYMMETRY Symmetry
CHECK_DEADLOCK FALSE
INVARIANTS
    SentIsStored
    StoredOnce
    MicIsShown
