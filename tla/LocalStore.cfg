SPECIFICATION Spec
CONSTANTS
    o1 = o1
    o2 = o2
    Openers <- MCOpeners
    Tables <- MCTables
    Source <- MCSource
    Own <- MCOwn
    MaxLaunches = 3
    MaxFaults = 2
CHECK_DEADLOCK FALSE
SYMMETRY Symmetry
INVARIANTS
    DataReadable
    MarkedOnlyIfComplete
    EditsSurvive
