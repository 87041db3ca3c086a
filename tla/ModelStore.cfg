SPECIFICATION Spec
CONSTANTS
    d1 = d1
    d2 = d2
    f1 = f1
    f2 = f2
    f3 = f3
    m1 = m1
    m2 = m2
    m3 = m3
    Downloads <- MCDownloads
    Files <- MCFiles
    Models <- MCModels
    Size <- MCSize
    Imported <- MCImported
    Chunks = 2
    MaxStarts = 3
    MaxBad = 1
    Target = 2
    MaxClock = 3
CHECK_DEADLOCK FALSE
INVARIANTS
    InstalledIsWhole
    IndexedIsPresent
    EvictsOnlyWhatItMust
PROPERTIES
    DownloadsEndOrHang
