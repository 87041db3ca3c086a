SPECIFICATION FairSpec
CONSTANTS
    Urls = {u1, u2}
    MaxActs = 1
    MaxCommits = 2
    MaxTries = 2
    MaxMounts = 2
    MaxPool = 2
    MaxPolls = 1
    MaxSends = 3
    MaxBars = 2
    MaxCalls = 2
    MaxVisits = 2
INVARIANTS
    ServerWasReached
    UserHasLastWord
    AddedIsTrue
    NoStrayPolling
    ShownIsOwn
    StopReaches
    LiveCallIsShown
    SavedIsOwn
PROPERTIES
    DoneCompletes
    WaitingEnds
CHECK_DEADLOCK FALSE
