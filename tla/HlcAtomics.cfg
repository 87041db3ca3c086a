SPECIFICATION AtomicsSpec
CONSTANTS
    Thread = {t1, t2}
    Dev = 2
    Incoming <- MCIncoming
    MaxReading = 2
    MaxCalls = 3
INVARIANTS
    MergeReturnsLater
PROPERTIES
    ImplementsGenerator
CHECK_DEADLOCK FALSE
