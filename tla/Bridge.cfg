SPECIFICATION Spec
CONSTANTS
    Requests <- MCRequests
    Contexts <- MCContexts
CHECK_DEADLOCK FALSE
INVARIANTS
    CloudOnlyIfAllowed
    LocalIsLastResort
