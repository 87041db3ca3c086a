SPECIFICATION FairSpec
CONSTANTS
    Call = {c1, c2}
    e1 = e1
    e2 = e2
    Request <- MCRequest
    Event = {e1, e2}
    Invalid = {e2}
    Status = {200, 403, 503}
    MaxAttempts = 3
CHECK_DEADLOCK FALSE
INVARIANTS
    OkIsTruthful
PROPERTIES
    CallsReturnOrHang
    KeepsContract
