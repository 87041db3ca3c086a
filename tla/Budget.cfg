SPECIFICATION BudgetSpec
CONSTANTS
    p1 = p1
    p2 = p2
    p3 = p3
    Caller <- MCCallers
    LatencyBudget = 2
    CostBudget = 2
    MaxLatency = 1
    MaxCost = 2
    Wrap = 4
    MaxPrompts = 5
    MaxResets = 1
CHECK_DEADLOCK FALSE
SYMMETRY Symmetry
INVARIANTS
    OvershootBounded
