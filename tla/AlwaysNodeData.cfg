SPECIFICATION Spec
CONSTANTS
    Intervals = {30, 60, 120}
    Nodes = {n1, n2}
    AggFns = {mean, max}
    BestInterval = 30
    DefaultAggFn = mean
    Undefined = Undefined
    MaxPending = 2
    MaxChoices = 2
    MaxFailures = 1
CHECK_DEADLOCK FALSE
INVARIANTS
    AlwaysNodeData
