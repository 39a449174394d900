CONSTANTS
    Items = {i1}
    Executions = {e1}
    NoItem = NoItem
    Priority <- SamePriority
    Workers = {w1, w2}
    Dequeuers = {d1}
    Markers = {}
    Cleaners = {c1}
    Admins = {}
    MaxRetries = 2
    MaxAttempts = 1
    MaxStamp = 6
SPECIFICATION EngineSpec
INVARIANT SuccessIsFinal
CHECK_DEADLOCK FALSE
