CONSTANTS
    Items = {i1, i2, i3}
    Executions = {e1}
    NoItem = NoItem
    Priority <- SamePriority
    Workers = {w1}
    Dequeuers = {d1}
    Markers = {}
    Cleaners = {c1}
    Admins = {}
    MaxRetries = 2
    MaxAttempts = 1
    MaxStamp = 6
SPECIFICATION EngineSpec
INVARIANT RetryLimit
CHECK_DEADLOCK FALSE
