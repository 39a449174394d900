CONSTANTS
    Items = {i1, i2, i3}
    Executions = {e1, e2}
    NoItem = NoItem
    Priority <- SamePriority
    Workers = {w1, w2}
    Dequeuers = {d1}
    Markers = {}
    Cleaners = {c1}
    Admins = {}
    MaxRetries = 2
    MaxAttempts = 1
    MaxStamp = 6
    None = None
    Durations = {1, 4}
    MaxTasks = 2
    LastDay = 1
    KeptDays = 0
    MaxCount = 2
    FailedLimit = 1
    QueueLimit = 1
SPECIFICATION MonitoredSpec
INVARIANTS RunsAreBounded HeldOnceAndRecorded FiguresHold
SYMMETRY Symmetry
CHECK_DEADLOCK FALSE
