CONSTANTS
    None = None
    Callers = {c1, c2}
    Records = {x1, x2}
    Full = {f1}
    Incremental = {i1}
    Partial = {p1}
    MaxDocs = 3
    MaxSize = 2
    DefaultSize = 2
    MaxVersion = 2
    MaxEdits = 1
    MaxConnections = 1
    MaxIdleConns = 1
    MaxTries = 2
    MaxAttempts = 40
    FewAttempts = 10
    Longer = {0, 1, 6, 10}
    NumWorkers = 1
    MaxBatch = 1
SPECIFICATION Spec
INVARIANTS ValidatedIsRestorable   EmailsHold  JobsAreKept
SYMMETRY Symmetry
CHECK_DEADLOCK FALSE
