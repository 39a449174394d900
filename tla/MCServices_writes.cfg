CONSTANTS
    None = None
    Requests = {r1, r2}
    Ids = {d1, d2}
    StepLists = {good, bad}
    WellFormed = {good}
    MaxVersion = 2
    LoggedWorkflows = {f1}
    Logs = {l1, l2}
    Steps = {s1}
    MaxRuns = 2
    Tasks = {k1, k2, k3}
    Movers = {r1, r2}
    Consumers = {c1}
    MaxRetries = 1
    Count = 2
SPECIFICATION Spec
INVARIANTS DocumentsHold  
SYMMETRY Symmetry
CHECK_DEADLOCK FALSE
