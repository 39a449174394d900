CONSTANTS
    lowItem = low
    highItem = high
    Items = {low, high}
    Priority <- MCPriority
    dispatcher = dispatcher
    cleaner = cleaner
    Dequeuers = {dispatcher}
    Markers = {}
    Cleaners = {cleaner}
    Admins = {}
    MaxRetries = 2
    MaxStamp = 8
    w1 = w1
    w2 = w2
    Callers = {b1, b2}
    l1 = l1
    l2 = l2
    MaxStarts = 2
SPECIFICATION AllSpec
INVARIANTS   RunningMeansLoop
PROPERTIES  EveryItemSettles  StopStopsEveryLoop
CHECK_DEADLOCK FALSE
