CONSTANTS
    lowItem = low
    highItem = high
    Items = {high}
    Priority <- MCPriority
    Dequeuers = {c1, c2}
    Markers = {c2}
    Cleaners = {c3}
    Admins = {c1}
    MaxRetries = 1
    MaxStamp = 4
SPECIFICATION Spec
INVARIANTS  RetryBudget
 
CHECK_DEADLOCK FALSE
