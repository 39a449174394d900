CONSTANTS
    Steps = {s1, s2}
    First = s1
    Other = s2
    End = End
    Missing = Missing
    Workflows <- MCWorkflows
    None = None
    Accounts = {a1}
    Emails = {e1}
    Requests = {r1, r2}
    Slots = {p1, p2}
    Warmups = {t1}
    Filler = t1
    Semaphore = 1
    MaxVersion = 1
SPECIFICATION AllSpec
INVARIANTS VerdictIsTrue RecordIsPath RunsAccounted
PROPERTIES ExecutionsEnd SpentStaysSpent DeactivationEnds CacheSettles
CHECK_DEADLOCK FALSE
