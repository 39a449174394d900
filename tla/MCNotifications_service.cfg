CONSTANTS
    Ids = {n1}
    MaxAttempts = 1
    Users = {u1}
    Pending = {p1}
    Retriers = {r1, r2}
    Schedulers = {s1}
    NoCopy = NoCopy
    MaxResends = 1
    MaxCrashes = 1
SPECIFICATION FairSpec
INVARIANTS SendsBounded SentIsTrue 
PROPERTIES OnlyResendRevives EveryNotificationSettles
CHECK_DEADLOCK FALSE
