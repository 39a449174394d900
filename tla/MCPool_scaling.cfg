CONSTANTS
    Tasks = {t1, t2}
    NoTask = NoTask
    MinWorkers = 1
    MaxWorkers = 2
    ChanSize = 1
    NoThread = NoThread
    Threads = {"dispatcher", "scaling", "health", "stop", "stats"}
SPECIFICATION AllSpec
INVARIANTS TasksAccounted
PROPERTIES  DeadPoolStaysDead AcceptedEnds NoMapRace EveryCallReturns
CHECK_DEADLOCK FALSE
