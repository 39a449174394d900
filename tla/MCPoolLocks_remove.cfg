CONSTANTS
    NoThread = NoThread
    Threads = {"dispatcher", "scaling", "metrics", "stop"}
SPECIFICATION FairSpec
PROPERTY RemoveWorkerReturns
CHECK_DEADLOCK FALSE
