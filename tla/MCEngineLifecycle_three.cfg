CONSTANT
    Workers = {w1, w2, w3}
SPECIFICATION FairSpec
PROPERTY GracefulExit
CHECK_DEADLOCK FALSE
