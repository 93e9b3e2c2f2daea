CONSTANTS
    r1 = r1
    r2 = r2
    r3 = r3
    w1 = w1
    w2 = w2
    Idle = Idle
    Requests <- MCRequests
    Workers <- MCWorkers
    Priorities = {0, 1, 2}
SPECIFICATION Spec
INVARIANT HighFifo
CHECK_DEADLOCK FALSE
