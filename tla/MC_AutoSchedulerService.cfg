CONSTANTS
    e1 = e1
    e2 = e2
    w1 = w1
    w2 = w2
    c1 = c1
    c2 = c2
    c3 = c3
    r1 = r1
    r2 = r2
    NoCtx = NoCtx
    Idle = Idle
    Entities <- MCEntities
    Workers <- MCWorkers
    Ctxs <- MCCtxs
    Requests <- MCRequests
    Priorities = {0, 1, 2}
    TopK = 1
    NewTrial = 1
    SeenCap = 1
    EvictAfter = 0
    Costs = {1}
    Gflop = 4
    Evaluations = {0, 1, 2}
    MaxRounds = 2
    MaxInflight = 2
    Serialized = TRUE
SPECIFICATION Spec
INVARIANTS TypeOK NormalFifo
PROPERTIES AbstractSpec HighFirst
CHECK_DEADLOCK FALSE
