CONSTANTS
    e1 = e1
    e2 = e2
    w1 = w1
    w2 = w2
    c1 = c1
    c2 = c2
    c3 = c3
    NoCtx = NoCtx
    Entities <- MCEntities
    Workers <- MCWorkers
    Ctxs <- MCCtxs
    TopK = 1
    NewTrial = 1
    SeenCap = 1
    EvictAfter = 0
    Costs = {1}
    Gflop = 4
    Evaluations = {0, 1, 2}
    MaxRounds = 2
    MaxInflight = 2
    Serialized = FALSE
SYMMETRY MCSymmetry
SPECIFICATION Spec
INVARIANT NoEmptyHeapAccess
