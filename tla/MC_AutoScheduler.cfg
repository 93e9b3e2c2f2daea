CONSTANTS
    e1 = e1
    e2 = e2
    e3 = e3
    e4 = e4
    e5 = e5
    Entities <- MCEntities
    TopK = 3
    NewTrial = 2
    SeenCap = 3
    EvictAfter = 0
    Costs = {0, 1, 2}
    Gflop = 4
    Evaluations = {0, 1, 2}
    MaxRounds = 6
    MaxInflight = 2
SYMMETRY MCSymmetry
SPECIFICATION Spec
INVARIANT TypeOK
INVARIANT TopKIsBest
INVARIANT SeenBounded
