CONSTANTS
    x = x
    y = y
    kk = kk
    n = n
    A = A
    B = B
    VarIds <- MCVarIds
    SVarIds = {n}
    Funcs <- MCFuncs
    Shape <- MCShape
    Exprs <- MCCondExprs
    MaxLen = 1
SPECIFICATION TagSpec
INVARIANT TagIsStructural
CHECK_DEADLOCK FALSE
