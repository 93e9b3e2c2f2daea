CONSTANTS
    WaveSize = 64
    Widths = {1, 2, 4, 8, 16, 32, 64}
    Gflop = 4
    MaxLen = 4
    x = x
    y = y
    kk = kk
    n = n
    A = A
    B = B
SPECIFICATION OperatorsSpec
INVARIANTS ShuffleMatchesCuda SelectBestIsFirstMax TagAlphaInvariant TagIsStructural
CHECK_DEADLOCK FALSE
