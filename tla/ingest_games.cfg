SPECIFICATION Spec
CONSTANTS
    a = a
    b = b
    c = c
    g = g
    k = k
    x = x
    y = y
    Requests = {a, b, c}
    GameKeys = {g}
    CallerKeys = {k}
    Contents = {x, y}
    Inputs <- Archives
    ChunkMax = 1
    Faults = {"claim", "produce", "release", "cancel", "crash"}
    MaxFaults = 2
SYMMETRY RequestSymmetry
INVARIANTS AcceptedIsDurable OneRecordPerGame EveryClaimIsBacked
CHECK_DEADLOCK FALSE
