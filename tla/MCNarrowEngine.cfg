SPECIFICATION Spec
CONSTANTS
    NoHeader = NoHeader
    NoResult = NoResult
    Cut = Cut
    w1 = w1
    w2 = w2
    revA = revA
    revB = revB
    w12 = w12
    Args = {w12}
    Revs = {revA, revB}
    Finds <- TwoRevs
    Cap = 2
    Workers = {w1, w2}
    Runtree = FALSE
    MayPanic = TRUE
    MaxFaults = 3
SYMMETRY Swap
INVARIANTS
    OneEngine
