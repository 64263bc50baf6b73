SPECIFICATION Spec
CONSTANTS
    W = 2
    N = 2
    NoWord = NoWord
    NoSide = NoWord
    Decoded <- Exec
    ForcedDelay <- ExecDelay
    Configs <- MCConfigs
    Delays <- MCDelays
    Divisors = {256, 416}
    TxDepths = {0, 2}
    Inputs <- MCInputs
    Masks <- MCMasks
    Exts <- MCExts
    Outputs <- MCOutputs
    Cycles = 10
    Preload = 1
INVARIANTS
    TypeOK
    NeverStarved
    StallsAreExact
    ClockExact
PROPERTIES
    RunsTheProgram
    StallsHaveNoEffect
CHECK_DEADLOCK FALSE
