SPECIFICATION AllSpec
CONSTANTS
    Configs <- DT_SG_BLAS
    Products = {}
    NTop = 1
    NWorkers = 2
    Arity <- MCArity
    Reads <- MCReads
    Writes <- MCWrites
    HoldIn <- HoldInNone
    M = 1
    N = 2
    M2 = 2
    N2 = 1
INVARIANTS
    FinalizeComplete
