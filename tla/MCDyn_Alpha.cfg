SPECIFICATION AllSpec
CONSTANTS
    Configs <- SG_BLAS
    Products = {}
    NTop = 2
    NWorkers = 2
    Arity <- MCArity
    Reads <- MCReads
    Writes <- MCWrites
    HoldIn <- HoldInNone
    M = 1
    N = 2
    M2 = 1
    N2 = 1
INVARIANTS
    KernelReadsAlpha
