SPECIFICATION AllSpec
CONSTANTS
    Configs <- AllConfigs
    Products <- AllProducts
    NTop = 2
    NWorkers = 2
    Arity <- MCArity
    Reads <- MCReads
    Writes <- MCWrites
    HoldIn <- HoldInSome
    M = 1
    N = 2
    M2 = 2
    N2 = 1
INVARIANTS
    AllTypeOK
    CountsKept
    CompletionKept
    KernelOrder
    FinalizeCompleteOfTwo
PROPERTIES
    ImplementsTaskOrder
    Termination
