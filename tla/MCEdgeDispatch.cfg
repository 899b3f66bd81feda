SPECIFICATION EdgeSpec
CONSTANTS
    Chains = {"DT", "SG", "SPU", "BLAS"}
    NWorkers = 2
    B1 = 2
    P = 2
    Q = 1
    NTasks = 10
    Ranks <- MCRanks
    Data <- MCData
    HostOf <- MCHostOf
    Args <- MCArgs
    GpuTasks <- MCGpuTasks
INVARIANTS
    EdgeTypeOK
    NoVersionSkipped
    FinalizeComplete
PROPERTIES
    ImplementsTaskOrder
    ProgramsReturn
