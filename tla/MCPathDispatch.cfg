SPECIFICATION Spec
CONSTANTS
    NWorkers = 2
    B1 = 2
    B2 = 2
    RootTask <- Cholesky
    NTasks = 2
    Arity <- MCArity
    TaskReads <- MCTaskReads
    TaskWrites <- MCTaskWrites
    LeafReads <- MCLeafReads
    LeafWrites <- MCLeafWrites
    Shortcuts = {0, 1}
    GemmLeaves <- MCGemmLeaves
INVARIANTS
    TypeOK
    CountIsExact
    NoLostCompletion
    LeafOrder
    FinalizeComplete
    IndInv
PROPERTIES
    LostForGood
    ImplementsTaskOrder
    Termination
