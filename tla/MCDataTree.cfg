SPECIFICATION Spec
CONSTANTS
    Programs <- AllPrograms
    Shapes <- AllShapes
INVARIANTS
    TypeOK
    GuestOfScheduler
    BlocksTileMemory
    NoWildPointer
    RegisteredAtMemory
    KernelsSeeTheFill
    PrintShowsTheFill
