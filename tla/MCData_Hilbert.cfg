SPECIFICATION Spec
CONSTANTS
    Programs <- CholeskyPrograms
    Shapes <- Square
INVARIANTS
    KernelsSeeTheFill
