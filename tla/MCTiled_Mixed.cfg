SPECIFICATION Spec
CONSTANTS
    N = 2
    NFactor = 3
    NParts = 3
    Program <- MixedProgram
    Expected <- MixedExpected
INVARIANTS
    ComputesOperation
    OperandsAreSequential
    OperandsAreStable
