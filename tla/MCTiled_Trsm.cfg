SPECIFICATION Spec
CONSTANTS
    N = 2
    NFactor = 3
    NParts = 3
    Program <- TrsmProgram
    Expected <- TrsmExpected
INVARIANTS
    ComputesOperation
