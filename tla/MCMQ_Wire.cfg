SPECIFICATION Spec
CONSTANTS
    B1 = 1
    MaxObjects = 8
    Program <- MCProgram
INVARIANTS
    ReadsItsFields
    KeysResolve
CHECK_DEADLOCK FALSE
