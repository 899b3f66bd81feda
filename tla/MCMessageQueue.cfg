SPECIFICATION Spec
CONSTANTS
    B1 = 2
    MaxObjects = 40
    Program <- MCProgram
INVARIANTS
    PartitionKeysAgree
CHECK_DEADLOCK FALSE
