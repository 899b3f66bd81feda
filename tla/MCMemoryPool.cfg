SPECIFICATION Spec
CONSTANTS
    Users = {u1, u2, u3, u4, u5}
    ElemCounts = {0, 1, 2, 3}
INVARIANTS
    TypeOK
    OneUser
    NoLeak
    OnlyEmptyPoolFails
    GrowsOnDemand
CHECK_DEADLOCK FALSE
