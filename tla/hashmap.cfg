SPECIFICATION Spec
CONSTANTS
    k1 = k1
    k2 = k2
    k3 = k3
    Key = {k1, k2, k3}
    Val = {NULL, v1}
    NULL = NULL
    v1 = v1
    Absent = Absent
    Hash <- CollidingHash
    InitCap = 1
    MaxCap = 8
    MayFail = TRUE
INVARIANTS
    TypeOK
    NodesReachable
    HalfFull
PROPERTIES
    ImplementsMap
    PutEnds
