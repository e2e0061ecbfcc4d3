CONSTANTS
    Sockets = {s1, s2, s3, s4, s5}
    Handles = {h1, h2, h3, h4}
    InvalidSocket = invalid
    PreAllocateSocketNum = 2
    ReallocateSocketNum = 3
    SizeToReallocate = 1
SYMMETRY HandleSymmetry
SPECIFICATION HandleSpec
INVARIANTS
    HandleTypeOK
    EachSocketOwnsItsHandle
    InUseIsOwned
    PoolSizeBound
