CONSTANTS
    Buffers = {b1, b2, b3, b4, b5, b6}
    PreAllocateSize = 1
    ReAllocateSize = 1
    SizeNeedReallocate = 2
SYMMETRY BufferSymmetry
SPECIFICATION LeaseSpec
INVARIANTS
    LeaseTypeOK
    LeasedNotCached
    InUseAccountedFor
    PoolBound
