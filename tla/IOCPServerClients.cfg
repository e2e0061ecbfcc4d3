CONSTANTS
    PreAllocateSize = 0
    ReAllocateSize = 1
    SizeNeedReallocate = 1
    PreAllocateSocketNum = 2
    ReallocateSocketNum = 1
    SizeToReallocate = 1
    Listen = listen
    NoKey = noKey
    NoBuffer = noBuffer
    NoSocket = noSocket
    Threads = {t1, t2}
    Buffers = {b1, b2, b3, b4, b5}
    Sockets = {s1, s2, s3, s4}
    Keys = {k1, k2}
    MaxChunks = 2
    MaxConns = 2
    MaxSends = 0
    MaxFaults = 0
SPECIFICATION Spec
CHECK_DEADLOCK FALSE
SYMMETRY ServerSymmetry
CONSTRAINT Intact
INVARIANTS
    SharedOnlyAfterRace
    InOrderDelivery
    OneReader
    KeySocketsInUse
