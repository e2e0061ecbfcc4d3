CONSTANTS
    PreAllocateSize = 0
    ReAllocateSize = 1
    SizeNeedReallocate = 1
    PreAllocateSocketNum = 2
    ReallocateSocketNum = 1
    SizeToReallocate = 1
    Listen = listen
    NoKey = noKey
    NoBuffer = noBuffer
    NoSocket = noSocket
    Threads = {t1, t2}
    Buffers = {b1, b2, b3, b4}
    Sockets = {s1, s2, s3}
    Keys = {k1}
    MaxChunks = 2
    MaxConns = 1
    MaxSends = 0
    MaxFaults = 1
SPECIFICATION FairCollectorSpec
CHECK_DEADLOCK FALSE
CONSTRAINT Intact
PROPERTIES
    GoneReleased
