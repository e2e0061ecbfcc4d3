CONSTANTS
    Clients = {c1, c2}
    Handles = {h1, h2}
    Listen = listen
    Invalid = invalid
    NoHandle = noHandle
    fd_grow_size = 0
    DefaultGrowSize = 2
    FD_SETSIZE = 3
    buffer_cache_size = 2
    MaxChunks = 2
    MaxErrors = 1
SPECIFICATION FairSpec
CHECK_DEADLOCK FALSE
INVARIANTS
    TypeOK
    WatchesOpenSockets
    FdSetFits
    NoUseOfClosedSocket
    WaitsOnlyBehindReady
PROPERTIES
    
    ClientsServed
    StopsAtNextEvent
