------------------------------ MODULE SocketPool ------------------------------
(***************************************************************************)
(* GT_SocketPool_Manager: the pool of unconnected sockets AcceptEx takes    *)
(* its client sockets from.  Every operation runs under socket_pool_mutex_  *)
(* and is one step.  A socket is the address of the SOCKET object that a    *)
(* shared_ptr manages; the handle stored in it is in SocketHandles.         *)
(***************************************************************************)
EXTENDS Naturals, FiniteSets, FiniteSetsExt

CONSTANTS
    Sockets,               \* addresses of SOCKET objects
    PreAllocateSocketNum,  \* socket_pool_cfg.pre_allocate_socket_num
    ReallocateSocketNum,   \* socket_pool_cfg.reallocate_socket_num_pertime
    SizeToReallocate       \* socket_pool_cfg.size_to_rellocate

ASSUME SocketPoolSizes ==
    /\ PreAllocateSocketNum \in Nat
    /\ ReallocateSocketNum \in Nat
    /\ SizeToReallocate \in Nat

\* The address space is finite.
ASSUME SocketsFinite == IsFiniteSet(Sockets)

VARIABLES
    shared_socket_pool_,  \* sockets to be handed out
    socket_inuse_pool_,   \* sockets handed out and not closed yet
    poolsize_             \* sockets put into the pool so far

socketPoolVars == <<shared_socket_pool_, socket_inuse_pool_, poolsize_>>

SocketPoolTypeOK ==
    /\ shared_socket_pool_ \subseteq Sockets
    /\ socket_inuse_pool_ \subseteq Sockets
    /\ poolsize_ \in 0 .. PreAllocateSocketNum

SocketPoolInit ==
    /\ shared_socket_pool_ = {}
    /\ socket_inuse_pool_ = {}
    /\ poolsize_ = 0

-----------------------------------------------------------------------------

\* poolsize_ after n more sockets.  PreAllocateSocket_ compares it with
\* PreAllocateSocketNum and nothing else reads it, so it saturates there.
CountSockets(n) ==
    IF poolsize_ + n < PreAllocateSocketNum
    THEN poolsize_ + n ELSE PreAllocateSocketNum

\* Fault: counts the configured number again on every call.
InitilizeCountsAgain(added) ==
    /\ Cardinality(added) = PreAllocateSocketNum - poolsize_
    /\ shared_socket_pool_' = shared_socket_pool_ \cup added
    /\ poolsize_' = poolsize_ + PreAllocateSocketNum
    /\ UNCHANGED socket_inuse_pool_

\* Initilize puts the sockets "added" into the pool; nothing resets
\* poolsize_, so after DestroyPool it finds nothing left to allocate.
InitilizeSockets(added) ==
    /\ Cardinality(added) = PreAllocateSocketNum - poolsize_
    /\ shared_socket_pool_' = shared_socket_pool_ \cup added
    /\ poolsize_' = PreAllocateSocketNum
    /\ UNCHANGED socket_inuse_pool_

\* Fault: the test for a short pool is inverted.
ReallocationsInverted(fresh) ==
    IF Cardinality(shared_socket_pool_) >= SizeToReallocate
    THEN kSubset(ReallocateSocketNum, fresh) ELSE {{}}

\* What UpdateSocketPool_ and ReAllocateSocket4Pool_ may add to a pool that
\* is short (the reuse pool they look at is always empty).
SocketReallocations(fresh) ==
    IF Cardinality(shared_socket_pool_) < SizeToReallocate
    THEN kSubset(ReallocateSocketNum, fresh) ELSE {{}}

\* GetNextUnuseSocket returns s, after the sockets "added" were put into the
\* pool: a pooled socket, or a new one if the pool is empty all the same.
GetNextUnuseSocket(s, added, fresh) ==
    LET pool == shared_socket_pool_ \cup added
    IN  /\ \/ s \in pool
           \/ pool = {} /\ s \in fresh
        /\ shared_socket_pool_' = pool \ {s}
        /\ socket_inuse_pool_' = socket_inuse_pool_ \cup {s}
        /\ poolsize_' = CountSockets(Cardinality(added))

\* Fault: the closed socket is pushed back to the pool, as the name says.
CloseSockAndReuse(s) ==
    /\ socket_inuse_pool_' = socket_inuse_pool_ \ {s}
    /\ shared_socket_pool_' = shared_socket_pool_ \cup {s}
    /\ UNCHANGED poolsize_

\* Fault: the closed socket keeps its entry in the in-use pool.
CloseKeepsEntry(s) == UNCHANGED socketPoolVars

\* CloseSockAndPush2ReusedPool: there is no reuse pool any more.  The handle
\* is closed whether or not the socket is found in the in-use pool.
CloseSockAndPush2ReusedPool(s) ==
    /\ socket_inuse_pool_' = socket_inuse_pool_ \ {s}
    /\ UNCHANGED <<shared_socket_pool_, poolsize_>>

\* DestroyPool: both containers are cleared, poolsize_ is not.
DestroyPool ==
    /\ shared_socket_pool_' = {}
    /\ socket_inuse_pool_' = {}
    /\ UNCHANGED poolsize_

=============================================================================
