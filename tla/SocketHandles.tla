---------------------------- MODULE SocketHandles ----------------------------
(***************************************************************************)
(* The kernel handles behind SocketPool, for callers that close a socket    *)
(* they got once.  The kernel hands out a handle value again as soon as it  *)
(* is closed, so closing the same SOCKET object twice would close           *)
(* somebody else's connection: CloseSockAndPush2ReusedPool calls            *)
(* closesocket without asking whether the socket is still in use.           *)
(***************************************************************************)
EXTENDS SocketPool

CONSTANTS
    Handles,        \* handle values of the kernel
    InvalidSocket   \* INVALID_SOCKET, what WSASocket returns on failure

ASSUME InvalidIsNoHandle == InvalidSocket \notin Handles

VARIABLES
    handle,         \* the SOCKET value stored in each object
    open_handles,   \* (kernel) handles that are open
    owned           \* (history) sockets handed out and not closed yet

handleVars == <<socketPoolVars, handle, open_handles, owned>>

HandleTypeOK ==
    /\ SocketPoolTypeOK
    /\ handle \in [Sockets -> Handles \cup {InvalidSocket}]
    /\ open_handles \subseteq Handles
    /\ owned \subseteq Sockets

LiveSockets == shared_socket_pool_ \cup owned

FreshSockets == Sockets \ (LiveSockets \cup socket_inuse_pool_)

HandleInit ==
    /\ SocketPoolInit
    /\ handle = [s \in Sockets |-> InvalidSocket]
    /\ open_handles = {}
    /\ owned = {}

\* WSASocket for each new socket: a handle that is not open, different for
\* each, or INVALID_SOCKET, which the pool stores like any other value.
WSASocket(added) ==
    \E h \in [added -> (Handles \ open_handles) \cup {InvalidSocket}] :
        /\ \A s, t \in added : h[s] = h[t] => s = t \/ h[s] = InvalidSocket
        /\ handle' = [s \in Sockets |-> IF s \in added THEN h[s] ELSE handle[s]]
        /\ open_handles' = open_handles \cup ({h[s] : s \in added} \ {InvalidSocket})

\* closesocket(INVALID_SOCKET) fails and changes nothing.
closesocket(S) == open_handles' = open_handles \ {handle[s] : s \in S}

Initilize ==
    \E added \in SUBSET FreshSockets :
        /\ InitilizeSockets(added)
        /\ WSASocket(added)
        /\ UNCHANGED owned

Get ==
    \E added \in SocketReallocations(FreshSockets), s \in Sockets :
        /\ GetNextUnuseSocket(s, added, FreshSockets)
        /\ WSASocket(added \cup ({s} \ shared_socket_pool_))
        /\ owned' = owned \cup {s}

Close ==
    \E s \in owned :
        /\ CloseSockAndPush2ReusedPool(s)
        /\ closesocket({s})
        /\ owned' = owned \ {s}
        /\ UNCHANGED handle

\* Called when every thread that owned a socket has been joined.
Destroy ==
    /\ DestroyPool
    /\ closesocket(socket_inuse_pool_)
    /\ owned' = {}
    /\ UNCHANGED handle

HandleNext == Initilize \/ Get \/ Close \/ Destroy

HandleSpec == HandleInit /\ [][HandleNext]_handleVars

-----------------------------------------------------------------------------

\* A socket of the pool, or one a caller works with, has an open handle that
\* no other such socket has, unless WSASocket failed for it: AcceptEx never
\* gets a closed socket, nor one that belongs to another connection.
EachSocketOwnsItsHandle ==
    \A s \in LiveSockets : handle[s] # InvalidSocket =>
        /\ handle[s] \in open_handles
        /\ \A t \in LiveSockets \ {s} : handle[t] # handle[s]

\* The in-use pool is exactly what callers hold, so that DestroyPool closes
\* every connection that is left.
InUseIsOwned == socket_inuse_pool_ = owned

\* The pool never holds more than it preallocates, or than one reallocation
\* of a pool that was short leaves behind: getting and closing connections,
\* in whatever order, does not make it grow.
PoolSizeBound ==
    \/ Cardinality(shared_socket_pool_) <= PreAllocateSocketNum
    \/ Cardinality(shared_socket_pool_) + 2 <= SizeToReallocate + ReallocateSocketNum

=============================================================================
