------------------------------ MODULE IOCPServer ------------------------------
(***************************************************************************)
(* The IOCP server at work: the worker threads of GT_IOCPWrapper, the       *)
(* completion keys of GT_Resource_Manager, the buffer manager, the socket   *)
(* pool and, as environment, the kernel with its completion port and the    *)
(* clients.  The run starts after Initialize and GTStartService, when the   *)
(* accept requests of PrePostAcceptEvent_ are outstanding.                  *)
(*                                                                         *)
(* A worker step is what happens between two points where other threads     *)
(* can observe or change what it works on: one critical section, or one     *)
(* call into the kernel.  Client data are chunks numbered in the order the  *)
(* client sent them; a completion of n bytes carries one chunk, and chunk 0 *)
(* stands for no bytes.                                                     *)
(***************************************************************************)
EXTENDS IOBufferManager, SocketPool, Functions, Sequences

CONSTANTS
    Threads,     \* worker threads: 2 * hardware_concurrency
    Keys,        \* addresses of GT_SocketConetxt objects
    Listen,      \* accept_socket_completion_key_
    NoKey, NoBuffer, NoSocket,  \* nullptr
    MaxChunks,   \* bound: chunks a client sends on one connection
    MaxConns,    \* bound: connections clients open
    MaxSends,    \* bound: messages the callback sends
    MaxFaults    \* bound: failing kernel calls and failed operations

ASSUME ServerConstants ==
    /\ Listen \notin Keys
    /\ NoKey \notin Keys \cup {Listen}
    /\ NoBuffer \notin Buffers
    /\ NoSocket \notin Sockets
    /\ MaxChunks \in Nat /\ MaxConns \in Nat
    /\ MaxSends \in Nat /\ MaxFaults \in Nat

VARIABLES
    \* fields of the buffers
    io_event_type_, io_socket_ptr_,
    \* GT_Resource_Manager and GT_SocketConetxt
    resource_global_lock_, completion_key_ptr_cache_,
    socket_io_buffer_cache_, socket_shared_ptr_,
    \* the worker threads: program counter and local variables
    worker,
    \* the kernel: outstanding operations, completion port, connections
    pending, port, peer, received, conns, sends, faults,
    \* history: the chunks the read callback got for each socket, whether a key
    \* was released while somebody else was still using it or its buffers, and
    \* whether the completion of another socket's event was taken for an accept
    dispatched, raced, misread

keyVars == <<resource_global_lock_, completion_key_ptr_cache_,
             socket_io_buffer_cache_, socket_shared_ptr_>>
fieldVars == <<io_event_type_, io_socket_ptr_>>
poolVars == <<bufferVars, socketPoolVars>>
kernelVars == <<pending, port, peer, received, conns, sends, faults>>
vars == <<poolVars, fieldVars, keyVars, worker, kernelVars, dispatched, raced, misread>>

EventTypes == {"NULL", "ACCEPT", "READ"}

Idle == [pc |-> "loop", key |-> NoKey, io |-> NoBuffer, ret |-> TRUE,
         chunk |-> 0, new_key |-> NoKey, new_io |-> NoBuffer, tries |-> 0]

\* An overlapped operation handed to the kernel, and its completion packet.
Operation(op, k, b, s) == [op |-> op, key |-> k, io |-> b, sock |-> s]
Packet(p, ret, chunk) ==
    [key |-> p.key, io |-> p.io, ret |-> ret, chunk |-> chunk]

-----------------------------------------------------------------------------
(* Who keeps what alive.                                                    *)

\* Keys that some shared_ptr refers to.
LiveKeys == {Listen} \cup completion_key_ptr_cache_
              \cup {worker[t].key : t \in Threads}
              \cup {worker[t].new_key : t \in Threads}

\* Buffers that some shared_ptr refers to.  The OVERLAPPED pointers the
\* kernel has are not among them.
LiveBuffers == io_buffer_cache_ \cup io_buffer_in_use_
                 \cup UNION {socket_io_buffer_cache_[k] : k \in LiveKeys \ {NoKey}}
                 \cup {worker[t].io : t \in Threads}
                 \cup {worker[t].new_io : t \in Threads}

LiveSockets == shared_socket_pool_ \cup socket_inuse_pool_
                 \cup {io_socket_ptr_[b] : b \in LiveBuffers \ {NoBuffer}}
                 \cup {socket_shared_ptr_[k] : k \in LiveKeys \ {NoKey}}

FreshBuffers == Buffers \ LiveBuffers
FreshKeys    == Keys \ LiveKeys
FreshSockets == Sockets \ LiveSockets

-----------------------------------------------------------------------------
(* The buffer operations as the workers use them.                           *)

GetIOContextBuffer(b) == GetNextIOBufferPtr(b, FreshBuffers)

\* The fields of the buffers as they come out of the pool: a new object has
\* type IO_EVENT_NULL and no socket, a recycled one (ResetBuffer clears only
\* the data) the type and the socket of its previous event.
TypesFromPool ==
    [b \in Buffers |-> IF b \in FreshBuffers THEN "NULL" ELSE io_event_type_[b]]
SocketsFromPool ==
    [b \in Buffers |-> IF b \in FreshBuffers THEN NoSocket ELSE io_socket_ptr_[b]]

-----------------------------------------------------------------------------
(* Steps of a worker: GetCompletionPortEventStatus and what it calls.       *)

At(t, pc) == worker[t].pc = pc
Goto(t, pc) == worker' = [worker EXCEPT ![t].pc = pc]
Return(t) == worker' = [worker EXCEPT ![t] = Idle]

Key(t) == worker[t].key
IO(t) == worker[t].io

\* A call into the kernel that fails although nothing is wrong with it.
Fault == faults < MaxFaults /\ faults' = faults + 1

\* GetQueuedCompletionStatus returns the oldest packet; a packet whose
\* buffer has no event type is dropped.
Dequeue(t) ==
    /\ At(t, "loop")
    /\ port # <<>>
    /\ port' = Tail(port)
    /\ LET p == Head(port)
       IN  IF io_event_type_[p.io] = "NULL"
           THEN UNCHANGED worker
           ELSE worker' = [worker EXCEPT ![t] =
                  [Idle EXCEPT !.pc = "find_key", !.key = p.key, !.io = p.io,
                               !.ret = p.ret, !.chunk = p.chunk]]
    /\ UNCHANGED <<poolVars, fieldVars, keyVars, dispatched,
                   pending, peer, received, conns, sends, faults>>

\* The completion key behind the packet: the listen key for an accept event,
\* otherwise GetCompletionKeyPtr under the global lock.
FindKey(t) ==
    /\ At(t, "find_key")
    /\ \/ /\ io_event_type_[IO(t)] = "ACCEPT"
          /\ worker' = [worker EXCEPT ![t].pc = "find_io", ![t].key = Listen]
          /\ misread' = (misread \/ Key(t) # Listen)
       \/ /\ io_event_type_[IO(t)] # "ACCEPT"
          /\ resource_global_lock_ = NoKey
          /\ UNCHANGED misread
          /\ IF Key(t) \in completion_key_ptr_cache_
             THEN Goto(t, "find_io")
             ELSE Return(t)
    /\ UNCHANGED <<poolVars, fieldVars, keyVars, kernelVars, dispatched, raced>>

\* The branches of GetCompletionPortEventStatus, by the type of the buffer
\* and what the packet says.
IsAccept(type, ret, chunk) == type = "ACCEPT" /\ ret
IsRead(type, ret, chunk) == type = "READ" /\ ret /\ chunk # 0

IsClientExit(type, ret, chunk) == type = "READ" /\ chunk = 0

\* What a callback does with key k while it runs: nothing, or it sends a
\* message.  SendDataUserInterface takes a buffer, leaves its event type as it
\* is, adds it to no key's cache, and forgets it whether or not WSASend works.
\* WSASend is told of as many WSABUFs as the buffer has bytes, where there is
\* one, so it may fail on a good connection too; on the listen socket it does.
SendDataUserInterface(k) ==
    \/ UNCHANGED <<poolVars, fieldVars, pending, sends>>
    \/ /\ sends < MaxSends
       /\ sends' = sends + 1
       /\ \E b \in Buffers :
             /\ GetIOContextBuffer(b)
             /\ \/ UNCHANGED pending
                \/ /\ k # Listen
                   /\ peer[socket_shared_ptr_[k]] \in {"up", "gone"}
                   /\ pending' = pending \cup
                        {Operation("WRITE", k, b, socket_shared_ptr_[k])}
       /\ io_event_type_' = TypesFromPool
       /\ io_socket_ptr_' = SocketsFromPool
       /\ UNCHANGED socketPoolVars

\* Fault: the first data, which AcceptEx brings along, is ignored.
IgnoreFirstData(s, chunk) == UNCHANGED <<dispatched, poolVars, fieldVars, pending, sends>>

\* The first data of an accepted connection goes to the callback, with the
\* listen key for its key.
DispatchFirstData(s, chunk) ==
    IF chunk = 0
    THEN UNCHANGED <<dispatched, poolVars, fieldVars, pending, sends>>
    ELSE /\ dispatched' = [dispatched EXCEPT ![s] = Append(@, chunk)]
         /\ SendDataUserInterface(Listen)

\* GetIOBufferPtr, and the branch the event takes.
FindIO(t) ==
    LET io == IO(t)
        found == io \in socket_io_buffer_cache_[Key(t)]
        Is(Branch(_, _, _)) ==
            found /\ Branch(io_event_type_[io], worker[t].ret, worker[t].chunk)
    IN  /\ At(t, "find_io")
        /\ \/ /\ ~found
              /\ Return(t)
              /\ UNCHANGED <<poolVars, fieldVars, pending, sends, dispatched>>
           \/ /\ Is(IsAccept)
              /\ DispatchFirstData(io_socket_ptr_[io], worker[t].chunk)
              /\ Goto(t, "create_context")
           \/ /\ Is(IsRead)
              /\ Goto(t, "callback")
              /\ UNCHANGED <<poolVars, fieldVars, pending, sends, dispatched>>
           \/ /\ Is(IsClientExit)
              /\ Goto(t, "release_key")
              /\ UNCHANGED <<poolVars, fieldVars, pending, sends, dispatched>>
           \/ /\ found /\ ~Is(IsAccept) /\ ~Is(IsRead) /\ ~Is(IsClientExit)
              /\ Return(t)
              /\ ReleaseIOBuffers({io})
              /\ UNCHANGED <<socketPoolVars, fieldVars, pending, sends, dispatched>>
        /\ UNCHANGED <<keyVars, port, peer, received, conns, faults>>

\* ProcessAcceptEvent_: CreateNewSocketContext for the accepted socket.
CreateNewSocketContext(t) ==
    /\ At(t, "create_context")
    /\ resource_global_lock_ = NoKey
    /\ \E k \in FreshKeys :
          /\ completion_key_ptr_cache_' = completion_key_ptr_cache_ \cup {k}
          /\ socket_io_buffer_cache_' = [socket_io_buffer_cache_ EXCEPT ![k] = {}]
          /\ socket_shared_ptr_' = [socket_shared_ptr_ EXCEPT ![k] = io_socket_ptr_[IO(t)]]
          /\ worker' = [worker EXCEPT ![t].pc = "get_io", ![t].new_key = k]
    /\ UNCHANGED <<poolVars, fieldVars, kernelVars, dispatched, resource_global_lock_>>

\* The key a read request is posted for: the new connection's after an
\* accept, otherwise the one that was read from.
ReadKey(t) == IF worker[t].new_key # NoKey THEN worker[t].new_key ELSE Key(t)

\* The buffer of the next read (ProcessAcceptEvent_, PostAnotherReadRequest_):
\* taken from the pool, filled in, added to the key's cache.
GetReadBuffer(t) ==
    /\ At(t, "get_io")
    /\ \E b \in Buffers :
          /\ GetIOContextBuffer(b)
          /\ io_event_type_' = [TypesFromPool EXCEPT ![b] = "READ"]
          /\ io_socket_ptr_' = [SocketsFromPool EXCEPT ![b] = socket_shared_ptr_[ReadKey(t)]]
          /\ socket_io_buffer_cache_' = [socket_io_buffer_cache_ EXCEPT ![ReadKey(t)] = @ \cup {b}]
          /\ worker' = [worker EXCEPT ![t].pc = "post_read", ![t].new_io = b]
    /\ UNCHANGED <<socketPoolVars, kernelVars, dispatched, resource_global_lock_,
                   completion_key_ptr_cache_, socket_shared_ptr_>>

\* Fault: the read request is posted again although it was accepted.
PostReadAgain(t) == IF worker[t].new_key # NoKey THEN "get_accept_io" ELSE "get_io"

\* Where a worker goes after the read request.
AfterPostRead(t) == IF worker[t].new_key # NoKey THEN "get_accept_io" ELSE "release_io"

\* BindSocketToCompletionPort for a new key, and PostReadRequestEvent_.  If
\* binding fails nothing is posted; if WSARecv fails the buffer goes back to
\* the manager.  In both cases it stays in the key's cache.
PostReadRequestEvent(t) ==
    LET k == ReadKey(t)
        b == worker[t].new_io
        s == socket_shared_ptr_[k]
    IN  /\ At(t, "post_read")
        /\ \/ /\ peer[s] \in {"up", "gone"}
              /\ pending' = pending \cup {Operation("READ", k, b, s)}
              /\ UNCHANGED <<poolVars, faults>>
           \/ /\ IF peer[s] \in {"up", "gone"} THEN Fault ELSE UNCHANGED faults
              /\ ReleaseIOBuffers({b})
              /\ UNCHANGED <<socketPoolVars, pending>>
           \/ /\ worker[t].new_key # NoKey
              /\ Fault
              /\ UNCHANGED <<poolVars, pending>>
        /\ worker' = [worker EXCEPT ![t].pc = AfterPostRead(t),
                                    ![t].new_key = NoKey, ![t].new_io = NoBuffer]
        /\ UNCHANGED <<fieldVars, keyVars, port, peer, received, conns, sends, dispatched>>

\* PostAnotherAcceptEvent_, one try: a buffer and an unconnected socket,
\* filled in and added to the listen key's cache.
GetAcceptBuffer(t) ==
    /\ At(t, "get_accept_io")
    /\ \E b \in Buffers, s \in Sockets, added \in SocketReallocations(FreshSockets) :
          /\ GetIOContextBuffer(b)
          /\ GetNextUnuseSocket(s, added, FreshSockets)
          /\ io_event_type_' = [TypesFromPool EXCEPT ![b] = "ACCEPT"]
          /\ io_socket_ptr_' = [SocketsFromPool EXCEPT ![b] = s]
          /\ socket_io_buffer_cache_' = [socket_io_buffer_cache_ EXCEPT ![Listen] = @ \cup {b}]
          /\ peer' = [peer EXCEPT ![s] = "none"]
          /\ received' = [received EXCEPT ![s] = 0]
          /\ dispatched' = [dispatched EXCEPT ![s] = <<>>]
          /\ worker' = [worker EXCEPT ![t].pc = "post_accept", ![t].new_io = b]
    /\ UNCHANGED <<pending, port, conns, sends, faults, resource_global_lock_,
                   completion_key_ptr_cache_, socket_shared_ptr_>>

\* Fault: the loop goes on after a success.
RetryRegardless(tries, posted) == IF tries + 1 < 2 THEN "get_accept_io" ELSE "release_io"

\* Two tries, ended by a success.
AfterPostAccept(tries, posted) ==
    IF ~posted /\ tries + 1 < 2 THEN "get_accept_io" ELSE "release_io"

\* AcceptEx.  If it fails the buffer goes back to the manager, but stays in
\* the listen key's cache, and its socket stays in use; after two failures
\* the worker goes on without an accept request.
PostAcceptEvent(t) ==
    LET b == worker[t].new_io
        s == io_socket_ptr_[b]
        Go(posted) == [worker[t] EXCEPT
                          !.pc = AfterPostAccept(worker[t].tries, posted),
                          !.tries = @ + 1, !.new_io = NoBuffer]
    IN  /\ At(t, "post_accept")
        /\ \/ /\ peer[s] = "none"
              /\ pending' = pending \cup {Operation("ACCEPT", Listen, b, s)}
              /\ worker' = [worker EXCEPT ![t] = Go(TRUE)]
              /\ UNCHANGED <<poolVars, faults>>
           \/ /\ IF peer[s] = "none" THEN Fault ELSE UNCHANGED faults
              /\ ReleaseIOBuffers({b})
              /\ worker' = [worker EXCEPT ![t] = Go(FALSE)]
              /\ UNCHANGED <<socketPoolVars, pending>>
        /\ UNCHANGED <<fieldVars, keyVars, port, peer, received, conns, sends, dispatched>>

\* Fault: the buffer leaves the key's cache and is not released.
DropUsedIOContext(t) ==
    /\ At(t, "release_io")
    /\ socket_io_buffer_cache_' = [socket_io_buffer_cache_ EXCEPT ![Key(t)] = @ \ {IO(t)}]
    /\ Return(t)
    /\ UNCHANGED <<poolVars, fieldVars, kernelVars, dispatched,
                   resource_global_lock_, completion_key_ptr_cache_, socket_shared_ptr_>>

\* Fault: clears the key's cache, and destroys all the buffers in it.
ReleaseAllIOContexts(t) ==
    /\ At(t, "release_io")
    /\ io_buffer_in_use_' = io_buffer_in_use_ \ socket_io_buffer_cache_[Key(t)]
    /\ socket_io_buffer_cache_' = [socket_io_buffer_cache_ EXCEPT ![Key(t)] = {}]
    /\ Return(t)
    /\ UNCHANGED <<io_buffer_manager_inited_, io_buffer_cache_, socketPoolVars,
                   fieldVars, kernelVars, dispatched, resource_global_lock_,
                   completion_key_ptr_cache_, socket_shared_ptr_>>

\* ReleaseUsedIOContext on the key of the event.
ReleaseUsedIOContext(t) ==
    /\ At(t, "release_io")
    /\ ReleaseIOBuffers({IO(t)})
    /\ socket_io_buffer_cache_' = [socket_io_buffer_cache_ EXCEPT ![Key(t)] = @ \ {IO(t)}]
    /\ Return(t)
    /\ UNCHANGED <<socketPoolVars, fieldVars, kernelVars, dispatched,
                   resource_global_lock_, completion_key_ptr_cache_, socket_shared_ptr_>>

\* The read callback, which may send, and ResetTimer.
ReadCallback(t) ==
    /\ At(t, "callback")
    /\ dispatched' = [dispatched EXCEPT ![socket_shared_ptr_[Key(t)]] =
                         Append(@, worker[t].chunk)]
    /\ SendDataUserInterface(Key(t))
    /\ Goto(t, "get_io")
    /\ UNCHANGED <<keyVars, port, peer, received, conns, faults>>

\* ReleaseCompletionKey takes the global lock and starts to walk through the
\* key's buffers; it does not take the key's own mutex.
ReleaseCompletionKey(t) ==
    /\ At(t, "release_key")
    /\ resource_global_lock_ = NoKey
    /\ resource_global_lock_' = Key(t)
    /\ Goto(t, "release_context")
    /\ UNCHANGED <<poolVars, fieldVars, kernelVars, dispatched, completion_key_ptr_cache_,
                   socket_io_buffer_cache_, socket_shared_ptr_>>

\* Fault: a released key can still be found.
KeepKey(k) == UNCHANGED completion_key_ptr_cache_

\* Fault: the entry's pointer is reset, the entry stays.
EraseLeavesNull(k) ==
    completion_key_ptr_cache_' = (completion_key_ptr_cache_ \ {k}) \cup {NoKey}

\* The key leaves the cache and the set of addresses, which agree.
EraseKey(k) == completion_key_ptr_cache_' = completion_key_ptr_cache_ \ {k}

\* ReleaseContext_: all the key's buffers go back to the manager, the socket
\* is closed, the key leaves the cache.  The key's own cache is not cleared.
ReleaseContextOf(k) ==
    LET s == socket_shared_ptr_[k]
    IN  /\ ReleaseIOBuffers(socket_io_buffer_cache_[k])
        /\ CloseSockAndPush2ReusedPool(s)
        /\ peer' = [peer EXCEPT ![s] = "closed"]
        /\ pending' = {IF p.sock = s THEN [p EXCEPT !.op = "ABORTED"] ELSE p : p \in pending}
        /\ EraseKey(k)
        /\ UNCHANGED <<fieldVars, dispatched, misread, port, received, conns, sends,
                       faults, socket_io_buffer_cache_, socket_shared_ptr_>>

ReleaseContext(t) ==
    /\ At(t, "release_context")
    /\ ReleaseContextOf(Key(t))
    /\ resource_global_lock_' = NoKey
    /\ raced' = (raced \/ \E u \in Threads \ {t} : Key(u) = Key(t))
    /\ Return(t)

WorkerStep(t) ==
    \/ /\ \/ Dequeue(t) \/ FindIO(t) \/ CreateNewSocketContext(t)
          \/ GetReadBuffer(t) \/ PostReadRequestEvent(t)
          \/ GetAcceptBuffer(t) \/ PostAcceptEvent(t)
          \/ ReleaseUsedIOContext(t) \/ ReadCallback(t) \/ ReleaseCompletionKey(t)
       /\ UNCHANGED <<raced, misread>>
    \/ FindKey(t)
    \/ ReleaseContext(t)

-----------------------------------------------------------------------------
(* The kernel and the clients.                                              *)

\* A completion of bytes that were sent, not received.
SentBytes == MaxChunks + 1

Complete(p, ret, chunk) ==
    /\ pending' = pending \ {p}
    /\ port' = Append(port, Packet(p, ret, chunk))

\* A client connects and sends its first chunk, or leaves without a word:
\* AcceptEx completes no earlier.
AcceptCompletes(p) ==
    /\ p.op = "ACCEPT"
    /\ conns < MaxConns
    /\ conns' = conns + 1
    /\ \/ /\ Complete(p, TRUE, 1)
          /\ peer' = [peer EXCEPT ![p.sock] = "up"]
          /\ received' = [received EXCEPT ![p.sock] = 1]
       \/ /\ Complete(p, TRUE, 0)
          /\ peer' = [peer EXCEPT ![p.sock] = "gone"]
          /\ UNCHANGED received
    /\ UNCHANGED <<sends, faults>>

\* The connection was reset before it was accepted.
AcceptFails(p) ==
    /\ p.op = "ACCEPT"
    /\ Fault
    /\ Complete(p, FALSE, 0)
    /\ UNCHANGED <<peer, received, conns, sends>>

\* The next chunk arrives.
ReadCompletes(p) ==
    /\ p.op = "READ"
    /\ peer[p.sock] = "up"
    /\ received[p.sock] < MaxChunks
    /\ received' = [received EXCEPT ![p.sock] = @ + 1]
    /\ Complete(p, TRUE, received[p.sock] + 1)
    /\ UNCHANGED <<peer, conns, sends, faults>>

\* The client closes (or already has), or resets the connection.
ReadEnds(p) ==
    /\ p.op = "READ"
    /\ \E ret \in BOOLEAN : Complete(p, ret, 0)
    /\ peer' = [peer EXCEPT ![p.sock] = "gone"]
    /\ UNCHANGED <<received, conns, sends, faults>>

WriteCompletes(p) ==
    /\ p.op = "WRITE"
    /\ Complete(p, TRUE, SentBytes)
    /\ UNCHANGED <<peer, received, conns, sends, faults>>

\* closesocket makes what was outstanding on the socket fail.
OperationAborts(p) ==
    /\ p.op = "ABORTED"
    /\ Complete(p, FALSE, 0)
    /\ UNCHANGED <<peer, received, conns, sends, faults>>

KernelStep ==
    /\ \E p \in pending :
          \/ AcceptCompletes(p) \/ AcceptFails(p) \/ ReadCompletes(p)
          \/ ReadEnds(p) \/ WriteCompletes(p) \/ OperationAborts(p)
    /\ UNCHANGED <<poolVars, fieldVars, keyVars, worker, dispatched, raced, misread>>

-----------------------------------------------------------------------------

\* After Initialize: PrePostAcceptEvent_ has posted one accept request for
\* each worker.
Init ==
    \E accept_io \in Injection(Threads, Buffers), sock \in Injection(Threads, Sockets) :
        LET bufs == Range(accept_io)
            SockOf(b) == sock[CHOOSE t \in Threads : accept_io[t] = b]
        IN  /\ io_buffer_manager_inited_ = TRUE
            /\ io_buffer_cache_ = {}
            /\ io_buffer_in_use_ = bufs
            /\ shared_socket_pool_ = {}
            /\ socket_inuse_pool_ = Range(sock)
            /\ poolsize_ = PreAllocateSocketNum
            /\ io_event_type_ = [b \in Buffers |-> IF b \in bufs THEN "ACCEPT" ELSE "NULL"]
            /\ io_socket_ptr_ = [b \in Buffers |-> IF b \in bufs THEN SockOf(b) ELSE NoSocket]
            /\ resource_global_lock_ = NoKey
            /\ completion_key_ptr_cache_ = {}
            /\ socket_io_buffer_cache_ = [k \in Keys \cup {Listen} |->
                                            IF k = Listen THEN bufs ELSE {}]
            /\ socket_shared_ptr_ = [k \in Keys \cup {Listen} |-> NoSocket]
            /\ worker = [t \in Threads |-> Idle]
            /\ pending = {Operation("ACCEPT", Listen, b, SockOf(b)) : b \in bufs}
            /\ port = <<>>
            /\ peer = [s \in Sockets |-> "none"]
            /\ received = [s \in Sockets |-> 0]
            /\ conns = 0 /\ sends = 0 /\ faults = 0
            /\ dispatched = [s \in Sockets |-> <<>>]
            /\ raced = FALSE
            /\ misread = FALSE

Next == KernelStep \/ \E t \in Threads : WorkerStep(t)

\* Completions the kernel owes the server: an operation that is aborted, a
\* send, and a read from a client that has left.
Owed(p) == p.op \in {"ABORTED", "WRITE"} \/ (p.op = "READ" /\ peer[p.sock] = "gone")

OwedCompletion == KernelStep /\ \E p \in pending \ pending' : Owed(p)

Spec == Init /\ [][Next]_vars

-----------------------------------------------------------------------------

TypeOK ==
    /\ BufferTypeOK /\ SocketPoolTypeOK
    /\ io_event_type_ \in [Buffers -> EventTypes]
    /\ io_socket_ptr_ \in [Buffers -> Sockets \cup {NoSocket}]
    /\ resource_global_lock_ \in Keys \cup {Listen, NoKey}
    /\ completion_key_ptr_cache_ \subseteq Keys
    /\ socket_io_buffer_cache_ \in [Keys \cup {Listen} -> SUBSET Buffers]
    /\ socket_shared_ptr_ \in [Keys \cup {Listen} -> Sockets \cup {NoSocket}]
    /\ peer \in [Sockets -> {"none", "up", "gone", "closed"}]
    /\ raced \in BOOLEAN /\ misread \in BOOLEAN

\* No key was released under somebody's hands, and no completion of a send
\* was taken for that of an accept.  What the server promises, it promises
\* until then.
Intact == ~raced /\ ~misread

\* The events a buffer serves: outstanding, completed and not dequeued, or
\* being handled by a worker.
EventsOn(b) ==
    Cardinality({p \in pending : p.io = b})
      + Cardinality({i \in DOMAIN port : port[i].io = b})
      + Cardinality({t \in Threads : worker[t].io = b})
      + Cardinality({t \in Threads : worker[t].new_io = b})

\* "IO DATA FOR EACH SOCKET EVENT" (GT_IOContextBuffer.h): no two operations
\* use one buffer at the same time.
OneOperationPerBuffer ==
    \A b \in Buffers :
        Cardinality({p \in pending : p.io = b})
          + Cardinality({i \in DOMAIN port : port[i].io = b}) <= 1

\* An event in progress has a buffer of its own, which is not in the pool.
OneEventPerBuffer ==
    \A b \in Buffers : EventsOn(b) <= 1 /\ (EventsOn(b) = 1 => b \notin io_buffer_cache_)

\* A buffer is shared by two events only after ReleaseContext_ ran on a key
\* while another worker was between PostAnotherReadRequest_ and
\* ReleaseUsedIOContext on the same key, or a send's buffer was taken for that
\* of an accept.
SharedOnlyAfterRace == Intact => OneEventPerBuffer

\* The read callback gets the data of each connection completely and in the
\* order the client sent it, whichever workers handle the completions.
InOrderDelivery ==
    Intact => \A s \in Sockets : \A i \in DOMAIN dispatched[s] : dispatched[s][i] = i

\* A connection has one reader: a read request that is outstanding, or a
\* worker that has not yet posted the next one.  The callback of a connection
\* never runs in two workers.
Reading == {"callback", "get_io", "post_read", "release_key", "release_context"}
OneReader ==
    Intact => \A k \in completion_key_ptr_cache_ :
        Cardinality({p \in pending : p.op = "READ" /\ p.key = k})
          + Cardinality({t \in Threads : ReadKey(t) = k /\ worker[t].pc \in Reading}) <= 1

\* A key that can be looked up has a socket that is in use and not closed:
\* CloseSockAndPush2ReusedPool never closes a connection a key still stands for.
KeySocketsInUse ==
    Intact => \A k \in completion_key_ptr_cache_ :
        /\ socket_shared_ptr_[k] \in socket_inuse_pool_
        /\ peer[socket_shared_ptr_[k]] \in {"up", "gone"}

\* Every packet and every operation of the kernel refers to a buffer that is
\* alive, so GetCompletionPortEventStatus may look into it.
KernelBuffersAlive ==
    Intact => /\ \A p \in pending : p.io \in LiveBuffers
              /\ \A i \in DOMAIN port : port[i].io \in LiveBuffers

\* Buffers the manager keeps for nobody: no event uses them, no key has them
\* in its cache, and they are not waiting to be handed out.
LeakedBuffers ==
    {b \in io_buffer_in_use_ \ io_buffer_cache_ :
        EventsOn(b) = 0
          /\ \A k \in LiveKeys \ {NoKey} : b \notin socket_io_buffer_cache_[k]}

\* The server loses one buffer with each message it sends, since nobody
\* releases the buffers of SendDataUserInterface, and no other, whichever
\* calls fail and whichever way a connection ends.
LeaksOnlySends == Intact => Cardinality(LeakedBuffers) <= sends

\* Accept requests that are outstanding or about to be posted again.
Accepting == {"find_key", "find_io", "create_context", "get_io", "post_read",
              "get_accept_io", "post_accept"}
AcceptSlots ==
    Cardinality({p \in pending : p.op = "ACCEPT"})
      + Cardinality({i \in DOMAIN port : port[i].key = Listen})
      + Cardinality({t \in Threads :
            /\ worker[t].key = Listen
            /\ worker[t].pc \in Accepting
            /\ worker[t].io \in socket_io_buffer_cache_[Listen]})

\* The server never has more accept requests than workers, and loses one only
\* to a failure: of the accept itself, or of AcceptEx when it is posted again.
AcceptSlotsKept ==
    Intact => /\ AcceptSlots <= Cardinality(Threads)
              /\ AcceptSlots >= Cardinality(Threads) - faults

=============================================================================
