---------------------------- MODULE SelectServer ----------------------------
(***************************************************************************)
(* The select server: GT_Select_Core with its buffers                       *)
(* (GT_Select_Resource_Manager), the thread that runs Select_service_, the  *)
(* main thread that initializes, starts and stops it, and clients.          *)
(*                                                                          *)
(* Only the read set is ever used: nothing is added to the write and the    *)
(* exception set.  After a select that succeeds the array holds the ready   *)
(* sockets, in their order, and behind them what was there before; the loop *)
(* over it goes one entry too far.  Sockets are blocking, so accept and     *)
(* recv are states in which the thread may wait.                            *)
(***************************************************************************)
EXTENDS Naturals, Sequences, FiniteSets

CONSTANTS
    Clients,            \* each connects at most once
    Handles,            \* values of the handles the kernel gives out
    Listen,             \* listen_socket_
    Invalid,            \* INVALID_SOCKET
    NoHandle,           \* no socket
    fd_grow_size,       \* configured first size of the sets
    DefaultGrowSize,    \* default_grow_size of GrowSet_
    FD_SETSIZE,         \* length of fd_set's array as the compiler sees it
    buffer_cache_size,  \* how many buffers AllocatCache makes
    MaxChunks,          \* bound: chunks a client sends
    MaxErrors           \* bound: calls of select that fail for no reason of ours

ASSUME SelectSizes ==
    /\ fd_grow_size \in Nat
    /\ DefaultGrowSize \in Nat \ {0}
    /\ FD_SETSIZE \in Nat \ {0}
    /\ buffer_cache_size \in Nat \ {0}
    /\ MaxChunks \in Nat
    /\ MaxErrors \in Nat

ASSUME SelectHandles ==
    /\ Listen \notin Handles
    /\ Invalid \notin Handles \cup {Listen}
    /\ NoHandle \notin Handles \cup {Listen, Invalid}
    /\ IsFiniteSet(Clients)

VARIABLES
    main,                   \* where the main thread is
    service,                \* where the thread in Select_service_ is
    end_thread_,
    fd_array,               \* entries of socketset[EVENT_READ]
    socket_set_total_size_,
    client_socket_vec_,
    closed_client_need_clean_,
    fd_count,               \* how many entries select left in the set
    index,                  \* position of the loop over them
    current,                \* the socket the thread is handling
    buffer_cache_, inuse_buffer_cache_,     \* how many buffers are in each
    udp_sock,               \* the wake-up socket; NoHandle until udp_port_ is set
    backlog,                \* clients whose connection waits to be accepted
    handle,                 \* the server's socket of each accepted client
    dropped,                \* clients whose socket has been closed
    sent, taken, left,      \* as in ConnectionService
    discarded,              \* history: received data was thrown away
    errors                  \* how often select has failed so far

mainVars == <<main, end_thread_, udp_sock>>
loopVars == <<service, fd_array, socket_set_total_size_, client_socket_vec_,
              closed_client_need_clean_, fd_count, index, current>>
bufferVars == <<buffer_cache_, inuse_buffer_cache_>>
clientVars == <<backlog, handle, dropped, sent, taken, left, discarded>>
vars == <<mainVars, loopVars, bufferVars, clientVars, errors>>

Elements(seq) == {seq[i] : i \in 1..Len(seq)}

\* The entries of seq that are in S, in their order.  SelectSeq does the same
\* but takes a predicate, which the proofs have no facts about.
Selected(seq, S) ==
    LET places == {k \in 1..Len(seq) : seq[k] \in S}
        Rank(k) == Cardinality({m \in places : m <= k})
    IN  [n \in 1..Cardinality(places) |-> seq[CHOOSE k \in places : Rank(k) = n]]

Accepted == {c \in Clients : handle[c] # NoHandle}

FreshHandles == Handles \ ({handle[c] : c \in Clients} \cup {udp_sock})

ClientOf(h) == CHOOSE c \in Clients : handle[c] = h

MainStates == {"initialize", "start", "serving", "wakeup", "join", "done"}

ServiceStates == {"none", "test", "select", "visit", "accept", "recv",
                  "grow", "copy", "ended", "crashed"}

TypeOK ==
    /\ main \in MainStates
    /\ service \in ServiceStates
    /\ end_thread_ \in BOOLEAN
    /\ fd_array \in Seq(Handles \cup {Listen, Invalid})
    /\ client_socket_vec_ \in Seq(Handles \cup {Listen, Invalid})
    /\ closed_client_need_clean_ \subseteq Handles
    /\ socket_set_total_size_ \in Nat
    /\ fd_count \in Nat /\ index \in Nat
    /\ current \in Handles \cup {NoHandle}
    /\ buffer_cache_ \in 0..buffer_cache_size
    /\ inuse_buffer_cache_ \in Nat
    /\ udp_sock \in Handles \cup {Invalid, NoHandle}
    /\ backlog \in Seq(Clients)
    /\ handle \in [Clients -> Handles \cup {NoHandle}]
    /\ dropped \subseteq Clients
    /\ sent \in [Clients -> 0..MaxChunks]
    /\ taken \in [Clients -> 0..MaxChunks]
    /\ left \in [Clients -> {"no", "closed", "reset"}]
    /\ discarded \subseteq Clients
    /\ errors \in 0..MaxErrors

Init ==
    /\ main = "initialize" /\ service = "none"
    /\ end_thread_ = FALSE /\ udp_sock = NoHandle
    /\ fd_array = <<>> /\ client_socket_vec_ = <<>>
    /\ closed_client_need_clean_ = {}
    /\ socket_set_total_size_ = 0
    /\ fd_count = 0 /\ index = 0 /\ current = NoHandle
    /\ buffer_cache_ = 0 /\ inuse_buffer_cache_ = 0
    /\ backlog = <<>> /\ dropped = {} /\ discarded = {}
    /\ handle = [c \in Clients |-> NoHandle]
    /\ sent = [c \in Clients |-> 0] /\ taken = [c \in Clients |-> 0]
    /\ left = [c \in Clients |-> "no"]
    /\ errors = 0

-----------------------------------------------------------------------------
(* The main thread.                                                         *)

\* WSAStartup, bind or listen fails; main calls Finalize, which finds the
\* service not started and does nothing.
InitializeFails ==
    /\ main = "initialize"
    /\ main' = "done"
    /\ UNCHANGED <<end_thread_, udp_sock, loopVars, bufferVars, clientVars, errors>>

\* AddListenEvent_ grows a set that is full, which a new one is when its
\* configured size is zero.
Initialize ==
    /\ main = "initialize"
    /\ main' = "start"
    /\ socket_set_total_size_' =
            IF fd_grow_size = 0 THEN DefaultGrowSize ELSE fd_grow_size
    /\ fd_array' = <<Listen>>
    /\ client_socket_vec_' = <<Listen>>
    /\ UNCHANGED <<end_thread_, udp_sock, service, closed_client_need_clean_,
                   fd_count, index, current, bufferVars, clientVars, errors>>

StartGTService ==
    /\ main = "start"
    /\ main' = "serving"
    /\ service' = "test"
    /\ UNCHANGED <<end_thread_, udp_sock, fd_array, socket_set_total_size_,
                   client_socket_vec_, closed_client_need_clean_, fd_count,
                   index, current, bufferVars, clientVars, errors>>

\* Finalize and the first half of StopService_.  A thread that ended by
\* itself is not joined.
StopService ==
    /\ main = "serving"
    /\ main' = IF end_thread_ THEN "done" ELSE "wakeup"
    /\ end_thread_' = TRUE
    /\ UNCHANGED <<udp_sock, loopVars, bufferVars, clientVars, errors>>

\* Where the service thread reads or changes client_socket_vec_.
UsesSocketVec == service \in {"accept", "grow", "copy"}

\* WakeupSelectThread_: socket is not checked, and the vector is changed
\* without a lock, which may end the process when the service thread is using
\* it.  The socket is bound to a port of its own and connected to port zero,
\* which fails; it is not in the set select is waiting on either.
WakeupSelectThread ==
    /\ main = "wakeup"
    /\ main' = "join"
    /\ \E s \in FreshHandles \cup {Invalid} :
        /\ udp_sock' = s
        /\ client_socket_vec_' = Append(client_socket_vec_, s)
    /\ service' \in {service} \cup (IF UsesSocketVec THEN {"crashed"} ELSE {})
    /\ UNCHANGED <<end_thread_, fd_array, socket_set_total_size_,
                   closed_client_need_clean_, fd_count, index, current,
                   bufferVars, clientVars, errors>>

\* The rest of StopService_, and CollectResource_.
JoinServiceThread ==
    /\ main = "join"
    /\ service = "ended"
    /\ main' = "done"
    /\ fd_array' = <<>>
    /\ UNCHANGED <<end_thread_, udp_sock, service, socket_set_total_size_,
                   client_socket_vec_, closed_client_need_clean_, fd_count,
                   index, current, bufferVars, clientVars, errors>>

-----------------------------------------------------------------------------
(* The service thread.                                                      *)

UnreadData(c) == sent[c] > taken[c] /\ left[c] # "reset"

\* What select and recv wait for.
Readable(s) ==
    IF s = Listen THEN backlog # <<>>
    ELSE \E c \in Clients : handle[c] = s /\ (UnreadData(c) \/ left[c] # "no")

\* Fault: the flag is not tested.
LoopsForEver == fd_array = <<>>

\* A set without sockets would end the service, too.
LoopEnds == end_thread_ \/ fd_array = <<>>

\* The head of the loop.
TestEndThread ==
    /\ service = "test"
    /\ service' = IF LoopEnds THEN "ended" ELSE "select"
    /\ end_thread_' = (end_thread_ \/ LoopEnds)
    /\ UNCHANGED <<main, udp_sock, fd_array, socket_set_total_size_,
                   client_socket_vec_, closed_client_need_clean_, fd_count,
                   index, current, bufferVars, clientVars, errors>>

\* select fails on a set with an invalid socket, and may fail otherwise; the
\* loop goes on with the set as it was.
SelectFails ==
    /\ service = "select"
    /\ \/ Invalid \in Elements(fd_array) /\ UNCHANGED errors
       \/ errors < MaxErrors /\ errors' = errors + 1
    /\ service' = "test"
    /\ UNCHANGED <<mainVars, fd_array, socket_set_total_size_,
                   client_socket_vec_, closed_client_need_clean_, fd_count,
                   index, current, bufferVars, clientVars>>

Select ==
    /\ service = "select"
    /\ Invalid \notin Elements(fd_array)
    /\ LET ready == Selected(fd_array, {s \in Elements(fd_array) : Readable(s)})
       IN  /\ ready # <<>>
           /\ fd_count' = Len(ready)
           /\ fd_array' = ready \o SubSeq(fd_array, Len(ready) + 1, Len(fd_array))
    /\ index' = 0
    /\ service' = "visit"
    /\ UNCHANGED <<mainVars, socket_set_total_size_, client_socket_vec_,
                   closed_client_need_clean_, current, bufferVars, clientVars,
                   errors>>

\* Fault: every entry of the array is visited.
VisitsWholeArray == index >= Len(fd_array)

\* The break at index > fd_count, or the end of the array's type.
LoopOver == index > fd_count \/ index = FD_SETSIZE

\* Behind the written entries the loop reads whatever the memory holds.
Entries ==
    IF index < Len(fd_array) THEN {fd_array[index + 1]}
                             ELSE Handles \cup {Listen, Invalid}

FD_ISSET(s) == \E i \in 1..fd_count : fd_array[i] = s

\* Fault: an empty cache is not filled.
GetFromEmptyCache ==
    /\ buffer_cache_' = buffer_cache_ - 1
    /\ inuse_buffer_cache_' = inuse_buffer_cache_ + 1

GetSelectBuffer ==
    /\ buffer_cache_' = (IF buffer_cache_ = 0 THEN buffer_cache_size
                                              ELSE buffer_cache_) - 1
    /\ inuse_buffer_cache_' = inuse_buffer_cache_ + 1

\* One round of the loop over the array, up to the call that may block.
Visit ==
    /\ service = "visit"
    /\ ~LoopOver
    /\ \E s \in Entries :
        \/ /\ ~FD_ISSET(s)
           /\ index' = index + 1
           /\ UNCHANGED <<service, current, bufferVars>>
        \/ /\ FD_ISSET(s) /\ s = Listen
           /\ service' = "accept"
           /\ UNCHANGED <<index, current, bufferVars>>
        \/ /\ FD_ISSET(s) /\ s # Listen
           /\ service' = "recv"
           /\ current' = s
           /\ GetSelectBuffer
           /\ UNCHANGED index
    /\ UNCHANGED <<mainVars, fd_array, socket_set_total_size_,
                   client_socket_vec_, closed_client_need_clean_, fd_count,
                   clientVars, errors>>

\* ProcessAcceptEvent_.  accept may fail for a client that has reset its
\* connection, and fails when there is no handle left, in which case the client
\* goes on waiting; its result is added to the sockets all the same.
Accept ==
    /\ service = "accept"
    /\ backlog # <<>>
    /\ LET c == Head(backlog)
       IN  \/ \E s \in FreshHandles :
                /\ handle' = [handle EXCEPT ![c] = s]
                /\ client_socket_vec_' = Append(client_socket_vec_, s)
                /\ backlog' = Tail(backlog)
           \/ /\ left[c] = "reset" \/ FreshHandles = {}
              /\ client_socket_vec_' = Append(client_socket_vec_, Invalid)
              /\ backlog' = IF left[c] = "reset" THEN Tail(backlog) ELSE backlog
              /\ UNCHANGED handle
    /\ service' = "visit"
    /\ index' = index + 1
    /\ UNCHANGED <<mainVars, fd_array, socket_set_total_size_,
                   closed_client_need_clean_, fd_count, current, bufferVars,
                   dropped, sent, taken, left, discarded, errors>>

\* Fault: udp_port_ starts with a value that a port may have.
AlwaysLooksLikeExitFlag == TRUE

\* getpeername and udp_port_: once the port is known a client may have the
\* same number, and the address of a client that is gone may hold anything.
\* Before, udp_port_ is -1, which no port is.
MayLookLikeExitFlag == udp_sock # NoHandle

\* Fault: the socket is closed at once, in the middle of the loop.
CloseAtOnce(c) ==
    /\ closed_client_need_clean_' = closed_client_need_clean_ \cup {handle[c]}
    /\ handle' = [handle EXCEPT ![c] = NoHandle]
    /\ dropped' = dropped \cup {c}

DelEvent(c) ==
    /\ closed_client_need_clean_' = closed_client_need_clean_ \cup {handle[c]}
    /\ UNCHANGED <<handle, dropped>>

ReleaseSelectBuffer ==
    /\ inuse_buffer_cache_' = inuse_buffer_cache_ - 1
    /\ UNCHANGED buffer_cache_

\* recv returns data; DispatchEvent_ tests for the opposite of a registered
\* callback, so that it calls nothing, and having received it is all that the
\* server does with data.
ReadData(c) ==
    /\ UnreadData(c)
    /\ \E n \in 1..(sent[c] - taken[c]) : taken' = [taken EXCEPT ![c] = @ + n]
    /\ discarded' \in {discarded} \cup
            (IF MayLookLikeExitFlag THEN {discarded \cup {c}} ELSE {})
    /\ UNCHANGED <<closed_client_need_clean_, handle, dropped>>

\* Fault: only an orderly end is noticed, an error of recv is not.
ReadOrderlyEnd(c) ==
    /\ ~UnreadData(c)
    /\ IF left[c] = "closed" THEN DelEvent(c)
       ELSE UNCHANGED <<closed_client_need_clean_, handle, dropped>>
    /\ UNCHANGED <<taken, discarded>>

\* recv returns zero or an error.
ReadEnd(c) ==
    /\ ~UnreadData(c)
    /\ \/ DelEvent(c)
       \/ /\ MayLookLikeExitFlag
          /\ UNCHANGED <<closed_client_need_clean_, handle, dropped>>
    /\ UNCHANGED <<taken, discarded>>

\* ProcessReadEvent_ from recv on.
Recv ==
    /\ service = "recv"
    /\ Readable(current)
    /\ LET c == ClientOf(current) IN ReadData(c) \/ ReadEnd(c)
    /\ ReleaseSelectBuffer
    /\ service' = "visit"
    /\ index' = index + 1
    /\ current' = NoHandle
    /\ UNCHANGED <<mainVars, fd_array, socket_set_total_size_,
                   client_socket_vec_, fd_count, backlog, sent, left, errors>>

\* The loops over the two empty sets visit one entry of theirs, which is in
\* no set, and index goes out of scope.
EndVisits ==
    /\ service = "visit"
    /\ LoopOver
    /\ service' = "grow"
    /\ index' = 0 /\ fd_count' = 0
    /\ UNCHANGED <<mainVars, fd_array, socket_set_total_size_,
                   client_socket_vec_, closed_client_need_clean_, current,
                   bufferVars, clientVars, errors>>

\* Fault: the size is taken from the old set.
SizeOfOldSet == Len(fd_array)

SizeOfNewSet ==
    Len(client_socket_vec_) - Cardinality(closed_client_need_clean_)

\* RefreshFDSet_: the read set is thrown away and made anew.
GrowSet ==
    /\ service = "grow"
    /\ service' = "copy"
    /\ fd_array' = <<>>
    /\ socket_set_total_size_' = SizeOfNewSet
    /\ UNCHANGED <<mainVars, client_socket_vec_, closed_client_need_clean_,
                   fd_count, index, current, bufferVars, clientVars, errors>>

\* Fault: closed sockets are not erased from the vector.
AllSockets == client_socket_vec_

KeptSockets ==
    Selected(client_socket_vec_,
             Elements(client_socket_vec_) \ closed_client_need_clean_)

\* RefreshFDSet_: sockets to be closed are closed and erased, the others go
\* into the set.  When the wake-up socket was added since the size was
\* computed, the last one is written behind the end of the set.
CopySockets ==
    /\ service = "copy"
    /\ fd_array' = KeptSockets
    /\ client_socket_vec_' = KeptSockets
    /\ LET closed == {c \in Accepted : handle[c] \in closed_client_need_clean_}
       IN  /\ handle' = [c \in Clients |-> IF c \in closed THEN NoHandle
                                                           ELSE handle[c]]
           /\ dropped' = dropped \cup closed
    /\ service' \in {"test"} \cup
            (IF Len(fd_array') > socket_set_total_size_ THEN {"crashed"} ELSE {})
    /\ closed_client_need_clean_' = {}
    /\ UNCHANGED <<mainVars, socket_set_total_size_, fd_count, index, current,
                   bufferVars, backlog, sent, taken, left, discarded, errors>>

ServiceStep ==
    \/ TestEndThread \/ SelectFails \/ Select \/ Visit \/ Accept \/ Recv
    \/ EndVisits \/ GrowSet \/ CopySockets

-----------------------------------------------------------------------------
(* The clients.  The server listens once it is initialized.                 *)

Listening == main \in {"start", "serving", "wakeup", "join"} /\ service # "crashed"

Connected(c) == c \in Accepted \/ c \in Elements(backlog)

Connect(c) ==
    /\ Listening
    /\ ~Connected(c)
    /\ c \notin dropped
    /\ left[c] = "no"
    /\ backlog' = Append(backlog, c)
    /\ UNCHANGED <<mainVars, loopVars, bufferVars, handle, dropped, sent, taken,
                   left, discarded, errors>>

Send(c) ==
    /\ Listening
    /\ Connected(c)
    /\ left[c] = "no"
    /\ sent[c] < MaxChunks
    /\ sent' = [sent EXCEPT ![c] = @ + 1]
    /\ UNCHANGED <<mainVars, loopVars, bufferVars, backlog, handle, dropped,
                   taken, left, discarded, errors>>

Leave(c) ==
    /\ Listening
    /\ Connected(c)
    /\ left[c] = "no"
    /\ \E how \in {"closed", "reset"} : left' = [left EXCEPT ![c] = how]
    /\ UNCHANGED <<mainVars, loopVars, bufferVars, backlog, handle, dropped,
                   sent, taken, discarded, errors>>

ClientStep == \E c \in Clients : Connect(c) \/ Send(c) \/ Leave(c)

\* What the main thread does without being asked.
MainStep ==
    InitializeFails \/ Initialize \/ StartGTService \/ WakeupSelectThread
        \/ JoinServiceThread

Next == MainStep \/ StopService \/ ServiceStep \/ ClientStep

Spec == Init /\ [][Next]_vars

\* A thread that can run does.  Clients and the user owe nothing.
FairSpec == Spec /\ WF_vars(MainStep) /\ WF_vars(ServiceStep)

-----------------------------------------------------------------------------
(* What the bookkeeping has to achieve.                                     *)

\* Whenever select is called it waits for the listen socket and for every
\* connection that has been accepted and not closed, each listed once, and
\* for nothing that has been closed, although select overwrites the array and
\* accepts, closes and failures change the vector behind it.
WatchesOpenSockets ==
    service \in {"test", "select"} =>
        /\ \A i, j \in 1..Len(fd_array) :
                fd_array[i] = fd_array[j] => i = j \/ fd_array[i] = Invalid
        /\ Elements(fd_array) \ {Invalid, udp_sock} =
                {Listen} \cup {handle[c] : c \in Accepted}

\* The set that RefreshFDSet_ allocates is written past its end in one case
\* only, and by one entry: the wake-up socket came in between.
FdSetFits ==
    Len(fd_array) > socket_set_total_size_ =>
        /\ udp_sock # NoHandle
        /\ Len(fd_array) = socket_set_total_size_ + 1

\* recv is called on open sockets, and DelEvent_ marks open sockets only: an
\* entry that is visited twice, or that is stale, never stands for a socket
\* that has been closed, whose handle value might be another client's.
NoUseOfClosedSocket ==
    /\ service = "recv" => \E c \in Accepted : handle[c] = current
    /\ \A s \in closed_client_need_clean_ : \E c \in Accepted : handle[c] = s

\* The thread is waiting in a call that has nothing to return.
Waiting ==
    \/ service = "recv" /\ ~Readable(current)
    \/ service = "accept" /\ ~Readable(Listen)

\* accept and recv return at once for the sockets that select reported; only
\* the entry behind them can make the thread, and with it every client, wait.
WaitsOnlyBehindReady == Waiting => index = fd_count

Service == INSTANCE ConnectionService
    WITH served <- Accepted, ending <- end_thread_

\* The select server is a ConnectionService: it drops a connection only after
\* its client left and all an orderly client sent has been received, and it
\* throws received data away only when it is ending.
ImplementsConnectionService == Service!Spec

\* Something has happened on the connection that the server has not handled.
Owed(c) == c \in Accepted /\ (UnreadData(c) \/ left[c] # "no")

\* As long as the thread does not wait for ever behind the ready sockets,
\* what clients send is received and who has left is dropped, until the
\* service is ended or a failed accept has put an invalid socket in the set.
ClientsServed ==
    []<>~Waiting =>
        \A c \in Clients :
            Owed(c) ~> \/ ~Owed(c)
                       \/ end_thread_
                       \/ Invalid \in Elements(client_socket_vec_)

\* select has something to return.
SelectReturns ==
    \E s \in Elements(fd_array) : s = Invalid \/ Readable(s)

\* StopService_ returns when the thread is not in select, or as soon as some
\* client does something, with the same exception, unless the unlocked change
\* of the vector has ended the process.
StopsAtNextEvent ==
    []<>~Waiting =>
        (main = "join" /\ (service = "select" => SelectReturns))
            ~> (main = "done" \/ service = "crashed")

\* "connect UDP socket to itself, this will wakeup the select": a thread that
\* is in select when WakeupSelectThread_ has run leaves it.
WakeupEndsSelect ==
    (main = "join" /\ service = "select") ~> (service # "select")

=============================================================================
