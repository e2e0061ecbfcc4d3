# GTServer: TLA+ models and proofs

GTServer is a TCP server framework with three servers of its own: one on
Windows I/O completion ports (`GTIOCP`), one on `select` (`GTSelect`) and one on
`epoll` (`GTEpoll`).  The first two are run by one server process, which an exit
helper can ask to end; the third is a Linux library.  Most of what can go wrong
in them goes wrong between threads, between processes, or between a thread and
the kernel, and that is what this project models.

Paths below are relative to `src/src/cpp/GTServer`.

## The system

| Part | State | Operations | Talks to |
|---|---|---|---|
| IO buffer manager (`GTIOCP/GT_IOContextBuffer_Manager.cpp`) | cache of free buffers, map of buffers in use | Initialize, GetNextIOBufferPtr, ReleaseIOBuffer, Finalize, all under one mutex | called by workers, key caches, resource manager |
| Socket pool (`GT_SoketPool_Manager.cpp`) | pool of unconnected sockets, map of sockets in use, count | Initilize, GetNextUnuseSocket, CloseSockAndPush2ReusedPool, DestroyPool, under one mutex | kernel (WSASocket, closesocket) |
| Completion keys (`GT_SocketContext.*`) | socket, cache of the buffers of outstanding events, idle timer, check counter | AddIOContext2Cache, GetIOBufferPtr, ReleaseUsedIOContext (key's mutex), ResetTimer | buffer manager |
| Resource manager (`GT_Resource_Manager.cpp`) | table of keys and set of their addresses, collector thread | CreateNewSocketContext, GetCompletionKeyPtr, ReleaseCompletionKey (global lock), ResourceCollector, Initialize, Finalize | both pools, keys |
| Event loop (`GT_IOCPWrapper.cpp`) | flag that keeps workers waiting, listen key | GetCompletionPortEventStatus and the Post... functions; Initialize, GTStartService, StopService | everything above, kernel, user callbacks |
| Thread pool (`GTUtlity/GT_Util_ThreadPool.cpp`) | threads and their end flags | Start, Stop | runs the event loop |
| Server manager and interface (`GT_ServerManager.cpp`, `GTIOCP.cpp`) | callbacks, init flag | register, unregister, DispatchEvent, PostWriteEvent, StopService | event loop |
| Server process (`GTServerWapper`), exit helper (`GTExitHelper`) | global event, question on the console | Initialize, start, wait for the event, exit; SetEvent | server manager or select server |
| Select server (`GTSelect`) | array of sockets in an fd set, vector of sockets, sockets to close, buffers, wake-up socket | select loop, accept, receive, refresh of the set, stop | kernel, main thread |
| Epoll server (`GTEpoll`) | worker processes or threads with a listen and an epoll descriptor each, client map | startService, worker loop | kernel |
| Helpers, test client, stubs, vendored code | - | - | - |

What is hard, and what makes each part correct:

* **Buffers.**  A buffer belongs to one event at a time; the kernel only ever
  writes into buffers that exist; memory stays bounded.  A release happens on
  four paths (after an event, after a failed call, with the whole key on a
  worker, with the whole key on the collector).
* **Sockets.**  A handle is closed once and by its owner, since the kernel gives
  its value to somebody else next.
* **Connections.**  The callback sees the bytes of a connection in order; a
  connection has one read outstanding; when its client leaves, or is silent too
  long, everything it holds is given back.
* **Accepting.**  Each completed accept posts exactly one more.
* **The end.**  Every blocked worker gets an exit event, nobody uses what has
  been cleared, callbacks are there as long as the service serves, a "yes" to the
  question ends the process.
* **The select loop.**  select overwrites the array it is given; what the thread
  waits for next must be exactly the open sockets, although accepts, ends of
  clients, failures and the main thread change the vector the array is made from.
* **The fork tree.**  A worker process does not leave the loop that forked it;
  each process of the resulting tree has to wait for its own children.

`PROJECT.json` lists the hazards line by line ("hazards") with the properties
that would catch each.

## Modules

| Module | Models | Checked by |
|---|---|---|
| `IOBufferManager` | the buffer manager's operations on its state | through the two below |
| `IOBufferLeases` | the manager with arbitrary callers that release once what they got | `IOBufferLeases.cfg`, and proved in `IOBufferLeases_proofs` |
| `SocketPool` | the socket pool's operations on its state | through the two below |
| `SocketHandles` | the socket pool with the kernel's handle table and callers that close once | `SocketHandles.cfg`, and proved in `SocketHandles_proofs` |
| `IOCPServer` | the workers, the table of keys, both pools (by EXTENDS), kernel and clients as environment | `IOCPServer*.cfg` |
| `IOCPCollector` | `IOCPServer` with the collector evicting keys (by EXTENDS) | `IOCPCollector*.cfg`, and proved with the one above in `IOCPServer_proofs` and `IOCPServerCounts_proofs` |
| `ConnectionTimer` | idle timers, their resets, the collector's passes | `ConnectionTimer.cfg`, and proved in `ConnectionTimer_proofs` |
| `IOCPService` | Initialize and its failures, start, stop, thread pool, collector thread | `IOCPServiceInitFailure.cfg`, and through the next |
| `ServerProcess` | `IOCPService` in its process: main, global event, exit helper, callbacks (by EXTENDS) | `ServerProcess.cfg`, and proved with the one above in `ServerProcess_proofs` |
| `ConnectionService` | abstract: what a server promises its clients | implemented by the next |
| `SelectServer` | the select server's core and buffers, main thread, clients | `SelectServer*.cfg`, and proved, refinement included, in `SelectServer_proofs` |
| `EpollService` | the epoll server's processes, threads and descriptors | `EpollService.cfg`, and proved in `EpollService_proofs` |

Variables keep the names the fields have in the code.  A definition whose
comment begins with "Fault:" is a wrong version of the one after it; it is part
of no specification and is there to show that a property notices that mistake
(`PROJECT.json`, "mutants").

### Buffers and sockets

A buffer or socket object is its address.  An address where no shared_ptr keeps
an object alive is *fresh*, and `new` picks among those; the module that knows
the shared_ptrs computes the set.  The random choice in ReleaseIOBuffer (keep
the buffer or let it go) is nondeterministic.  `ReleaseIOBuffers(S)` is the loop
of releases in ReleaseContext_; one release is the case of one element.
Allocation does not fail: `new` throws, and no code handles that.

### The IOCP server at work

A worker is a record of its program counter and local variables.  One step is
one critical section or one kernel call:

    loop -> find_key -> find_io -> create_context -> get_io -> post_read
                                     -> get_accept_io -> post_accept -> release_io   (accept)
                                -> callback -> get_io -> post_read -> release_io      (read)
                                -> release_key -> release_context                     (client exit)

`release_key` and `release_context` are two steps because ReleaseContext_ walks
through the key's buffers holding the global lock but not the key's mutex; the
workers that handle other events of the key go on meanwhile.  Callbacks may
send, so SendDataUserInterface is part of the steps that call them.  No buffer
ever has type IO_EVENT_WRITE, because nothing sets it; completions of sends take
whichever branch the stale type of their buffer selects, as in the code.

The kernel keeps the set of outstanding operations and the queue of completion
packets.  Clients connect, send numbered chunks, close or reset at any time
(`conns`, `received`, `peer`); calls fail at any time (`faults`).  An accept
completes when the first data, or the client's end, is there.

The collector (`IOCPCollector`) may find any connection idle for the second time
at any moment; *when* it may is what `ConnectionTimer` is about.  An eviction is
ReleaseContext_ under the global lock.  A pass then erases through iterators
that the release has invalidated, after which the process goes on or ends
(`ended`).

`raced` and `misread` are history.  `raced`: a key was released, by a worker or
by the collector, while another worker was handling an event of it or the kernel
had one of its buffers.  `misread`: a completion that is not the listen socket's
was taken for an accept, because the buffer of a send kept the type from its
previous use (SendDataUserInterface sets none, ResetBuffer keeps the old one, and
after a failed AcceptEx that is IO_EVENT_ACCEPT).  After either, nothing is
promised: the invariants are stated for a server that is `Intact`.  This is a
statement about the code: those are the *only* ways, within the bounds, in which
buffers, keys, sockets or accept requests come to be mixed up.  It is also a weak
one for evictions: an idle connection normally has a read outstanding, so
evicting it nearly always is such a race.  The buffer of the read goes back to
the pool while the kernel has it, and may be handed out before the aborted read
completes.

### Timers

Time advances in ticks up to one beyond the limit; `seen` counts the passes that
found the key idle in its lifetime.  Two things the model shows about resets:
ResetTimer sets the time and not check_time_, so a connection found idle once,
active again and idle again is evicted by the *first* check of the new idle
period (the two checks that `TwoChecksInLifetime` promises are two in the
connection's life, not in a row); and the reset for IO_EVENT_WRITE never happens,
so a connection that only sends counts as idle.  The comments at
`GT_SocketContext.h:88` and `:92` promise more.

### The life of the IOCP service and its process

The main thread's steps are the phases of Initialize and StopService between
which other threads can run.  Workers loop around the flag and the port; an
ordinary event is one step in which they use the resources.  The collector is
the loop around wait_for, with the moment between testing the flag and waiting
as a state of its own, so that a notify can be lost.

`ServerProcess` adds what surrounds this: callbacks are registered after the
workers were started and unregistered before they are stopped; DispatchEvent
tests the pointer and then calls it, two steps between which it may be
unregistered, and the call through it then may or may not read the pointer
again.  main waits for the global event, asks, and resets the event on "no" (a
request that comes during the question is lost).  When CreateEvent fails, the
process spins for ever (`spin`): its result NULL is compared with
INVALID_HANDLE_VALUE.

### The select server

`SelectServer` has the main thread, the service thread and the clients.
`fd_array` is the array select is given: after a successful select it holds the
ready sockets in order and behind them what was there before, and the loop over
it visits one entry more than `fd_count`.  That entry may be the listen socket or
a client that has nothing to read, or memory never written; but FD_ISSET searches
the ready ones only, so it is handled only if its value is also among them, which
happens when a ready socket stood at that place before: then it is handled twice,
and since sockets block, the second recv or accept may wait.  `Waiting` is this
state; `WaitsOnlyBehindReady` says that nothing else makes the thread wait,
`ClientsServed` and `StopsAtNextEvent` hold as long as such waits end.

Only the read set is modelled, nothing is ever added to the others.  A failed
accept adds INVALID_SOCKET to the sockets like a client, and every select from
then on fails.  RefreshFDSet_ is two steps, computing the size and copying, since
the main thread's WakeupSelectThread_ adds its socket to the vector without a
lock; if that happens in between, one entry is written behind the end of the
set (`FdSetFits` says this is the only way and one entry the limit), and the
unlocked change itself may end the process (`crashed`).  The wake-up socket is in
no set that a running select waits on: `WakeupEndsSelect` is violated.

DispatchEvent_ calls the callback only when there is none registered; one always
is, so received data goes nowhere.  The model therefore counts data as served
when it is received.

`ConnectionService` is the promise: data is taken in the order and amount it was
sent, a connection is dropped only after its client left and, if it left orderly,
after all of its data was taken; data may be discarded only when the service is
ending.  `ImplementsConnectionService` is the refinement, with `served` mapped to
the clients that have a handle and `ending` to `end_thread_`.  It is not trivial
because of the comparison of the client's port with that of the wake-up socket.

### The epoll server

A process is the set of loop counters at which it and its ancestors were forked,
a thread in thread mode the set of its one counter; the caller is `{}`.  A child
whose worker function returns goes on in the fork loop with its own counter, so
there are up to 2^N processes for a configured N.  Descriptors are in the table
of a process, which fork copies.

epoll_ctl returns 0 for success, and the worker goes to its error exit then.  It
goes to epoll_wait only when adding the listen socket *failed* (which it does
where `socket(AF_INET, IPPROTO_TCP, 0)` fails, because its second argument asks
for a socket type the system may not have).  In epoll_wait nothing can happen but
the time limit, a signal, or an error; the code that handles events (lines
218-261 and 271-341 of `GTEpoll_Wrapper.cpp`) does not run, and is not modelled.
stopService is empty: only a signal ends such a worker.  A SIGHUP also ends a
waitpid, whose -1 the parent takes for "no child left" (`abandoned`).

## Runs

| Run | Bounds | Result |
|---|---|---|
| `buffer_leases` | 6 buffers, preallocate 1, reallocate 1, short below 2 | passes |
| `socket_handles` | 5 objects, 4 handle values, preallocate 2, reallocate 3 | passes |
| `server_faults` | 2 workers and collector, 1 connection of 2 chunks, 1 send, 2 failures | passes |
| `server_clients` | 2 workers, 2 connections of 2 chunks | passes |
| `server_live` | 2 workers and collector, 1 connection of 2 chunks, 1 failure, fairness, no symmetry | passes |
| `connection_timer` | 2 connections, limit of 1 tick | passes |
| `service_lifecycle` | 3 workers, 2 ordinary events, fairness | passes |
| `select_server` | 2 clients of 2 chunks, 2 handle values, 1 spurious failure of select, array type of 3 entries, fairness | passes |
| `epoll_service` | 3 workers configured (8 processes), 1 failed call, 1 signal, fairness | passes |
| `server_shared_buffer` | as `server_clients` | violated: two releases of one buffer |
| `select_stop` | as `select_server` | violated: the wake-up does not end select |
| `service_init_failure` | 3 workers | violated: null listen key |

Each violated property states what a comment in the repository says of the
program; "findings" in `PROJECT.json` quotes it.

Why the bounds are enough to be interesting: two workers are what every race in
the event loop needs (the handler of one event against the handler of another
of the same key, or against the release of the key); there are fewer buffers,
keys and sockets than a run uses in total, so addresses are reused; two failures
cover both tries of PostAnotherAcceptEvent_; two chunks after the accept let
three handlers of one connection follow each other.  With a small heap some
behaviours stop early because `new` finds no address; that cuts off behaviours
and adds none.  In `select_server` two handle values for two clients and the
wake-up socket make accept fail for want of a handle and make a closed handle's
value come back; an array type of three entries is shorter and longer than the
sets that occur, so both ends of the loop are reached.  Three configured epoll
workers are the least for which a grandchild forks and for which more workers
wait than were configured (four).

Deadlock is checked in the runs of the two pools only: elsewhere a server
whose clients are done and a process that has ended do stop.  `YesEnds`,
`StopsAtNextEvent` and `StartReturns` say where they do not stop.

Symmetry is used only in runs that check invariants.  Constants of symmetric
sets are model values and no definition chooses among them, except `CHOOSE` of
the one thread that has a given buffer in `IOCPServer!Init`, which is unique.

`server_faults` and `server_live` have the constraint `Intact`: states after a
race or a misread completion are not explored further.  The invariants say
nothing about them (or, `SharedOnlyAfterRace`, hold there trivially), and
`GoneReleased` has the premise `[]Intact`, which no behaviour through such a
state satisfies, so nothing is lost.

### Fairness

* `IOCPCollector!FairCollectorSpec`: weak fairness of each worker (a thread that
  can run does; a mutex is held for one step, or by ReleaseContext_, which
  finishes), of the completions the kernel owes (aborted operations, sends, and
  the read of a client that has left), and of evicting a key for which no worker
  and no operation is active: nothing resets its timer any more and the collector
  goes on making passes (`ConnectionTimer!IdleEvicted`).  Clients are not fair.
* `ConnectionTimer!Spec`: time passes, and `wait_for` times out again and again.
* `ServerProcess!ProcessSpec`: weak fairness of the main thread except for the
  user's answers and the exit helper, of each worker, and of the collector, whose
  wait is limited.
* `SelectServer!FairSpec`: weak fairness of the two threads.  Clients and the
  decision to stop are not fair.
* `EpollService!Spec`: some process or thread that can go on without a signal
  does.  As no process ever returns to where it was, each gets its turn.

Three more things the code does are in the models without a property of their
own, because one line shows them: the socket of a failed accept stays in the
in-use pool for ever (`bug_track.txt` wonders why the pool grows), the buffer of
a send is never released (`LeaksOnlySends` says that no other buffer is lost),
and the collector erases an evicted key a second time through iterators that are
no longer valid.

## Proofs

Every theorem is about the specification a run checks, without its bounds: any
number of threads, connections, buffers, sockets, events, failures and signals,
under the assumptions on the constants that the modules name (sizes are natural
numbers, sets finite where the code has a finite number of the thing, the model
values for "none" are not members of the set they are absent from).  The runs
evaluate those assumptions.  "theorems" in `PROJECT.json` lists the results with
the properties they state.

### Buffer manager: `IOBufferLeases_proofs`

`LeaseTyping`, `ExclusiveLeases` (no leased buffer is in the cache),
`NoForgottenBuffer` (the in-use map is covered by leases and cache) and
`BoundedPool` (the bound on memory), over `LeaseSpec`.

The inductive invariant `LeaseIInv` is their conjunction with `PeakIsPeak`
(`Cardinality(leased) <= peak_leased`).  Each part needs others: that a release
does not put a leased buffer into the cache needs that the released one was
leased and that fresh addresses are neither cached, in use nor leased; the bound
needs that a reallocation happens only with a short cache, where the total is at
most the leases (at most the peak) plus `SizeNeedReallocate` plus
`ReAllocateSize`; and a get from a full cache does not change the total at all.

### Socket pool: `SocketHandles_proofs`

`HandleTyping`, `ExclusiveHandles`, `InUseTracked`, `BoundedSocketPool`.
`HandleIInv` adds that pooled sockets are not handed out (`PooledNotOwned`), so
that closing a socket closes nobody else's handle, and that as long as poolsize_
is below the preallocated number it has counted every pooled socket
(`PoolIsCounted`), because it is this counter, not the size of the pool, that
Initilize compares.

### Timers: `ConnectionTimer_proofs`

`TimerTyping`, `SecondCheckEvicts` (`EvictedBySecondCheck`) and
`TwoChecksBeforeEviction`.  `TimerIInv` adds `CheckTimeCounts`: check_time_ of a
key in the table is what its own passes have counted.  That is what ties the
code's counter, which resets never touch, to the history of the connection.

### Service and process: `ServerProcess_proofs`

`ProcessTyping`, `ExitForEveryWorker` (`NoWorkerStranded`),
`ClearedResourcesUnused` (`NoUseAfterClear`) and `CallbackWhileServing`.

The invariant of the service, `ServiceIInv`, says in which phases of the main
thread the workers are kept away from the resources and the collector is gone
(`ClearedInv`), and accounts for the exit events (`ExitInv`): each one posted is
on the port or was taken by a worker of its own, which does not come back to the
port, because the flag is down.  With all of them posted, those left on the port
are as many as the workers that have taken none.  The count over the queue needs
how many "exit" entries `Append` adds and `Tail` removes (`ExitsFinite` and the
lemmas after it).  `ProcessIInv` adds what main and the callbacks are doing.

### Select server: `SelectServer_proofs`

`SelectTyping`, `SelectWatchesOpenSockets`, `SetAsLargeAsNeeded`,
`ClosedSocketsUnused`, `BlocksOnlyBehindReady`, and `SelectImplementsService`,
the refinement of `ConnectionService`.

`SelectIInv` relates the vector of sockets, the array that select overwrites and
the handles the kernel has open.  Connections have handles of their own
(`HandlesInv`); the vector lists exactly the open ones and the listen socket, each
once, next to failed accepts and the wake-up socket (`VecInv`); between turns the
array is the vector, but for a wake-up socket that came late (`SetInv`); during a
turn its first `fd_count` entries are open, listed once, and those not visited yet
have something to deliver (`ReadyInv`); a socket to be closed is still open, and
its client is gone and owed nothing (`CleanInv`).  The loop goes one entry beyond
`fd_count`, and whether that entry is handled depends on its value being among
the first ones; so `ClosedSocketsUnused` rests on all of these together, because
handle values come back.  What select reports is a subsequence; `Selected`
defines it by places, and `SelectedEntries` gives what the proof uses of it.

The refinement maps a step of the service thread on a socket to the abstract
step for the client that has this handle; it needs `HandlesInv` for "at most one
client has it" and `CleanInv` for a drop.  The abstract specification has no
fairness, so all of it is safety, and is proved; the run checks it as well.

### IOCP server: `IOCPServer_proofs`

Over `Spec` (workers only) and `CollectorSpec` (with the collector):

* `ServerTypeCorrect`, the types, of *every* state;
* `BuffersNotShared` (`SharedOnlyAfterRace`), `CompletedBuffersAlive`
  (`KernelBuffersAlive`), `KeysHaveSockets` (`KeySocketsInUse`),
  `ConnectionHasOneReader` (`OneReader`) and `DataInOrder` (`InOrderDelivery`), of
  the states in which no key was released under another event of it and no
  completion misread (`Intact`): with the runs that show what happens otherwise,
  this says that those two are the only causes.

The kernel's set of operations, the port's queue and the workers' records hold
the same thing at different times: an event with its key and its buffer.  The
proof sees all three as one set `Events` of records with a stage, so that a
completion, a dequeue and a worker's step are all "one event goes to its next
stage", and most of an invariant about events is preserved because the others
stay as they are (`WorkerMoves`, `CompletionMovesEvent`, `DequeueMoves`,
`QuietStep`).  `ServerInvariant` is that `ServerIInv == Intact => ServerInv` is
invariant, where `ServerInv` has six parts:

* `ServerTyping`, types of records, operations and packets.  It fails after a
  race, so `TypeOK`, which holds always, has its own weaker invariant
  `LooseTyping`;
* `EventInv`, for each event: which fields go with its stage, what type its
  buffer has, whether it is in its key's cache, and what of the connection's data
  has been received and not delivered;
* `UniqueInv`: events have buffers of their own, known to the manager and not in
  its cache;
* `ReaderInv`: a key has at most one event that reads, or is about to, and while
  it has, its cache has only buffers of its own events;
* `SocketInv`: keys and accept requests have sockets of their own, in use;
* `OrderInv`, the chunks the callback got.

Each needs the others.  That a connection has one reader needs that a completion
with a buffer of the key's cache is a read (types of buffers, `EventInv`), which
needs that nobody else has the buffer (`UniqueInv`).  That releasing a key
releases no buffer somebody uses needs `ReaderInv`: the release is done under the
key's last event, otherwise it is a race, so all of the buffers in the cache are
that event's.  The same holds for an eviction that is no race.

### IOCP server, counts: `IOCPServerCounts_proofs`

Over the same two specifications, on top of `ServerInv`:

* `OnlySendsLoseBuffers` (`LeaksOnlySends`): of the buffers, only those of
  messages sent are lost, one each;
* `AcceptsPostedAgain` (`AcceptSlotsKept`): there are never more accept requests
  than workers, and one is missing only for each accept or AcceptEx that failed.

Neither is inductive.  `CountInvariant` is that `CountIInv == Intact => CountInv`
is invariant, where `CountInv` has two parts:

* `SendInv`: at most `sends` buffers are out of the pool and in the cache of no
  key that can be looked up, events or not.  `LeakedBuffers` itself grows when an
  event ends; the set without the condition on events grows only by the buffer of
  a send (`SendInvStep`), because every other buffer a step takes goes into a
  cache, and a release takes the whole cache back;
* `SlotInv`: the events that are accept requests, or the handling of one on its
  way to the next (`Slots`), are at most as many as the threads, and those of
  them that have not failed (`SoundSlots`) are missing only by `faults`.
  `SlotOK` says what the next step of each needs: its buffer is in the listen
  key's cache, so GetIOBufferPtr finds it, and the socket it is about to hand to
  AcceptEx is not connected.  An accept that failed is still a slot until its
  packet is handled, so the two bounds are about two different sets.

A step replaces one event by others (`Replaced`), so it keeps the counts if a
sound slot goes on as one unless there is a fault, and nothing becomes a slot
that was none (`SlotsKept`); one lemma per action shows that.  `SlotsCounted`
then matches the three terms of `AcceptSlots` one to one with the slots that the
kernel, the port and the workers have, which needs that events have buffers of
their own (`UniqueInv`).

### Epoll server: `EpollService_proofs`

`DescriptorsClosed` (`NoDescriptorLeft`), `NobodyLeftBehind` (`ReturnsAfterAll`)
and `WaitingBounded` (`WorkersBound`), for every number of workers, from
`ServiceInvariant`, that `EpollInv` is invariant.

For processes, `EpollInv` says that a process has gone past every counter it
forked at (`ParentPast`; so no process is forked twice), that in workerFunc_ its
counter is still the one it was forked at (`Shape`), that a descendant is reached
through a child that exists (`Path`), and that nobody has left whose descendants
are not gone (`Descent`).  waitpid knows children only; `Path` and `Descent` carry
what it knows down the tree.  For threads it says which exist and which own the
open descriptors.  The bound on processes is a count: toggling the last turn of
the loop maps the processes that wait to as many others, none of which waits,
since a parent is past workerFunc_ when it forks (`LastTurn`); twice their number
is then at most the number of subsets of the N turns.

### Only model-checked

* Liveness (`IdleEvicted`, `YesEnds`, `ClientsServed`, `StopsAtNextEvent`,
  `StartReturns`, `GoneReleased`): fairness and ENABLED are outside the prover's
  reach.
* The violations: a run shows them.

## Not modelled

* Contents of buffers, addresses of peers, logging, configuration parsing,
  command line and console handling.
* Dead code: CollectUnuseSocket, LongTimeWork4CleanClosedSocket_,
  Resource_Collect_Worker_ (their threads are never started); the event handlers
  and the client map of the epoll server (see above) and its thread pool class,
  which nothing uses; the callbacks of the select server, which are never called;
  GT_Select_Resource_Manager::CleanCache.
* Exceptions from `new` and std::thread, and what the process does after
  undefined behaviour, other than going on or ending.
* hardware_concurrency() returning 0: no workers, no accept requests, a server
  that does nothing.
* Test client, stubs, unit test skeletons.
* Vendored code.  Of the lines under `src/src/cpp/GTServer` that are counted as
  implementation, most are headers of libevent, glog and jsoncpp; the
  repository's own code is under 4,000 lines, of which a good part is
  configuration, logging, command line and the test client.

## Plan

Done: all of the models; every invariant that holds is a theorem, and so is the
refinement of `ConnectionService`.  What is left to TLC is listed under "Only
model-checked".
