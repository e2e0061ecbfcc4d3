------------------------- MODULE IOCPServer_proofs -------------------------
(***************************************************************************)
(* The invariants of the IOCP server at work that do not count, proved for  *)
(* any number of workers, connections, buffers, sends and failures, with    *)
(* the collector evicting keys at any time.                                 *)
(***************************************************************************)
EXTENDS IOCPCollector, FiniteSetTheorems, FunctionTheorems, SequenceTheorems, TLAPS

-----------------------------------------------------------------------------
(* Events.                                                                  *)

PCs == {"loop", "find_key", "find_io", "create_context", "callback", "get_io",
        "post_read", "get_accept_io", "post_accept", "release_io",
        "release_key", "release_context"}

\* What the kernel, the port or a worker has of an event, in one form.  Only
\* sends are aborted (ReleaseKeepsInv below), and stay sends.
OpStage(p) == IF p.op = "ABORTED" THEN "WRITE" ELSE p.op
OpEvent(p) ==
    [io |-> p.io, key |-> p.key, stage |-> OpStage(p), ret |-> TRUE, chunk |-> 0,
     new_key |-> NoKey, new_io |-> NoBuffer]
PacketEvent(q) ==
    [io |-> q.io, key |-> q.key, stage |-> "packet", ret |-> q.ret,
     chunk |-> q.chunk, new_key |-> NoKey, new_io |-> NoBuffer]
WorkerEvent(w) ==
    [io |-> w.io, key |-> w.key, stage |-> w.pc, ret |-> w.ret,
     chunk |-> w.chunk, new_key |-> w.new_key, new_io |-> w.new_io]

\* The event of a worker that goes on with the record w, and those of the
\* operations P that it hands to the kernel.
Continued(w) == IF w.pc = "loop" THEN {} ELSE {WorkerEvent(w)}
Posted(P) == {OpEvent(p) : p \in P}

Busy == {t \in Threads : worker[t].pc # "loop"}
OpEvents == {OpEvent(p) : p \in pending}
PacketEvents == {PacketEvent(port[i]) : i \in 1..Len(port)}
WorkerEvents == {WorkerEvent(worker[t]) : t \in Busy}
Events == OpEvents \cup PacketEvents \cup WorkerEvents

\* Stages of an event whose key has not been looked up yet.
Arriving == {"packet", "find_key", "find_io"}

\* The key that a worker is about to post a read for.
ReaderKey(e) == IF e.new_key # NoKey THEN e.new_key ELSE e.key

\* The event is the reader of the connection of key k.
Reads(e, k) ==
    \/ e.stage \in {"READ", "callback", "release_key", "release_context"} /\ e.key = k
    \/ e.stage \in Arriving /\ e.key = k /\ e.io \in socket_io_buffer_cache_[k]
    \/ e.stage \in {"get_io", "post_read"} /\ ReaderKey(e) = k

\* The event is an accept whose connection has no key yet, or the accept
\* that is about to be posted.
Accepts(e) ==
    \/ e.stage \in {"ACCEPT", "create_context", "post_accept"}
    \/ e.stage \in Arriving /\ e.key = Listen

\* The socket of an accept.
AcceptSocket(e) == io_socket_ptr_[IF e.stage = "post_accept" THEN e.new_io ELSE e.io]

-----------------------------------------------------------------------------
(* The inductive invariant.                                                 *)

WorkerRecords ==
    [pc : PCs, key : Keys \cup {Listen, NoKey}, io : Buffers \cup {NoBuffer},
     ret : BOOLEAN, chunk : Nat, new_key : Keys \cup {NoKey},
     new_io : Buffers \cup {NoBuffer}, tries : Nat]
Operations ==
    [op : {"ACCEPT", "READ", "WRITE", "ABORTED"}, key : Keys \cup {Listen},
     io : Buffers, sock : Sockets]
Packets == [key : Keys \cup {Listen}, io : Buffers, ret : BOOLEAN, chunk : Nat]

ServerTyping ==
    /\ TypeOK
    /\ worker \in [Threads -> WorkerRecords]
    /\ pending \subseteq Operations
    /\ port \in Seq(Packets)
    /\ received \in [Sockets -> Nat]
    /\ dispatched \in [Sockets -> Seq(Nat)]
    /\ \A t \in Threads : worker[t].pc = "loop" => worker[t] = Idle

\* What an event's fields say of each other and of the keys, and what is
\* known of its buffers: that of a send is in no cache of its key, that of a
\* read is and has the type of a read, that of an accept has the type of one.
Placed(e) ==
    /\ e.io \in Buffers /\ e.key \in Keys \cup {Listen}
    /\ \A k \in Keys : Reads(e, k) => k \in completion_key_ptr_cache_
    /\ e.stage = "WRITE" =>
          e.key \in Keys /\ e.io \notin socket_io_buffer_cache_[e.key]
    /\ e.stage = "READ" =>
          /\ e.key \in Keys /\ e.io \in socket_io_buffer_cache_[e.key]
          /\ io_event_type_[e.io] = "READ"
    /\ e.stage = "ACCEPT" => e.key = Listen /\ io_event_type_[e.io] = "ACCEPT"
    /\ e.stage \in Arriving =>
          IF e.key = Listen
          THEN io_event_type_[e.io] = "ACCEPT"
          ELSE e.io \in socket_io_buffer_cache_[e.key] => io_event_type_[e.io] = "READ"
    /\ e.stage \in {"create_context", "get_accept_io", "post_accept"} => e.key = Listen
    /\ e.stage \in {"callback", "release_key", "release_context"} => e.key \in Keys
    /\ e.stage \in {"get_io", "post_read"} => ReaderKey(e) \in Keys
    /\ e.new_key # NoKey => e.stage \in {"get_io", "post_read"} /\ e.key = Listen
    /\ e.new_io # NoBuffer <=> e.stage \in {"post_read", "post_accept"}
    /\ e.stage = "post_read" =>
          /\ e.new_io \in socket_io_buffer_cache_[ReaderKey(e)]
          /\ io_event_type_[e.new_io] = "READ"
    /\ e.stage = "post_accept" => io_event_type_[e.new_io] = "ACCEPT"
    /\ e.stage = "callback" => e.chunk # 0
    /\ e.stage = "create_context" => e.ret

\* What the reader e of socket s has received and not given to the callback.
ReaderDelivers(e, s) ==
    /\ e.stage \in {"READ", "get_io", "post_read"} => Len(dispatched[s]) = received[s]
    /\ e.stage \in Arriving \cup {"callback"} /\ e.chunk # 0 =>
          e.chunk = received[s] /\ Len(dispatched[s]) + 1 = received[s]

\* The same for an accept, whose connection begins.
AcceptDelivers(e, s) ==
    /\ e.stage \in {"ACCEPT", "post_accept"} => received[s] = 0 /\ Len(dispatched[s]) = 0
    /\ e.stage \in Arriving /\ e.ret =>
          e.chunk \in {0, 1} /\ e.chunk = received[s] /\ Len(dispatched[s]) = 0
    /\ e.stage = "create_context" => Len(dispatched[s]) = received[s]
    /\ e.stage \in Arriving \cup {"create_context"} /\ e.ret => peer[s] \in {"up", "gone"}

EventOK(e) ==
    /\ Placed(e)
    /\ \A k \in Keys : Reads(e, k) => ReaderDelivers(e, socket_shared_ptr_[k])
    /\ Accepts(e) => AcceptDelivers(e, AcceptSocket(e))

EventInv == \A e \in Events : EventOK(e)

\* Every event has buffers of its own; the manager knows them and does not
\* have them in its cache.
IOs(e) == {e.io, e.new_io} \ {NoBuffer}
Share(e, f) == IOs(e) \cap IOs(f) # {}
Held(e) == IOs(e) \subseteq io_buffer_in_use_ \ io_buffer_cache_

OperationsApart == \A p, q \in pending : p.io = q.io => p = q
WorkersApart ==
    \A t, u \in Threads : worker[t].io = worker[u].io => t = u \/ worker[t].io = NoBuffer
PacketsApart == \A i, j \in 1..Len(port) : port[i].io = port[j].io => i = j

UniqueInv ==
    /\ \A e, f \in Events : Share(e, f) => e = f
    /\ \A e \in Events : e.io # e.new_io
    /\ OperationsApart /\ PacketsApart /\ WorkersApart
    /\ \A e \in Events : Held(e)

\* A connection has one reader.  As long as it has, its key's cache has no
\* buffer but those of its own events.
OwnBuffer(k, b) ==
    \E e \in Events : \/ e.io = b /\ e.key = k
                      \/ e.stage = "post_read" /\ ReaderKey(e) = k /\ e.new_io = b

HasReader(k) == \E e \in Events : Reads(e, k)

ReaderInv ==
    /\ \A k \in Keys : \A e, f \in Events : Reads(e, k) /\ Reads(f, k) => e = f
    /\ \A k \in completion_key_ptr_cache_ : HasReader(k) =>
          \A b \in socket_io_buffer_cache_[k] : OwnBuffer(k, b)

\* Keys and accepts have sockets of their own.
OperationSockets ==
    \A p \in pending : /\ p.op = "READ" => p.sock = socket_shared_ptr_[p.key]
                       /\ p.op = "ACCEPT" => p.sock = io_socket_ptr_[p.io]

SocketInv ==
    /\ shared_socket_pool_ \cap socket_inuse_pool_ = {}
    /\ \A k \in completion_key_ptr_cache_ :
          /\ socket_shared_ptr_[k] \in socket_inuse_pool_
          /\ peer[socket_shared_ptr_[k]] \in {"up", "gone"}
    /\ \A k, l \in completion_key_ptr_cache_ :
          socket_shared_ptr_[k] = socket_shared_ptr_[l] => k = l
    /\ \A e \in Events : Accepts(e) =>
          /\ AcceptSocket(e) \in socket_inuse_pool_
          /\ \A k \in completion_key_ptr_cache_ : socket_shared_ptr_[k] # AcceptSocket(e)
          /\ \A f \in Events : Accepts(f) /\ AcceptSocket(f) = AcceptSocket(e) => e = f
    /\ OperationSockets

\* The callback got each socket's chunks in order.
OrderInv == \A s \in Sockets : \A i \in 1..Len(dispatched[s]) : dispatched[s][i] = i

ServerInv ==
    ServerTyping /\ EventInv /\ UniqueInv /\ ReaderInv /\ SocketInv /\ OrderInv

ServerIInv == Intact => ServerInv

-----------------------------------------------------------------------------
(* Events and where they are.                                               *)

\* The fields of an event, whoever has it.
LEMMA EventFields ==
    /\ \A p : /\ OpEvent(p).io = p.io /\ OpEvent(p).key = p.key
              /\ OpEvent(p).stage = OpStage(p) /\ OpEvent(p).chunk = 0
              /\ OpEvent(p).ret = TRUE /\ OpEvent(p).new_key = NoKey
              /\ OpEvent(p).new_io = NoBuffer
    /\ \A q : /\ PacketEvent(q).io = q.io /\ PacketEvent(q).key = q.key
              /\ PacketEvent(q).stage = "packet" /\ PacketEvent(q).chunk = q.chunk
              /\ PacketEvent(q).ret = q.ret /\ PacketEvent(q).new_key = NoKey
              /\ PacketEvent(q).new_io = NoBuffer
    /\ \A w : /\ WorkerEvent(w).io = w.io /\ WorkerEvent(w).key = w.key
              /\ WorkerEvent(w).stage = w.pc /\ WorkerEvent(w).chunk = w.chunk
              /\ WorkerEvent(w).ret = w.ret /\ WorkerEvent(w).new_key = w.new_key
              /\ WorkerEvent(w).new_io = w.new_io
BY DEF OpEvent, PacketEvent, WorkerEvent

\* Who has an event can be told from its stage.
LEMMA EventPlaces ==
    ASSUME ServerTyping, NEW e \in Events
    PROVE  /\ e.chunk \in Nat /\ e.new_io \in Buffers \cup {NoBuffer}
           /\ e.new_key \in Keys \cup {NoKey}
           /\ \/ /\ e.stage \in {"ACCEPT", "READ", "WRITE"}
                 /\ e.new_key = NoKey /\ e.new_io = NoBuffer /\ e.chunk = 0
                 /\ \E p \in pending : e = OpEvent(p) /\ p.io = e.io /\ p.key = e.key
                                         /\ OpStage(p) = e.stage
              \/ /\ e.stage = "packet" /\ e.new_key = NoKey /\ e.new_io = NoBuffer
                 /\ \E i \in 1..Len(port) : e = PacketEvent(port[i]) /\ port[i].io = e.io
                                              /\ port[i].key = e.key
              \/ /\ e.stage \in PCs \ {"loop"}
                 /\ \E t \in Threads :
                        /\ e = WorkerEvent(worker[t]) /\ worker[t].io = e.io
                        /\ worker[t].key = e.key /\ worker[t].pc = e.stage
                        /\ worker[t].new_key = e.new_key /\ worker[t].new_io = e.new_io
<1>1. CASE e \in OpEvents
  <2>1. PICK p \in pending : e = OpEvent(p)
    BY <1>1 DEF OpEvents
  <2>2. p \in Operations
    BY DEF ServerTyping
  <2>3. /\ e.io = p.io /\ e.key = p.key /\ e.stage = OpStage(p)
        /\ e.chunk = 0 /\ e.ret = TRUE /\ e.new_key = NoKey /\ e.new_io = NoBuffer
    BY <2>1, EventFields
  <2>4. OpStage(p) \in {"ACCEPT", "READ", "WRITE"}
    BY <2>2 DEF Operations, OpStage
  <2>. QED  BY <2>1, <2>3, <2>4
<1>2. CASE e \in PacketEvents
  <2>1. PICK i \in 1..Len(port) : e = PacketEvent(port[i])
    BY <1>2 DEF PacketEvents
  <2>2. port[i] \in Packets
    BY DEF ServerTyping
  <2>. QED  BY <2>1, <2>2, EventFields DEF Packets
<1>3. CASE e \in WorkerEvents
  <2>1. PICK t \in Threads : worker[t].pc # "loop" /\ e = WorkerEvent(worker[t])
    BY <1>3 DEF WorkerEvents, Busy
  <2>2. worker[t] \in WorkerRecords
    BY DEF ServerTyping
  <2>3. /\ e.io = worker[t].io /\ e.key = worker[t].key /\ e.stage = worker[t].pc
        /\ e.chunk = worker[t].chunk /\ e.new_key = worker[t].new_key
        /\ e.new_io = worker[t].new_io
    BY <2>1, EventFields
  <2>4. /\ worker[t].pc \in PCs /\ worker[t].chunk \in Nat
        /\ worker[t].new_io \in Buffers \cup {NoBuffer}
        /\ worker[t].new_key \in Keys \cup {NoKey}
    BY <2>2 DEF WorkerRecords
  <2>. QED  BY <2>1, <2>3, <2>4
<1>. QED  BY <1>1, <1>2, <1>3 DEF Events

\* A worker, the kernel and the port have their events.
LEMMA HolderHasEvent ==
    /\ \A t \in Threads : worker[t].pc # "loop" => WorkerEvent(worker[t]) \in Events
    /\ \A p \in pending : OpEvent(p) \in Events
    /\ \A i \in 1..Len(port) : PacketEvent(port[i]) \in Events
BY DEF Events, WorkerEvents, OpEvents, PacketEvents, Busy

\* The three kinds of places have no event in common.
LEMMA PlacesDisjoint ==
    ASSUME ServerTyping
    PROVE  /\ \A t \in Threads : worker[t].pc # "loop" =>
                 WorkerEvent(worker[t]) \notin OpEvents \cup PacketEvents
           /\ OpEvents \cap (PacketEvents \cup WorkerEvents) = {}
           /\ PacketEvents \cap WorkerEvents = {}
<1>1. \A e \in OpEvents : e.stage \in {"ACCEPT", "READ", "WRITE"}
  <2>1. \A p \in pending : OpStage(p) \in {"ACCEPT", "READ", "WRITE"}
    BY DEF ServerTyping, Operations, OpStage
  <2>. QED  BY <2>1, EventFields DEF OpEvents
<1>2. \A e \in PacketEvents : e.stage = "packet"
  BY EventFields DEF PacketEvents
<1>3. \A t \in Threads : worker[t].pc # "loop" => WorkerEvent(worker[t]).stage \in PCs \ {"loop"}
  <2>1. \A t \in Threads : worker[t].pc \in PCs
    BY DEF ServerTyping, WorkerRecords
  <2>. QED  BY <2>1, EventFields
<1>4. \A e \in WorkerEvents : e.stage \in PCs \ {"loop"}
  BY <1>3 DEF WorkerEvents, Busy
<1>. QED  BY <1>1, <1>2, <1>3, <1>4 DEF PCs

\* A step of a worker, which may hand operations to the kernel, moves its own
\* event and no other.
LEMMA WorkerMovesEvent ==
    ASSUME ServerInv,
           NEW t \in Threads, worker[t].pc # "loop", NEW w, NEW P,
           worker' = [worker EXCEPT ![t] = w],
           pending' = pending \cup P,
           port' = port
    PROVE  Events' = (Events \ {WorkerEvent(worker[t])})
                        \cup ((IF w.pc = "loop" THEN {} ELSE {WorkerEvent(w)})
                                \cup {OpEvent(p) : p \in P})
<1>. USE DEF ServerInv
<1>. DEFINE e0 == WorkerEvent(worker[t])
            others == {WorkerEvent(worker[u]) : u \in Busy \ {t}}
            new == IF w.pc = "loop" THEN {} ELSE {WorkerEvent(w)}
<1>1. WorkerEvents' = others \cup new
  <2>1. worker'[t] = w /\ \A u \in Threads \ {t} : worker'[u] = worker[u]
    BY DEF ServerTyping
  <2>2. Busy' = (Busy \ {t}) \cup (IF w.pc = "loop" THEN {} ELSE {t})
    BY <2>1 DEF Busy
  <2>3. \A u \in Busy : u \in Threads
    BY DEF Busy
  <2>. QED  BY <2>1, <2>2, <2>3 DEF WorkerEvents
<1>2. OpEvents' = OpEvents \cup {OpEvent(p) : p \in P}
  BY DEF OpEvents, OpEvent, OpStage
<1>3. PacketEvents' = PacketEvents
  BY DEF PacketEvents, PacketEvent
<1>4. others = WorkerEvents \ {e0}
  <2>1. \A u \in Busy \ {t} : WorkerEvent(worker[u]) # e0
    <3>1. e0 \in Events /\ e0.io = worker[t].io
      BY HolderHasEvent, EventFields
    <3>2. worker[t].io \in Buffers
      BY <3>1 DEF EventInv, EventOK, Placed
    <3>3. \A u \in Busy \ {t} : worker[u].io # worker[t].io
      BY <3>2, ServerConstants DEF Busy, UniqueInv, WorkersApart
    <3>4. \A u : WorkerEvent(worker[u]).io = worker[u].io
      BY EventFields
    <3>. HIDE DEF e0
    <3>. QED  BY <3>1, <3>3, <3>4
  <2>. QED  BY <2>1 DEF WorkerEvents, Busy
<1>5. e0 \notin OpEvents /\ e0 \notin PacketEvents
  BY PlacesDisjoint
<1>. HIDE DEF e0, others, new
<1>6. Events' = (Events \ {e0}) \cup (new \cup {OpEvent(p) : p \in P})
  BY <1>1, <1>2, <1>3, <1>4, <1>5 DEF Events
<1>. QED  BY <1>6 DEF e0, new

\* GetIOContextBuffer gives out a buffer that no event has, and that no
\* connection which is being read has in its key's cache.
LEMMA GotBuffer ==
    ASSUME ServerInv, NEW b \in Buffers, GetIOContextBuffer(b)
    PROVE  /\ BufferTypeOK'
           /\ b \in io_buffer_in_use_' \ io_buffer_cache_'
           /\ \A e \in Events : b \notin IOs(e)
           /\ \A e \in Events : Held(e)'
           /\ \A k \in completion_key_ptr_cache_ :
                 HasReader(k) => b \notin socket_io_buffer_cache_[k]
           /\ TypesFromPool \in [Buffers -> EventTypes]
           /\ SocketsFromPool \in [Buffers -> Sockets \cup {NoSocket}]
           /\ \A e \in Events : \A c \in IOs(e) :
                 TypesFromPool[c] = io_event_type_[c] /\ SocketsFromPool[c] = io_socket_ptr_[c]
<1>. USE DEF ServerInv
<1>1. PICK added \in Reallocations(FreshBuffers) :
        /\ b \in io_buffer_cache_ \cup added \/ b \in FreshBuffers
        /\ io_buffer_cache_' = (io_buffer_cache_ \cup added) \ {b}
  BY DEF GetIOContextBuffer, GetNextIOBufferPtr
<1>2. io_buffer_in_use_' = io_buffer_in_use_ \cup {b} /\ UNCHANGED io_buffer_manager_inited_
  BY DEF GetIOContextBuffer, GetNextIOBufferPtr
<1>3. added \subseteq FreshBuffers
  BY DEF Reallocations, kSubset
<1>4. FreshBuffers \subseteq Buffers \ io_buffer_in_use_
  BY DEF FreshBuffers, LiveBuffers
<1>5. ASSUME NEW e \in Events, NEW c \in IOs(e)
      PROVE  c \in io_buffer_in_use_ /\ c \notin io_buffer_cache_ /\ c \in Buffers
  BY DEF UniqueInv, Held, ServerTyping, TypeOK, BufferTypeOK
<1>6. BufferTypeOK'
  BY <1>1, <1>2, <1>3, <1>4 DEF BufferTypeOK, ServerTyping, TypeOK
<1>7. /\ TypesFromPool \in [Buffers -> EventTypes]
      /\ SocketsFromPool \in [Buffers -> Sockets \cup {NoSocket}]
  BY DEF TypesFromPool, SocketsFromPool, ServerTyping, TypeOK, EventTypes
<1>8. \A e \in Events : b \notin IOs(e)
  BY <1>1, <1>3, <1>4, <1>5
<1>9. \A k \in completion_key_ptr_cache_ :
        HasReader(k) => b \notin socket_io_buffer_cache_[k]
  <2>1. b # NoBuffer
    BY ServerConstants
  <2>. QED  BY <1>8, <2>1 DEF ReaderInv, OwnBuffer, IOs
<1>10. \A e \in Events : \A c \in IOs(e) :
          TypesFromPool[c] = io_event_type_[c] /\ SocketsFromPool[c] = io_socket_ptr_[c]
  BY <1>4, <1>5 DEF TypesFromPool, SocketsFromPool
<1>11. \A e \in Events : Held(e)'
  BY <1>1, <1>2, <1>3, <1>4, <1>5 DEF Held, IOs
<1>. QED  BY <1>1, <1>2, <1>6, <1>7, <1>8, <1>9, <1>10, <1>11

\* ReleaseIOBuffer touches the buffers it is given only.
LEMMA ReleasedBuffers ==
    ASSUME BufferTypeOK, NEW S \in SUBSET Buffers, ReleaseIOBuffers(S)
    PROVE  /\ BufferTypeOK'
           /\ \A c : c \in io_buffer_in_use_ \ io_buffer_cache_ /\ c \notin S
                        => c \in io_buffer_in_use_' \ io_buffer_cache_'
BY DEF ReleaseIOBuffers, BufferTypeOK

-----------------------------------------------------------------------------
(* What one event's step leaves alone.                                      *)

\* The fields of buffers, the caches of keys and the connections that other
\* events than e0 depend on are as they were; s0 is the one socket whose
\* connection the step may concern.
Unaffected(e0, s0) ==
    /\ \A e \in Events \ {e0} : \A b \in IOs(e) :
          io_event_type_'[b] = io_event_type_[b] /\ io_socket_ptr_'[b] = io_socket_ptr_[b]
    /\ \A e \in Events \ {e0} : \A k \in {e.key, ReaderKey(e)} \cap Keys : \A b \in IOs(e) :
          b \in socket_io_buffer_cache_'[k] <=> b \in socket_io_buffer_cache_[k]
    /\ \A e \in Events \ {e0} : \A k \in Keys : Reads(e, k) =>
          /\ k \in completion_key_ptr_cache_'
          /\ socket_shared_ptr_'[k] = socket_shared_ptr_[k]
          /\ socket_shared_ptr_[k] # s0
    /\ \A e \in Events \ {e0} : Accepts(e) => AcceptSocket(e) # s0
    /\ \A s \in Sockets \ {s0} :
          peer'[s] = peer[s] /\ received'[s] = received[s] /\ dispatched'[s] = dispatched[s]

\* Such events stay what they were.
LEMMA OtherEvents ==
    ASSUME ServerInv, NEW e0, NEW s0, Unaffected(e0, s0), NEW e \in Events \ {e0}
    PROVE  /\ \A k \in Keys : Reads(e, k)' <=> Reads(e, k)
           /\ Accepts(e)' <=> Accepts(e)
           /\ Accepts(e) => AcceptSocket(e)' = AcceptSocket(e)
           /\ EventOK(e)'
<1>. USE DEF ServerInv
<1>1. Placed(e)
  BY DEF EventInv, EventOK
<1>2. /\ e.io \in Buffers /\ e.io # NoBuffer /\ e.io \in IOs(e)
      /\ e.stage \in {"post_read", "post_accept"} => e.new_io \in IOs(e)
  BY <1>1, ServerConstants DEF Placed, IOs
<1>3. \A k \in Keys : Reads(e, k)' <=> Reads(e, k)
  <2>1. ASSUME NEW k \in Keys PROVE Reads(e, k)' <=> Reads(e, k)
    <3>1. e.key = k => (e.io \in socket_io_buffer_cache_'[k] <=> e.io \in socket_io_buffer_cache_[k])
      BY <1>2 DEF Unaffected
    <3>. QED  BY <3>1 DEF Reads, ReaderKey
  <2>. QED  BY <2>1
<1>4. Accepts(e)' <=> Accepts(e)
  BY DEF Accepts
<1>5. Accepts(e) => AcceptSocket(e)' = AcceptSocket(e)
  BY <1>2 DEF AcceptSocket, Unaffected
<1>6. Placed(e)'
  <2>1. /\ io_event_type_'[e.io] = io_event_type_[e.io]
        /\ e.stage \in {"post_read", "post_accept"} =>
              io_event_type_'[e.new_io] = io_event_type_[e.new_io]
    BY <1>2 DEF Unaffected
  <2>2. e.key \in Keys =>
           (e.io \in socket_io_buffer_cache_'[e.key] <=> e.io \in socket_io_buffer_cache_[e.key])
    BY <1>2 DEF Unaffected
  <2>3. e.stage = "post_read" =>
           (e.new_io \in socket_io_buffer_cache_'[ReaderKey(e)]
              <=> e.new_io \in socket_io_buffer_cache_[ReaderKey(e)])
    BY <1>1, <1>2 DEF Unaffected, Placed
  <2>4. \A k \in Keys : Reads(e, k)' => k \in completion_key_ptr_cache_'
    BY <1>3 DEF Unaffected
  <2>5. ReaderKey(e)' = ReaderKey(e)
    BY DEF ReaderKey
  <2>. QED  BY <1>1, <2>1, <2>2, <2>3, <2>4, <2>5 DEF Placed
<1>7. ASSUME NEW k \in Keys, Reads(e, k)'
      PROVE  ReaderDelivers(e, socket_shared_ptr_[k])'
  <2>1. Reads(e, k) /\ socket_shared_ptr_'[k] = socket_shared_ptr_[k]
    BY <1>3, <1>7 DEF Unaffected
  <2>2. socket_shared_ptr_[k] \in Sockets \ {s0}
    <3>1. k \in completion_key_ptr_cache_ /\ socket_shared_ptr_[k] # s0
      BY <1>1, <2>1 DEF Placed, Unaffected
    <3>. QED  BY <3>1 DEF SocketInv, ServerTyping, TypeOK, SocketPoolTypeOK
  <2>3. ReaderDelivers(e, socket_shared_ptr_[k])
    BY <2>1 DEF EventInv, EventOK
  <2>. QED  BY <2>1, <2>2, <2>3 DEF ReaderDelivers, Unaffected
<1>8. ASSUME Accepts(e)'
      PROVE  AcceptDelivers(e, AcceptSocket(e))'
  <2>1. Accepts(e) /\ AcceptSocket(e)' = AcceptSocket(e)
    BY <1>4, <1>5, <1>8
  <2>2. AcceptSocket(e) \in Sockets \ {s0}
    <3>1. AcceptSocket(e) \in socket_inuse_pool_ /\ AcceptSocket(e) # s0
      BY <2>1 DEF SocketInv, Unaffected
    <3>. QED  BY <3>1 DEF ServerTyping, TypeOK, SocketPoolTypeOK
  <2>3. AcceptDelivers(e, AcceptSocket(e))
    BY <2>1 DEF EventInv, EventOK
  <2>. QED  BY <2>1, <2>2, <2>3 DEF AcceptDelivers, Unaffected
<1>. QED  BY <1>3, <1>4, <1>5, <1>6, <1>7, <1>8 DEF EventOK

\* The events N take the place of e0.
Replaced(e0, N) == Events' = (Events \ {e0}) \cup N

\* Every event is all right if the new ones are.
LEMMA KeepEvents ==
    ASSUME ServerInv, NEW e0, NEW s0, Unaffected(e0, s0), NEW N,
           Replaced(e0, N),
           \A e \in N : EventOK(e)'
    PROVE  EventInv'
BY OtherEvents DEF EventInv, Replaced

\* A reader is replaced by one of the same connection or is the first of a
\* new key.
ReadersPass(e0, N) ==
    /\ \A e \in N : \A k \in Keys : Reads(e, k)' =>
          (e0 \in Events /\ Reads(e0, k)) \/ k \notin completion_key_ptr_cache_
    /\ \A e, f \in N : \A k \in Keys : Reads(e, k)' /\ Reads(f, k)' => e = f

\* The buffer b in the cache of key k is one of event e's.
Owned(e, k, b) ==
    \/ e.io = b /\ e.key = k
    \/ e.stage = "post_read" /\ ReaderKey(e) = k /\ e.new_io = b

\* What a cache has is what it had, except for the buffers of e0, or a new
\* event's.
CachesPass(e0, N) ==
    \A k \in completion_key_ptr_cache_' : HasReader(k)' =>
        \A b \in socket_io_buffer_cache_'[k] :
            \/ /\ k \in completion_key_ptr_cache_
               /\ b \in socket_io_buffer_cache_[k]
               /\ b \notin IOs(e0)
            \/ \E e \in N : Owned(e, k, b)

\* Every connection still has one reader, and caches with its events' buffers.
LEMMA KeepReaders ==
    ASSUME ServerInv, NEW e0, NEW s0, Unaffected(e0, s0), NEW N,
           Replaced(e0, N), completion_key_ptr_cache_' \subseteq Keys,
           ReadersPass(e0, N), CachesPass(e0, N)
    PROVE  ReaderInv'
<1>. USE DEF ServerInv, Replaced, ReadersPass
<1>1. \A e \in Events \ {e0} : \A k \in Keys : Reads(e, k)' <=> Reads(e, k)
  BY OtherEvents
<1>2. \A e \in Events : \A k \in Keys : Reads(e, k) => k \in completion_key_ptr_cache_
  BY DEF EventInv, EventOK, Placed
<1>3. \A e, f \in Events : \A k \in Keys : Reads(e, k) /\ Reads(f, k) => e = f
  BY DEF ReaderInv
<1>4. \A e, f \in Events' : \A k \in Keys : Reads(e, k)' /\ Reads(f, k)' => e = f
  BY <1>1, <1>2, <1>3
<1>5. ASSUME NEW k \in completion_key_ptr_cache_', HasReader(k)',
             NEW b \in socket_io_buffer_cache_'[k]
      PROVE  OwnBuffer(k, b)'
  <2>1. CASE \E e \in N : Owned(e, k, b)
    BY <2>1 DEF OwnBuffer, Owned, ReaderKey
  <2>2. CASE /\ k \in completion_key_ptr_cache_
             /\ b \in socket_io_buffer_cache_[k]
             /\ b \notin IOs(e0)
    <3>1. HasReader(k)
      <4>1. PICK e \in Events' : Reads(e, k)'
        BY <1>5 DEF HasReader
      <4>2. k \in Keys
        OBVIOUS
      <4>. QED  BY <1>1, <2>2, <4>1, <4>2 DEF HasReader
    <3>2. b # NoBuffer
      BY <2>2, ServerConstants DEF ServerTyping, TypeOK
    <3>3. PICK e \in Events : \/ e.io = b /\ e.key = k
                              \/ e.stage = "post_read" /\ ReaderKey(e) = k /\ e.new_io = b
      BY <2>2, <3>1 DEF ReaderInv, OwnBuffer
    <3>4. e \in Events'
      BY <2>2, <3>2, <3>3 DEF IOs
    <3>. QED  BY <3>3, <3>4 DEF OwnBuffer, ReaderKey
  <2>. QED  BY <1>5, <2>1, <2>2 DEF CachesPass
<1>. QED  BY <1>4, <1>5 DEF ReaderInv

\* Buffers are not shared if the new events have those of the old one, or
\* buffers that no event had.
BuffersPass(e0, N) ==
    /\ \A e \in N : e.io # e.new_io
    /\ \A e \in N : \A b \in IOs(e) :
          (e0 \in Events /\ b \in IOs(e0)) \/ \A f \in Events : b \notin IOs(f)
    /\ \A e, f \in N : Share(e, f) => e = f
    /\ \A e \in Events \ {e0} : Held(e)'
    /\ \A e \in N : Held(e)'

\* No two events share a buffer afterwards.
LEMMA KeepBuffers ==
    ASSUME ServerInv, NEW e0, NEW N, Replaced(e0, N), BuffersPass(e0, N),
           OperationsApart', PacketsApart', WorkersApart'
    PROVE  UniqueInv'
<1>. USE DEF ServerInv, Replaced, BuffersPass
<1>1. \A e, f \in Events' : Share(e, f) => e = f
  <2>1. \A e, f \in Events : Share(e, f) => e = f
    BY DEF UniqueInv
  <2>. QED  BY <2>1 DEF Share
<1>2. \A e \in Events' : e.io # e.new_io
  BY DEF UniqueInv
<1>3. \A e, f : Share(e, f)' <=> Share(e, f)
  BY DEF IOs, Share
<1>. QED  BY <1>1, <1>2, <1>3 DEF UniqueInv

\* Sockets are not shared if no step hands one on: the new accept, if there is
\* one, has the socket of the old.
AcceptsPass(e0, N) ==
    /\ \A e \in N : Accepts(e)' =>
          e0 \in Events /\ Accepts(e0) /\ AcceptSocket(e)' = AcceptSocket(e0)
    /\ \A e, f \in N : Accepts(e)' /\ Accepts(f)' => e = f

\* No two keys or accepts share a socket afterwards.
LEMMA KeepSockets ==
    ASSUME ServerInv, NEW e0, NEW s0, Unaffected(e0, s0), NEW N,
           Replaced(e0, N), AcceptsPass(e0, N),
           UNCHANGED <<shared_socket_pool_, socket_inuse_pool_, completion_key_ptr_cache_,
                       socket_shared_ptr_>>,
           \A k \in completion_key_ptr_cache_ : peer'[socket_shared_ptr_[k]] \in {"up", "gone"},
           OperationSockets'
    PROVE  SocketInv'
<1>. USE DEF ServerInv, Replaced, AcceptsPass
<1>1. \A e \in Events \ {e0} : /\ Accepts(e)' <=> Accepts(e)
                               /\ Accepts(e) => AcceptSocket(e)' = AcceptSocket(e)
  BY OtherEvents
<1>2. \A e \in Events' : Accepts(e)' =>
        \E f \in Events : Accepts(f) /\ AcceptSocket(e)' = AcceptSocket(f)
                            /\ (f = e0 => e \in N)
  BY <1>1
<1>3. ASSUME NEW e \in Events', NEW f \in Events', Accepts(e)', Accepts(f)',
             AcceptSocket(e)' = AcceptSocket(f)'
      PROVE  e = f
  <2>1. \A x, y \in Events : Accepts(x) /\ Accepts(y) /\ AcceptSocket(x) = AcceptSocket(y) => x = y
    BY DEF SocketInv
  <2>2. CASE e \in N /\ f \in N
    BY <1>3, <2>2
  <2>3. CASE e \in N /\ f \notin N
    BY <1>1, <1>3, <2>1, <2>3
  <2>4. CASE e \notin N /\ f \in N
    BY <1>1, <1>3, <2>1, <2>4
  <2>5. CASE e \notin N /\ f \notin N
    BY <1>1, <1>3, <2>1, <2>5
  <2>. QED  BY <2>2, <2>3, <2>4, <2>5
<1>4. ASSUME NEW e \in Events', Accepts(e)'
      PROVE  /\ AcceptSocket(e)' \in socket_inuse_pool_
             /\ \A k \in completion_key_ptr_cache_ : socket_shared_ptr_[k] # AcceptSocket(e)'
  BY <1>2, <1>4 DEF SocketInv
<1>. QED  BY <1>3, <1>4 DEF SocketInv

-----------------------------------------------------------------------------
(* The kernel's steps.                                                      *)

\* A completion moves an operation's event to the port.
LEMMA CompletionMovesEvent ==
    ASSUME ServerInv, NEW p \in pending, NEW q \in Packets, q.io = p.io,
           pending' = pending \ {p}, port' = Append(port, q), UNCHANGED worker
    PROVE  /\ Replaced(OpEvent(p), {PacketEvent(q)})
           /\ PacketsApart'
<1>. USE DEF ServerInv
<1>. DEFINE e0 == OpEvent(p)
            n == Len(port)
<1>0. /\ port \in Seq(Packets) /\ n \in Nat /\ Len(port') = n + 1
      /\ \A i \in 1..n : port'[i] = port[i]
      /\ port'[n + 1] = q
      /\ \A i \in 1..n + 1 : i \in 1..n \/ i = n + 1
      /\ \A i \in 1..n : i \in 1..n + 1 /\ i # n + 1
      /\ n + 1 \in 1..n + 1
  BY DEF ServerTyping
<1>1. PacketEvents' = PacketEvents \cup {PacketEvent(q)}
  <2>1. \A x : PacketEvent(x)' = PacketEvent(x')
    BY DEF PacketEvent
  <2>. QED  BY <1>0, <2>1 DEF PacketEvents, PacketEvent
<1>2. OpEvents' = OpEvents \ {e0}
  <2>1. \A x \in pending \ {p} : OpEvent(x) # e0
    <3>1. \A x : OpEvent(x).io = x.io
      BY EventFields
    <3>2. \A x \in pending : x.io = p.io => x = p
      BY DEF UniqueInv, OperationsApart
    <3>. QED  BY <3>1, <3>2
  <2>2. OpEvents' = {OpEvent(x) : x \in pending \ {p}}
    BY DEF OpEvents, OpEvent, OpStage
  <2>. QED  BY <2>1, <2>2 DEF OpEvents
<1>3. WorkerEvents' = WorkerEvents
  BY DEF WorkerEvents, WorkerEvent, Busy
<1>4. e0 \in OpEvents /\ e0 \notin PacketEvents \cup WorkerEvents
  BY PlacesDisjoint DEF OpEvents
<1>5. \A i \in 1..n : port[i].io # p.io
  <2>1. \A i \in 1..n : PacketEvent(port[i]) \in PacketEvents
    BY DEF PacketEvents
  <2>2. \A i \in 1..n : PacketEvent(port[i]) \in Events /\ PacketEvent(port[i]).io = port[i].io
    BY <2>1, EventFields DEF Events
  <2>3. e0 \in Events /\ e0.io = p.io /\ p.io # NoBuffer
    BY <1>4, EventFields, ServerConstants DEF Events, ServerTyping, Operations
  <2>4. \A i \in 1..n : PacketEvent(port[i]) # e0
    BY <1>4, <2>1
  <2>. HIDE DEF e0, n
  <2>. QED  BY <2>2, <2>3, <2>4 DEF UniqueInv, Share, IOs
<1>6. Events' = (Events \ {e0}) \cup {PacketEvent(q)}
  <2>. HIDE DEF e0
  <2>. QED  BY <1>1, <1>2, <1>3, <1>4 DEF Events
<1>7. PacketsApart'
  BY <1>0, <1>5 DEF UniqueInv, PacketsApart
<1>. QED  BY <1>6, <1>7 DEF Replaced

\* A completion, whose connection s0 it may concern, preserves the invariant.
LEMMA CompletionInv ==
    ASSUME ServerInv, NEW p \in pending, NEW ret \in BOOLEAN, NEW chunk \in Nat,
           NEW s0,
           Complete(p, ret, chunk),
           UNCHANGED <<poolVars, fieldVars, keyVars, worker, dispatched, raced, misread>>,
           peer' \in [Sockets -> {"none", "up", "gone", "closed"}],
           received' \in [Sockets -> Nat],
           s0 = NoSocket \/ (s0 = p.sock /\ p.op \in {"READ", "ACCEPT"}),
           \A s \in Sockets \ {s0} : peer'[s] = peer[s] /\ received'[s] = received[s],
           p.op = "READ" => /\ peer'[p.sock] \in {"up", "gone"}
                            /\ chunk # 0 => /\ chunk = received[p.sock] + 1
                                            /\ received'[p.sock] = received[p.sock] + 1,
           p.op = "ACCEPT" /\ ret =>
                chunk \in {0, 1} /\ received'[p.sock] = chunk /\ peer'[p.sock] \in {"up", "gone"}
    PROVE  ServerInv'
<1>. USE DEF ServerInv
<1>. DEFINE q == Packet(p, ret, chunk)
            e0 == OpEvent(p)
            e1 == PacketEvent(q)
<1>1. /\ pending' = pending \ {p} /\ port' = Append(port, q)
      /\ p \in Operations
      /\ q \in Packets /\ q.io = p.io /\ q.key = p.key /\ q.ret = ret /\ q.chunk = chunk
  BY DEF Complete, Packet, ServerTyping, Operations, Packets
<1>. HIDE DEF q
<1>2. /\ Replaced(e0, {e1})
      /\ PacketsApart'
  BY <1>1, CompletionMovesEvent
<1>3. /\ e0 \in Events /\ e0.io = p.io /\ e0.key = p.key /\ e0.stage = OpStage(p)
      /\ e0.new_io = NoBuffer /\ e0.new_key = NoKey
      /\ e1.io = p.io /\ e1.key = p.key /\ e1.stage = "packet"
      /\ e1.new_io = NoBuffer /\ e1.new_key = NoKey
      /\ e1.ret = ret /\ e1.chunk = chunk
  BY <1>1, EventFields, HolderHasEvent
<1>. HIDE DEF e0, e1
<1>4. /\ EventOK(e0)
      /\ p.op \in {"ACCEPT", "READ", "WRITE", "ABORTED"}
      /\ p.io \in Buffers /\ p.io # NoBuffer
      /\ IOs(e0) = {p.io} /\ IOs(e1) = {p.io}
  BY <1>1, <1>3, ServerConstants DEF EventInv, Operations, IOs
<1>. USE DEF OpStage
<1>5. /\ UNCHANGED <<io_event_type_, io_socket_ptr_, socket_io_buffer_cache_,
                     completion_key_ptr_cache_, socket_shared_ptr_, shared_socket_pool_,
                     socket_inuse_pool_, io_buffer_in_use_, io_buffer_cache_,
                     io_buffer_manager_inited_, poolsize_, resource_global_lock_,
                     worker, dispatched, raced, misread>>
  BY DEF poolVars, bufferVars, socketPoolVars, fieldVars, keyVars
<1>6. /\ p.op = "READ" => /\ p.key \in completion_key_ptr_cache_
                          /\ Reads(e0, p.key) /\ p.sock = socket_shared_ptr_[p.key]
                          /\ p.key \in Keys
      /\ p.op = "ACCEPT" => Accepts(e0) /\ p.sock = AcceptSocket(e0) /\ p.key = Listen
  <2>1. p.op = "READ" => p.key \in Keys /\ Reads(e0, p.key)
    BY <1>3, <1>4 DEF EventOK, Placed, Reads
  <2>2. p.op = "ACCEPT" => Accepts(e0) /\ AcceptSocket(e0) = io_socket_ptr_[p.io] /\ p.key = Listen
    BY <1>3, <1>4 DEF Accepts, AcceptSocket, EventOK, Placed
  <2>. QED  BY <1>4, <2>1, <2>2 DEF SocketInv, OperationSockets, EventOK, Placed
<1>7. \A e \in Events : \A k \in Keys : Reads(e, k) =>
         k \in completion_key_ptr_cache_ /\ socket_shared_ptr_[k] # NoSocket
  BY ServerConstants DEF EventInv, EventOK, Placed, SocketInv, ServerTyping, TypeOK,
                         SocketPoolTypeOK
<1>8. Unaffected(e0, s0)
  <2>1. ASSUME NEW e \in Events \ {e0}, NEW k \in Keys, Reads(e, k)
        PROVE  socket_shared_ptr_[k] # s0
    BY <1>3, <1>6, <1>7, <2>1 DEF SocketInv, ReaderInv
  <2>2. ASSUME NEW e \in Events \ {e0}, Accepts(e)
        PROVE  AcceptSocket(e) # s0
    BY <1>3, <1>6, <2>2, ServerConstants
    DEF SocketInv, ServerTyping, TypeOK, SocketPoolTypeOK
  <2>. QED  BY <1>5, <1>7, <2>1, <2>2 DEF Unaffected
<1>9. \A k \in Keys : Reads(e1, k)' <=> Reads(e0, k)
  <2>1. \A k \in Keys : Reads(e1, k)' <=> (p.key = k /\ p.io \in socket_io_buffer_cache_[k])
    BY <1>3, <1>5 DEF Reads, Arriving
  <2>2. \A k \in Keys : Reads(e0, k) <=> (p.op = "READ" /\ p.key = k)
    BY <1>3, <1>4 DEF Reads, Arriving
  <2>3. \A k \in Keys : p.key = k => (p.op = "READ" <=> p.io \in socket_io_buffer_cache_[k])
    BY <1>3, <1>4, ServerConstants DEF EventOK, Placed
  <2>. QED  BY <2>1, <2>2, <2>3
<1>10. Accepts(e1)' <=> p.op = "ACCEPT"
  <2>1. Accepts(e1)' <=> p.key = Listen
    BY <1>3 DEF Accepts, Arriving
  <2>2. p.key = Listen <=> p.op = "ACCEPT"
    BY <1>3, <1>4, ServerConstants DEF EventOK, Placed
  <2>. QED  BY <2>1, <2>2
<1>11. AcceptSocket(e1)' = io_socket_ptr_[p.io]
  BY <1>3, <1>5 DEF AcceptSocket
<1>12. EventOK(e1)'
  <2>1. Placed(e1)'
    <3>1. \A k \in Keys : Reads(e1, k)' => k \in completion_key_ptr_cache_'
      BY <1>3, <1>5, <1>7, <1>9
    <3>2. /\ p.key \in Keys \cup {Listen}
          /\ p.key = Listen => io_event_type_[p.io] = "ACCEPT"
          /\ p.key # Listen /\ p.io \in socket_io_buffer_cache_[p.key] =>
                io_event_type_[p.io] = "READ"
      BY <1>3, <1>4, ServerConstants DEF EventOK, Placed
    <3>. QED  BY <1>3, <1>4, <1>5, <3>1, <3>2 DEF Placed, Arriving
  <2>2. ASSUME NEW k \in Keys, Reads(e1, k)'
        PROVE  ReaderDelivers(e1, socket_shared_ptr_[k])'
    <3>1. Reads(e0, k) /\ p.op = "READ" /\ k = p.key
      BY <1>3, <1>4, <1>9, <2>2 DEF Reads, Arriving
    <3>2. Len(dispatched[p.sock]) = received[p.sock] /\ p.sock = socket_shared_ptr_[k]
      BY <1>3, <1>4, <1>6, <3>1 DEF EventOK, ReaderDelivers
    <3>3. p.sock \in Sockets /\ received[p.sock] \in Nat
      BY <1>1 DEF Operations, ServerTyping
    <3>. QED  BY <1>3, <1>5, <3>1, <3>2, <3>3 DEF ReaderDelivers
  <2>3. ASSUME Accepts(e1)'
        PROVE  AcceptDelivers(e1, AcceptSocket(e1))'
    <3>1. p.op = "ACCEPT" /\ p.sock = io_socket_ptr_[p.io] /\ p.sock = AcceptSocket(e0)
      BY <1>6, <1>10, <2>3 DEF SocketInv, OperationSockets
    <3>2. Len(dispatched[p.sock]) = 0
      BY <1>3, <1>4, <1>6, <3>1 DEF EventOK, AcceptDelivers
    <3>. QED  BY <1>3, <1>5, <1>11, <3>1, <3>2 DEF AcceptDelivers
  <2>. QED  BY <2>1, <2>2, <2>3 DEF EventOK
<1>13. EventInv'
  BY <1>2, <1>8, <1>12, KeepEvents
<1>14. UniqueInv'
  <2>1. OperationsApart'
    BY <1>1 DEF UniqueInv, OperationsApart
  <2>2. WorkersApart'
    BY <1>5 DEF UniqueInv, WorkersApart
  <2>3. \A e \in Events : Held(e)'
    BY <1>5 DEF UniqueInv, Held, IOs
  <2>4. BuffersPass(e0, {e1})
    BY <1>3, <1>4, <2>3 DEF BuffersPass, Held, IOs
  <2>. QED  BY <1>2, <2>1, <2>2, <2>4, KeepBuffers
<1>15. ReaderInv'
  <2>1. completion_key_ptr_cache_' \subseteq Keys
    BY <1>5 DEF ServerTyping, TypeOK
  <2>2. ReadersPass(e0, {e1})
    BY <1>3, <1>9 DEF ReadersPass
  <2>3. ASSUME NEW k \in completion_key_ptr_cache_', HasReader(k)', p.io \in socket_io_buffer_cache_'[k]
        PROVE  p.key = k
    <3>1. HasReader(k)
      BY <1>2, <1>3, <1>8, <1>9, <2>1, <2>3, OtherEvents DEF HasReader, Replaced
    <3>2. OwnBuffer(k, p.io)
      BY <1>5, <2>3, <3>1 DEF ReaderInv
    <3>. QED  BY <1>3, <1>4, <3>2 DEF OwnBuffer, UniqueInv, Share, IOs
  <2>4. CachesPass(e0, {e1})
    BY <1>3, <1>4, <1>5, <2>3 DEF CachesPass, Owned
  <2>. QED  BY <1>2, <1>8, <2>1, <2>2, <2>4, KeepReaders
<1>16. SocketInv'
  <2>1. \A k \in completion_key_ptr_cache_ : peer'[socket_shared_ptr_[k]] \in {"up", "gone"}
    <3>1. \A k \in completion_key_ptr_cache_ :
             /\ socket_shared_ptr_[k] \in Sockets
             /\ peer[socket_shared_ptr_[k]] \in {"up", "gone"}
      BY DEF SocketInv, ServerTyping, TypeOK, SocketPoolTypeOK
    <3>2. p.op = "ACCEPT" => \A k \in completion_key_ptr_cache_ : socket_shared_ptr_[k] # p.sock
      BY <1>3, <1>6 DEF SocketInv
    <3>3. ASSUME NEW k \in completion_key_ptr_cache_
          PROVE  peer'[socket_shared_ptr_[k]] \in {"up", "gone"}
      <4>1. CASE socket_shared_ptr_[k] = s0
        BY <1>4, <3>1, <3>2, <4>1, ServerConstants
      <4>2. CASE socket_shared_ptr_[k] # s0
        BY <3>1, <4>2
      <4>. QED  BY <4>1, <4>2
    <3>. QED  BY <3>3
  <2>2. OperationSockets'
    BY <1>1, <1>5 DEF SocketInv, OperationSockets
  <2>3. AcceptsPass(e0, {e1})
    BY <1>3, <1>6, <1>10, <1>11 DEF AcceptsPass, SocketInv, OperationSockets
  <2>. QED  BY <1>2, <1>5, <1>8, <2>1, <2>2, <2>3, KeepSockets
<1>17. ServerTyping'
  <2>1. port' \in Seq(Packets)
    BY <1>1 DEF ServerTyping
  <2>. QED  BY <1>1, <1>5, <2>1
       DEF ServerTyping, TypeOK, BufferTypeOK, SocketPoolTypeOK
<1>18. OrderInv'
  BY <1>5 DEF OrderInv
<1>. QED  BY <1>13, <1>14, <1>15, <1>16, <1>17, <1>18

\* Every completion the kernel reports.
LEMMA KernelInv ==
    ASSUME ServerInv, KernelStep
    PROVE  ServerInv'
<1>1. UNCHANGED <<poolVars, fieldVars, keyVars, worker, dispatched, raced, misread>>
  BY DEF KernelStep
<1>2. /\ peer \in [Sockets -> {"none", "up", "gone", "closed"}]
      /\ received \in [Sockets -> Nat]
  BY DEF ServerInv, ServerTyping, TypeOK
<1>3. PICK p \in pending :
         \/ AcceptCompletes(p) \/ AcceptFails(p) \/ ReadCompletes(p)
         \/ ReadEnds(p) \/ WriteCompletes(p) \/ OperationAborts(p)
  BY DEF KernelStep
<1>4. p.sock \in Sockets /\ p.sock # NoSocket
  BY ServerConstants DEF ServerInv, ServerTyping, Operations
<1>5. CASE AcceptCompletes(p)
  <2>1. p.op = "ACCEPT"
    BY <1>5 DEF AcceptCompletes
  <2>2. received[p.sock] = 0
    <3>1. OpEvent(p) \in Events /\ OpEvent(p).stage = "ACCEPT" /\ OpEvent(p).io = p.io
      BY <2>1, EventFields, HolderHasEvent DEF OpStage
    <3>2. Accepts(OpEvent(p)) /\ AcceptSocket(OpEvent(p)) = p.sock
      BY <2>1, <3>1 DEF Accepts, AcceptSocket, ServerInv, SocketInv, OperationSockets
    <3>. QED  BY <3>1, <3>2 DEF ServerInv, EventInv, EventOK, AcceptDelivers
  <2>3. CASE /\ Complete(p, TRUE, 1)
             /\ peer' = [peer EXCEPT ![p.sock] = "up"]
             /\ received' = [received EXCEPT ![p.sock] = 1]
    BY <1>1, <1>2, <1>4, <2>1, <2>3, CompletionInv
  <2>4. CASE /\ Complete(p, TRUE, 0)
             /\ peer' = [peer EXCEPT ![p.sock] = "gone"]
             /\ received' = received
    BY <1>1, <1>2, <1>4, <2>1, <2>2, <2>4, CompletionInv
  <2>. QED  BY <1>5, <2>3, <2>4 DEF AcceptCompletes
<1>6. CASE AcceptFails(p)
  BY <1>1, <1>2, <1>6, CompletionInv DEF AcceptFails
<1>7. CASE ReadCompletes(p)
  <2>1. /\ Complete(p, TRUE, received[p.sock] + 1) /\ p.op = "READ"
        /\ peer' = peer /\ peer[p.sock] = "up"
        /\ received' = [received EXCEPT ![p.sock] = @ + 1]
    BY <1>7 DEF ReadCompletes
  <2>2. received[p.sock] + 1 \in Nat
    BY <1>2, <1>4
  <2>. QED  BY <1>1, <1>2, <1>4, <2>1, <2>2, CompletionInv
<1>8. CASE ReadEnds(p)
  <2>1. PICK ret \in BOOLEAN : Complete(p, ret, 0)
    BY <1>8 DEF ReadEnds
  <2>2. p.op = "READ" /\ peer' = [peer EXCEPT ![p.sock] = "gone"] /\ received' = received
    BY <1>8 DEF ReadEnds
  <2>. QED  BY <1>1, <1>2, <1>4, <2>1, <2>2, CompletionInv
<1>9. CASE WriteCompletes(p)
  <2>1. SentBytes \in Nat
    BY ServerConstants DEF SentBytes
  <2>. QED  BY <1>1, <1>2, <1>9, <2>1, CompletionInv DEF WriteCompletes
<1>10. CASE OperationAborts(p)
  BY <1>1, <1>2, <1>10, CompletionInv DEF OperationAborts
<1>. QED  BY <1>3, <1>5, <1>6, <1>7, <1>8, <1>9, <1>10


-----------------------------------------------------------------------------
(* The workers' steps.                                                      *)

\* What a step of a worker from its own event e0 to the record w, handing the
\* operations P to the kernel, does to the three places.
Posts(P) ==
    /\ P \in SUBSET Operations
    /\ pending' = pending \cup P /\ port' = port
    /\ \A p, q \in P : p = q
    /\ \A p \in P : \A x \in pending : x.io # p.io

WorkerGoes(t, e0, w, P, N) ==
    /\ worker[t].pc # "loop" /\ e0 = WorkerEvent(worker[t])
    /\ w \in WorkerRecords /\ (w.pc = "loop" => w = Idle)
    /\ w.io \in {worker[t].io, NoBuffer}
    /\ worker' = [worker EXCEPT ![t] = w]
    /\ Posts(P)
    /\ N = Continued(w) \cup Posted(P)

\* The types of the places where events are.
PlacesTyping ==
    /\ worker \in [Threads -> WorkerRecords]
    /\ pending \subseteq Operations
    /\ port \in Seq(Packets)
    /\ \A u \in Threads : worker[u].pc = "loop" => worker[u] = Idle

\* The events N take the place of e0 and everything has its type and place.
Moved(e0, N) ==
    Replaced(e0, N) /\ PlacesTyping' /\ OperationsApart' /\ PacketsApart' /\ WorkersApart'

\* What follows for the places when a worker makes such a step.
LEMMA WorkerMoves ==
    ASSUME ServerInv, NEW t \in Threads, NEW e0, NEW w, NEW P, NEW N,
           WorkerGoes(t, e0, w, P, N)
    PROVE  /\ e0 \in Events /\ EventOK(e0)
           /\ Replaced(e0, N)
           /\ OperationsApart' /\ PacketsApart' /\ WorkersApart'
           /\ PlacesTyping'
           /\ e0.io = worker[t].io /\ e0.new_io = worker[t].new_io
           /\ e0.key = worker[t].key /\ e0.new_key = worker[t].new_key
           /\ e0.stage = worker[t].pc /\ e0.ret = worker[t].ret /\ e0.chunk = worker[t].chunk
<1>. USE DEF ServerInv, WorkerGoes, Posts
<1>1. e0 \in Events /\ EventOK(e0)
  BY HolderHasEvent DEF EventInv
<1>2. Replaced(e0, N)
  BY WorkerMovesEvent DEF Continued, Posted, Replaced
<1>3. worker'[t] = w /\ \A u \in Threads \ {t} : worker'[u] = worker[u]
  BY DEF ServerTyping
<1>4. OperationsApart'
  BY DEF UniqueInv, OperationsApart
<1>5. PacketsApart'
  BY DEF UniqueInv, PacketsApart
<1>6. WorkersApart'
  BY <1>3 DEF UniqueInv, WorkersApart
<1>7. worker' \in [Threads -> WorkerRecords]
  BY DEF ServerTyping
<1>8. /\ pending' \subseteq Operations /\ port' \in Seq(Packets)
      /\ \A u \in Threads : worker'[u].pc = "loop" => worker'[u] = Idle
  BY <1>3 DEF ServerTyping
<1>9. /\ e0.io = worker[t].io /\ e0.new_io = worker[t].new_io
      /\ e0.key = worker[t].key /\ e0.new_key = worker[t].new_key
      /\ e0.stage = worker[t].pc /\ e0.ret = worker[t].ret /\ e0.chunk = worker[t].chunk
  BY EventFields
<1>. QED  BY <1>1, <1>2, <1>4, <1>5, <1>6, <1>7, <1>8, <1>9 DEF PlacesTyping

\* A buffer that a connection under a reader has in its cache, and that an
\* event uses, is that event's as a reader or a send of the connection.
LEMMA OwnedByReader ==
    ASSUME ServerInv, NEW e0 \in Events, NEW k \in completion_key_ptr_cache_, HasReader(k),
           NEW b \in socket_io_buffer_cache_[k], b \in IOs(e0)
    PROVE  \/ e0.io = b /\ e0.key = k
           \/ e0.stage = "post_read" /\ ReaderKey(e0) = k /\ e0.new_io = b
<1>1. PICK e \in Events : \/ e.io = b /\ e.key = k
                          \/ e.stage = "post_read" /\ ReaderKey(e) = k /\ e.new_io = b
  BY DEF ServerInv, ReaderInv, OwnBuffer
<1>2. b # NoBuffer
  BY DEF IOs
<1>3. Share(e, e0)
  BY <1>1, <1>2 DEF Share, IOs
<1>. QED  BY <1>1, <1>3 DEF ServerInv, UniqueInv

\* What a step that only moves an event does not touch.
stateVars == <<io_event_type_, io_socket_ptr_, socket_io_buffer_cache_,
               completion_key_ptr_cache_, socket_shared_ptr_, shared_socket_pool_,
               socket_inuse_pool_, io_buffer_manager_inited_, poolsize_, peer, received,
               raced, misread>>

\* A worker goes on with its event, or drops it, and changes nothing else
\* but what the buffer manager and the lock know.
Quiet(e0, N) ==
    /\ UNCHANGED <<stateVars, dispatched>>
    /\ BufferTypeOK' /\ resource_global_lock_' \in Keys \cup {Listen, NoKey}
    /\ \A e \in Events \ {e0} : Held(e)'
    /\ \A e \in N :
          /\ EventOK(e)' /\ Held(e)'
          /\ e.io = e0.io /\ e.key = e0.key /\ e.new_key = e0.new_key /\ e.new_io = e0.new_io
          /\ e0.stage # "post_read"
          /\ \A k \in Keys : Reads(e, k)' => Reads(e0, k)
          /\ Accepts(e)' => Accepts(e0) /\ AcceptSocket(e)' = AcceptSocket(e0)
    /\ N = {} => \A k \in completion_key_ptr_cache_ : \A b \in IOs(e0) :
                    b \in socket_io_buffer_cache_[k] /\ HasReader(k) => Reads(e0, k)

\* Such a step preserves the invariant.
LEMMA QuietMove ==
    ASSUME ServerInv, NEW e0 \in Events, NEW N, \A e, f \in N : e = f,
           Moved(e0, N), Quiet(e0, N), pending' = pending
    PROVE  ServerInv'
<1>. USE DEF ServerInv
<1>1. /\ e0 \in Events /\ EventOK(e0)
      /\ Replaced(e0, N)
      /\ OperationsApart' /\ PacketsApart' /\ WorkersApart'
      /\ PlacesTyping'
  BY DEF Moved, EventInv
<1>2. \A e, f \in N : e = f
  OBVIOUS
<1>3. \A k \in completion_key_ptr_cache_ : socket_shared_ptr_[k] # NoSocket
  BY ServerConstants DEF SocketInv, ServerTyping, TypeOK, SocketPoolTypeOK
<1>4. \A e \in Events : Accepts(e) => AcceptSocket(e) # NoSocket
  BY ServerConstants DEF SocketInv, ServerTyping, TypeOK, SocketPoolTypeOK
<1>5. UNCHANGED <<stateVars, dispatched, pending>>
  BY DEF Quiet
<1>6. Unaffected(e0, NoSocket)
  <2>1. \A e \in Events : \A k \in Keys : Reads(e, k) => k \in completion_key_ptr_cache_
    BY DEF EventInv, EventOK, Placed
  <2>. QED  BY <1>3, <1>4, <1>5, <2>1 DEF Unaffected, stateVars
<1>7. EventInv'
  <2>1. \A e \in N : EventOK(e)'
    BY DEF Quiet
  <2>. QED  BY <1>1, <1>6, <2>1, KeepEvents
<1>8. UniqueInv'
  <2>1. \A e \in N : IOs(e) = IOs(e0) /\ e.io # e.new_io
    BY <1>1 DEF IOs, Quiet, UniqueInv
  <2>2. BuffersPass(e0, N)
    BY <1>1, <1>2, <2>1 DEF BuffersPass, Quiet
  <2>. QED  BY <1>1, <2>2, KeepBuffers
<1>9. ReaderInv'
  <2>1. completion_key_ptr_cache_' \subseteq Keys
    BY <1>5 DEF stateVars, ServerTyping, TypeOK
  <2>2. ReadersPass(e0, N)
    BY <1>1, <1>2 DEF ReadersPass, Quiet
  <2>3. ASSUME NEW k \in completion_key_ptr_cache_', HasReader(k)',
               NEW b \in socket_io_buffer_cache_'[k], b \in IOs(e0)
        PROVE  \E e \in N : Owned(e, k, b)
    <3>1. k \in completion_key_ptr_cache_ /\ b \in socket_io_buffer_cache_[k] /\ k \in Keys
      BY <1>5, <2>3 DEF stateVars, ServerTyping, TypeOK
    <3>2. PICK e \in Events' : Reads(e, k)'
      BY <2>3 DEF HasReader
    <3>3. HasReader(k)
      BY <1>1, <1>6, <2>2, <3>1, <3>2, OtherEvents DEF HasReader, Replaced, ReadersPass
    <3>4. CASE N # {}
      <4>1. PICK f \in N : TRUE
        BY <3>4
      <4>2. e0.io = b /\ e0.key = k
        BY <1>1, <2>3, <3>1, <3>3, <4>1, OwnedByReader DEF Quiet
      <4>. QED  BY <4>1, <4>2 DEF Quiet, Owned
    <3>5. CASE N = {}
      <4>1. Reads(e0, k)
        BY <2>3, <3>1, <3>3, <3>5 DEF Quiet
      <4>2. e \in Events \ {e0} /\ Reads(e, k)
        BY <1>1, <1>6, <3>1, <3>2, <3>5, OtherEvents DEF Replaced
      <4>. QED  BY <1>1, <3>1, <4>1, <4>2 DEF ReaderInv
    <3>. QED  BY <3>4, <3>5
  <2>4. CachesPass(e0, N)
    BY <1>5, <2>3 DEF CachesPass, stateVars
  <2>. QED  BY <1>1, <1>6, <2>1, <2>2, <2>4, KeepReaders
<1>10. SocketInv'
  <2>1. AcceptsPass(e0, N)
    BY <1>1, <1>2 DEF AcceptsPass, Quiet
  <2>2. \A k \in completion_key_ptr_cache_ : peer'[socket_shared_ptr_[k]] \in {"up", "gone"}
    BY <1>5 DEF SocketInv, stateVars
  <2>3. OperationSockets'
    BY <1>5 DEF SocketInv, stateVars, OperationSockets
  <2>4. UNCHANGED <<shared_socket_pool_, socket_inuse_pool_, completion_key_ptr_cache_,
                    socket_shared_ptr_>>
    BY <1>5 DEF stateVars
  <2>. QED  BY <1>1, <1>6, <2>1, <2>2, <2>3, <2>4, KeepSockets
<1>11. ServerTyping'
  BY <1>1, <1>5 DEF ServerTyping, PlacesTyping, TypeOK, SocketPoolTypeOK, stateVars, Quiet
<1>12. OrderInv'
  BY <1>5 DEF OrderInv
<1>. QED  BY <1>7, <1>8, <1>9, <1>10, <1>11, <1>12

\* The same for a step of a worker.
LEMMA QuietStep ==
    ASSUME ServerInv, NEW t \in Threads, NEW e0, NEW w, NEW N,
           WorkerGoes(t, e0, w, {}, N), Quiet(e0, N)
    PROVE  ServerInv'
<1>1. e0 \in Events /\ Moved(e0, N)
  BY WorkerMoves DEF Moved
<1>2. (\A e, f \in N : e = f) /\ pending' = pending
  BY DEF WorkerGoes, Continued, Posted, Posts
<1>. QED  BY <1>1, <1>2, QuietMove

\* Worker t is at event e0, which is all right.
WorkerHas(t, e0) ==
    /\ e0 = WorkerEvent(worker[t]) /\ e0 \in Events /\ EventOK(e0)
    /\ e0.io = worker[t].io /\ e0.new_io = worker[t].new_io
    /\ e0.key = worker[t].key /\ e0.new_key = worker[t].new_key
    /\ e0.stage = worker[t].pc /\ e0.ret = worker[t].ret /\ e0.chunk = worker[t].chunk

\* Only the stage of the event changes.
SameBut(e0, e1, pc) ==
    /\ e1.stage = pc /\ e1.io = e0.io /\ e1.key = e0.key
    /\ e1.new_key = e0.new_key /\ e1.new_io = e0.new_io
    /\ e1.ret = e0.ret /\ e1.chunk = e0.chunk

\* The worker goes on at pc with the same event.
ContinuesAt(t, pc, e0, w, e1) ==
    WorkerHas(t, e0) /\ SameBut(e0, e1, pc) /\ WorkerGoes(t, e0, w, {}, {e1})

\* The same, and it hands the operations P to the kernel.
ContinuesWith(t, pc, e0, w, e1, P) ==
    /\ WorkerHas(t, e0) /\ SameBut(e0, e1, pc)
    /\ WorkerGoes(t, e0, w, P, {e1} \cup Posted(P))

\* The worker returns to the port.
ReturnsFrom(t, e0) == WorkerHas(t, e0) /\ WorkerGoes(t, e0, Idle, {}, {})

\* Goto, with operations handed to the kernel.
LEMMA GoesOnWith ==
    ASSUME ServerInv, NEW t \in Threads, worker[t].pc # "loop",
           NEW pc \in PCs \ {"loop"}, worker' = [worker EXCEPT ![t].pc = pc],
           NEW P, Posts(P)
    PROVE  \E e0, w, e1 : ContinuesWith(t, pc, e0, w, e1, P)
<1>1. PICK e0 : e0 = WorkerEvent(worker[t])
  OBVIOUS
<1>2. PICK w : w = [worker[t] EXCEPT !.pc = pc]
  OBVIOUS
<1>3. PICK e1 : e1 = WorkerEvent(w)
  OBVIOUS
<1>4. worker[t] \in WorkerRecords /\ worker \in [Threads -> WorkerRecords]
  BY DEF ServerInv, ServerTyping
<1>5. /\ w \in WorkerRecords /\ w.pc = pc /\ w.io = worker[t].io /\ w.key = worker[t].key
      /\ w.new_key = worker[t].new_key /\ w.new_io = worker[t].new_io
      /\ w.ret = worker[t].ret /\ w.chunk = worker[t].chunk
  BY <1>2, <1>4 DEF WorkerRecords
<1>6. worker' = [worker EXCEPT ![t] = w]
  BY <1>2, <1>4
<1>7. {e1} = Continued(w)
  BY <1>3, <1>5 DEF Continued
<1>8. WorkerGoes(t, e0, w, P, {e1} \cup Posted(P))
  BY <1>1, <1>5, <1>6, <1>7 DEF WorkerGoes
<1>9. /\ e0 \in Events /\ EventOK(e0)
      /\ e0.io = worker[t].io /\ e0.new_io = worker[t].new_io
      /\ e0.key = worker[t].key /\ e0.new_key = worker[t].new_key
      /\ e0.stage = worker[t].pc /\ e0.ret = worker[t].ret /\ e0.chunk = worker[t].chunk
  BY <1>8, WorkerMoves
<1>10. /\ e1.stage = pc /\ e1.io = e0.io /\ e1.key = e0.key
       /\ e1.new_key = e0.new_key /\ e1.new_io = e0.new_io
       /\ e1.ret = e0.ret /\ e1.chunk = e0.chunk
  BY <1>3, <1>5, <1>9, EventFields
<1>. QED  BY <1>1, <1>8, <1>9, <1>10 DEF ContinuesWith, WorkerHas, SameBut

\* A step that leaves kernel and port alone posts nothing.
LEMMA NoPosts ==
    ASSUME UNCHANGED <<pending, port>>
    PROVE  Posts({}) /\ Posted({}) = {}
<1>1. {} \in SUBSET Operations /\ pending' = pending \cup {}
  OBVIOUS
<1>. QED  BY <1>1 DEF Posts, Posted

\* Goto.
LEMMA GoesOn ==
    ASSUME ServerInv, NEW t \in Threads, worker[t].pc # "loop",
           NEW pc \in PCs \ {"loop"}, worker' = [worker EXCEPT ![t].pc = pc],
           pending' = pending, port' = port
    PROVE  \E e0, w, e1 : ContinuesAt(t, pc, e0, w, e1)
<1>1. PICK P : P = {}
  OBVIOUS
<1>2. Posts(P) /\ Posted(P) = {}
  BY <1>1, NoPosts
<1>3. PICK e0, w, e1 : ContinuesWith(t, pc, e0, w, e1, P)
  BY <1>2, GoesOnWith
<1>4. {e1} \cup Posted(P) = {e1}
  BY <1>2
<1>5. ContinuesAt(t, pc, e0, w, e1)
  BY <1>1, <1>3, <1>4 DEF ContinuesWith, ContinuesAt
<1>. QED  BY <1>5

\* The worker is done with its event.
LEMMA Returns ==
    ASSUME ServerInv, NEW t \in Threads, worker[t].pc # "loop", Return(t),
           pending' = pending, port' = port
    PROVE  \E e0 : ReturnsFrom(t, e0)
<1>1. PICK e0 : e0 = WorkerEvent(worker[t])
  OBVIOUS
<1>2. Idle \in WorkerRecords /\ Idle.pc = "loop" /\ Idle.io = NoBuffer
  BY DEF Idle, WorkerRecords, PCs
<1>3. {} = Continued(Idle) \cup Posted({}) /\ Posts({})
  BY <1>2, NoPosts DEF Continued
<1>4. WorkerGoes(t, e0, Idle, {}, {})
  BY <1>1, <1>2, <1>3 DEF WorkerGoes, Return
<1>. QED  BY <1>1, <1>4, WorkerMoves DEF ReturnsFrom, WorkerHas

\* The key of the packet is looked up, and no send is taken for an accept.
LEMMA FindKeyInv ==
    ASSUME ServerInv, NEW t \in Threads, FindKey(t), ~misread'
    PROVE  ServerInv'
<1>. USE DEF ServerInv
<1>1. /\ UNCHANGED <<stateVars, dispatched, pending, port, resource_global_lock_,
                     io_buffer_cache_, io_buffer_in_use_>>
      /\ worker[t].pc = "find_key"
  <2>1. UNCHANGED misread
    BY DEF FindKey, ServerTyping, TypeOK
  <2>. QED  BY <2>1
       DEF FindKey, At, poolVars, bufferVars, socketPoolVars, fieldVars, keyVars, kernelVars,
           stateVars
<1>2. /\ BufferTypeOK' /\ resource_global_lock_' \in Keys \cup {Listen, NoKey}
      /\ \A e \in Events : Held(e)'
  BY <1>1 DEF stateVars, ServerTyping, TypeOK, BufferTypeOK, UniqueInv, Held, IOs
<1>3. CASE worker' = [worker EXCEPT ![t].pc = "find_io"]
  <2>0. PICK e0, w, e1 : ContinuesAt(t, "find_io", e0, w, e1)
    <3>1. "find_io" \in PCs \ {"loop"}
      BY DEF PCs
    <3>. QED  BY <1>1, <1>3, <3>1, GoesOn
  <2>1. /\ WorkerGoes(t, e0, w, {}, {e1}) /\ e0 \in Events /\ EventOK(e0)
        /\ e0.stage = "find_key" /\ SameBut(e0, e1, "find_io")
    BY <1>1, <2>0 DEF ContinuesAt, WorkerHas
  <2>. USE DEF SameBut
  <2>2. \A k \in Keys : Reads(e1, k)' <=> Reads(e0, k)
    BY <1>1, <2>1 DEF Reads, Arriving, stateVars
  <2>3. (Accepts(e1)' <=> Accepts(e0)) /\ AcceptSocket(e1)' = AcceptSocket(e0)
    BY <1>1, <2>1 DEF Accepts, AcceptSocket, Arriving, stateVars
  <2>4. EventOK(e1)'
    <3>1. Placed(e1)'
      BY <1>1, <2>1, <2>2 DEF EventOK, Placed, Arriving, stateVars
    <3>2. \A k \in Keys : Reads(e1, k)' => ReaderDelivers(e1, socket_shared_ptr_[k])'
      BY <1>1, <2>1, <2>2 DEF EventOK, ReaderDelivers, Arriving, stateVars
    <3>3. Accepts(e1)' => AcceptDelivers(e1, AcceptSocket(e1))'
      BY <1>1, <2>1, <2>3 DEF EventOK, AcceptDelivers, Arriving, stateVars
    <3>. QED  BY <3>1, <3>2, <3>3 DEF EventOK
  <2>5. Held(e1)'
    BY <1>2, <2>1 DEF Held, IOs
  <2>6. Quiet(e0, {e1})
    BY <1>1, <1>2, <2>1, <2>2, <2>3, <2>4, <2>5 DEF Quiet
  <2>. QED  BY <2>1, <2>6, QuietStep
<1>4. CASE Return(t) /\ Key(t) \notin completion_key_ptr_cache_
  <2>0. PICK e0 : ReturnsFrom(t, e0)
    BY <1>1, <1>4, Returns
  <2>1. /\ WorkerGoes(t, e0, Idle, {}, {}) /\ e0 \in Events
        /\ e0.key = worker[t].key /\ e0.stage = "find_key"
    BY <1>1, <2>0 DEF ReturnsFrom, WorkerHas
  <2>2. ASSUME NEW k \in completion_key_ptr_cache_, NEW b \in IOs(e0),
               b \in socket_io_buffer_cache_[k], HasReader(k)
        PROVE  FALSE
    BY <1>4, <2>1, <2>2, OwnedByReader DEF Key
  <2>3. Quiet(e0, {})
    BY <1>1, <1>2, <2>2 DEF Quiet
  <2>. QED  BY <2>1, <2>3, QuietStep
<1>5. CASE worker' = [worker EXCEPT ![t].pc = "find_io", ![t].key = Listen] /\ Key(t) = Listen
  <2>1. worker' = [worker EXCEPT ![t].pc = "find_io"]
    <3>1. worker \in [Threads -> WorkerRecords]
      BY DEF ServerTyping
    <3>. QED  BY <1>5, <3>1 DEF Key, WorkerRecords
  <2>. QED  BY <1>3, <2>1
<1>. QED  BY <1>3, <1>4, <1>5 DEF FindKey, Goto

\* ReleaseCompletionKey takes the lock.
LEMMA ReleaseCompletionKeyInv ==
    ASSUME ServerInv, NEW t \in Threads, ReleaseCompletionKey(t), UNCHANGED <<raced, misread>>
    PROVE  ServerInv'
<1>. USE DEF ServerInv
<1>1. /\ UNCHANGED <<stateVars, dispatched, pending, port,
                     io_buffer_cache_, io_buffer_in_use_>>
      /\ worker[t].pc = "release_key"
  BY DEF ReleaseCompletionKey, At, poolVars, bufferVars, socketPoolVars, fieldVars, keyVars,
         kernelVars, stateVars
<1>2. /\ BufferTypeOK'
      /\ \A e \in Events : Held(e)'
  BY <1>1 DEF stateVars, ServerTyping, TypeOK, BufferTypeOK, UniqueInv, Held, IOs
<1>a. PICK e0, w, e1 : ContinuesAt(t, "release_context", e0, w, e1)
  <2>1. "release_context" \in PCs \ {"loop"}
    BY DEF PCs
  <2>. QED  BY <1>1, <2>1, GoesOn DEF ReleaseCompletionKey, Goto
<1>3. /\ WorkerGoes(t, e0, w, {}, {e1}) /\ e0 \in Events /\ EventOK(e0)
      /\ e0.stage = "release_key" /\ SameBut(e0, e1, "release_context")
  BY <1>1, <1>a DEF ContinuesAt, WorkerHas
<1>. USE DEF SameBut
<1>4. \A k \in Keys : Reads(e1, k)' <=> Reads(e0, k)
  BY <1>1, <1>3 DEF Reads, Arriving, stateVars
<1>5. ~Accepts(e1)'
  BY <1>3 DEF Accepts, Arriving
<1>6. EventOK(e1)'
  <2>1. Placed(e1)'
    BY <1>1, <1>3, <1>4 DEF EventOK, Placed, Arriving, stateVars
  <2>2. \A k \in Keys : Reads(e1, k)' => ReaderDelivers(e1, socket_shared_ptr_[k])'
    BY <1>3 DEF ReaderDelivers, Arriving
  <2>. QED  BY <1>5, <2>1, <2>2 DEF EventOK
<1>7. Held(e1)'
  BY <1>2, <1>3 DEF Held, IOs
<1>8. resource_global_lock_' \in Keys \cup {Listen, NoKey}
  BY DEF ReleaseCompletionKey, Key, ServerTyping, WorkerRecords
<1>9. Quiet(e0, {e1})
  BY <1>1, <1>2, <1>3, <1>4, <1>5, <1>6, <1>7, <1>8 DEF Quiet
<1>. QED  BY <1>3, <1>9, QuietStep

\* Releasing buffers of one event leaves those of the others where they are.
LEMMA HeldAfterRelease ==
    ASSUME ServerInv, NEW e0 \in Events, NEW S \in SUBSET IOs(e0), ReleaseIOBuffers(S)
    PROVE  /\ BufferTypeOK'
           /\ \A e \in Events \ {e0} : Held(e)'
<1>1. S \subseteq Buffers
  BY DEF ServerInv, UniqueInv, Held, ServerTyping, TypeOK, BufferTypeOK
<1>2. BufferTypeOK /\ BufferTypeOK'
  BY <1>1, ReleasedBuffers DEF ServerInv, ServerTyping, TypeOK
<1>3. ASSUME NEW e \in Events \ {e0}, NEW c \in IOs(e)
      PROVE  c \in io_buffer_in_use_' \ io_buffer_cache_'
  <2>1. c \in io_buffer_in_use_ \ io_buffer_cache_
    BY DEF ServerInv, UniqueInv, Held
  <2>2. c \notin S
    BY DEF ServerInv, UniqueInv, Share
  <2>. QED  BY <1>1, <1>2, <2>1, <2>2, ReleasedBuffers
<1>4. \A e : IOs(e)' = IOs(e)
  BY DEF IOs
<1>. QED  BY <1>2, <1>3, <1>4 DEF Held

\* FindIO, the accept branch apart: the event is dropped, is a read, or is the
\* end of the connection.
LEMMA FindIOQuietInv ==
    ASSUME ServerInv, NEW t \in Threads, worker[t].pc = "find_io",
           UNCHANGED <<stateVars, dispatched, pending, port, resource_global_lock_>>,
           LET io == IO(t)
               found == io \in socket_io_buffer_cache_[Key(t)]
               UnchangedBuffers == UNCHANGED <<io_buffer_cache_, io_buffer_in_use_>>
           IN  \/ ~found /\ Return(t) /\ UnchangedBuffers
               \/ /\ found /\ IsRead(io_event_type_[io], worker[t].ret, worker[t].chunk)
                  /\ Goto(t, "callback") /\ UnchangedBuffers
               \/ /\ found /\ IsClientExit(io_event_type_[io], worker[t].ret, worker[t].chunk)
                  /\ Goto(t, "release_key") /\ UnchangedBuffers
               \/ found /\ Return(t) /\ ReleaseIOBuffers({io})
    PROVE  ServerInv'
<1>. USE DEF ServerInv
<1>1. resource_global_lock_' \in Keys \cup {Listen, NoKey}
  BY DEF ServerTyping, TypeOK
<1>2. ASSUME UNCHANGED <<io_buffer_cache_, io_buffer_in_use_>>
      PROVE  BufferTypeOK' /\ \A e \in Events : Held(e)'
  BY <1>2 DEF stateVars, ServerTyping, TypeOK, BufferTypeOK, UniqueInv, Held, IOs
<1>3. ASSUME NEW pc \in {"callback", "release_key"}, Goto(t, pc),
             UNCHANGED <<io_buffer_cache_, io_buffer_in_use_>>,
             IO(t) \in socket_io_buffer_cache_[Key(t)], io_event_type_[IO(t)] = "READ",
             pc = "callback" => worker[t].chunk # 0
      PROVE  ServerInv'
  <2>0. PICK e0, w, e1 : ContinuesAt(t, pc, e0, w, e1)
    <3>1. pc \in PCs \ {"loop"}
      BY DEF PCs
    <3>. QED  BY <1>3, <3>1, GoesOn DEF Goto
  <2>1. /\ WorkerGoes(t, e0, w, {}, {e1}) /\ e0 \in Events /\ EventOK(e0) /\ Placed(e0)
        /\ e0.stage = "find_io" /\ SameBut(e0, e1, pc)
        /\ e0.io = IO(t) /\ e0.key = Key(t) /\ e0.chunk = worker[t].chunk
    BY <2>0 DEF ContinuesAt, WorkerHas, IO, Key, EventOK
  <2>. USE DEF SameBut
  <2>2. e0.key \in Keys /\ Reads(e0, e0.key)
    BY <1>3, <2>1 DEF Placed, Arriving, Reads
  <2>3. \A k \in Keys : Reads(e1, k)' <=> k = e0.key
    BY <1>3, <2>1, <2>2 DEF Reads, Arriving
  <2>4. ~Accepts(e1)'
    BY <1>3, <2>1 DEF Accepts, Arriving
  <2>5. EventOK(e1)'
    <3>1. Placed(e1)'
      BY <1>3, <2>1, <2>2, <2>3 DEF Placed, Arriving, stateVars
    <3>2. ReaderDelivers(e1, socket_shared_ptr_[e0.key])'
      BY <1>3, <2>1, <2>2 DEF EventOK, ReaderDelivers, Arriving, stateVars
    <3>. QED  BY <2>3, <2>4, <3>1, <3>2 DEF EventOK
  <2>6. Held(e1)'
    BY <1>2, <1>3, <2>1 DEF Held, IOs
  <2>7. Quiet(e0, {e1})
    BY <1>1, <1>2, <1>3, <2>1, <2>2, <2>3, <2>4, <2>5, <2>6 DEF Quiet
  <2>. QED  BY <2>1, <2>7, QuietStep
<1>4. ASSUME Return(t),
             \/ /\ IO(t) \notin socket_io_buffer_cache_[Key(t)]
                /\ UNCHANGED <<io_buffer_cache_, io_buffer_in_use_>>
             \/ IO(t) \in socket_io_buffer_cache_[Key(t)] /\ ReleaseIOBuffers({IO(t)})
      PROVE  ServerInv'
  <2>0. PICK e0 : ReturnsFrom(t, e0)
    BY <1>4, Returns
  <2>1. /\ WorkerGoes(t, e0, Idle, {}, {}) /\ e0 \in Events /\ Placed(e0)
        /\ e0.stage = "find_io" /\ e0.io = IO(t) /\ e0.key = Key(t)
    BY <2>0 DEF ReturnsFrom, WorkerHas, IO, Key, EventOK
  <2>2. ASSUME NEW k \in completion_key_ptr_cache_, NEW b \in IOs(e0),
               b \in socket_io_buffer_cache_[k], HasReader(k)
        PROVE  Reads(e0, k)
    BY <2>1, <2>2, OwnedByReader DEF Reads, Arriving
  <2>3. BufferTypeOK' /\ \A e \in Events \ {e0} : Held(e)'
    <3>1. {IO(t)} \in SUBSET IOs(e0)
      BY <2>1, ServerConstants DEF IOs, Placed
    <3>. QED  BY <1>2, <1>4, <2>1, <3>1, HeldAfterRelease
  <2>4. Quiet(e0, {})
    BY <1>1, <2>2, <2>3 DEF Quiet
  <2>. QED  BY <2>1, <2>4, QuietStep
<1>. QED  BY <1>3, <1>4 DEF IsRead, IsClientExit

\* The callback has sent the operations P, one or none, with buffers that no
\* event has.
Sent(P) ==
    /\ P \in SUBSET Operations /\ pending' = pending \cup P
    /\ \A p, q \in P : p = q
    /\ \A p \in P : /\ p.op = "WRITE" /\ p.key \in Keys /\ p.io \in Buffers
                    /\ p.io \notin socket_io_buffer_cache_[p.key]
                    /\ \A e \in Events : p.io \notin IOs(e)
                    /\ p.io \in io_buffer_in_use_' \ io_buffer_cache_'
    /\ BufferTypeOK'
    /\ io_event_type_' \in [Buffers -> EventTypes]
    /\ io_socket_ptr_' \in [Buffers -> Sockets \cup {NoSocket}]
    /\ \A e \in Events : Held(e)'
    /\ \A e \in Events : \A b \in IOs(e) :
          io_event_type_'[b] = io_event_type_[b] /\ io_socket_ptr_'[b] = io_socket_ptr_[b]
    /\ UNCHANGED <<shared_socket_pool_, socket_inuse_pool_, poolsize_>>

\* SendDataUserInterface on a connection that is being read, or on the listen
\* key, uses no event's buffer.
LEMMA SendUsesNewBuffer ==
    ASSUME ServerInv, NEW k \in Keys \cup {Listen}, SendDataUserInterface(k),
           k \in Keys => k \in completion_key_ptr_cache_ /\ HasReader(k)
    PROVE  \E P : Sent(P)
<1>. USE DEF ServerInv
<1>1. CASE UNCHANGED <<poolVars, fieldVars, pending, sends>>
  <2>1. Sent({})
    BY <1>1 DEF Sent, poolVars, bufferVars, socketPoolVars, fieldVars, ServerTyping, TypeOK,
                BufferTypeOK, UniqueInv, Held, IOs
  <2>. QED  BY <2>1
<1>2. CASE /\ \E b \in Buffers :
                /\ GetIOContextBuffer(b)
                /\ \/ UNCHANGED pending
                   \/ /\ k # Listen
                      /\ pending' = pending \cup {Operation("WRITE", k, b, socket_shared_ptr_[k])}
           /\ io_event_type_' = TypesFromPool
           /\ io_socket_ptr_' = SocketsFromPool
           /\ UNCHANGED socketPoolVars
  <2>1. PICK b \in Buffers :
                /\ GetIOContextBuffer(b)
                /\ \/ UNCHANGED pending
                   \/ /\ k # Listen
                      /\ pending' = pending \cup {Operation("WRITE", k, b, socket_shared_ptr_[k])}
    BY <1>2
  <2>2. /\ BufferTypeOK'
        /\ b \in io_buffer_in_use_' \ io_buffer_cache_'
        /\ \A e \in Events : b \notin IOs(e)
        /\ \A e \in Events : Held(e)'
        /\ k \in Keys => b \notin socket_io_buffer_cache_[k]
        /\ io_event_type_' \in [Buffers -> EventTypes]
        /\ io_socket_ptr_' \in [Buffers -> Sockets \cup {NoSocket}]
        /\ \A e \in Events : \A c \in IOs(e) :
              io_event_type_'[c] = io_event_type_[c] /\ io_socket_ptr_'[c] = io_socket_ptr_[c]
    BY <1>2, <2>1, GotBuffer
  <2>3. CASE UNCHANGED pending
    <3>1. Sent({})
      BY <1>2, <2>2, <2>3 DEF Sent, socketPoolVars
    <3>. QED  BY <3>1
  <2>4. CASE /\ k # Listen
             /\ pending' = pending \cup {Operation("WRITE", k, b, socket_shared_ptr_[k])}
    <3>1. PICK p : p = Operation("WRITE", k, b, socket_shared_ptr_[k])
      OBVIOUS
    <3>2. socket_shared_ptr_[k] \in Sockets
      BY <2>4 DEF SocketInv, ServerTyping, TypeOK, SocketPoolTypeOK
    <3>3. p \in Operations /\ p.op = "WRITE" /\ p.key = k /\ p.io = b
      BY <3>1, <3>2 DEF Operation, Operations
    <3>4. Sent({p})
      BY <1>2, <2>2, <2>4, <3>1, <3>3 DEF Sent, socketPoolVars
    <3>. QED  BY <3>4
  <2>. QED  BY <2>1, <2>3, <2>4
<1>. QED  BY <1>1, <1>2 DEF SendDataUserInterface

\* The worker goes from its event e0 to e1 through the callback, which gets a
\* chunk of the connection of socket s0.
Talks(e0, e1, s0) ==
    /\ UNCHANGED <<socket_io_buffer_cache_, completion_key_ptr_cache_, socket_shared_ptr_,
                   resource_global_lock_, peer, received, raced, misread>>
    /\ e1.io = e0.io /\ e1.key = e0.key /\ e1.new_key = e0.new_key /\ e1.new_io = e0.new_io
    /\ e0.stage # "post_read" /\ e1.stage # "WRITE"
    /\ \A k \in Keys : Reads(e1, k)' => Reads(e0, k)
    /\ Accepts(e1)' => Accepts(e0) /\ AcceptSocket(e1)' = AcceptSocket(e0)
    /\ EventOK(e1)'
    /\ dispatched' \in [Sockets -> Seq(Nat)] /\ OrderInv'
    /\ \A s \in Sockets \ {s0} : dispatched'[s] = dispatched[s]
    /\ \/ \E k \in Keys : Reads(e0, k) /\ s0 = socket_shared_ptr_[k]
       \/ Accepts(e0) /\ s0 = AcceptSocket(e0)

\* A callback that may send preserves the invariant.
LEMMA CallbackStep ==
    ASSUME ServerInv, NEW t \in Threads, NEW e0, NEW e1, NEW s0, NEW w, NEW P, NEW N,
           WorkerGoes(t, e0, w, P, N), N = {e1} \cup Posted(P),
           Sent(P), Talks(e0, e1, s0)
    PROVE  ServerInv'
<1>. USE DEF ServerInv
<1>1. /\ e0 \in Events /\ EventOK(e0)
      /\ Replaced(e0, N)
      /\ OperationsApart' /\ PacketsApart' /\ WorkersApart'
      /\ PlacesTyping'
  BY WorkerMoves
<1>2. \A e \in N : e = e1 \/ \E p \in P : e = OpEvent(p) /\ e.io = p.io /\ e.key = p.key
                        /\ e.stage = "WRITE" /\ e.new_io = NoBuffer /\ e.new_key = NoKey
  <2>1. \A p \in P : p.op = "WRITE"
    BY DEF Sent
  <2>2. ASSUME NEW e \in N, e # e1
        PROVE  \E p \in P : e = OpEvent(p)
    BY <2>2 DEF Posted
  <2>3. \A p \in P : LET e == OpEvent(p)
                     IN  /\ e.io = p.io /\ e.key = p.key /\ e.stage = "WRITE"
                         /\ e.new_io = NoBuffer /\ e.new_key = NoKey
    BY <2>1, EventFields DEF OpStage
  <2>. QED  BY <2>2, <2>3
<1>3. \A e, f \in N : e = f \/ (e = e1 /\ f.stage = "WRITE") \/ (f = e1 /\ e.stage = "WRITE")
  BY <1>2 DEF Sent
<1>4. \A e \in N : e.stage = "WRITE" =>
         /\ e.io \in Buffers /\ e.io # NoBuffer /\ e.key \in Keys /\ IOs(e) = {e.io}
         /\ e.new_io = NoBuffer /\ e.new_key = NoKey
         /\ e.io \notin socket_io_buffer_cache_[e.key]
         /\ \A f \in Events : e.io \notin IOs(f)
         /\ e.io \in io_buffer_in_use_' \ io_buffer_cache_'
  BY <1>2, ServerConstants DEF Sent, IOs, Talks
<1>5. \A e \in N : e.stage = "WRITE" => ~Accepts(e)' /\ \A k \in Keys : ~Reads(e, k)'
  BY DEF Accepts, Reads, Arriving
<1>6. \A e \in Events : \A k \in Keys : Reads(e, k) =>
         k \in completion_key_ptr_cache_ /\ socket_shared_ptr_[k] \in socket_inuse_pool_
  BY DEF EventInv, EventOK, Placed, SocketInv
<1>7. Unaffected(e0, s0)
  <2>1. ASSUME NEW e \in Events \ {e0}, NEW k \in Keys, Reads(e, k)
        PROVE  socket_shared_ptr_[k] # s0
    BY <1>1, <1>6, <2>1 DEF Talks, SocketInv, ReaderInv
  <2>2. ASSUME NEW e \in Events \ {e0}, Accepts(e)
        PROVE  AcceptSocket(e) # s0
    BY <1>1, <1>6, <2>2 DEF Talks, SocketInv
  <2>. QED  BY <1>6, <2>1, <2>2 DEF Unaffected, Talks, Sent
<1>8. EventInv'
  <2>1. ASSUME NEW e \in N, e.stage = "WRITE"
        PROVE  EventOK(e)'
    <3>1. Placed(e)'
      BY <1>4, <1>5, <2>1 DEF Placed, Arriving, Talks
    <3>. QED  BY <1>5, <2>1, <3>1 DEF EventOK
  <2>2. \A e \in N : EventOK(e)'
    BY <1>2, <2>1 DEF Talks
  <2>. QED  BY <1>1, <1>7, <2>2, KeepEvents
<1>9. IOs(e1) = IOs(e0) /\ e1.io # e1.new_io
  BY <1>1 DEF IOs, Talks, UniqueInv
<1>10. UniqueInv'
  <2>1. \A e \in N : Held(e)'
    BY <1>1, <1>2, <1>4, <1>9 DEF Held, IOs, Sent
  <2>2. \A e \in N : e.io # e.new_io
    BY <1>2, <1>4, <1>9
  <2>3. \A e \in N : \A b \in IOs(e) :
          (e0 \in Events /\ b \in IOs(e0)) \/ \A f \in Events : b \notin IOs(f)
    BY <1>1, <1>2, <1>4, <1>9
  <2>4. \A e, f \in N : Share(e, f) => e = f
    BY <1>1, <1>3, <1>4, <1>9 DEF Share
  <2>5. \A e \in Events : Held(e)'
    BY DEF Sent
  <2>6. BuffersPass(e0, N)
    BY <2>1, <2>2, <2>3, <2>4, <2>5 DEF BuffersPass
  <2>. QED  BY <1>1, <2>6, KeepBuffers
<1>11. ReaderInv'
  <2>1. completion_key_ptr_cache_' \subseteq Keys
    BY DEF Talks, ServerTyping, TypeOK
  <2>2. ReadersPass(e0, N)
    BY <1>1, <1>2, <1>3, <1>5 DEF ReadersPass, Talks
  <2>3. ASSUME NEW k \in completion_key_ptr_cache_', HasReader(k)',
               NEW b \in socket_io_buffer_cache_'[k], b \in IOs(e0)
        PROVE  Owned(e1, k, b)
    <3>1. k \in completion_key_ptr_cache_ /\ b \in socket_io_buffer_cache_[k] /\ k \in Keys
      BY <2>1, <2>3 DEF Talks
    <3>2. HasReader(k)
      BY <1>1, <1>7, <2>2, <2>3, <3>1, OtherEvents DEF HasReader, Replaced, ReadersPass
    <3>3. e0.io = b /\ e0.key = k
      BY <1>1, <2>3, <3>1, <3>2, OwnedByReader DEF Talks
    <3>. QED  BY <3>3 DEF Owned, Talks
  <2>4. CachesPass(e0, N)
    BY <2>3 DEF CachesPass, Talks
  <2>. QED  BY <1>1, <1>7, <2>1, <2>2, <2>4, KeepReaders
<1>12. SocketInv'
  <2>1. AcceptsPass(e0, N)
    BY <1>1, <1>2, <1>3, <1>5 DEF AcceptsPass, Talks
  <2>2. \A k \in completion_key_ptr_cache_ : peer'[socket_shared_ptr_[k]] \in {"up", "gone"}
    BY DEF SocketInv, Talks
  <2>3. OperationSockets'
    <3>1. ASSUME NEW p \in pending
          PROVE  io_socket_ptr_'[p.io] = io_socket_ptr_[p.io]
      <4>1. OpEvent(p) \in Events /\ OpEvent(p).io = p.io
        BY HolderHasEvent, EventFields
      <4>2. p.io \in IOs(OpEvent(p))
        BY <4>1, ServerConstants DEF IOs, EventInv, EventOK, Placed
      <4>. QED  BY <4>1, <4>2 DEF Sent
    <3>. QED  BY <3>1 DEF SocketInv, OperationSockets, Sent, Talks
  <2>4. UNCHANGED <<shared_socket_pool_, socket_inuse_pool_, completion_key_ptr_cache_,
                    socket_shared_ptr_>>
    BY DEF Talks, Sent
  <2>. QED  BY <1>1, <1>7, <2>1, <2>2, <2>3, <2>4, KeepSockets
<1>13. ServerTyping'
  BY <1>1 DEF ServerTyping, PlacesTyping, TypeOK, SocketPoolTypeOK, Talks, Sent
<1>14. OrderInv'
  BY DEF Talks
<1>. QED  BY <1>8, <1>10, <1>11, <1>12, <1>13, <1>14

\* The callback of the data that came with an accept, or the end of it.
LEMMA FindIOAcceptInv ==
    ASSUME ServerInv, NEW t \in Threads, worker[t].pc = "find_io",
           IsAccept(io_event_type_[IO(t)], worker[t].ret, worker[t].chunk),
           IO(t) \in socket_io_buffer_cache_[Key(t)],
           DispatchFirstData(io_socket_ptr_[IO(t)], worker[t].chunk),
           Goto(t, "create_context"),
           UNCHANGED <<keyVars, port, peer, received, conns, faults, raced, misread>>
    PROVE  ServerInv'
<1>. USE DEF ServerInv
<1>1. PICK s0 : s0 = io_socket_ptr_[IO(t)]
  OBVIOUS
<1>2. PICK P : Sent(P)
  <2>1. CASE worker[t].chunk = 0
    <3>1. Sent({})
      BY <2>1 DEF DispatchFirstData, Sent, poolVars, bufferVars, socketPoolVars, fieldVars,
                  ServerTyping, TypeOK, BufferTypeOK, UniqueInv, Held, IOs
    <3>. QED  BY <3>1
  <2>2. CASE worker[t].chunk # 0
    BY <2>2, ServerConstants, SendUsesNewBuffer DEF DispatchFirstData
  <2>. QED  BY <2>1, <2>2
<1>3. Posts(P)
  <2>1. ASSUME NEW p \in P, NEW x \in pending
        PROVE  x.io # p.io
    <3>1. OpEvent(x) \in Events /\ OpEvent(x).io = x.io
      BY HolderHasEvent, EventFields
    <3>. QED  BY <1>2, <3>1, ServerConstants DEF Sent, IOs
  <2>. QED  BY <1>2, <2>1 DEF Sent, Posts
<1>4. PICK e0, w, e1 : ContinuesWith(t, "create_context", e0, w, e1, P)
  <2>1. "create_context" \in PCs \ {"loop"}
    BY DEF PCs
  <2>. QED  BY <1>3, <2>1, GoesOnWith DEF Goto
<1>5. PICK N : N = {e1} \cup Posted(P)
  OBVIOUS
<1>6. /\ WorkerGoes(t, e0, w, P, N) /\ e0 \in Events /\ EventOK(e0) /\ Placed(e0)
      /\ e0.stage = "find_io" /\ SameBut(e0, e1, "create_context")
      /\ e0.io = IO(t) /\ e0.key = Key(t) /\ e0.chunk = worker[t].chunk /\ e0.ret = worker[t].ret
  BY <1>4, <1>5 DEF ContinuesWith, WorkerHas, IO, Key, EventOK
<1>. USE DEF SameBut
<1>7. e0.key = Listen /\ Accepts(e0) /\ AcceptSocket(e0) = s0 /\ e0.ret
  <2>1. io_event_type_[e0.io] = "ACCEPT" /\ e0.ret
    BY <1>6 DEF IsAccept
  <2>2. e0.io \in socket_io_buffer_cache_[e0.key]
    BY <1>6
  <2>3. e0.key = Listen
    BY <1>6, <2>1, <2>2 DEF Placed, Arriving
  <2>. QED  BY <1>1, <1>6, <2>1, <2>3 DEF Accepts, AcceptSocket, Arriving
<1>8. /\ s0 \in Sockets
      /\ received[s0] = e0.chunk /\ e0.chunk \in {0, 1} /\ Len(dispatched[s0]) = 0
      /\ peer[s0] \in {"up", "gone"}
  <2>1. s0 \in Sockets
    BY <1>6, <1>7 DEF SocketInv, ServerTyping, TypeOK, SocketPoolTypeOK
  <2>. QED  BY <1>6, <1>7, <2>1 DEF EventOK, AcceptDelivers, Arriving
<1>9. /\ dispatched' \in [Sockets -> Seq(Nat)]
      /\ \A s \in Sockets \ {s0} : dispatched'[s] = dispatched[s]
      /\ Len(dispatched'[s0]) = received[s0]
      /\ OrderInv'
  <2>1. dispatched \in [Sockets -> Seq(Nat)]
    BY DEF ServerTyping
  <2>2. CASE e0.chunk = 0
    BY <1>6, <1>8, <2>1, <2>2 DEF DispatchFirstData, OrderInv
  <2>3. CASE e0.chunk = 1
    <3>1. dispatched' = [dispatched EXCEPT ![s0] = Append(@, 1)]
      BY <1>1, <1>6, <2>3 DEF DispatchFirstData
    <3>2. /\ dispatched[s0] \in Seq(Nat)
          /\ dispatched'[s0] = Append(dispatched[s0], 1)
          /\ \A s \in Sockets \ {s0} : dispatched'[s] = dispatched[s]
      BY <1>8, <2>1, <3>1
    <3>3. /\ Len(dispatched'[s0]) = 1 /\ dispatched'[s0][1] = 1
          /\ dispatched'[s0] \in Seq(Nat)
      BY <1>8, <3>2
    <3>4. dispatched' \in [Sockets -> Seq(Nat)]
      BY <1>8, <2>1, <3>1, <3>3
    <3>5. \A i \in 1..1 : i = 1
      OBVIOUS
    <3>6. OrderInv'
      BY <3>2, <3>3, <3>5 DEF OrderInv
    <3>. QED  BY <1>8, <2>3, <3>2, <3>3, <3>4, <3>6
  <2>. QED  BY <1>8, <2>2, <2>3
<1>10. UNCHANGED <<socket_io_buffer_cache_, completion_key_ptr_cache_, socket_shared_ptr_,
                   resource_global_lock_, peer, received, raced, misread>>
  BY DEF keyVars
<1>11. e0.new_io = NoBuffer /\ e0.new_key = NoKey /\ e0.io \in IOs(e0)
  BY <1>6, ServerConstants DEF Placed, IOs
<1>12. AcceptSocket(e1)' = s0
  BY <1>1, <1>2, <1>6, <1>7, <1>11 DEF AcceptSocket, Sent
<1>13. \A k \in Keys : ~Reads(e1, k)'
  BY <1>6 DEF Reads, Arriving
<1>14. EventOK(e1)'
  <2>1. Placed(e1)'
    BY <1>6, <1>7, <1>11, <1>13 DEF Placed, Arriving
  <2>2. AcceptDelivers(e1, s0)'
    BY <1>6, <1>8, <1>9, <1>10 DEF AcceptDelivers, Arriving
  <2>. QED  BY <1>12, <1>13, <2>1, <2>2 DEF EventOK
<1>15. Talks(e0, e1, s0)
  BY <1>6, <1>7, <1>9, <1>10, <1>12, <1>13, <1>14 DEF Talks
<1>. QED  BY <1>2, <1>5, <1>6, <1>15, CallbackStep

\* GetIOBufferPtr and the branch the event takes.
LEMMA FindIOInv ==
    ASSUME ServerInv, NEW t \in Threads, FindIO(t), UNCHANGED <<raced, misread>>
    PROVE  ServerInv'
<1>1. /\ worker[t].pc = "find_io"
      /\ UNCHANGED <<keyVars, port, peer, received, conns, faults, raced, misread>>
  BY DEF FindIO, At
<1>2. CASE /\ IO(t) \in socket_io_buffer_cache_[Key(t)]
           /\ IsAccept(io_event_type_[IO(t)], worker[t].ret, worker[t].chunk)
           /\ DispatchFirstData(io_socket_ptr_[IO(t)], worker[t].chunk)
           /\ Goto(t, "create_context")
  BY <1>1, <1>2, FindIOAcceptInv
<1>3. ASSUME UNCHANGED <<socketPoolVars, io_buffer_manager_inited_, fieldVars, pending, sends,
                         dispatched>>
      PROVE  UNCHANGED <<stateVars, dispatched, pending, port, resource_global_lock_>>
  BY <1>1, <1>3 DEF stateVars, socketPoolVars, fieldVars, keyVars
<1>4. CASE /\ UNCHANGED <<poolVars, fieldVars, pending, sends, dispatched>>
           /\ LET io == IO(t)
                  found == io \in socket_io_buffer_cache_[Key(t)]
              IN  \/ ~found /\ Return(t)
                  \/ /\ found /\ IsRead(io_event_type_[io], worker[t].ret, worker[t].chunk)
                     /\ Goto(t, "callback")
                  \/ /\ found /\ IsClientExit(io_event_type_[io], worker[t].ret, worker[t].chunk)
                     /\ Goto(t, "release_key")
  <2>1. UNCHANGED <<stateVars, dispatched, pending, port, resource_global_lock_,
                    io_buffer_cache_, io_buffer_in_use_>>
    BY <1>3, <1>4 DEF poolVars, bufferVars
  <2>. QED  BY <1>1, <1>4, <2>1, FindIOQuietInv
<1>5. CASE /\ IO(t) \in socket_io_buffer_cache_[Key(t)] /\ Return(t) /\ ReleaseIOBuffers({IO(t)})
           /\ UNCHANGED <<socketPoolVars, fieldVars, pending, sends, dispatched>>
  <2>1. UNCHANGED <<stateVars, dispatched, pending, port, resource_global_lock_>>
    BY <1>3, <1>5 DEF ReleaseIOBuffers
  <2>. QED  BY <1>1, <1>5, <2>1, FindIOQuietInv
<1>. QED  BY <1>2, <1>4, <1>5 DEF FindIO

\* The callback of a read, which may send.
LEMMA ReadCallbackInv ==
    ASSUME ServerInv, NEW t \in Threads, ReadCallback(t), UNCHANGED <<raced, misread>>
    PROVE  ServerInv'
<1>. USE DEF ServerInv
<1>1. worker[t].pc = "callback" /\ Goto(t, "get_io") /\ SendDataUserInterface(Key(t)) /\ port' = port
  BY DEF ReadCallback, At
<1>2. PICK e : e = WorkerEvent(worker[t])
  OBVIOUS
<1>3. /\ e \in Events /\ EventOK(e) /\ Placed(e) /\ e.key = Key(t) /\ e.stage = "callback"
      /\ e.key \in Keys /\ Reads(e, e.key) /\ e.key \in completion_key_ptr_cache_
  <2>1. e \in Events /\ EventOK(e) /\ Placed(e) /\ e.key = Key(t) /\ e.stage = "callback"
    BY <1>1, <1>2, HolderHasEvent, EventFields DEF EventInv, EventOK, Key
  <2>. QED  BY <2>1 DEF Placed, Reads
<1>4. PICK P : Sent(P)
  <2>1. HasReader(Key(t))
    BY <1>3 DEF HasReader
  <2>. QED  BY <1>1, <1>3, <2>1, SendUsesNewBuffer
<1>5. Posts(P)
  <2>1. ASSUME NEW p \in P, NEW x \in pending
        PROVE  x.io # p.io
    <3>1. OpEvent(x) \in Events /\ OpEvent(x).io = x.io
      BY HolderHasEvent, EventFields
    <3>. QED  BY <1>4, <3>1, ServerConstants DEF Sent, IOs
  <2>. QED  BY <1>1, <1>4, <2>1 DEF Sent, Posts
<1>6. PICK e0, w, e1 : ContinuesWith(t, "get_io", e0, w, e1, P)
  <2>1. "get_io" \in PCs \ {"loop"}
    BY DEF PCs
  <2>. QED  BY <1>1, <1>5, <2>1, GoesOnWith DEF Goto
<1>7. PICK N : N = {e1} \cup Posted(P)
  OBVIOUS
<1>8. /\ WorkerGoes(t, e0, w, P, N) /\ SameBut(e0, e1, "get_io") /\ e0 = e
      /\ e0.chunk = worker[t].chunk
  BY <1>2, <1>6, <1>7 DEF ContinuesWith, WorkerHas
<1>. USE DEF SameBut
<1>9. PICK s0 : s0 = socket_shared_ptr_[Key(t)]
  OBVIOUS
<1>10. /\ s0 \in Sockets /\ e0.chunk # 0 /\ e0.chunk = received[s0]
       /\ Len(dispatched[s0]) + 1 = received[s0]
  <2>1. s0 \in Sockets
    BY <1>3, <1>9 DEF SocketInv, ServerTyping, TypeOK, SocketPoolTypeOK
  <2>2. e0.chunk # 0
    BY <1>3, <1>8 DEF Placed
  <2>. QED  BY <1>3, <1>8, <1>9, <2>1, <2>2 DEF EventOK, ReaderDelivers, Arriving
<1>11. /\ dispatched' \in [Sockets -> Seq(Nat)]
       /\ \A s \in Sockets \ {s0} : dispatched'[s] = dispatched[s]
       /\ Len(dispatched'[s0]) = received[s0]
       /\ OrderInv'
  <2>1. dispatched \in [Sockets -> Seq(Nat)] /\ received[s0] \in Nat
    BY <1>10 DEF ServerTyping
  <2>2. dispatched' = [dispatched EXCEPT ![s0] = Append(@, e0.chunk)]
    BY <1>8, <1>9 DEF ReadCallback
  <2>. DEFINE d == dispatched[s0]
              c == e0.chunk
  <2>3. /\ d \in Seq(Nat) /\ Len(d) \in Nat /\ c \in Nat /\ c = Len(d) + 1
        /\ dispatched'[s0] = Append(d, c)
        /\ \A s \in Sockets \ {s0} : dispatched'[s] = dispatched[s]
    BY <1>10, <2>1, <2>2
  <2>4. /\ Append(d, c) \in Seq(Nat) /\ Len(Append(d, c)) = c
        /\ \A i \in 1..Len(d) : Append(d, c)[i] = d[i]
        /\ Append(d, c)[c] = c
        /\ \A i \in 1..c : i \in 1..Len(d) \/ i = c
    <3>. HIDE DEF c, d
    <3>. QED  BY <2>3
  <2>5. dispatched' \in [Sockets -> Seq(Nat)]
    BY <1>10, <2>1, <2>2, <2>3, <2>4
  <2>6. OrderInv'
    <3>1. \A i \in 1..Len(d) : d[i] = i
      BY <1>10 DEF OrderInv
    <3>2. \A i \in 1..c : Append(d, c)[i] = i
      BY <2>4, <3>1
    <3>. HIDE DEF c, d
    <3>. QED  BY <2>3, <2>4, <3>2 DEF OrderInv
  <2>. HIDE DEF d
  <2>. QED  BY <1>10, <2>3, <2>4, <2>5, <2>6
<1>12. UNCHANGED <<socket_io_buffer_cache_, completion_key_ptr_cache_, socket_shared_ptr_,
                   resource_global_lock_, peer, received, raced, misread>>
  BY DEF ReadCallback, keyVars
<1>13. e1.new_io = NoBuffer /\ e1.new_key = NoKey /\ e1.key = Key(t)
  BY <1>3, <1>8 DEF Placed
<1>14. \A k \in Keys : Reads(e1, k)' <=> k = Key(t)
  BY <1>8, <1>13 DEF Reads, Arriving, ReaderKey
<1>15. ~Accepts(e1)'
  BY <1>8 DEF Accepts, Arriving
<1>16. EventOK(e1)'
  <2>1. Placed(e1)'
    BY <1>3, <1>8, <1>12, <1>13, <1>14 DEF Placed, Arriving, ReaderKey
  <2>2. ReaderDelivers(e1, s0)'
    BY <1>8, <1>11, <1>12 DEF ReaderDelivers, Arriving
  <2>3. socket_shared_ptr_'[e1.key] = s0
    BY <1>9, <1>12, <1>13
  <2>. QED  BY <1>13, <1>14, <1>15, <2>1, <2>2, <2>3 DEF EventOK
<1>17. Talks(e0, e1, s0)
  BY <1>3, <1>8, <1>9, <1>11, <1>12, <1>14, <1>15, <1>16 DEF Talks
<1>. QED  BY <1>4, <1>7, <1>8, <1>17, CallbackStep

\* The pieces of the invariant after a step.
LEMMA KeepAll ==
    ASSUME ServerInv, NEW e0, NEW s0, NEW N,
           Moved(e0, N), Unaffected(e0, s0),
           \A e \in N : EventOK(e)',
           BuffersPass(e0, N), ReadersPass(e0, N), CachesPass(e0, N),
           SocketInv', TypeOK', OrderInv',
           received' \in [Sockets -> Nat], dispatched' \in [Sockets -> Seq(Nat)]
    PROVE  ServerInv'
<1>1. /\ Replaced(e0, N) /\ PlacesTyping'
      /\ OperationsApart' /\ PacketsApart' /\ WorkersApart'
  BY DEF Moved
<1>2. EventInv'
  BY <1>1, KeepEvents
<1>3. UniqueInv'
  BY <1>1, KeepBuffers
<1>4. ReaderInv'
  <2>1. completion_key_ptr_cache_' \subseteq Keys
    BY DEF TypeOK
  <2>. QED  BY <1>1, <2>1, KeepReaders
<1>5. ServerTyping'
  BY <1>1 DEF ServerTyping, PlacesTyping
<1>. QED  BY <1>2, <1>3, <1>4, <1>5 DEF ServerInv

\* The same for a step of a worker.
LEMMA StepInv ==
    ASSUME ServerInv, NEW t \in Threads, NEW e0, NEW s0, NEW w, NEW P, NEW N,
           WorkerGoes(t, e0, w, P, N), Unaffected(e0, s0),
           \A e \in N : EventOK(e)',
           BuffersPass(e0, N), ReadersPass(e0, N), CachesPass(e0, N),
           SocketInv', TypeOK', OrderInv',
           received' \in [Sockets -> Nat], dispatched' \in [Sockets -> Seq(Nat)]
    PROVE  ServerInv'
<1>1. Moved(e0, N)
  BY WorkerMoves DEF Moved
<1>. QED  BY <1>1, KeepAll

\* What a step that touches no socket and no connection leaves alone.
LEMMA NoSocketUsed ==
    ASSUME ServerInv
    PROVE  /\ \A e \in Events : \A k \in Keys : Reads(e, k) =>
                 /\ k \in completion_key_ptr_cache_
                 /\ socket_shared_ptr_[k] \in Sockets /\ socket_shared_ptr_[k] # NoSocket
           /\ \A e \in Events : Accepts(e) =>
                 AcceptSocket(e) \in Sockets /\ AcceptSocket(e) # NoSocket
<1>. USE DEF ServerInv
<1>1. \A e \in Events : \A k \in Keys : Reads(e, k) => k \in completion_key_ptr_cache_
  BY DEF EventInv, EventOK, Placed
<1>2. socket_inuse_pool_ \subseteq Sockets
  BY DEF ServerTyping, TypeOK, SocketPoolTypeOK
<1>. QED  BY <1>1, <1>2, ServerConstants DEF SocketInv

\* A reader there is after the step was one before it, unless its key is new.
LEMMA HadReader ==
    ASSUME ServerInv, NEW e0, NEW s0, NEW N, Unaffected(e0, s0), Replaced(e0, N),
           ReadersPass(e0, N),
           NEW k \in completion_key_ptr_cache_, k \in Keys, HasReader(k)'
    PROVE  HasReader(k)
BY OtherEvents DEF HasReader, Replaced, ReadersPass

\* ReleaseUsedIOContext: the event's buffer leaves the cache and goes back.
LEMMA ReleaseUsedIOContextInv ==
    ASSUME ServerInv, NEW t \in Threads, ReleaseUsedIOContext(t), UNCHANGED <<raced, misread>>
    PROVE  ServerInv'
<1>. USE DEF ServerInv
<1>1. /\ worker[t].pc = "release_io" /\ Return(t) /\ ReleaseIOBuffers({IO(t)})
      /\ socket_io_buffer_cache_' = [socket_io_buffer_cache_ EXCEPT ![Key(t)] = @ \ {IO(t)}]
      /\ UNCHANGED <<shared_socket_pool_, socket_inuse_pool_, poolsize_, io_event_type_,
                     io_socket_ptr_, pending, port, peer, received, dispatched,
                     resource_global_lock_, completion_key_ptr_cache_, socket_shared_ptr_,
                     raced, misread>>
  BY DEF ReleaseUsedIOContext, At, socketPoolVars, fieldVars, kernelVars
<1>2. PICK e0 : ReturnsFrom(t, e0)
  BY <1>1, Returns
<1>3. /\ WorkerGoes(t, e0, Idle, {}, {}) /\ e0 \in Events /\ Placed(e0)
      /\ e0.stage = "release_io" /\ e0.io = IO(t) /\ e0.key = Key(t)
  BY <1>1, <1>2 DEF ReturnsFrom, WorkerHas, IO, Key, EventOK
<1>4. IOs(e0) = {IO(t)} /\ IO(t) \in Buffers /\ Key(t) \in Keys \cup {Listen}
  BY <1>3, ServerConstants DEF Placed, IOs
<1>5. BufferTypeOK' /\ \A e \in Events \ {e0} : Held(e)'
  BY <1>1, <1>3, <1>4, HeldAfterRelease
<1>6. socket_io_buffer_cache_ \in [Keys \cup {Listen} -> SUBSET Buffers]
  BY DEF ServerTyping, TypeOK
<1>7. /\ socket_io_buffer_cache_' \in [Keys \cup {Listen} -> SUBSET Buffers]
      /\ \A k \in Keys \cup {Listen} :
           /\ socket_io_buffer_cache_'[k] \subseteq socket_io_buffer_cache_[k]
           /\ \A b \in socket_io_buffer_cache_[k] :
                 b \in socket_io_buffer_cache_'[k] \/ (k = Key(t) /\ b = IO(t))
           /\ k = Key(t) => IO(t) \notin socket_io_buffer_cache_'[k]
  BY <1>1, <1>4, <1>6
<1>8. \A e \in Events \ {e0} : IO(t) \notin IOs(e)
  BY <1>3, <1>4 DEF UniqueInv, Share
<1>9. Unaffected(e0, NoSocket)
  BY <1>1, <1>7, <1>8, NoSocketUsed DEF Unaffected
<1>10. Replaced(e0, {})
  BY <1>3, WorkerMoves
<1>11. BuffersPass(e0, {})
  BY <1>5 DEF BuffersPass
<1>12. ReadersPass(e0, {})
  BY DEF ReadersPass
<1>13. CachesPass(e0, {})
  <2>1. ASSUME NEW k \in completion_key_ptr_cache_', HasReader(k)',
               NEW b \in socket_io_buffer_cache_'[k], b \in IOs(e0)
        PROVE  FALSE
    <3>1. k \in completion_key_ptr_cache_ /\ k \in Keys
      BY <1>1, <2>1 DEF ServerTyping, TypeOK
    <3>2. b \in socket_io_buffer_cache_[k]
      BY <1>7, <2>1, <3>1
    <3>3. HasReader(k)
      BY <1>9, <1>10, <1>12, <2>1, <3>1, HadReader
    <3>4. e0.io = b /\ e0.key = k
      BY <1>3, <2>1, <3>1, <3>2, <3>3, OwnedByReader
    <3>. QED  BY <1>3, <1>7, <2>1, <3>1, <3>4
  <2>. QED  BY <1>1, <1>7, <2>1 DEF CachesPass, ServerTyping, TypeOK
<1>14. SocketInv'
  <2>1. AcceptsPass(e0, {})
    BY DEF AcceptsPass
  <2>2. \A k \in completion_key_ptr_cache_ : peer'[socket_shared_ptr_[k]] \in {"up", "gone"}
    BY <1>1 DEF SocketInv
  <2>3. OperationSockets'
    BY <1>1 DEF SocketInv, OperationSockets
  <2>. QED  BY <1>1, <1>9, <1>10, <2>1, <2>2, <2>3, KeepSockets
<1>15. TypeOK'
  BY <1>1, <1>5, <1>7 DEF ServerTyping, TypeOK, SocketPoolTypeOK
<1>16. OrderInv' /\ received' \in [Sockets -> Nat] /\ dispatched' \in [Sockets -> Seq(Nat)]
  BY <1>1 DEF OrderInv, ServerTyping
<1>. QED  BY <1>3, <1>9, <1>11, <1>12, <1>13, <1>14, <1>15, <1>16, StepInv

\* A worker has posted the request it has prepared, or failed to: e0 is its
\* event before and e1 after the step, P the operation it handed to the kernel.
PostedFrom(e0, e1, P) ==
    /\ UNCHANGED <<stateVars, dispatched, resource_global_lock_>>
    /\ e0.stage \in {"post_read", "post_accept"}
    /\ e1.io = e0.io /\ e1.key = e0.key /\ e1.new_io = NoBuffer /\ e1.new_key = NoKey
    /\ e1.stage \in {"release_io", "get_accept_io"}
    /\ e1.stage = "get_accept_io" => e1.key = Listen
    /\ \A p \in P :
          /\ p.io = e0.new_io
          /\ e0.stage = "post_read" =>
                p.op = "READ" /\ p.key = ReaderKey(e0) /\ p.sock = socket_shared_ptr_[p.key]
          /\ e0.stage = "post_accept" =>
                p.op = "ACCEPT" /\ p.key = Listen /\ p.sock = io_socket_ptr_[p.io]
    /\ \/ UNCHANGED <<io_buffer_cache_, io_buffer_in_use_>>
       \/ P = {} /\ ReleaseIOBuffers({e0.new_io})

\* Posting a request preserves the invariant.
LEMMA PostStep ==
    ASSUME ServerInv, NEW t \in Threads, NEW e0, NEW e1, NEW w, NEW P, NEW N,
           WorkerGoes(t, e0, w, P, N), N = {e1} \cup Posted(P), PostedFrom(e0, e1, P)
    PROVE  ServerInv'
<1>. USE DEF ServerInv
<1>1. /\ e0 \in Events /\ EventOK(e0) /\ Placed(e0) /\ Replaced(e0, N)
      /\ \A p, q \in P : p = q
      /\ pending' = pending \cup P
  BY WorkerMoves DEF EventOK, WorkerGoes, Posts
<1>2. /\ e0.new_io \in Buffers /\ e0.new_io # NoBuffer /\ e0.new_io # e0.io
      /\ e0.io \in Buffers /\ e0.io # NoBuffer
      /\ IOs(e0) = {e0.io, e0.new_io} /\ IOs(e1) = {e0.io}
  <2>1. e0.new_io # NoBuffer /\ e0.io \in Buffers
    BY <1>1 DEF Placed, PostedFrom
  <2>2. e0.new_io \in Buffers
    BY <1>1, <2>1, EventPlaces
  <2>. QED  BY <1>1, <2>1, <2>2, ServerConstants DEF IOs, PostedFrom, UniqueInv
<1>3. /\ UNCHANGED <<io_event_type_, io_socket_ptr_, socket_io_buffer_cache_,
                     completion_key_ptr_cache_, socket_shared_ptr_, shared_socket_pool_,
                     socket_inuse_pool_, io_buffer_manager_inited_, poolsize_, peer, received,
                     raced, misread, dispatched, resource_global_lock_>>
  BY DEF PostedFrom, stateVars
<1>4. Unaffected(e0, NoSocket)
  BY <1>3, NoSocketUsed DEF Unaffected
<1>5. \A e \in N : e = e1 \/ \E p \in P : e = OpEvent(p) /\ e.io = e0.new_io /\ e.key = p.key
                         /\ e.stage = p.op /\ e.new_io = NoBuffer /\ e.new_key = NoKey
                         /\ e.chunk = 0 /\ e.ret = TRUE
  <2>1. \A p \in P : p.op \in {"READ", "ACCEPT"} /\ p.io = e0.new_io
    BY DEF PostedFrom
  <2>2. ASSUME NEW e \in N, e # e1
        PROVE  \E p \in P : e = OpEvent(p)
    BY <2>2 DEF Posted
  <2>3. \A p \in P : LET e == OpEvent(p)
                     IN  /\ e.io = e0.new_io /\ e.key = p.key /\ e.stage = p.op
                         /\ e.new_io = NoBuffer /\ e.new_key = NoKey
                         /\ e.chunk = 0 /\ e.ret = TRUE
    BY <2>1, EventFields DEF OpStage
  <2>. QED  BY <2>2, <2>3
<1>6. (\A k \in Keys : ~Reads(e1, k)') /\ ~Accepts(e1)'
  BY DEF Reads, Accepts, Arriving, PostedFrom
<1>7. EventOK(e1)'
  <2>1. Placed(e1)'
    BY <1>1, <1>2, <1>3, <1>6 DEF Placed, Arriving, PostedFrom
  <2>. QED  BY <1>6, <2>1 DEF EventOK
<1>8. ASSUME NEW p \in P, NEW e, e = OpEvent(p), e.io = e0.new_io, e.key = p.key,
             e.stage = p.op, e.new_io = NoBuffer, e.new_key = NoKey
      PROVE  /\ EventOK(e)'
             /\ \A k \in Keys : Reads(e, k)' => Reads(e0, k)
             /\ Accepts(e)' => Accepts(e0) /\ AcceptSocket(e)' = AcceptSocket(e0)
  <2>1. CASE e0.stage = "post_read"
    <3>1. /\ e.stage = "READ" /\ e.key = ReaderKey(e0) /\ e.key \in Keys /\ Reads(e0, e.key)
          /\ e.io \in socket_io_buffer_cache_[e.key] /\ io_event_type_[e.io] = "READ"
      BY <1>1, <1>8, <2>1 DEF PostedFrom, Placed, Reads
    <3>2. \A k \in Keys : Reads(e, k)' <=> k = e.key
      BY <3>1 DEF Reads, Arriving
    <3>3. ~Accepts(e)'
      BY <3>1 DEF Accepts, Arriving
    <3>4. Placed(e)'
      BY <1>2, <1>3, <1>8, <3>1, <3>2, NoSocketUsed, <1>1 DEF Placed, Arriving
    <3>5. ReaderDelivers(e, socket_shared_ptr_[e.key])'
      BY <1>1, <1>3, <2>1, <3>1 DEF ReaderDelivers, EventOK, Arriving
    <3>. QED  BY <3>1, <3>2, <3>3, <3>4, <3>5 DEF EventOK
  <2>2. CASE e0.stage = "post_accept"
    <3>1. /\ e.stage = "ACCEPT" /\ e.key = Listen /\ Accepts(e0)
          /\ io_event_type_[e.io] = "ACCEPT"
      BY <1>1, <1>8, <2>2 DEF PostedFrom, Placed, Accepts
    <3>2. \A k \in Keys : ~Reads(e, k)'
      BY <3>1 DEF Reads, Arriving
    <3>3. AcceptSocket(e)' = AcceptSocket(e0)
      BY <1>3, <1>8, <2>2, <3>1 DEF AcceptSocket
    <3>4. Placed(e)'
      BY <1>2, <1>3, <1>8, <3>1, <3>2 DEF Placed, Arriving
    <3>0. PICK s : s = AcceptSocket(e0)
      OBVIOUS
    <3>5. AcceptDelivers(e, s)'
      <4>1. received[s] = 0 /\ Len(dispatched[s]) = 0
        BY <1>1, <2>2, <3>0, <3>1 DEF AcceptDelivers, EventOK
      <4>. QED  BY <1>3, <3>1, <4>1 DEF AcceptDelivers, Arriving
    <3>. QED  BY <3>0, <3>1, <3>2, <3>3, <3>4, <3>5 DEF EventOK
  <2>. QED  BY <2>1, <2>2 DEF PostedFrom
<1>9. /\ \A e \in N : EventOK(e)'
      /\ \A e \in N : \A k \in Keys : Reads(e, k)' => Reads(e0, k)
      /\ \A e \in N : Accepts(e)' => Accepts(e0) /\ AcceptSocket(e)' = AcceptSocket(e0)
  BY <1>5, <1>6, <1>7, <1>8
<1>10. \A e, f \in N : \/ e = f
                       \/ e = e1 /\ f # e1 /\ f.io = e0.new_io
                       \/ f = e1 /\ e # e1 /\ e.io = e0.new_io
  BY <1>1, <1>5
<1>11. \A e \in N : e # e1 => IOs(e) = {e0.new_io} /\ e.io # e.new_io
  BY <1>2, <1>5 DEF IOs
<1>12. /\ BufferTypeOK' /\ \A e \in Events \ {e0} : Held(e)'
       /\ \A e \in N : Held(e)'
  <2>1. CASE UNCHANGED <<io_buffer_cache_, io_buffer_in_use_>>
    <3>1. BufferTypeOK' /\ \A e \in Events : Held(e)'
      BY <1>3, <2>1 DEF ServerTyping, TypeOK, BufferTypeOK, UniqueInv, Held, IOs
    <3>2. \A e \in N : IOs(e) \subseteq IOs(e0)
      BY <1>2, <1>11
    <3>3. \A e : IOs(e)' = IOs(e)
      BY DEF IOs
    <3>. QED  BY <1>1, <3>1, <3>2, <3>3 DEF Held
  <2>2. CASE P = {} /\ ReleaseIOBuffers({e0.new_io})
    <3>1. {e0.new_io} \in SUBSET IOs(e0)
      BY <1>2
    <3>2. BufferTypeOK' /\ \A e \in Events \ {e0} : Held(e)'
      BY <1>1, <2>2, <3>1, HeldAfterRelease
    <3>3. N = {e1}
      BY <2>2 DEF Posted
    <3>4. e0.io \in io_buffer_in_use_ \ io_buffer_cache_
      BY <1>1, <1>2 DEF UniqueInv, Held
    <3>5. e0.io \in io_buffer_in_use_' \ io_buffer_cache_'
      BY <1>2, <2>2, <3>4 DEF ReleaseIOBuffers
    <3>6. IOs(e1)' = {e0.io}
      BY <1>2 DEF IOs
    <3>. QED  BY <3>2, <3>3, <3>5, <3>6 DEF Held
  <2>. QED  BY <2>1, <2>2 DEF PostedFrom
<1>13. BuffersPass(e0, N)
  <2>1. \A e \in N : e.io # e.new_io /\ IOs(e) \subseteq IOs(e0)
    BY <1>2, <1>11 DEF PostedFrom
  <2>2. \A e, f \in N : Share(e, f) => e = f
    BY <1>2, <1>10, <1>11 DEF Share
  <2>. QED  BY <1>1, <1>12, <2>1, <2>2 DEF BuffersPass
<1>14. ReadersPass(e0, N)
  BY <1>1, <1>6, <1>9, <1>10 DEF ReadersPass
<1>15. CachesPass(e0, N)
  <2>1. ASSUME NEW k \in completion_key_ptr_cache_', HasReader(k)',
               NEW b \in socket_io_buffer_cache_'[k], b \in IOs(e0)
        PROVE  \E e \in N : Owned(e, k, b)
    <3>1. k \in completion_key_ptr_cache_ /\ k \in Keys /\ b \in socket_io_buffer_cache_[k]
      BY <1>3, <2>1 DEF ServerTyping, TypeOK
    <3>2. HasReader(k)
      BY <1>1, <1>4, <1>14, <2>1, <3>1, HadReader
    <3>3. CASE e0.io = b /\ e0.key = k
      BY <3>3 DEF Owned, PostedFrom
    <3>4. CASE e0.stage = "post_read" /\ ReaderKey(e0) = k /\ e0.new_io = b
      <4>1. PICK e \in Events' : Reads(e, k)'
        BY <2>1 DEF HasReader
      <4>2. Reads(e0, k)
        BY <3>4 DEF Reads
      <4>3. e \in N
        <5>1. CASE e \in Events \ {e0}
          <6>1. Reads(e, k)
            BY <1>4, <3>1, <4>1, <5>1, OtherEvents
          <6>. QED  BY <1>1, <3>1, <4>2, <5>1, <6>1 DEF ReaderInv
        <5>. QED  BY <1>1, <4>1, <5>1 DEF Replaced
      <4>4. PICK p \in P : e.io = e0.new_io /\ e.key = p.key
        BY <1>5, <1>6, <3>1, <4>1, <4>3
      <4>5. p.key = k
        BY <3>4 DEF PostedFrom
      <4>. QED  BY <3>4, <4>3, <4>4, <4>5 DEF Owned
    <3>. QED  BY <1>1, <2>1, <3>1, <3>2, <3>3, <3>4, OwnedByReader
  <2>. QED  BY <1>3, <2>1 DEF CachesPass
<1>16. SocketInv'
  <2>1. AcceptsPass(e0, N)
    BY <1>1, <1>6, <1>9, <1>10 DEF AcceptsPass
  <2>2. \A k \in completion_key_ptr_cache_ : peer'[socket_shared_ptr_[k]] \in {"up", "gone"}
    BY <1>3 DEF SocketInv
  <2>3. OperationSockets'
    <3>1. \A p \in P : /\ p.op = "READ" => p.sock = socket_shared_ptr_[p.key]
                       /\ p.op = "ACCEPT" => p.sock = io_socket_ptr_[p.io]
      BY DEF PostedFrom
    <3>. QED  BY <1>1, <1>3, <3>1 DEF SocketInv, OperationSockets
  <2>. QED  BY <1>1, <1>3, <1>4, <2>1, <2>2, <2>3, KeepSockets
<1>17. TypeOK'
  BY <1>3, <1>12 DEF ServerTyping, TypeOK, SocketPoolTypeOK
<1>18. OrderInv' /\ received' \in [Sockets -> Nat] /\ dispatched' \in [Sockets -> Seq(Nat)]
  BY <1>3 DEF OrderInv, ServerTyping
<1>. QED  BY <1>4, <1>9, <1>13, <1>14, <1>15, <1>16, <1>17, <1>18, StepInv

\* The operations a worker with event e0 may post for its new buffer.
LEMMA PostsNewBuffer ==
    ASSUME ServerInv, NEW t \in Threads, worker[t].pc \in {"post_read", "post_accept"},
           NEW p \in Operations, p.io = worker[t].new_io,
           pending' = pending \cup {p}, port' = port
    PROVE  Posts({p})
<1>. USE DEF ServerInv
<1>1. PICK e0 : e0 = WorkerEvent(worker[t])
  OBVIOUS
<1>2. e0 \in Events /\ e0.new_io = p.io /\ e0 \notin OpEvents
  BY <1>1, HolderHasEvent, PlacesDisjoint, EventFields
<1>3. p.io # NoBuffer
  BY ServerConstants DEF Operations
<1>4. ASSUME NEW x \in pending
      PROVE  x.io # p.io
  <2>1. OpEvent(x) \in Events /\ OpEvent(x).io = x.io /\ OpEvent(x) # e0
    BY <1>2, HolderHasEvent, EventFields DEF OpEvents
  <2>. QED  BY <1>2, <1>3, <2>1 DEF UniqueInv, Share, IOs
<1>. QED  BY <1>4 DEF Posts

\* PostReadRequestEvent_: the read is outstanding, or the key has no reader.
LEMMA PostReadRequestEventInv ==
    ASSUME ServerInv, NEW t \in Threads, PostReadRequestEvent(t), UNCHANGED <<raced, misread>>
    PROVE  ServerInv'
<1>. USE DEF ServerInv
<1>1. PICK k, b, s : k = ReadKey(t) /\ b = worker[t].new_io /\ s = socket_shared_ptr_[k]
  OBVIOUS
<1>2. /\ worker[t].pc = "post_read"
      /\ UNCHANGED <<fieldVars, keyVars, port, peer, received, dispatched>>
      /\ worker' = [worker EXCEPT ![t].pc = AfterPostRead(t),
                                  ![t].new_key = NoKey, ![t].new_io = NoBuffer]
      /\ \/ pending' = pending \cup {Operation("READ", k, b, s)} /\ UNCHANGED poolVars
         \/ ReleaseIOBuffers({b}) /\ UNCHANGED <<socketPoolVars, pending>>
         \/ UNCHANGED <<poolVars, pending>>
  BY <1>1 DEF PostReadRequestEvent, At
<1>3. worker[t] \in WorkerRecords /\ worker \in [Threads -> WorkerRecords]
  BY DEF ServerTyping
<1>4. PICK e0 : e0 = WorkerEvent(worker[t])
  OBVIOUS
<1>5. /\ e0 \in Events /\ EventOK(e0) /\ Placed(e0)
      /\ e0.io = worker[t].io /\ e0.new_io = b
      /\ e0.key = worker[t].key /\ e0.new_key = worker[t].new_key
      /\ e0.stage = "post_read" /\ ReaderKey(e0) = k
  BY <1>1, <1>2, <1>4, HolderHasEvent, EventFields
     DEF EventInv, EventOK, ReaderKey, ReadKey, Key
<1>6. k \in Keys /\ b \in Buffers /\ s \in Sockets
  <2>1. k \in Keys /\ Reads(e0, k)
    BY <1>5 DEF Placed, Reads
  <2>2. s \in Sockets
    BY <1>1, <1>5, <2>1, NoSocketUsed
  <2>3. b \in Buffers
    BY <1>1, <1>3, <1>5 DEF Placed, WorkerRecords
  <2>. QED  BY <2>1, <2>2, <2>3
<1>7. PICK w : w = [worker[t] EXCEPT !.pc = AfterPostRead(t), !.new_key = NoKey,
                                     !.new_io = NoBuffer]
  OBVIOUS
<1>8. /\ w \in WorkerRecords /\ w.pc = AfterPostRead(t) /\ w.io = worker[t].io
      /\ w.key = worker[t].key /\ w.new_key = NoKey /\ w.new_io = NoBuffer
      /\ w.pc \in {"release_io", "get_accept_io"} /\ w.pc # "loop"
      /\ w.pc = "get_accept_io" => worker[t].new_key # NoKey
      /\ worker' = [worker EXCEPT ![t] = w]
  BY <1>2, <1>3, <1>7 DEF WorkerRecords, PCs, AfterPostRead
<1>9. PICK e1 : e1 = WorkerEvent(w)
  OBVIOUS
<1>10. /\ e1.io = e0.io /\ e1.key = e0.key /\ e1.new_io = NoBuffer /\ e1.new_key = NoKey
       /\ e1.stage \in {"release_io", "get_accept_io"}
       /\ e1.stage = "get_accept_io" => e1.key = Listen
       /\ Continued(w) = {e1}
  BY <1>5, <1>8, <1>9, EventFields DEF Placed, Continued
<1>11. ASSUME NEW P, Posts(P)
       PROVE  WorkerGoes(t, e0, w, P, {e1} \cup Posted(P))
  BY <1>2, <1>4, <1>8, <1>10, <1>11 DEF WorkerGoes
<1>12. ASSUME UNCHANGED <<socketPoolVars, io_buffer_manager_inited_>>
       PROVE  UNCHANGED <<stateVars, dispatched, resource_global_lock_>>
  BY <1>2, <1>12 DEF stateVars, socketPoolVars, fieldVars, keyVars
<1>13. CASE pending' = pending \cup {Operation("READ", k, b, s)} /\ UNCHANGED poolVars
  <2>1. PICK p : p = Operation("READ", k, b, s)
    OBVIOUS
  <2>2. /\ p \in Operations /\ p.io = b /\ p.op = "READ" /\ p.key = k
        /\ p.sock = socket_shared_ptr_[p.key]
    BY <1>1, <1>6, <2>1 DEF Operation, Operations
  <2>3. Posts({p})
    BY <1>1, <1>2, <1>13, <2>1, <2>2, PostsNewBuffer
  <2>4. PostedFrom(e0, e1, {p})
    BY <1>5, <1>10, <1>12, <1>13, <2>2 DEF PostedFrom, poolVars, bufferVars
  <2>. QED  BY <1>11, <2>3, <2>4, PostStep
<1>14. CASE ReleaseIOBuffers({b}) /\ UNCHANGED <<socketPoolVars, pending>>
  <2>1. Posts({})
    BY <1>2, <1>14, NoPosts
  <2>2. PostedFrom(e0, e1, {})
    BY <1>5, <1>10, <1>12, <1>14 DEF PostedFrom, ReleaseIOBuffers
  <2>. QED  BY <1>11, <2>1, <2>2, PostStep
<1>15. CASE UNCHANGED <<poolVars, pending>>
  <2>1. Posts({})
    BY <1>2, <1>15, NoPosts
  <2>2. PostedFrom(e0, e1, {})
    BY <1>5, <1>10, <1>12, <1>15 DEF PostedFrom, poolVars, bufferVars
  <2>. QED  BY <1>11, <2>1, <2>2, PostStep
<1>. QED  BY <1>2, <1>13, <1>14, <1>15

\* AcceptEx: the accept is outstanding, or its socket is nobody's.
LEMMA PostAcceptEventInv ==
    ASSUME ServerInv, NEW t \in Threads, PostAcceptEvent(t), UNCHANGED <<raced, misread>>
    PROVE  ServerInv'
<1>. USE DEF ServerInv
<1>1. PICK b, s : b = worker[t].new_io /\ s = io_socket_ptr_[b]
  OBVIOUS
<1>2. PICK posted \in BOOLEAN :
      /\ worker[t].pc = "post_accept"
      /\ UNCHANGED <<fieldVars, keyVars, port, peer, received, dispatched>>
      /\ worker' = [worker EXCEPT ![t] = [worker[t] EXCEPT
                          !.pc = AfterPostAccept(worker[t].tries, posted),
                          !.tries = @ + 1, !.new_io = NoBuffer]]
      /\ \/ pending' = pending \cup {Operation("ACCEPT", Listen, b, s)} /\ UNCHANGED poolVars
         \/ ReleaseIOBuffers({b}) /\ UNCHANGED <<socketPoolVars, pending>>
  BY <1>1 DEF PostAcceptEvent, At
<1>3. worker[t] \in WorkerRecords /\ worker \in [Threads -> WorkerRecords]
  BY DEF ServerTyping
<1>4. PICK e0 : e0 = WorkerEvent(worker[t])
  OBVIOUS
<1>5. /\ e0 \in Events /\ EventOK(e0) /\ Placed(e0)
      /\ e0.io = worker[t].io /\ e0.new_io = b
      /\ e0.key = worker[t].key /\ e0.new_key = worker[t].new_key
      /\ e0.stage = "post_accept" /\ e0.key = Listen /\ e0.new_key = NoKey
  <2>1. /\ e0 \in Events /\ EventOK(e0) /\ Placed(e0)
        /\ e0.io = worker[t].io /\ e0.new_io = b
        /\ e0.key = worker[t].key /\ e0.new_key = worker[t].new_key
        /\ e0.stage = "post_accept"
    BY <1>1, <1>2, <1>4, HolderHasEvent, EventFields DEF EventInv, EventOK
  <2>. QED  BY <2>1 DEF Placed
<1>6. b \in Buffers /\ s \in Sockets
  <2>1. Accepts(e0) /\ AcceptSocket(e0) = s
    BY <1>1, <1>5 DEF Accepts, AcceptSocket
  <2>2. s \in Sockets
    BY <1>5, <2>1, NoSocketUsed
  <2>3. b \in Buffers
    BY <1>1, <1>3, <1>5 DEF Placed, WorkerRecords
  <2>. QED  BY <2>2, <2>3
<1>7. PICK w : w = [worker[t] EXCEPT !.pc = AfterPostAccept(worker[t].tries, posted),
                                     !.tries = @ + 1, !.new_io = NoBuffer]
  OBVIOUS
<1>8. /\ w \in WorkerRecords /\ w.io = worker[t].io
      /\ w.key = worker[t].key /\ w.new_key = worker[t].new_key /\ w.new_io = NoBuffer
      /\ w.pc \in {"release_io", "get_accept_io"} /\ w.pc # "loop"
      /\ worker' = [worker EXCEPT ![t] = w]
  <2>1. PICK pc \in {"release_io", "get_accept_io"} :
           pc = AfterPostAccept(worker[t].tries, posted)
    BY DEF AfterPostAccept
  <2>2. PICK n \in Nat : n = worker[t].tries + 1
    BY <1>3 DEF WorkerRecords
  <2>3. w = [worker[t] EXCEPT !.pc = pc, !.tries = n, !.new_io = NoBuffer]
    BY <1>3, <1>7, <2>1, <2>2 DEF WorkerRecords
  <2>4. worker' = [worker EXCEPT ![t] = w]
    BY <1>2, <1>7
  <2>5. pc \in PCs /\ pc # "loop"
    BY <2>1 DEF PCs
  <2>. QED  BY <1>3, <2>1, <2>2, <2>3, <2>4, <2>5 DEF WorkerRecords
<1>9. PICK e1 : e1 = WorkerEvent(w)
  OBVIOUS
<1>10. /\ e1.io = e0.io /\ e1.key = e0.key /\ e1.new_io = NoBuffer /\ e1.new_key = NoKey
       /\ e1.stage \in {"release_io", "get_accept_io"}
       /\ e1.stage = "get_accept_io" => e1.key = Listen
       /\ Continued(w) = {e1}
  BY <1>5, <1>8, <1>9, EventFields DEF Continued
<1>11. ASSUME NEW P, Posts(P)
       PROVE  WorkerGoes(t, e0, w, P, {e1} \cup Posted(P))
  BY <1>2, <1>4, <1>8, <1>10, <1>11 DEF WorkerGoes
<1>12. ASSUME UNCHANGED <<socketPoolVars, io_buffer_manager_inited_>>
       PROVE  UNCHANGED <<stateVars, dispatched, resource_global_lock_>>
  BY <1>2, <1>12 DEF stateVars, socketPoolVars, fieldVars, keyVars
<1>13. CASE pending' = pending \cup {Operation("ACCEPT", Listen, b, s)} /\ UNCHANGED poolVars
  <2>1. PICK p : p = Operation("ACCEPT", Listen, b, s)
    OBVIOUS
  <2>2. /\ p \in Operations /\ p.io = b /\ p.op = "ACCEPT" /\ p.key = Listen
        /\ p.sock = io_socket_ptr_[p.io]
    BY <1>1, <1>6, <2>1 DEF Operation, Operations
  <2>3. Posts({p})
    BY <1>1, <1>2, <1>13, <2>1, <2>2, PostsNewBuffer
  <2>4. PostedFrom(e0, e1, {p})
    BY <1>5, <1>10, <1>12, <1>13, <2>2 DEF PostedFrom, poolVars, bufferVars
  <2>. QED  BY <1>11, <2>3, <2>4, PostStep
<1>14. CASE ReleaseIOBuffers({b}) /\ UNCHANGED <<socketPoolVars, pending>>
  <2>1. Posts({})
    BY <1>2, <1>14, NoPosts
  <2>2. PostedFrom(e0, e1, {})
    BY <1>5, <1>10, <1>12, <1>14 DEF PostedFrom, ReleaseIOBuffers
  <2>. QED  BY <1>11, <2>1, <2>2, PostStep
<1>. QED  BY <1>2, <1>13, <1>14

\* A worker goes on with the record w.
LEMMA GoesWith ==
    ASSUME ServerInv, NEW t \in Threads, worker[t].pc # "loop",
           NEW w \in WorkerRecords, w.pc # "loop", w.io = worker[t].io,
           worker' = [worker EXCEPT ![t] = w], pending' = pending, port' = port
    PROVE  \E e0, e1 : /\ WorkerHas(t, e0) /\ WorkerGoes(t, e0, w, {}, {e1})
                       /\ e1 = WorkerEvent(w)
<1>1. PICK e0, e1 : e0 = WorkerEvent(worker[t]) /\ e1 = WorkerEvent(w)
  OBVIOUS
<1>2. Posts({}) /\ Continued(w) \cup Posted({}) = {e1}
  BY <1>1, NoPosts DEF Continued
<1>3. WorkerGoes(t, e0, w, {}, {e1})
  BY <1>1, <1>2 DEF WorkerGoes
<1>. QED  BY <1>1, <1>3, WorkerMoves DEF WorkerHas

\* The next read's buffer is put into the key's cache.
LEMMA GetReadBufferInv ==
    ASSUME ServerInv, NEW t \in Threads, GetReadBuffer(t), UNCHANGED <<raced, misread>>
    PROVE  ServerInv'
<1>. USE DEF ServerInv
<1>1. PICK k : k = ReadKey(t)
  OBVIOUS
<1>2. PICK b \in Buffers :
          /\ GetIOContextBuffer(b)
          /\ io_event_type_' = [TypesFromPool EXCEPT ![b] = "READ"]
          /\ io_socket_ptr_' = [SocketsFromPool EXCEPT ![b] = socket_shared_ptr_[k]]
          /\ socket_io_buffer_cache_' = [socket_io_buffer_cache_ EXCEPT ![k] = @ \cup {b}]
          /\ worker' = [worker EXCEPT ![t].pc = "post_read", ![t].new_io = b]
  BY <1>1 DEF GetReadBuffer
<1>3. /\ worker[t].pc = "get_io"
      /\ UNCHANGED <<shared_socket_pool_, socket_inuse_pool_, poolsize_, pending, port, peer,
                     received, dispatched, resource_global_lock_,
                     completion_key_ptr_cache_, socket_shared_ptr_, raced, misread>>
  BY DEF GetReadBuffer, At, socketPoolVars, kernelVars
<1>4. PICK w : w = [worker[t] EXCEPT !.pc = "post_read", !.new_io = b]
  OBVIOUS
<1>5. /\ w \in WorkerRecords /\ w.pc = "post_read" /\ w.io = worker[t].io
      /\ w.key = worker[t].key /\ w.new_key = worker[t].new_key /\ w.new_io = b
      /\ worker' = [worker EXCEPT ![t] = w]
  BY <1>2, <1>4 DEF ServerTyping, WorkerRecords, PCs
<1>6. PICK e0, e1 : /\ WorkerHas(t, e0) /\ WorkerGoes(t, e0, w, {}, {e1})
                    /\ e1 = WorkerEvent(w)
  BY <1>3, <1>5, GoesWith
<1>7. /\ e0 \in Events /\ EventOK(e0) /\ Placed(e0) /\ e0.stage = "get_io"
      /\ e0.new_io = NoBuffer /\ ReaderKey(e0) = k
      /\ e1.io = e0.io /\ e1.key = e0.key /\ e1.new_key = e0.new_key
      /\ e1.new_io = b /\ e1.stage = "post_read" /\ ReaderKey(e1) = k
      /\ k \in Keys /\ Reads(e0, k) /\ Replaced(e0, {e1})
  <2>1. /\ e0 \in Events /\ EventOK(e0) /\ Placed(e0) /\ e0.stage = "get_io"
        /\ e0.key = worker[t].key /\ e0.new_key = worker[t].new_key
        /\ e0.io = worker[t].io
    BY <1>3, <1>6 DEF WorkerHas, EventOK
  <2>2. /\ e1.io = e0.io /\ e1.key = e0.key /\ e1.new_key = e0.new_key
        /\ e1.new_io = b /\ e1.stage = "post_read"
    BY <1>5, <1>6, <2>1, EventFields
  <2>3. ReaderKey(e0) = k /\ ReaderKey(e1) = k
    BY <1>1, <2>1, <2>2 DEF ReaderKey, ReadKey, Key
  <2>4. e0.new_io = NoBuffer /\ k \in Keys /\ Reads(e0, k)
    BY <2>1, <2>3 DEF Placed, Reads
  <2>. QED  BY <1>6, <2>1, <2>2, <2>3, <2>4, WorkerMoves
<1>8. /\ BufferTypeOK'
      /\ b \in io_buffer_in_use_' \ io_buffer_cache_'
      /\ \A e \in Events : b \notin IOs(e)
      /\ \A e \in Events : Held(e)'
      /\ TypesFromPool \in [Buffers -> EventTypes]
      /\ SocketsFromPool \in [Buffers -> Sockets \cup {NoSocket}]
      /\ \A e \in Events : \A c \in IOs(e) :
            TypesFromPool[c] = io_event_type_[c] /\ SocketsFromPool[c] = io_socket_ptr_[c]
  BY <1>2, GotBuffer
<1>9. socket_shared_ptr_[k] \in Sockets /\ k \in completion_key_ptr_cache_
  BY <1>7, NoSocketUsed
<1>10. /\ io_event_type_' \in [Buffers -> EventTypes]
       /\ io_socket_ptr_' \in [Buffers -> Sockets \cup {NoSocket}]
       /\ io_event_type_'[b] = "READ"
       /\ \A c \in Buffers \ {b} : /\ io_event_type_'[c] = TypesFromPool[c]
                                   /\ io_socket_ptr_'[c] = SocketsFromPool[c]
  BY <1>2, <1>8, <1>9 DEF EventTypes
<1>11. \A e \in Events : \A c \in IOs(e) :
          io_event_type_'[c] = io_event_type_[c] /\ io_socket_ptr_'[c] = io_socket_ptr_[c]
  <2>1. \A e \in Events : \A c \in IOs(e) : c \in Buffers \ {b}
    BY <1>8 DEF UniqueInv, Held, ServerTyping, TypeOK, BufferTypeOK
  <2>. QED  BY <1>8, <1>10, <2>1
<1>12. /\ socket_io_buffer_cache_' \in [Keys \cup {Listen} -> SUBSET Buffers]
       /\ socket_io_buffer_cache_'[k] = socket_io_buffer_cache_[k] \cup {b}
       /\ \A l \in (Keys \cup {Listen}) \ {k} :
             socket_io_buffer_cache_'[l] = socket_io_buffer_cache_[l]
  BY <1>2, <1>7 DEF ServerTyping, TypeOK
<1>13. Unaffected(e0, NoSocket)
  <2>1. \A l \in Keys : \A c : c # b =>
           (c \in socket_io_buffer_cache_'[l] <=> c \in socket_io_buffer_cache_[l])
    BY <1>12
  <2>. QED  BY <1>3, <1>8, <1>11, <2>1, NoSocketUsed DEF Unaffected
<1>14. \A l \in Keys : Reads(e1, l)' <=> l = k
  <2>1. ReaderKey(e1)' = ReaderKey(e1)
    BY DEF ReaderKey
  <2>. QED  BY <1>7, <2>1 DEF Reads, Arriving
<1>15. ~Accepts(e1)'
  BY <1>7 DEF Accepts, Arriving
<1>16. b # NoBuffer /\ e0.io \in Buffers /\ e0.io # NoBuffer /\ e0.io # b
       /\ IOs(e0) = {e0.io} /\ IOs(e1) = {e0.io, b}
  BY <1>7, <1>8, ServerConstants DEF Placed, IOs
<1>17. EventOK(e1)'
  <2>1. Placed(e1)'
    <3>1. ReaderKey(e1)' = ReaderKey(e1)
      BY DEF ReaderKey
    <3>. QED  BY <1>3, <1>7, <1>9, <1>10, <1>12, <1>14, <1>16, <3>1 DEF Placed, Arriving
  <2>2. ReaderDelivers(e1, socket_shared_ptr_[k])'
    BY <1>3, <1>7 DEF ReaderDelivers, EventOK, Arriving
  <2>. QED  BY <1>14, <1>15, <2>1, <2>2 DEF EventOK
<1>18. BuffersPass(e0, {e1})
  <2>1. Held(e1)'
    BY <1>7, <1>8, <1>16 DEF Held, IOs
  <2>. QED  BY <1>7, <1>8, <1>16, <2>1 DEF BuffersPass
<1>19. ReadersPass(e0, {e1})
  BY <1>7, <1>14 DEF ReadersPass
<1>20. CachesPass(e0, {e1})
  <2>1. ASSUME NEW l \in completion_key_ptr_cache_', HasReader(l)',
               NEW c \in socket_io_buffer_cache_'[l], c \in IOs(e0) \/ (l = k /\ c = b)
        PROVE  Owned(e1, l, c)
    <3>1. l \in completion_key_ptr_cache_ /\ l \in Keys
      BY <1>3, <2>1 DEF ServerTyping, TypeOK
    <3>2. HasReader(l)
      BY <1>7, <1>13, <1>19, <2>1, <3>1, HadReader
    <3>3. CASE l = k /\ c = b
      BY <1>7, <3>3 DEF Owned
    <3>4. CASE c \in IOs(e0)
      <4>1. c \in socket_io_buffer_cache_[l]
        BY <1>12, <1>16, <2>1, <3>1, <3>4
      <4>2. e0.io = c /\ e0.key = l
        BY <1>7, <3>1, <3>2, <3>4, <4>1, OwnedByReader
      <4>. QED  BY <1>7, <4>2 DEF Owned
    <3>. QED  BY <2>1, <3>3, <3>4
  <2>2. \A l \in completion_key_ptr_cache_' : l \in completion_key_ptr_cache_ /\ l \in Keys
    BY <1>3 DEF ServerTyping, TypeOK
  <2>. QED  BY <1>12, <2>1, <2>2 DEF CachesPass
<1>21. SocketInv'
  <2>1. AcceptsPass(e0, {e1})
    BY <1>15 DEF AcceptsPass
  <2>2. \A l \in completion_key_ptr_cache_ : peer'[socket_shared_ptr_[l]] \in {"up", "gone"}
    BY <1>3 DEF SocketInv
  <2>3. OperationSockets'
    <3>1. ASSUME NEW p \in pending
          PROVE  io_socket_ptr_'[p.io] = io_socket_ptr_[p.io]
      <4>1. OpEvent(p) \in Events /\ OpEvent(p).io = p.io
        BY HolderHasEvent, EventFields
      <4>2. p.io \in IOs(OpEvent(p))
        BY <4>1, ServerConstants DEF IOs, EventInv, EventOK, Placed
      <4>. QED  BY <1>11, <4>1, <4>2
    <3>. QED  BY <1>3, <3>1 DEF SocketInv, OperationSockets
  <2>. QED  BY <1>3, <1>7, <1>13, <2>1, <2>2, <2>3, KeepSockets
<1>22. TypeOK'
  BY <1>3, <1>8, <1>10, <1>12 DEF ServerTyping, TypeOK, SocketPoolTypeOK
<1>23. OrderInv' /\ received' \in [Sockets -> Nat] /\ dispatched' \in [Sockets -> Seq(Nat)]
  BY <1>3 DEF OrderInv, ServerTyping
<1>. QED  BY <1>6, <1>13, <1>17, <1>18, <1>19, <1>20, <1>21, <1>22, <1>23, StepInv

\* The socket that GetNextUnuseSocket hands out is nobody's.
LEMMA GotSocket ==
    ASSUME ServerInv, NEW s \in Sockets, NEW added \in SocketReallocations(FreshSockets),
           GetNextUnuseSocket(s, added, FreshSockets)
    PROVE  /\ s \notin socket_inuse_pool_
           /\ socket_inuse_pool_' = socket_inuse_pool_ \cup {s}
           /\ shared_socket_pool_' \cap socket_inuse_pool_' = {}
           /\ SocketPoolTypeOK'
<1>. USE DEF ServerInv
<1>1. added \subseteq FreshSockets /\ Cardinality(added) \in Nat
  <2>1. added \subseteq FreshSockets
    BY DEF SocketReallocations, kSubset
  <2>2. IsFiniteSet(added)
    BY <2>1, SocketsFinite, FS_Subset DEF FreshSockets
  <2>. QED  BY <2>1, <2>2, FS_CardinalityType
<1>2. FreshSockets \subseteq Sockets \ socket_inuse_pool_
  BY DEF FreshSockets, LiveSockets
<1>3. /\ shared_socket_pool_ \cap socket_inuse_pool_ = {}
      /\ shared_socket_pool_ \subseteq Sockets /\ socket_inuse_pool_ \subseteq Sockets
      /\ poolsize_ \in 0..PreAllocateSocketNum
  BY DEF SocketInv, ServerTyping, TypeOK, SocketPoolTypeOK
<1>4. CountSockets(Cardinality(added)) \in 0..PreAllocateSocketNum
  BY <1>1, <1>3, SocketPoolSizes DEF CountSockets
<1>. QED  BY <1>1, <1>2, <1>3, <1>4 DEF GetNextUnuseSocket, SocketPoolTypeOK

\* The next accept gets a buffer and a socket that nobody has.
LEMMA GetAcceptBufferInv ==
    ASSUME ServerInv, NEW t \in Threads, GetAcceptBuffer(t), UNCHANGED <<raced, misread>>
    PROVE  ServerInv'
<1>. USE DEF ServerInv
<1>1. PICK b \in Buffers, s \in Sockets, added \in SocketReallocations(FreshSockets) :
          /\ GetIOContextBuffer(b)
          /\ GetNextUnuseSocket(s, added, FreshSockets)
          /\ io_event_type_' = [TypesFromPool EXCEPT ![b] = "ACCEPT"]
          /\ io_socket_ptr_' = [SocketsFromPool EXCEPT ![b] = s]
          /\ socket_io_buffer_cache_' = [socket_io_buffer_cache_ EXCEPT ![Listen] = @ \cup {b}]
          /\ peer' = [peer EXCEPT ![s] = "none"]
          /\ received' = [received EXCEPT ![s] = 0]
          /\ dispatched' = [dispatched EXCEPT ![s] = <<>>]
          /\ worker' = [worker EXCEPT ![t].pc = "post_accept", ![t].new_io = b]
  BY DEF GetAcceptBuffer
<1>2. /\ worker[t].pc = "get_accept_io"
      /\ UNCHANGED <<pending, port, resource_global_lock_, completion_key_ptr_cache_,
                     socket_shared_ptr_, raced, misread>>
  BY DEF GetAcceptBuffer, At
<1>3. /\ s \notin socket_inuse_pool_
      /\ socket_inuse_pool_' = socket_inuse_pool_ \cup {s}
      /\ shared_socket_pool_' \cap socket_inuse_pool_' = {}
      /\ SocketPoolTypeOK'
  BY <1>1, GotSocket
<1>4. PICK w : w = [worker[t] EXCEPT !.pc = "post_accept", !.new_io = b]
  OBVIOUS
<1>5. /\ w \in WorkerRecords /\ w.pc = "post_accept" /\ w.io = worker[t].io
      /\ w.key = worker[t].key /\ w.new_key = worker[t].new_key /\ w.new_io = b
      /\ worker' = [worker EXCEPT ![t] = w]
  BY <1>1, <1>4 DEF ServerTyping, WorkerRecords, PCs
<1>6. PICK e0, e1 : /\ WorkerHas(t, e0) /\ WorkerGoes(t, e0, w, {}, {e1})
                    /\ e1 = WorkerEvent(w)
  BY <1>2, <1>5, GoesWith
<1>7. /\ e0 \in Events /\ EventOK(e0) /\ Placed(e0) /\ e0.stage = "get_accept_io"
      /\ e0.key = Listen /\ e0.new_io = NoBuffer /\ e0.new_key = NoKey
      /\ e1.io = e0.io /\ e1.key = Listen /\ e1.new_key = NoKey
      /\ e1.new_io = b /\ e1.stage = "post_accept" /\ Replaced(e0, {e1})
  <2>1. /\ e0 \in Events /\ EventOK(e0) /\ Placed(e0) /\ e0.stage = "get_accept_io"
        /\ e0.key = worker[t].key /\ e0.new_key = worker[t].new_key
        /\ e0.io = worker[t].io
    BY <1>2, <1>6 DEF WorkerHas, EventOK
  <2>2. /\ e1.io = e0.io /\ e1.key = e0.key /\ e1.new_key = e0.new_key
        /\ e1.new_io = b /\ e1.stage = "post_accept"
    BY <1>5, <1>6, <2>1, EventFields
  <2>3. e0.new_io = NoBuffer /\ e0.new_key = NoKey /\ e0.key = Listen
    BY <2>1 DEF Placed
  <2>. QED  BY <1>6, <2>1, <2>2, <2>3, WorkerMoves
<1>8. /\ BufferTypeOK'
      /\ b \in io_buffer_in_use_' \ io_buffer_cache_'
      /\ \A e \in Events : b \notin IOs(e)
      /\ \A e \in Events : Held(e)'
      /\ TypesFromPool \in [Buffers -> EventTypes]
      /\ SocketsFromPool \in [Buffers -> Sockets \cup {NoSocket}]
      /\ \A e \in Events : \A c \in IOs(e) :
            TypesFromPool[c] = io_event_type_[c] /\ SocketsFromPool[c] = io_socket_ptr_[c]
  BY <1>1, GotBuffer
<1>9. /\ io_event_type_' \in [Buffers -> EventTypes]
      /\ io_socket_ptr_' \in [Buffers -> Sockets \cup {NoSocket}]
      /\ io_event_type_'[b] = "ACCEPT" /\ io_socket_ptr_'[b] = s
      /\ \A c \in Buffers \ {b} : /\ io_event_type_'[c] = TypesFromPool[c]
                                  /\ io_socket_ptr_'[c] = SocketsFromPool[c]
  BY <1>1, <1>8 DEF EventTypes
<1>10. \A e \in Events : \A c \in IOs(e) :
          io_event_type_'[c] = io_event_type_[c] /\ io_socket_ptr_'[c] = io_socket_ptr_[c]
  <2>1. \A e \in Events : \A c \in IOs(e) : c \in Buffers \ {b}
    BY <1>8 DEF UniqueInv, Held, ServerTyping, TypeOK, BufferTypeOK
  <2>. QED  BY <1>8, <1>9, <2>1
<1>11. /\ socket_io_buffer_cache_' \in [Keys \cup {Listen} -> SUBSET Buffers]
       /\ \A l \in Keys : socket_io_buffer_cache_'[l] = socket_io_buffer_cache_[l]
  BY <1>1, ServerConstants DEF ServerTyping, TypeOK
<1>12. /\ \A e \in Events : \A k \in Keys : Reads(e, k) =>
             k \in completion_key_ptr_cache_ /\ socket_shared_ptr_[k] # s
       /\ \A e \in Events : Accepts(e) => AcceptSocket(e) # s
       /\ \A k \in completion_key_ptr_cache_ : socket_shared_ptr_[k] # s
  BY <1>3, NoSocketUsed DEF SocketInv
<1>13. /\ peer' \in [Sockets -> {"none", "up", "gone", "closed"}]
       /\ received' \in [Sockets -> Nat] /\ dispatched' \in [Sockets -> Seq(Nat)]
       /\ received'[s] = 0 /\ dispatched'[s] = <<>>
       /\ \A r \in Sockets \ {s} :
             peer'[r] = peer[r] /\ received'[r] = received[r] /\ dispatched'[r] = dispatched[r]
  BY <1>1 DEF ServerTyping, TypeOK
<1>14. Unaffected(e0, s)
  BY <1>2, <1>10, <1>11, <1>12, <1>13 DEF Unaffected
<1>15. (\A l \in Keys : ~Reads(e1, l)') /\ Accepts(e1)' /\ AcceptSocket(e1)' = s
  BY <1>7, <1>9 DEF Reads, Accepts, AcceptSocket, Arriving
<1>16. b # NoBuffer /\ e0.io \in Buffers /\ e0.io # NoBuffer /\ e0.io # b
       /\ IOs(e0) = {e0.io} /\ IOs(e1) = {e0.io, b}
  BY <1>7, <1>8, ServerConstants DEF Placed, IOs
<1>17. EventOK(e1)'
  <2>1. Placed(e1)'
    BY <1>7, <1>9, <1>15, <1>16 DEF Placed, Arriving
  <2>2. Len(dispatched'[s]) = 0
    BY <1>13
  <2>3. AcceptDelivers(e1, s)'
    BY <1>7, <1>13, <2>2 DEF AcceptDelivers, Arriving
  <2>. QED  BY <1>15, <2>1, <2>3 DEF EventOK
<1>18. BuffersPass(e0, {e1})
  <2>1. Held(e1)'
    BY <1>7, <1>8, <1>16 DEF Held, IOs
  <2>. QED  BY <1>7, <1>8, <1>16, <2>1 DEF BuffersPass
<1>19. ReadersPass(e0, {e1})
  BY <1>15 DEF ReadersPass
<1>20. CachesPass(e0, {e1})
  <2>1. ASSUME NEW l \in completion_key_ptr_cache_', HasReader(l)',
               NEW c \in socket_io_buffer_cache_'[l], c \in IOs(e0)
        PROVE  FALSE
    <3>1. l \in completion_key_ptr_cache_ /\ l \in Keys /\ l # Listen
      BY <1>2, <2>1, ServerConstants DEF ServerTyping, TypeOK
    <3>2. HasReader(l)
      BY <1>7, <1>14, <1>19, <2>1, <3>1, HadReader
    <3>. QED  BY <1>7, <1>11, <2>1, <3>1, <3>2, OwnedByReader
  <2>2. \A l \in completion_key_ptr_cache_' : l \in completion_key_ptr_cache_ /\ l \in Keys
    BY <1>2 DEF ServerTyping, TypeOK
  <2>. QED  BY <1>11, <2>1, <2>2 DEF CachesPass
<1>21. SocketInv'
  <2>1. /\ \A k \in completion_key_ptr_cache_' :
              /\ socket_shared_ptr_'[k] \in socket_inuse_pool_'
              /\ peer'[socket_shared_ptr_'[k]] \in {"up", "gone"}
        /\ \A k, l \in completion_key_ptr_cache_' :
              socket_shared_ptr_'[k] = socket_shared_ptr_'[l] => k = l
    <3>1. \A k \in completion_key_ptr_cache_ :
              /\ socket_shared_ptr_[k] \in Sockets \ {s}
              /\ socket_shared_ptr_[k] \in socket_inuse_pool_
      BY <1>12 DEF SocketInv, ServerTyping, TypeOK, SocketPoolTypeOK
    <3>. QED  BY <1>2, <1>3, <1>13, <3>1 DEF SocketInv
  <2>2. OperationSockets'
    <3>1. ASSUME NEW p \in pending
          PROVE  io_socket_ptr_'[p.io] = io_socket_ptr_[p.io]
      <4>1. OpEvent(p) \in Events /\ OpEvent(p).io = p.io
        BY HolderHasEvent, EventFields
      <4>2. p.io \in IOs(OpEvent(p))
        BY <4>1, ServerConstants DEF IOs, EventInv, EventOK, Placed
      <4>. QED  BY <1>10, <4>1, <4>2
    <3>. QED  BY <1>2, <3>1 DEF SocketInv, OperationSockets
  <2>3. \A e \in Events \ {e0} : /\ Accepts(e)' <=> Accepts(e)
                                 /\ Accepts(e) => AcceptSocket(e)' = AcceptSocket(e)
    BY <1>14, OtherEvents
  <2>4. ASSUME NEW e \in Events', Accepts(e)'
        PROVE  /\ AcceptSocket(e)' \in socket_inuse_pool_'
               /\ \A k \in completion_key_ptr_cache_' : socket_shared_ptr_'[k] # AcceptSocket(e)'
    BY <1>2, <1>3, <1>7, <1>12, <1>15, <2>3, <2>4 DEF SocketInv, Replaced
  <2>5. ASSUME NEW e \in Events', NEW f \in Events', Accepts(e)', Accepts(f)',
               AcceptSocket(e)' = AcceptSocket(f)'
        PROVE  e = f
    BY <1>7, <1>12, <1>15, <2>3, <2>5 DEF SocketInv, Replaced
  <2>. QED  BY <1>3, <2>1, <2>2, <2>4, <2>5 DEF SocketInv
<1>22. TypeOK'
  BY <1>2, <1>3, <1>8, <1>9, <1>11, <1>13 DEF ServerTyping, TypeOK
<1>23. OrderInv'
  <2>1. \A i \in 1..Len(dispatched'[s]) : FALSE
    BY <1>13
  <2>. QED  BY <1>13, <2>1 DEF OrderInv
<1>. QED  BY <1>6, <1>13, <1>14, <1>17, <1>18, <1>19, <1>20, <1>21, <1>22, <1>23, StepInv

\* The accepted connection gets its key: the accept becomes its reader.
LEMMA CreateNewSocketContextInv ==
    ASSUME ServerInv, NEW t \in Threads, CreateNewSocketContext(t), UNCHANGED <<raced, misread>>
    PROVE  ServerInv'
<1>. USE DEF ServerInv
<1>1. PICK s : s = io_socket_ptr_[IO(t)]
  OBVIOUS
<1>2. PICK k \in FreshKeys :
          /\ completion_key_ptr_cache_' = completion_key_ptr_cache_ \cup {k}
          /\ socket_io_buffer_cache_' = [socket_io_buffer_cache_ EXCEPT ![k] = {}]
          /\ socket_shared_ptr_' = [socket_shared_ptr_ EXCEPT ![k] = s]
          /\ worker' = [worker EXCEPT ![t].pc = "get_io", ![t].new_key = k]
  BY <1>1 DEF CreateNewSocketContext
<1>3. /\ worker[t].pc = "create_context"
      /\ UNCHANGED <<io_buffer_cache_, io_buffer_in_use_, io_buffer_manager_inited_,
                     shared_socket_pool_, socket_inuse_pool_, poolsize_, io_event_type_,
                     io_socket_ptr_, pending, port, peer, received, dispatched,
                     resource_global_lock_, raced, misread>>
  BY DEF CreateNewSocketContext, At, poolVars, bufferVars, socketPoolVars, fieldVars, kernelVars
<1>4. /\ k \in Keys /\ k # NoKey /\ k # Listen /\ k \notin completion_key_ptr_cache_
      /\ \A u \in Threads : worker[u].key # k /\ worker[u].new_key # k
  BY ServerConstants DEF FreshKeys, LiveKeys
<1>5. PICK w : w = [worker[t] EXCEPT !.pc = "get_io", !.new_key = k]
  OBVIOUS
<1>6. /\ w \in WorkerRecords /\ w.pc = "get_io" /\ w.io = worker[t].io
      /\ w.key = worker[t].key /\ w.new_key = k /\ w.new_io = worker[t].new_io
      /\ worker' = [worker EXCEPT ![t] = w]
  BY <1>2, <1>4, <1>5 DEF ServerTyping, WorkerRecords, PCs
<1>7. PICK e0, e1 : /\ WorkerHas(t, e0) /\ WorkerGoes(t, e0, w, {}, {e1})
                    /\ e1 = WorkerEvent(w)
  BY <1>3, <1>6, GoesWith
<1>8. /\ e0 \in Events /\ EventOK(e0) /\ Placed(e0) /\ e0.stage = "create_context"
      /\ e0.key = Listen /\ e0.new_io = NoBuffer /\ e0.io = IO(t)
      /\ e1.io = e0.io /\ e1.key = Listen /\ e1.new_key = k
      /\ e1.new_io = NoBuffer /\ e1.stage = "get_io" /\ ReaderKey(e1) = k
      /\ Replaced(e0, {e1})
  <2>1. /\ e0 \in Events /\ EventOK(e0) /\ Placed(e0) /\ e0.stage = "create_context"
        /\ e0.key = worker[t].key /\ e0.new_io = worker[t].new_io
        /\ e0.io = worker[t].io
    BY <1>3, <1>7 DEF WorkerHas, EventOK
  <2>2. /\ e1.io = e0.io /\ e1.key = e0.key /\ e1.new_key = k
        /\ e1.new_io = e0.new_io /\ e1.stage = "get_io"
    BY <1>6, <1>7, <2>1, EventFields
  <2>3. e0.new_io = NoBuffer /\ e0.key = Listen
    BY <2>1 DEF Placed
  <2>. QED  BY <1>4, <1>7, <2>1, <2>2, <2>3, WorkerMoves DEF IO, ReaderKey
<1>9. /\ Accepts(e0) /\ AcceptSocket(e0) = s /\ s \in socket_inuse_pool_ /\ s \in Sockets
      /\ \A l \in completion_key_ptr_cache_ : socket_shared_ptr_[l] # s
      /\ \A e \in Events \ {e0} : Accepts(e) => AcceptSocket(e) # s
      /\ Len(dispatched[s]) = received[s] /\ peer[s] \in {"up", "gone"}
  <2>1. Accepts(e0) /\ AcceptSocket(e0) = s
    BY <1>1, <1>8 DEF Accepts, AcceptSocket
  <2>2. Len(dispatched[s]) = received[s] /\ peer[s] \in {"up", "gone"}
    BY <1>8, <2>1 DEF EventOK, Placed, AcceptDelivers, Arriving
  <2>. QED  BY <1>8, <2>1, <2>2, NoSocketUsed DEF SocketInv
<1>10. /\ socket_io_buffer_cache_' \in [Keys \cup {Listen} -> SUBSET Buffers]
       /\ socket_shared_ptr_' \in [Keys \cup {Listen} -> Sockets \cup {NoSocket}]
       /\ socket_io_buffer_cache_'[k] = {} /\ socket_shared_ptr_'[k] = s
       /\ \A l \in Keys \ {k} : /\ socket_io_buffer_cache_'[l] = socket_io_buffer_cache_[l]
                                /\ socket_shared_ptr_'[l] = socket_shared_ptr_[l]
  BY <1>2, <1>4, <1>9 DEF ServerTyping, TypeOK
<1>11. ASSUME NEW e \in Events, e.key = k \/ ReaderKey(e) = k, NEW b \in IOs(e)
       PROVE  b \notin socket_io_buffer_cache_[k]
  <2>1. /\ e.stage \in {"ACCEPT", "READ", "WRITE", "packet"}
        /\ e.new_key = NoKey /\ e.new_io = NoBuffer
    BY <1>4, <1>11, EventPlaces DEF ReaderKey
  <2>2. e.key = k /\ b = e.io
    BY <1>11, <2>1 DEF ReaderKey, IOs
  <2>3. Placed(e) /\ ~Reads(e, k)
    BY <1>4, NoSocketUsed DEF EventInv, EventOK
  <2>. QED  BY <1>4, <2>1, <2>2, <2>3 DEF Placed, Reads, Arriving
<1>12. \A e \in Events : \A l \in Keys : Reads(e, l) => l # k
  BY <1>4, NoSocketUsed
<1>13. Unaffected(e0, NoSocket)
  BY <1>2, <1>3, <1>10, <1>11, <1>12, NoSocketUsed DEF Unaffected
<1>14. \A l \in Keys : Reads(e1, l)' <=> l = k
  <2>1. ReaderKey(e1)' = ReaderKey(e1)
    BY DEF ReaderKey
  <2>. QED  BY <1>8, <2>1 DEF Reads, Arriving
<1>15. ~Accepts(e1)'
  BY <1>8 DEF Accepts, Arriving
<1>16. EventOK(e1)'
  <2>1. Placed(e1)'
    <3>1. ReaderKey(e1)' = ReaderKey(e1)
      BY DEF ReaderKey
    <3>. QED  BY <1>2, <1>4, <1>8, <1>14, <3>1 DEF Placed, Arriving
  <2>2. ReaderDelivers(e1, s)'
    BY <1>3, <1>8, <1>9 DEF ReaderDelivers, Arriving
  <2>. QED  BY <1>10, <1>14, <1>15, <2>1, <2>2 DEF EventOK
<1>17. IOs(e1) = IOs(e0) /\ e1.io # e1.new_io
  BY <1>8 DEF IOs, UniqueInv
<1>18. BuffersPass(e0, {e1})
  <2>1. \A e \in Events : Held(e)'
    BY <1>3 DEF UniqueInv, Held, IOs
  <2>2. Held(e1)'
    BY <1>8, <2>1 DEF Held, IOs
  <2>. QED  BY <1>8, <1>17, <2>1, <2>2 DEF BuffersPass
<1>19. ReadersPass(e0, {e1})
  BY <1>4, <1>14 DEF ReadersPass
<1>20. CachesPass(e0, {e1})
  <2>1. ASSUME NEW l \in completion_key_ptr_cache_, l \in Keys, l # k, HasReader(l)',
               NEW c \in socket_io_buffer_cache_[l], c \in IOs(e0)
        PROVE  FALSE
    <3>1. HasReader(l)
      BY <1>8, <1>13, <1>19, <2>1, HadReader
    <3>. QED  BY <1>8, <2>1, <3>1, OwnedByReader, ServerConstants
  <2>2. \A l \in completion_key_ptr_cache_' : l # k => l \in completion_key_ptr_cache_ /\ l \in Keys
    BY <1>2 DEF ServerTyping, TypeOK
  <2>. QED  BY <1>10, <2>1, <2>2 DEF CachesPass
<1>21. SocketInv'
  <2>0. completion_key_ptr_cache_ \subseteq Keys \ {k}
    BY <1>4 DEF ServerTyping, TypeOK
  <2>1. /\ \A l \in completion_key_ptr_cache_' :
              /\ socket_shared_ptr_'[l] \in socket_inuse_pool_'
              /\ peer'[socket_shared_ptr_'[l]] \in {"up", "gone"}
        /\ \A l, m \in completion_key_ptr_cache_' :
              socket_shared_ptr_'[l] = socket_shared_ptr_'[m] => l = m
    BY <1>2, <1>3, <1>9, <1>10, <2>0 DEF SocketInv
  <2>2. OperationSockets'
    <3>1. \A p \in pending : p.op = "READ" => p.key \in Keys \ {k}
      <4>1. ASSUME NEW p \in pending, p.op = "READ"
            PROVE  p.key \in Keys \ {k}
        <5>1. OpEvent(p) \in Events /\ OpEvent(p).key = p.key /\ OpEvent(p).stage = "READ"
          BY <4>1, HolderHasEvent, EventFields DEF OpStage
        <5>2. p.key \in Keys /\ Reads(OpEvent(p), p.key)
          BY <5>1 DEF EventInv, EventOK, Placed, Reads
        <5>. QED  BY <1>12, <5>1, <5>2
      <4>. QED  BY <4>1
    <3>. QED  BY <1>3, <1>10, <3>1 DEF SocketInv, OperationSockets
  <2>3. \A e \in Events \ {e0} : /\ Accepts(e)' <=> Accepts(e)
                                 /\ Accepts(e) => AcceptSocket(e)' = AcceptSocket(e)
    BY <1>13, OtherEvents
  <2>4. \A e \in Events' : Accepts(e)' =>
           e \in Events \ {e0} /\ Accepts(e) /\ AcceptSocket(e)' = AcceptSocket(e)
    BY <1>8, <1>15, <2>3 DEF Replaced
  <2>5. ASSUME NEW e \in Events', Accepts(e)'
        PROVE  /\ AcceptSocket(e)' \in socket_inuse_pool_'
               /\ \A l \in completion_key_ptr_cache_' : socket_shared_ptr_'[l] # AcceptSocket(e)'
    BY <1>2, <1>3, <1>9, <1>10, <2>0, <2>4, <2>5 DEF SocketInv
  <2>6. ASSUME NEW e \in Events', NEW f \in Events', Accepts(e)', Accepts(f)',
               AcceptSocket(e)' = AcceptSocket(f)'
        PROVE  e = f
    BY <2>4, <2>6 DEF SocketInv
  <2>7. shared_socket_pool_' \cap socket_inuse_pool_' = {}
    BY <1>3 DEF SocketInv
  <2>. QED  BY <2>1, <2>2, <2>5, <2>6, <2>7 DEF SocketInv
<1>22. TypeOK'
  BY <1>2, <1>3, <1>4, <1>10 DEF ServerTyping, TypeOK, BufferTypeOK, SocketPoolTypeOK
<1>23. OrderInv' /\ received' \in [Sockets -> Nat] /\ dispatched' \in [Sockets -> Seq(Nat)]
  BY <1>3 DEF OrderInv, ServerTyping
<1>. QED  BY <1>7, <1>13, <1>16, <1>18, <1>19, <1>20, <1>21, <1>22, <1>23, StepInv

\* A packet leaves the port: N is the event of the worker that has it now.
LEMMA DequeueMoves ==
    ASSUME ServerInv, port # <<>>, port' = Tail(port), pending' = pending,
           NEW p, p = Head(port), NEW t \in Threads, worker[t].pc = "loop", NEW N,
           \/ worker' = worker /\ N = {}
           \/ \E w \in WorkerRecords : /\ w.pc # "loop" /\ w.io = p.io
                                       /\ worker' = [worker EXCEPT ![t] = w]
                                       /\ N = {WorkerEvent(w)}
    PROVE  PacketEvent(p) \in Events /\ Moved(PacketEvent(p), N)
<1>. USE DEF ServerInv
<1>. DEFINE e0 == PacketEvent(p)
            n == Len(port)
<1>1. /\ port \in Seq(Packets) /\ n \in Nat /\ n > 0 /\ p = port[1] /\ 1 \in 1..n
      /\ Len(port') = n - 1 /\ port' \in Seq(Packets)
      /\ \A i \in 1..n - 1 : port'[i] = port[i + 1] /\ i + 1 \in 1..n /\ i + 1 # 1
      /\ \A i \in 1..n : i # 1 => i - 1 \in 1..n - 1 /\ port'[i - 1] = port[i]
  BY DEF ServerTyping
<1>. HIDE DEF n
<1>2. \A i \in 1..n : i # 1 => port[i].io # p.io
  BY <1>1 DEF UniqueInv, PacketsApart, n
<1>3. PacketEvents' = PacketEvents \ {e0}
  <2>1. PacketEvents' = {PacketEvent(port'[i]) : i \in 1..n - 1}
    BY <1>1 DEF PacketEvents, PacketEvent
  <2>2. PacketEvents = {PacketEvent(port[i]) : i \in 1..n}
    BY DEF PacketEvents, n
  <2>3. \A i \in 1..n : i # 1 => PacketEvent(port[i]) # e0
    BY <1>2, EventFields
  <2>. HIDE DEF e0
  <2>4. ASSUME NEW e \in PacketEvents' PROVE e \in PacketEvents \ {e0}
    <3>1. PICK i \in 1..n - 1 : e = PacketEvent(port'[i])
      BY <2>1
    <3>2. port'[i] = port[i + 1] /\ i + 1 \in 1..n /\ i + 1 # 1
      BY <1>1
    <3>. QED  BY <2>2, <2>3, <3>1, <3>2
  <2>5. ASSUME NEW e \in PacketEvents \ {e0} PROVE e \in PacketEvents'
    <3>1. PICK i \in 1..n : e = PacketEvent(port[i])
      BY <2>2
    <3>2. i # 1
      BY <1>1, <3>1 DEF e0
    <3>3. i - 1 \in 1..n - 1 /\ port'[i - 1] = port[i]
      BY <1>1, <3>2
    <3>. QED  BY <2>1, <3>1, <3>3
  <2>. QED  BY <2>4, <2>5
<1>4. e0 \in PacketEvents /\ e0 \in Events /\ e0.io = p.io /\ e0 \notin OpEvents \cup WorkerEvents
  <2>1. e0 \in PacketEvents
    BY <1>1 DEF PacketEvents, n
  <2>. QED  BY <2>1, PlacesDisjoint, EventFields DEF Events
<1>5. OpEvents' = OpEvents
  BY DEF OpEvents, OpEvent, OpStage
<1>6. WorkerEvents' = WorkerEvents \cup N
  <2>1. CASE worker' = worker /\ N = {}
    BY <2>1 DEF WorkerEvents, WorkerEvent, Busy
  <2>2. ASSUME NEW w \in WorkerRecords, w.pc # "loop",
               worker' = [worker EXCEPT ![t] = w], N = {WorkerEvent(w)}
        PROVE  WorkerEvents' = WorkerEvents \cup N
    <3>1. worker'[t] = w /\ \A u \in Threads \ {t} : worker'[u] = worker[u]
      BY <2>2 DEF ServerTyping
    <3>2. Busy' = Busy \cup {t} /\ t \notin Busy /\ Busy \subseteq Threads
      BY <2>2, <3>1 DEF Busy
    <3>3. WorkerEvents' = {WorkerEvent(worker'[u]) : u \in Busy \cup {t}}
      BY <3>2 DEF WorkerEvents, WorkerEvent
    <3>. QED  BY <2>2, <3>1, <3>2, <3>3 DEF WorkerEvents
  <2>. QED  BY <2>1, <2>2
<1>7. Replaced(e0, N)
  <2>. HIDE DEF e0
  <2>. QED  BY <1>3, <1>4, <1>5, <1>6 DEF Events, Replaced
<1>8. OperationsApart'
  BY DEF UniqueInv, OperationsApart
<1>9. PacketsApart'
  <2>1. ASSUME NEW i \in 1..n - 1, NEW j \in 1..n - 1, port'[i].io = port'[j].io
        PROVE  i = j
    <3>1. /\ i + 1 \in 1..n /\ j + 1 \in 1..n /\ i \in Nat /\ j \in Nat
          /\ port[i + 1].io = port[j + 1].io
      BY <1>1, <2>1
    <3>2. i + 1 = j + 1
      BY <3>1 DEF UniqueInv, PacketsApart, n
    <3>. QED  BY <3>1, <3>2
  <2>. QED  BY <1>1, <2>1 DEF PacketsApart
<1>10. ASSUME NEW u \in Threads, worker[u].pc # "loop"
       PROVE  worker[u].io # p.io
  <2>1. /\ WorkerEvent(worker[u]) \in Events /\ WorkerEvent(worker[u]).io = worker[u].io
        /\ WorkerEvent(worker[u]) \in WorkerEvents
    BY <1>10, HolderHasEvent, EventFields DEF WorkerEvents, Busy
  <2>2. worker[u].io # NoBuffer
    BY <2>1, ServerConstants DEF EventInv, EventOK, Placed
  <2>. HIDE DEF e0
  <2>. QED  BY <1>4, <2>1, <2>2 DEF UniqueInv, Share, IOs
<1>11. \A u \in Threads : worker[u].io # p.io
  <2>1. \A u \in Threads : worker[u].pc = "loop" => worker[u].io = NoBuffer
    BY DEF ServerTyping, Idle
  <2>2. p.io # NoBuffer
    BY <1>4, ServerConstants DEF EventInv, EventOK, Placed
  <2>. QED  BY <1>10, <2>1, <2>2
<1>12. WorkersApart' /\ PlacesTyping'
  <2>1. CASE worker' = worker
    BY <1>1, <2>1 DEF WorkersApart, PlacesTyping, UniqueInv, ServerTyping
  <2>2. ASSUME NEW w \in WorkerRecords, w.pc # "loop", w.io = p.io,
               worker' = [worker EXCEPT ![t] = w]
        PROVE  WorkersApart' /\ PlacesTyping'
    <3>1. worker'[t] = w /\ \A u \in Threads \ {t} : worker'[u] = worker[u]
      BY <2>2 DEF ServerTyping
    <3>2. WorkersApart'
      BY <1>11, <2>2, <3>1 DEF WorkersApart, UniqueInv
    <3>3. worker' \in [Threads -> WorkerRecords]
      BY <2>2 DEF ServerTyping
    <3>. QED  BY <1>1, <2>2, <3>1, <3>2, <3>3 DEF PlacesTyping, ServerTyping
  <2>. QED  BY <2>1, <2>2
<1>. QED  BY <1>4, <1>7, <1>8, <1>9, <1>12 DEF Moved

\* A worker takes the oldest packet.
LEMMA DequeueInv ==
    ASSUME ServerInv, NEW t \in Threads, Dequeue(t), UNCHANGED <<raced, misread>>
    PROVE  ServerInv'
<1>. USE DEF ServerInv
<1>1. PICK p, e0 : p = Head(port) /\ e0 = PacketEvent(p)
  OBVIOUS
<1>2. /\ worker[t].pc = "loop" /\ port # <<>> /\ port' = Tail(port)
      /\ UNCHANGED <<stateVars, dispatched, pending, resource_global_lock_,
                     io_buffer_cache_, io_buffer_in_use_>>
  BY DEF Dequeue, At, poolVars, bufferVars, socketPoolVars, fieldVars, keyVars, stateVars
<1>3. /\ BufferTypeOK' /\ resource_global_lock_' \in Keys \cup {Listen, NoKey}
      /\ \A e \in Events : Held(e)'
  BY <1>2 DEF stateVars, ServerTyping, TypeOK, BufferTypeOK, UniqueInv, Held, IOs
<1>4. /\ e0.io = p.io /\ e0.key = p.key /\ e0.stage = "packet" /\ e0.ret = p.ret
      /\ e0.chunk = p.chunk /\ e0.new_key = NoKey /\ e0.new_io = NoBuffer
  BY <1>1, EventFields
<1>5. p \in Packets
  BY <1>1, <1>2 DEF ServerTyping
<1>6. CASE io_event_type_[p.io] = "NULL"
  <2>1. worker' = worker
    BY <1>1, <1>6 DEF Dequeue
  <2>2. PICK N : N = {}
    OBVIOUS
  <2>3. e0 \in Events /\ Moved(e0, N)
    BY <1>1, <1>2, <2>1, <2>2, DequeueMoves
  <2>4. Placed(e0)
    BY <2>3 DEF EventInv, EventOK
  <2>5. e0.key \in Keys /\ e0.io \notin socket_io_buffer_cache_[e0.key]
    BY <1>4, <1>6, <2>4 DEF Placed, Arriving
  <2>6. ASSUME NEW k \in completion_key_ptr_cache_, NEW b \in IOs(e0),
               b \in socket_io_buffer_cache_[k], HasReader(k)
        PROVE  FALSE
    BY <1>4, <2>3, <2>5, <2>6, OwnedByReader
  <2>7. Quiet(e0, N)
    BY <1>2, <1>3, <2>2, <2>6 DEF Quiet
  <2>. QED  BY <1>2, <2>2, <2>3, <2>7, QuietMove
<1>7. CASE io_event_type_[p.io] # "NULL"
  <2>1. PICK w : w = [Idle EXCEPT !.pc = "find_key", !.key = p.key, !.io = p.io,
                               !.ret = p.ret, !.chunk = p.chunk]
    OBVIOUS
  <2>2. worker' = [worker EXCEPT ![t] = w]
    BY <1>1, <1>7, <2>1 DEF Dequeue
  <2>3. /\ w \in WorkerRecords /\ w.pc = "find_key" /\ w.io = p.io /\ w.key = p.key
        /\ w.ret = p.ret /\ w.chunk = p.chunk /\ w.new_key = NoKey /\ w.new_io = NoBuffer
    BY <1>5, <2>1 DEF Idle, WorkerRecords, PCs, Packets
  <2>4. PICK e1, N : e1 = WorkerEvent(w) /\ N = {e1}
    OBVIOUS
  <2>5. e0 \in Events /\ Moved(e0, N)
    BY <1>1, <1>2, <2>2, <2>3, <2>4, DequeueMoves
  <2>6. EventOK(e0) /\ SameBut(e0, e1, "find_key")
    BY <1>4, <2>3, <2>4, <2>5, EventFields DEF EventInv, SameBut
  <2>. USE DEF SameBut
  <2>7. \A k \in Keys : Reads(e1, k)' <=> Reads(e0, k)
    BY <1>2, <1>4, <2>6 DEF Reads, Arriving, stateVars
  <2>8. (Accepts(e1)' <=> Accepts(e0)) /\ AcceptSocket(e1)' = AcceptSocket(e0)
    BY <1>2, <1>4, <2>6 DEF Accepts, AcceptSocket, Arriving, stateVars
  <2>9. EventOK(e1)'
    <3>1. Placed(e1)'
      BY <1>2, <1>4, <2>6, <2>7 DEF EventOK, Placed, Arriving, stateVars
    <3>2. \A k \in Keys : Reads(e1, k)' => ReaderDelivers(e1, socket_shared_ptr_[k])'
      BY <1>2, <1>4, <2>6, <2>7 DEF EventOK, ReaderDelivers, Arriving, stateVars
    <3>3. Accepts(e1)' => AcceptDelivers(e1, AcceptSocket(e1))'
      BY <1>2, <1>4, <2>6, <2>8 DEF EventOK, AcceptDelivers, Arriving, stateVars
    <3>. QED  BY <3>1, <3>2, <3>3 DEF EventOK
  <2>10. Held(e1)'
    BY <1>3, <2>5, <2>6 DEF Held, IOs
  <2>11. Quiet(e0, N)
    BY <1>2, <1>3, <1>4, <2>4, <2>6, <2>7, <2>8, <2>9, <2>10 DEF Quiet
  <2>. QED  BY <1>2, <2>4, <2>5, <2>11, QuietMove
<1>. QED  BY <1>6, <1>7

-----------------------------------------------------------------------------
(* Releasing a key.                                                         *)

\* Closing the socket s fails what is outstanding on it.
Aborted(p, s) == IF p.sock = s THEN [p EXCEPT !.op = "ABORTED"] ELSE p

\* Only sends are outstanding on the socket of a key without a reader in the
\* kernel, and they stay the events they were.
LEMMA OnlySendsAbort ==
    ASSUME ServerInv, NEW k \in completion_key_ptr_cache_, NEW s, s = socket_shared_ptr_[k],
           \A p \in pending : p.op = "READ" => p.key # k,
           pending' = {Aborted(p, s) : p \in pending},
           UNCHANGED <<io_socket_ptr_, socket_shared_ptr_>>
    PROVE  /\ OpEvents' = OpEvents
           /\ pending' \subseteq Operations
           /\ OperationsApart' /\ OperationSockets'
<1>. USE DEF ServerInv
<1>1. \A p \in pending : p \in Operations
  BY DEF ServerTyping
<1>2. ASSUME NEW p \in pending, p.sock = s
      PROVE  p.op \in {"WRITE", "ABORTED"}
  <2>1. OpEvent(p) \in Events /\ OpEvent(p).io = p.io /\ OpEvent(p).key = p.key
        /\ OpEvent(p).stage = OpStage(p)
    BY HolderHasEvent, EventFields
  <2>2. PICK e \in Events : e.io = p.io /\ e.key = p.key /\ e.stage = OpStage(p)
    BY <2>1
  <2>3. EventOK(e)
    BY DEF EventInv
  <2>4. p.op # "READ"
    <3>1. SUFFICES ASSUME p.op = "READ" PROVE FALSE
      OBVIOUS
    <3>2. e.stage = "READ" /\ e.key = p.key
      BY <2>2, <3>1 DEF OpStage
    <3>3. p.key \in Keys /\ Reads(e, p.key)
      BY <2>3, <3>2 DEF EventOK, Placed, Reads
    <3>4. p.key \in completion_key_ptr_cache_
      BY <2>3, <3>3 DEF EventOK, Placed
    <3>. QED  BY <1>2, <3>1, <3>4 DEF SocketInv, OperationSockets
  <2>5. p.op # "ACCEPT"
    <3>1. SUFFICES ASSUME p.op = "ACCEPT" PROVE FALSE
      OBVIOUS
    <3>2. e.stage = "ACCEPT"
      BY <2>2, <3>1 DEF OpStage
    <3>3. Accepts(e) /\ AcceptSocket(e) = p.sock
      BY <2>2, <3>1, <3>2 DEF Accepts, AcceptSocket, SocketInv, OperationSockets
    <3>. QED  BY <1>2, <3>3 DEF SocketInv
  <2>. QED  BY <1>1, <2>4, <2>5 DEF Operations
<1>3. ASSUME NEW p \in pending
      PROVE  /\ Aborted(p, s) \in Operations
             /\ Aborted(p, s).io = p.io /\ Aborted(p, s).key = p.key
             /\ Aborted(p, s).sock = p.sock
             /\ OpStage(Aborted(p, s)) = OpStage(p)
             /\ Aborted(p, s).op \in {"READ", "ACCEPT"} => Aborted(p, s) = p
  <2>1. p \in Operations
    BY <1>1
  <2>2. CASE p.sock # s
    BY <2>1, <2>2 DEF Aborted
  <2>3. CASE p.sock = s
    <3>1. p.op \in {"WRITE", "ABORTED"}
      BY <1>2, <2>3
    <3>2. PICK q : q = [p EXCEPT !.op = "ABORTED"]
      OBVIOUS
    <3>3. q \in Operations /\ q.op = "ABORTED" /\ q.io = p.io /\ q.key = p.key /\ q.sock = p.sock
      BY <2>1, <3>2 DEF Operations
    <3>4. Aborted(p, s) = q
      BY <2>3, <3>2 DEF Aborted
    <3>. QED  BY <3>1, <3>3, <3>4 DEF OpStage
  <2>. QED  BY <2>2, <2>3
<1>4. \A p \in pending : OpEvent(Aborted(p, s)) = OpEvent(p)
  BY <1>3 DEF OpEvent
<1>5. OpEvents' = OpEvents
  <2>1. OpEvents' = {OpEvent(q) : q \in pending'}
    BY DEF OpEvents, OpEvent, OpStage
  <2>. QED  BY <1>4, <2>1 DEF OpEvents
<1>6. OperationsApart'
  <2>1. ASSUME NEW p \in pending, NEW q \in pending, Aborted(p, s).io = Aborted(q, s).io
        PROVE  Aborted(p, s) = Aborted(q, s)
    BY <1>3, <2>1 DEF UniqueInv, OperationsApart
  <2>. QED  BY <2>1 DEF OperationsApart
<1>7. OperationSockets'
  <2>1. ASSUME NEW q \in pending', q.op \in {"READ", "ACCEPT"}
        PROVE  q \in pending
    BY <1>3, <2>1
  <2>. QED  BY <2>1 DEF SocketInv, OperationSockets
<1>. QED  BY <1>3, <1>5, <1>6, <1>7

\* Worker t, if there is one, is done with its event e0.
WorkersWithout(e0) ==
    /\ WorkerEvents' = WorkerEvents \ {e0}
    /\ e0 \notin OpEvents \cup PacketEvents
    /\ worker' \in [Threads -> WorkerRecords]
    /\ \A u \in Threads : worker'[u].pc = "loop" => worker'[u] = Idle
    /\ WorkersApart'

\* The release of key k under the last event e0 that it has, or under none.
LastEvent(e0, k) ==
    /\ \A e \in Events \ {e0} : ~Reads(e, k)
    /\ \A e \in Events \ {e0} : IOs(e) \cap socket_io_buffer_cache_[k] = {}
    /\ e0 \in Events => e0.key = k /\ e0.stage \in PCs \ {"post_read"}
    /\ e0 \notin Events => IOs(e0) = {}

\* Only the worker's own event goes: what the kernel and the port have stays.
LEMMA ReleaseMoves ==
    ASSUME ServerInv, NEW k \in completion_key_ptr_cache_, NEW e0,
           ReleaseContextOf(k), WorkersWithout(e0), LastEvent(e0, k)
    PROVE  Moved(e0, {}) /\ OperationSockets'
<1>. USE DEF ServerInv
<1>1. PICK s : s = socket_shared_ptr_[k]
  OBVIOUS
<1>2. /\ pending' = {Aborted(p, s) : p \in pending}
      /\ UNCHANGED <<port, io_socket_ptr_, socket_shared_ptr_>>
  BY <1>1 DEF ReleaseContextOf, fieldVars, Aborted
<1>3. \A p \in pending : p.op = "READ" => p.key # k
  <2>1. ASSUME NEW p \in pending, p.op = "READ", p.key = k
        PROVE  FALSE
    <3>1. OpEvent(p) \in OpEvents /\ OpEvent(p).key = p.key /\ OpEvent(p).stage = OpStage(p)
      BY EventFields DEF OpEvents
    <3>2. PICK e \in OpEvents : e.key = k /\ e.stage = "READ"
      BY <2>1, <3>1 DEF OpStage
    <3>. QED  BY <3>2 DEF LastEvent, WorkersWithout, Events, Reads
  <2>. QED  BY <2>1
<1>4. OpEvents' = OpEvents /\ pending' \subseteq Operations /\ OperationsApart' /\ OperationSockets'
  BY <1>1, <1>2, <1>3, OnlySendsAbort
<1>5. PICK N : N = {}
  OBVIOUS
<1>6. Moved(e0, N)
  <2>1. PacketEvents' = PacketEvents
    BY <1>2 DEF PacketEvents, PacketEvent
  <2>2. Replaced(e0, N)
    BY <1>4, <1>5, <2>1 DEF Replaced, Events, WorkersWithout
  <2>3. PacketsApart'
    BY <1>2 DEF UniqueInv, PacketsApart
  <2>4. port' \in Seq(Packets)
    BY <1>2 DEF ServerTyping
  <2>. QED  BY <1>4, <2>2, <2>3, <2>4 DEF Moved, PlacesTyping, WorkersWithout
<1>. QED  BY <1>4, <1>5, <1>6

\* ReleaseContext_ of a key that nobody else uses preserves the invariant.
LEMMA ReleaseKeepsInv ==
    ASSUME ServerInv, NEW k \in completion_key_ptr_cache_, NEW e0,
           ReleaseContextOf(k), WorkersWithout(e0), LastEvent(e0, k),
           resource_global_lock_' \in Keys \cup {Listen, NoKey},
           raced' \in BOOLEAN, misread' \in BOOLEAN
    PROVE  ServerInv'
<1>. USE DEF ServerInv
<1>1. PICK s : s = socket_shared_ptr_[k]
  OBVIOUS
<1>2. /\ ReleaseIOBuffers(socket_io_buffer_cache_[k])
      /\ socket_inuse_pool_' = socket_inuse_pool_ \ {s}
      /\ peer' = [peer EXCEPT ![s] = "closed"]
      /\ pending' = {Aborted(p, s) : p \in pending}
      /\ completion_key_ptr_cache_' = completion_key_ptr_cache_ \ {k}
      /\ UNCHANGED <<shared_socket_pool_, poolsize_, io_event_type_, io_socket_ptr_,
                     dispatched, port, received, socket_io_buffer_cache_, socket_shared_ptr_>>
  BY <1>1 DEF ReleaseContextOf, CloseSockAndPush2ReusedPool, EraseKey, fieldVars, Aborted
<1>3. /\ k \in Keys /\ s \in Sockets /\ s \in socket_inuse_pool_
      /\ \A l \in completion_key_ptr_cache_ \ {k} : socket_shared_ptr_[l] # s
      /\ \A e \in Events : Accepts(e) => AcceptSocket(e) # s
  BY <1>1 DEF SocketInv, ServerTyping, TypeOK, SocketPoolTypeOK
<1>4. PICK N : N = {}
  OBVIOUS
<1>5. Moved(e0, N) /\ OperationSockets'
  BY <1>4, ReleaseMoves
<1>6. /\ peer' \in [Sockets -> {"none", "up", "gone", "closed"}]
      /\ \A x \in Sockets \ {s} : peer'[x] = peer[x]
  BY <1>2, <1>3 DEF ServerTyping, TypeOK
<1>7. \A e \in Events : \A l \in Keys : Reads(e, l) => l \in completion_key_ptr_cache_
  BY NoSocketUsed
<1>8. Unaffected(e0, s)
  <2>1. ASSUME NEW e \in Events \ {e0}, NEW l \in Keys, Reads(e, l)
        PROVE  l \in completion_key_ptr_cache_' /\ socket_shared_ptr_[l] # s
    <3>1. l # k
      BY <2>1 DEF LastEvent
    <3>. QED  BY <1>2, <1>3, <1>7, <2>1, <3>1
  <2>. QED  BY <1>2, <1>3, <1>6, <2>1 DEF Unaffected
<1>9. BufferTypeOK' /\ \A e \in Events \ {e0} : Held(e)'
  <2>1. BufferTypeOK /\ socket_io_buffer_cache_[k] \in SUBSET Buffers
    BY <1>3 DEF ServerTyping, TypeOK
  <2>2. /\ BufferTypeOK'
        /\ \A c : c \in io_buffer_in_use_ \ io_buffer_cache_ /\ c \notin socket_io_buffer_cache_[k]
                     => c \in io_buffer_in_use_' \ io_buffer_cache_'
    BY <1>2, <2>1, ReleasedBuffers
  <2>3. ASSUME NEW e \in Events \ {e0} PROVE Held(e)'
    <3>1. Held(e) /\ IOs(e) \cap socket_io_buffer_cache_[k] = {}
      BY DEF UniqueInv, LastEvent
    <3>. QED  BY <2>2, <3>1 DEF Held, IOs
  <2>. QED  BY <2>2, <2>3
<1>10. BuffersPass(e0, N) /\ ReadersPass(e0, N)
  BY <1>4, <1>9 DEF BuffersPass, ReadersPass
<1>11. CachesPass(e0, N)
  <2>1. ASSUME NEW l \in completion_key_ptr_cache_', HasReader(l)',
               NEW b \in socket_io_buffer_cache_'[l]
        PROVE  /\ l \in completion_key_ptr_cache_ /\ b \in socket_io_buffer_cache_[l]
               /\ b \notin IOs(e0)
    <3>1. l \in completion_key_ptr_cache_ /\ l # k /\ l \in Keys /\ b \in socket_io_buffer_cache_[l]
      BY <1>2, <2>1 DEF ServerTyping, TypeOK
    <3>2. HasReader(l)
      BY <1>5, <1>8, <1>10, <2>1, <3>1, HadReader DEF Moved
    <3>3. e0 \in Events /\ b \in IOs(e0) => e0.key = l \/ e0.stage = "post_read"
      BY <3>1, <3>2, OwnedByReader
    <3>. QED  BY <3>1, <3>3 DEF LastEvent
  <2>. QED  BY <2>1 DEF CachesPass
<1>12. SocketInv'
  <2>1. \A e \in Events' : e \in Events \ {e0}
    BY <1>4, <1>5 DEF Moved, Replaced
  <2>2. \A e \in Events' : (Accepts(e)' <=> Accepts(e))
                              /\ (Accepts(e) => AcceptSocket(e)' = AcceptSocket(e))
    BY <1>8, <2>1, OtherEvents
  <2>3. \A l \in completion_key_ptr_cache_' :
          /\ socket_shared_ptr_'[l] \in socket_inuse_pool_'
          /\ peer'[socket_shared_ptr_'[l]] \in {"up", "gone"}
    <3>1. \A l \in completion_key_ptr_cache_ : socket_shared_ptr_[l] \in Sockets
      BY DEF SocketInv, ServerTyping, TypeOK, SocketPoolTypeOK
    <3>. QED  BY <1>2, <1>3, <1>6, <3>1 DEF SocketInv
  <2>4. ASSUME NEW e \in Events', Accepts(e)'
        PROVE  /\ AcceptSocket(e)' \in socket_inuse_pool_'
               /\ \A l \in completion_key_ptr_cache_' :
                     socket_shared_ptr_'[l] # AcceptSocket(e)'
               /\ \A f \in Events' : Accepts(f)' /\ AcceptSocket(f)' = AcceptSocket(e)' => e = f
    BY <1>2, <1>3, <2>1, <2>2, <2>4 DEF SocketInv
  <2>5. /\ shared_socket_pool_' \cap socket_inuse_pool_' = {}
        /\ \A l, m \in completion_key_ptr_cache_' :
              socket_shared_ptr_'[l] = socket_shared_ptr_'[m] => l = m
    BY <1>2 DEF SocketInv
  <2>. QED  BY <1>5, <2>3, <2>4, <2>5 DEF SocketInv
<1>13. TypeOK'
  BY <1>2, <1>6, <1>9 DEF ServerTyping, TypeOK, SocketPoolTypeOK
<1>14. OrderInv' /\ received' \in [Sockets -> Nat] /\ dispatched' \in [Sockets -> Seq(Nat)]
  BY <1>2 DEF OrderInv, ServerTyping
<1>. QED  BY <1>4, <1>5, <1>8, <1>10, <1>11, <1>12, <1>13, <1>14, KeepAll

\* ReleaseContext, run by the worker that got the end of the connection: its
\* event is the last that the key has, unless another worker has the key.
LEMMA ReleaseContextEvent ==
    ASSUME ServerInv, NEW t \in Threads, ReleaseContext(t), ~raced'
    PROVE  \E k \in completion_key_ptr_cache_ : \E e0 \in Events :
              ReleaseContextOf(k) /\ WorkersWithout(e0) /\ LastEvent(e0, k)
<1>. USE DEF ServerInv
<1>1. /\ worker[t].pc = "release_context" /\ ReleaseContextOf(Key(t))
      /\ resource_global_lock_' = NoKey /\ worker' = [worker EXCEPT ![t] = Idle]
      /\ \A u \in Threads \ {t} : Key(u) # Key(t)
      /\ raced' \in BOOLEAN
  BY DEF ReleaseContext, At, Return
<1>2. PICK k, e0 : k = Key(t) /\ e0 = WorkerEvent(worker[t])
  OBVIOUS
<1>3. /\ e0 \in Events /\ e0.key = k /\ e0.stage = "release_context" /\ e0.io = worker[t].io
  BY <1>1, <1>2, HolderHasEvent, EventFields DEF Key
<1>4. /\ Placed(e0) /\ k \in Keys /\ Reads(e0, k) /\ k \in completion_key_ptr_cache_
      /\ worker[t].io \in Buffers
  BY <1>3 DEF EventInv, EventOK, Placed, Reads
<1>5. WorkersWithout(e0)
  <2>1. worker'[t] = Idle /\ \A u \in Threads \ {t} : worker'[u] = worker[u]
    BY <1>1 DEF ServerTyping
  <2>2. Idle \in WorkerRecords /\ Idle.pc = "loop" /\ Idle.io = NoBuffer
    BY DEF Idle, WorkerRecords, PCs
  <2>3. Busy' = Busy \ {t} /\ t \in Busy /\ Busy \subseteq Threads
    BY <1>1, <2>1, <2>2 DEF Busy
  <2>4. WorkerEvents' = {WorkerEvent(worker[u]) : u \in Busy \ {t}}
    <3>1. WorkerEvents' = {WorkerEvent(worker'[u]) : u \in Busy \ {t}}
      BY <2>3 DEF WorkerEvents, WorkerEvent
    <3>. QED  BY <2>1, <2>3, <3>1
  <2>5. \A u \in Busy \ {t} : WorkerEvent(worker[u]) # e0
    <3>1. \A u \in Busy \ {t} : worker[u].io # worker[t].io
      BY <1>4, <2>3, ServerConstants DEF UniqueInv, WorkersApart
    <3>2. \A u : WorkerEvent(worker[u]).io = worker[u].io
      BY EventFields
    <3>. QED  BY <1>3, <3>1, <3>2
  <2>6. WorkerEvents' = WorkerEvents \ {e0}
    BY <1>2, <2>3, <2>4, <2>5 DEF WorkerEvents
  <2>7. e0 \notin OpEvents \cup PacketEvents
    BY <1>1, <1>2, PlacesDisjoint
  <2>8. worker' \in [Threads -> WorkerRecords]
    BY <1>1, <2>2 DEF ServerTyping
  <2>9. \A u \in Threads : worker'[u].pc = "loop" => worker'[u] = Idle
    BY <2>1 DEF ServerTyping
  <2>10. WorkersApart'
    BY <2>1, <2>2 DEF UniqueInv, WorkersApart
  <2>. QED  BY <2>6, <2>7, <2>8, <2>9, <2>10 DEF WorkersWithout
<1>6. \A e \in Events \ {e0} : ~Reads(e, k)
  BY <1>3, <1>4 DEF ReaderInv
<1>7. ASSUME NEW e \in Events \ {e0}, NEW b \in IOs(e), b \in socket_io_buffer_cache_[k]
      PROVE  FALSE
  <2>1. HasReader(k)
    BY <1>3, <1>4 DEF HasReader
  <2>2. \/ e.io = b /\ e.key = k
        \/ e.stage = "post_read" /\ ReaderKey(e) = k /\ e.new_io = b
    BY <1>4, <1>7, <2>1, OwnedByReader
  <2>3. e.stage \notin {"READ", "callback", "release_key", "release_context"} \cup Arriving
    BY <1>6, <1>7, <2>2 DEF Reads, Arriving
  <2>4. Placed(e)
    BY DEF EventInv, EventOK
  <2>5. e.stage \notin {"get_io", "post_read"}
    BY <1>4, <1>6, <2>2, <2>4, ServerConstants DEF Placed, Reads, ReaderKey
  <2>6. e.io = b /\ e.key = k
    BY <2>2, <2>5
  <2>7. e.stage \notin {"WRITE", "ACCEPT", "create_context", "get_accept_io", "post_accept"}
    BY <1>4, <1>7, <2>4, <2>6, ServerConstants DEF Placed
  <2>8. e.stage \in PCs \ {"loop"} /\ \E u \in Threads : e = WorkerEvent(worker[u]) /\ worker[u].key = e.key
    BY <2>3, <2>7, EventPlaces DEF Arriving
  <2>9. PICK u \in Threads : e = WorkerEvent(worker[u]) /\ worker[u].key = k
    BY <2>6, <2>8
  <2>. QED  BY <1>1, <1>2, <1>7, <2>9 DEF Key
<1>8. LastEvent(e0, k)
  BY <1>3, <1>6, <1>7 DEF LastEvent, PCs
<1>. QED  BY <1>1, <1>2, <1>3, <1>4, <1>5, <1>8

\* The invariant survives such a release.
LEMMA ReleaseContextInv ==
    ASSUME ServerInv, NEW t \in Threads, ReleaseContext(t), ~raced', misread' \in BOOLEAN
    PROVE  ServerInv'
<1>1. PICK k \in completion_key_ptr_cache_ : \E e0 \in Events :
         ReleaseContextOf(k) /\ WorkersWithout(e0) /\ LastEvent(e0, k)
  BY ReleaseContextEvent
<1>2. PICK e0 \in Events : ReleaseContextOf(k) /\ WorkersWithout(e0) /\ LastEvent(e0, k)
  BY <1>1
<1>3. resource_global_lock_' = NoKey /\ raced' \in BOOLEAN
  BY DEF ReleaseContext
<1>. QED  BY <1>2, <1>3, ReleaseKeepsInv

\* A set without two different members.
LEMMA AtMostOne ==
    ASSUME NEW S, \A x, y \in S : x = y
    PROVE  Cardinality(S) \in {0, 1} /\ (Cardinality(S) = 0 <=> S = {})
<1>1. CASE S = {}
  BY <1>1, FS_EmptySet
<1>2. CASE S # {}
  <2>1. PICK x \in S : S = {x}
    BY <1>2
  <2>. QED  BY <2>1, FS_Singleton
<1>. QED  BY <1>1, <1>2

\* What EventsOn counts is whether an event has the buffer: one at most.
LEMMA EventsOnBuffer ==
    ASSUME ServerInv, NEW b \in Buffers
    PROVE  EventsOn(b) \in {0, 1} /\ (EventsOn(b) = 1 <=> \E e \in Events : b \in IOs(e))
<1>. USE DEF ServerInv
<1>. DEFINE A == {p \in pending : p.io = b}
            B == {i \in DOMAIN port : port[i].io = b}
            C == {t \in Threads : worker[t].io = b}
            D == {t \in Threads : worker[t].new_io = b}
<1>1. b # NoBuffer /\ DOMAIN port = 1..Len(port)
  BY ServerConstants DEF ServerTyping
<1>2. \A t \in C \cup D : worker[t].pc # "loop"
  BY <1>1 DEF ServerTyping, Idle
<1>3. ASSUME NEW p \in A PROVE OpEvent(p) \in OpEvents /\ OpEvent(p).io = b
  BY EventFields DEF OpEvents
<1>4. ASSUME NEW i \in B PROVE PacketEvent(port[i]) \in PacketEvents /\ PacketEvent(port[i]).io = b
  BY <1>1, EventFields DEF PacketEvents
<1>5. ASSUME NEW t \in C \cup D
      PROVE  /\ WorkerEvent(worker[t]) \in WorkerEvents /\ t \in Threads
             /\ WorkerEvent(worker[t]).io = worker[t].io
             /\ WorkerEvent(worker[t]).new_io = worker[t].new_io
             /\ b \in IOs(WorkerEvent(worker[t]))
             /\ worker[t].io # worker[t].new_io /\ worker[t].io # NoBuffer
  <2>1. WorkerEvent(worker[t]) \in WorkerEvents
    BY <1>2 DEF WorkerEvents, Busy
  <2>2. PICK e \in Events : e = WorkerEvent(worker[t])
    BY <2>1 DEF Events
  <2>3. e.io = worker[t].io /\ e.new_io = worker[t].new_io
    BY <2>2, EventFields
  <2>4. e.io # e.new_io /\ e.io # NoBuffer
    BY ServerConstants DEF UniqueInv, EventInv, EventOK, Placed
  <2>. QED  BY <1>1, <2>1, <2>2, <2>3, <2>4 DEF IOs
<1>6. \A e, f \in Events : b \in IOs(e) /\ b \in IOs(f) => e = f
  BY DEF UniqueInv, Share
<1>7. \A e \in Events : e.io = b => b \in IOs(e)
  BY <1>1 DEF IOs
<1>8. \A x, y \in A : x = y
  BY DEF UniqueInv, OperationsApart
<1>9. \A x, y \in B : x = y
  BY <1>1 DEF UniqueInv, PacketsApart
<1>10. \A x, y \in C : x = y
  BY <1>1 DEF UniqueInv, WorkersApart
<1>11. \A x, y \in D : x = y
  <2>1. ASSUME NEW x \in D, NEW y \in D PROVE x = y
    <3>1. WorkerEvent(worker[x]) = WorkerEvent(worker[y])
      BY <1>5, <1>6 DEF Events
    <3>2. worker[x].io = worker[y].io
      BY <1>5, <3>1
    <3>. QED  BY <1>5, <3>2 DEF UniqueInv, WorkersApart
  <2>. QED  BY <2>1
<1>12. /\ A # {} => B = {} /\ C = {} /\ D = {}
       /\ B # {} => C = {} /\ D = {}
  <2>1. /\ OpEvents \cap (PacketEvents \cup WorkerEvents) = {}
        /\ PacketEvents \cap WorkerEvents = {}
    BY PlacesDisjoint
  <2>2. A # {} => \E e \in OpEvents : b \in IOs(e)
    BY <1>3, <1>7 DEF Events
  <2>3. B # {} => \E e \in PacketEvents : b \in IOs(e)
    BY <1>4, <1>7 DEF Events
  <2>4. C \cup D # {} => \E e \in WorkerEvents : b \in IOs(e)
    BY <1>5
  <2>. HIDE DEF A, B, C, D
  <2>. QED  BY <1>6, <2>1, <2>2, <2>3, <2>4 DEF Events
<1>13. C # {} => D = {}
  <2>1. ASSUME NEW x \in C, NEW y \in D PROVE FALSE
    <3>1. WorkerEvent(worker[x]) = WorkerEvent(worker[y])
      BY <1>5, <1>6 DEF Events
    <3>2. worker[x].io = worker[y].io /\ worker[x].new_io = worker[y].new_io
      BY <1>5, <3>1
    <3>. QED  BY <1>5, <3>2
  <2>. QED  BY <2>1
<1>14. A \cup B \cup C \cup D # {} <=> \E e \in Events : b \in IOs(e)
  <2>1. A # {} => \E e \in Events : b \in IOs(e)
    BY <1>3, <1>7 DEF Events
  <2>2. B # {} => \E e \in Events : b \in IOs(e)
    BY <1>4, <1>7 DEF Events
  <2>3. C \cup D # {} => \E e \in Events : b \in IOs(e)
    BY <1>5 DEF Events
  <2>4. ASSUME NEW e \in Events, b \in IOs(e) PROVE A \cup B \cup C \cup D # {}
    <3>1. e.io = b \/ e.new_io = b
      BY <2>4 DEF IOs
    <3>2. CASE e.stage \in {"ACCEPT", "READ", "WRITE"}
      <4>1. A # {}
        BY <1>1, <3>1, <3>2, EventPlaces DEF PCs
      <4>. QED  BY <4>1
    <3>3. CASE e.stage = "packet"
      <4>1. B # {}
        BY <1>1, <3>1, <3>3, EventPlaces DEF PCs
      <4>. QED  BY <4>1
    <3>4. CASE e.stage \in PCs \ {"loop"}
      <4>1. C \cup D # {}
        BY <1>1, <3>1, <3>4, EventPlaces DEF PCs
      <4>. QED  BY <4>1
    <3>. QED  BY <3>2, <3>3, <3>4, EventPlaces
  <2>. QED  BY <2>1, <2>2, <2>3, <2>4
<1>15. EventsOn(b) = Cardinality(A) + Cardinality(B) + Cardinality(C) + Cardinality(D)
  BY DEF EventsOn
<1>. HIDE DEF A, B, C, D
<1>16. /\ Cardinality(A) \in {0, 1} /\ (Cardinality(A) = 0 <=> A = {})
       /\ Cardinality(B) \in {0, 1} /\ (Cardinality(B) = 0 <=> B = {})
       /\ Cardinality(C) \in {0, 1} /\ (Cardinality(C) = 0 <=> C = {})
       /\ Cardinality(D) \in {0, 1} /\ (Cardinality(D) = 0 <=> D = {})
  BY <1>8, <1>9, <1>10, <1>11, AtMostOne
<1>17. A \cup B \cup C \cup D # {} <=> A # {} \/ B # {} \/ C # {} \/ D # {}
  OBVIOUS
<1>. QED  BY <1>12, <1>13, <1>14, <1>15, <1>16, <1>17

\* The collector's release of a key that nobody uses: the key has no event.
LEMMA EvictEvent ==
    ASSUME ServerInv, NEW k \in Keys, Evict(k), ~raced'
    PROVE  k \in completion_key_ptr_cache_
             /\ \E e0 : /\ e0 \notin Events /\ IOs(e0) = {} /\ e0.stage = "loop"
                       /\ ReleaseContextOf(k) /\ WorkersWithout(e0) /\ LastEvent(e0, k)
<1>. USE DEF ServerInv
<1>1. /\ k \in completion_key_ptr_cache_ /\ ReleaseContextOf(k) /\ worker' = worker
      /\ resource_global_lock_' \in Keys \cup {Listen, NoKey} /\ raced' \in BOOLEAN
      /\ \A t \in Threads : worker[t].key # k /\ worker[t].new_key # k
      /\ \A b \in socket_io_buffer_cache_[k] : ~(EventsOn(b) > 0)
  BY DEF Evict, InUse, ServerTyping, TypeOK
<1>2. PICK e0 : e0 = WorkerEvent(Idle)
  OBVIOUS
<1>3. e0.io = NoBuffer /\ e0.new_io = NoBuffer /\ e0.stage = "loop"
  BY <1>2, EventFields DEF Idle
<1>4. e0 \notin Events /\ IOs(e0) = {}
  BY <1>3, ServerConstants DEF EventInv, EventOK, Placed, IOs
<1>5. WorkersWithout(e0)
  <2>1. WorkerEvents' = WorkerEvents
    BY <1>1 DEF WorkerEvents, WorkerEvent, Busy
  <2>2. WorkersApart'
    BY <1>1 DEF UniqueInv, WorkersApart
  <2>. QED  BY <1>1, <1>4, <2>1, <2>2 DEF WorkersWithout, Events, ServerTyping
<1>6. \A e \in Events : IOs(e) \cap socket_io_buffer_cache_[k] = {}
  <2>1. ASSUME NEW e \in Events, NEW b \in IOs(e), b \in socket_io_buffer_cache_[k]
        PROVE  FALSE
    <3>1. b \in Buffers
      BY <2>1 DEF ServerTyping, TypeOK
    <3>2. EventsOn(b) = 1
      BY <2>1, <3>1, EventsOnBuffer
    <3>. QED  BY <1>1, <2>1, <3>2
  <2>. QED  BY <2>1
<1>7. ASSUME NEW e \in Events, Reads(e, k) PROVE FALSE
  <2>1. Placed(e) /\ e.io \in IOs(e)
    BY ServerConstants DEF EventInv, EventOK, Placed, IOs
  <2>2. e.stage \notin {"READ", "packet"}
    BY <1>6, <1>7, <2>1 DEF Reads, Placed, Arriving
  <2>3. e.stage \in PCs
    BY <1>7, <2>2, EventPlaces DEF Reads, Arriving
  <2>4. PICK t \in Threads : worker[t].key = e.key /\ worker[t].new_key = e.new_key
    BY <2>3, EventPlaces DEF PCs
  <2>5. e.key # k /\ e.new_key # k
    BY <1>1, <2>4
  <2>. QED  BY <1>7, <2>5 DEF Reads, ReaderKey
<1>8. LastEvent(e0, k)
  BY <1>4, <1>6, <1>7 DEF LastEvent
<1>. QED  BY <1>1, <1>3, <1>4, <1>5, <1>8

\* The invariant survives such a release.
LEMMA EvictInv ==
    ASSUME ServerInv, NEW k \in Keys, Evict(k), ~raced', misread' \in BOOLEAN
    PROVE  ServerInv'
<1>1. PICK e0 : ReleaseContextOf(k) /\ WorkersWithout(e0) /\ LastEvent(e0, k)
  BY EvictEvent
<1>2. /\ k \in completion_key_ptr_cache_ /\ raced' \in BOOLEAN
      /\ resource_global_lock_' \in Keys \cup {Listen, NoKey}
  BY DEF Evict, ServerInv, ServerTyping, TypeOK
<1>. QED  BY <1>1, <1>2, ReleaseKeepsInv

-----------------------------------------------------------------------------
(* The invariant and what follows from it.                                  *)

\* After Initialize there is one event for each worker: its accept request.
LEMMA InitInv == Init => ServerInv
<1>. SUFFICES ASSUME Init PROVE ServerInv
  OBVIOUS
<1>1. PICK accept_io \in Injection(Threads, Buffers), sock \in Injection(Threads, Sockets) :
        LET bufs == Range(accept_io)
            SockOf(b) == sock[CHOOSE t \in Threads : accept_io[t] = b]
        IN  /\ io_buffer_manager_inited_ = TRUE
            /\ io_buffer_cache_ = {}
            /\ io_buffer_in_use_ = bufs
            /\ shared_socket_pool_ = {}
            /\ socket_inuse_pool_ = Range(sock)
            /\ poolsize_ = PreAllocateSocketNum
            /\ io_event_type_ = [b \in Buffers |-> IF b \in bufs THEN "ACCEPT" ELSE "NULL"]
            /\ io_socket_ptr_ = [b \in Buffers |-> IF b \in bufs THEN SockOf(b) ELSE NoSocket]
            /\ resource_global_lock_ = NoKey
            /\ completion_key_ptr_cache_ = {}
            /\ socket_io_buffer_cache_ = [k \in Keys \cup {Listen} |->
                                            IF k = Listen THEN bufs ELSE {}]
            /\ socket_shared_ptr_ = [k \in Keys \cup {Listen} |-> NoSocket]
            /\ worker = [t \in Threads |-> Idle]
            /\ pending = {Operation("ACCEPT", Listen, b, SockOf(b)) : b \in bufs}
            /\ port = <<>>
            /\ peer = [s \in Sockets |-> "none"]
            /\ received = [s \in Sockets |-> 0]
            /\ conns = 0 /\ sends = 0 /\ faults = 0
            /\ dispatched = [s \in Sockets |-> <<>>]
            /\ raced = FALSE
            /\ misread = FALSE
  BY DEF Init
<1>. DEFINE bufs == Range(accept_io)
            SockOf(b) == sock[CHOOSE t \in Threads : accept_io[t] = b]
<1>2. /\ accept_io \in [Threads -> Buffers] /\ sock \in [Threads -> Sockets]
      /\ \A t, u \in Threads : sock[t] = sock[u] => t = u
  BY DEF Injection, IsInjective
<1>3. /\ bufs \subseteq Buffers
      /\ \A b \in bufs : SockOf(b) \in Range(sock) /\ SockOf(b) \in Sockets
      /\ \A b, c \in bufs : SockOf(b) = SockOf(c) => b = c
      /\ Range(sock) \subseteq Sockets
  <2>1. bufs = {accept_io[t] : t \in Threads} /\ Range(sock) = {sock[t] : t \in Threads}
    BY <1>2 DEF Range
  <2>2. PICK From : From = [b \in bufs |-> CHOOSE t \in Threads : accept_io[t] = b]
    OBVIOUS
  <2>3. \A b \in bufs : From[b] \in Threads /\ accept_io[From[b]] = b /\ SockOf(b) = sock[From[b]]
    <3>1. ASSUME NEW b \in bufs PROVE From[b] \in Threads /\ accept_io[From[b]] = b
      <4>1. \E t \in Threads : accept_io[t] = b
        BY <2>1
      <4>. QED  BY <2>2, <4>1
    <3>. QED  BY <2>2, <3>1
  <2>. HIDE DEF SockOf, bufs
  <2>4. \A b, c \in bufs : SockOf(b) = SockOf(c) => b = c
    BY <1>2, <2>3
  <2>. QED  BY <1>2, <2>1, <2>3, <2>4
<1>4. /\ io_event_type_ = [b \in Buffers |-> IF b \in bufs THEN "ACCEPT" ELSE "NULL"]
      /\ io_socket_ptr_ = [b \in Buffers |-> IF b \in bufs THEN SockOf(b) ELSE NoSocket]
      /\ socket_io_buffer_cache_ = [k \in Keys \cup {Listen} |-> IF k = Listen THEN bufs ELSE {}]
      /\ io_buffer_in_use_ = bufs /\ io_buffer_cache_ = {} /\ io_buffer_manager_inited_ = TRUE
      /\ shared_socket_pool_ = {} /\ socket_inuse_pool_ = Range(sock)
      /\ poolsize_ = PreAllocateSocketNum
      /\ pending = {Operation("ACCEPT", Listen, b, SockOf(b)) : b \in bufs}
  BY <1>1
<1>5. /\ resource_global_lock_ = NoKey /\ completion_key_ptr_cache_ = {}
      /\ socket_shared_ptr_ = [k \in Keys \cup {Listen} |-> NoSocket]
      /\ worker = [t \in Threads |-> Idle] /\ port = <<>>
      /\ peer = [s \in Sockets |-> "none"] /\ received = [s \in Sockets |-> 0]
      /\ dispatched = [s \in Sockets |-> <<>>]
      /\ raced = FALSE /\ misread = FALSE
  BY <1>1
<1>. HIDE DEF SockOf, bufs
<1>6. \A p \in pending : /\ p \in Operations /\ p.op = "ACCEPT" /\ p.key = Listen
                         /\ p.io \in bufs /\ p.sock = SockOf(p.io)
                         /\ p = Operation("ACCEPT", Listen, p.io, SockOf(p.io))
  BY <1>3, <1>4 DEF Operation, Operations
<1>7. ServerTyping
  <2>1. TypeOK
    <3>1. BufferTypeOK /\ SocketPoolTypeOK
      BY <1>3, <1>4, SocketPoolSizes DEF BufferTypeOK, SocketPoolTypeOK
    <3>2. io_event_type_ \in [Buffers -> EventTypes]
      BY <1>4 DEF EventTypes
    <3>3. io_socket_ptr_ \in [Buffers -> Sockets \cup {NoSocket}]
      BY <1>3, <1>4
    <3>4. socket_io_buffer_cache_ \in [Keys \cup {Listen} -> SUBSET Buffers]
      BY <1>3, <1>4
    <3>. QED  BY <1>5, <3>1, <3>2, <3>3, <3>4 DEF TypeOK
  <2>2. worker \in [Threads -> WorkerRecords]
    BY <1>5 DEF Idle, WorkerRecords, PCs
  <2>3. /\ received \in [Sockets -> Nat] /\ dispatched \in [Sockets -> Seq(Nat)]
        /\ port \in Seq(Packets)
    BY <1>5
  <2>4. \A t \in Threads : worker[t] = Idle
    BY <1>5
  <2>. QED  BY <1>6, <2>1, <2>2, <2>3, <2>4 DEF ServerTyping
<1>8. ASSUME NEW e \in Events
      PROVE  /\ e.stage = "ACCEPT" /\ e.key = Listen /\ e.io \in bufs /\ e.io \in Buffers
             /\ e.new_io = NoBuffer /\ e.new_key = NoKey
             /\ \E p \in pending : e = OpEvent(p) /\ p.io = e.io
  <2>1. PacketEvents = {}
    BY <1>5 DEF PacketEvents
  <2>2. WorkerEvents = {}
    BY <1>5 DEF WorkerEvents, Busy, Idle
  <2>3. PICK p \in pending : e = OpEvent(p)
    BY <2>1, <2>2 DEF Events, OpEvents
  <2>. QED  BY <1>3, <1>6, <2>3, EventFields DEF OpStage
<1>9. \A e, f \in Events : e.io = f.io => e = f
  BY <1>6, <1>8
<1>10. \A e \in Events : /\ \A k \in Keys : ~Reads(e, k)
                         /\ Accepts(e) /\ AcceptSocket(e) = SockOf(e.io)
  BY <1>4, <1>8 DEF Reads, Accepts, AcceptSocket, Arriving
<1>11. EventInv
  <2>1. ASSUME NEW e \in Events PROVE EventOK(e)
    <3>1. Placed(e)
      BY <1>4, <1>8, <1>10 DEF Placed, Arriving
    <3>2. AcceptDelivers(e, AcceptSocket(e))
      <4>1. AcceptSocket(e) \in Sockets
        BY <1>3, <1>8, <1>10
      <4>. QED  BY <1>5, <1>8, <4>1 DEF AcceptDelivers, Arriving
    <3>. QED  BY <1>10, <3>1, <3>2 DEF EventOK
  <2>. QED  BY <2>1 DEF EventInv
<1>12. UniqueInv
  <2>1. \A e \in Events : IOs(e) = {e.io} /\ e.io # e.new_io
    BY <1>8, ServerConstants DEF IOs
  <2>2. OperationsApart
    BY <1>6 DEF OperationsApart
  <2>3. PacketsApart
    BY <1>5 DEF PacketsApart
  <2>4. WorkersApart
    BY <1>5 DEF WorkersApart, Idle
  <2>5. \A e \in Events : Held(e)
    BY <1>4, <1>8, <2>1 DEF Held
  <2>6. \A e, f \in Events : Share(e, f) => e = f
    BY <1>9, <2>1 DEF Share
  <2>. QED  BY <2>1, <2>2, <2>3, <2>4, <2>5, <2>6 DEF UniqueInv
<1>13. ReaderInv
  BY <1>5, <1>10 DEF ReaderInv
<1>14. SocketInv
  <2>1. OperationSockets
    BY <1>3, <1>4, <1>6 DEF OperationSockets
  <2>2. ASSUME NEW e \in Events
        PROVE  /\ AcceptSocket(e) \in socket_inuse_pool_
               /\ \A f \in Events : AcceptSocket(f) = AcceptSocket(e) => e = f
    BY <1>3, <1>4, <1>8, <1>9, <1>10
  <2>. QED  BY <1>4, <1>5, <2>1, <2>2 DEF SocketInv
<1>15. OrderInv
  BY <1>5 DEF OrderInv
<1>. QED  BY <1>7, <1>11, <1>12, <1>13, <1>14, <1>15 DEF ServerInv

\* Every step of the workers and the kernel.
LEMMA ServerStepInv ==
    ASSUME ServerInv, [Next]_vars, ~raced', ~misread'
    PROVE  ServerInv'
<1>1. raced \in BOOLEAN /\ misread \in BOOLEAN
  BY DEF ServerInv, ServerTyping, TypeOK
<1>2. CASE KernelStep
  BY <1>2, KernelInv
<1>3. ASSUME NEW t \in Threads, WorkerStep(t)
      PROVE  ServerInv'
  <2>1. CASE /\ \/ Dequeue(t) \/ FindIO(t) \/ CreateNewSocketContext(t)
                \/ GetReadBuffer(t) \/ PostReadRequestEvent(t)
                \/ GetAcceptBuffer(t) \/ PostAcceptEvent(t)
                \/ ReleaseUsedIOContext(t) \/ ReadCallback(t) \/ ReleaseCompletionKey(t)
             /\ UNCHANGED <<raced, misread>>
    BY <2>1, DequeueInv, FindIOInv, CreateNewSocketContextInv, GetReadBufferInv,
       PostReadRequestEventInv, GetAcceptBufferInv, PostAcceptEventInv,
       ReleaseUsedIOContextInv, ReadCallbackInv, ReleaseCompletionKeyInv
  <2>2. CASE FindKey(t)
    BY <2>2, FindKeyInv
  <2>3. CASE ReleaseContext(t)
    <3>1. misread' \in BOOLEAN
      BY <1>1, <2>3 DEF ReleaseContext, ReleaseContextOf
    <3>. QED  BY <2>3, <3>1, ReleaseContextInv
  <2>. QED  BY <1>3, <2>1, <2>2, <2>3 DEF WorkerStep
<1>4. CASE UNCHANGED vars
  <2>1. UNCHANGED <<stateVars, io_buffer_cache_, io_buffer_in_use_, resource_global_lock_,
                    worker, pending, port, dispatched>>
    BY <1>4 DEF vars, poolVars, bufferVars, socketPoolVars, fieldVars, keyVars, kernelVars,
                stateVars
  <2>2. /\ UNCHANGED OpEvents /\ UNCHANGED PacketEvents /\ UNCHANGED WorkerEvents
    BY <2>1 DEF OpEvents, OpEvent, OpStage, PacketEvents, PacketEvent, WorkerEvents,
                WorkerEvent, Busy
  <2>3. UNCHANGED Events
    BY <2>2 DEF Events
  <2>. USE <2>1, <2>3 DEF ServerInv, stateVars
  <2>4. ServerTyping'
    BY DEF ServerTyping, TypeOK, BufferTypeOK, SocketPoolTypeOK
  <2>5. \A e, k : Reads(e, k)' <=> Reads(e, k)
    BY DEF Reads, ReaderKey
  <2>6. \A e : (Accepts(e)' <=> Accepts(e)) /\ AcceptSocket(e)' = AcceptSocket(e)
    BY DEF Accepts, AcceptSocket
  <2>7. EventInv'
    <3>1. ASSUME NEW e \in Events PROVE EventOK(e)'
      <4>1. EventOK(e)
        BY DEF EventInv
      <4>2. Placed(e)'
        BY <2>5, <4>1 DEF EventOK, Placed, ReaderKey
      <4>3. \A k \in Keys : Reads(e, k)' => ReaderDelivers(e, socket_shared_ptr_[k])'
        BY <2>5, <4>1 DEF EventOK, ReaderDelivers
      <4>4. Accepts(e)' => AcceptDelivers(e, AcceptSocket(e))'
        BY <2>6, <4>1 DEF EventOK, AcceptDelivers
      <4>. QED  BY <4>2, <4>3, <4>4 DEF EventOK
    <3>. QED  BY <3>1 DEF EventInv
  <2>8. UniqueInv'
    <3>1. OperationsApart' /\ PacketsApart' /\ WorkersApart'
      BY DEF UniqueInv, OperationsApart, PacketsApart, WorkersApart
    <3>2. \A e, f : (Share(e, f)' <=> Share(e, f)) /\ (Held(e)' <=> Held(e))
      BY DEF Share, Held, IOs
    <3>. QED  BY <3>1, <3>2 DEF UniqueInv
  <2>9. ReaderInv'
    <3>1. \A k : HasReader(k)' <=> HasReader(k)
      BY <2>5 DEF HasReader
    <3>2. \A k, b : OwnBuffer(k, b)' <=> OwnBuffer(k, b)
      BY DEF OwnBuffer, ReaderKey
    <3>. QED  BY <2>5, <3>1, <3>2 DEF ReaderInv
  <2>10. SocketInv'
    BY <2>6 DEF SocketInv, OperationSockets
  <2>11. OrderInv'
    BY DEF OrderInv
  <2>. QED  BY <2>4, <2>7, <2>8, <2>9, <2>10, <2>11
<1>. QED  BY <1>2, <1>3, <1>4 DEF Next

\* raced and misread are never taken back.
LEMMA IntactBefore ==
    ASSUME TypeOK, [Next]_vars \/ \E k \in Keys : Evict(k), Intact'
    PROVE  Intact
<1>1. raced \in BOOLEAN /\ misread \in BOOLEAN
  BY DEF TypeOK
<1>2. ASSUME KernelStep \/ UNCHANGED vars PROVE UNCHANGED <<raced, misread>>
  BY <1>2 DEF KernelStep, vars
<1>3. ASSUME NEW t \in Threads, WorkerStep(t) PROVE (raced => raced') /\ (misread => misread')
  BY <1>1, <1>3 DEF WorkerStep, FindKey, ReleaseContext, ReleaseContextOf
<1>4. ASSUME NEW k \in Keys, Evict(k) PROVE (raced => raced') /\ (misread => misread')
  BY <1>1, <1>4 DEF Evict, ReleaseContextOf
<1>. QED  BY <1>2, <1>3, <1>4 DEF Next, Intact

-----------------------------------------------------------------------------
(* Types, whatever happens.  After a race an operation may be on no socket,  *)
(* and then nothing is known of the chunk it brings.                        *)

LooseOperations ==
    [op : {"ACCEPT", "READ", "WRITE", "ABORTED"}, key : Keys \cup {Listen},
     io : Buffers, sock : Sockets \cup {NoSocket}]
LoosePackets(C) == [key : Keys \cup {Listen}, io : Buffers, ret : BOOLEAN, chunk : C]
LooseRecords(C) ==
    [pc : PCs, key : Keys \cup {Listen, NoKey}, io : Buffers \cup {NoBuffer},
     ret : BOOLEAN, chunk : C, new_key : Keys \cup {NoKey},
     new_io : Buffers \cup {NoBuffer}, tries : Nat]

\* A worker that has an event has its key and its buffers.
WorkerOK(w) ==
    /\ w.pc # "loop" => w.key \in Keys \cup {Listen} /\ w.io \in Buffers
    /\ w.pc \in {"post_read", "post_accept"} => w.new_io \in Buffers

Loose(C) ==
    /\ 0 \in C
    /\ worker \in [Threads -> LooseRecords(C)]
    /\ port \in Seq(LoosePackets(C))
    /\ \A t \in Threads : WorkerOK(worker[t])

LooseTyping == TypeOK /\ pending \subseteq LooseOperations /\ \E C : Loose(C)

\* A worker goes on with a record of the right type.
LEMMA LooseWorker ==
    ASSUME NEW C, Loose(C), NEW t \in Threads, NEW w \in LooseRecords(C), WorkerOK(w),
           worker' = [worker EXCEPT ![t] = w], port' = port
    PROVE  \E D : Loose(D)'
<1>1. worker' \in [Threads -> LooseRecords(C)] /\ \A u \in Threads : WorkerOK(worker'[u])
  BY DEF Loose
<1>2. Loose(C)'
  BY <1>1 DEF Loose, LooseRecords, LoosePackets, WorkerOK
<1>. QED  BY <1>2

\* A worker goes on with its event at another place, or is done with it.
LEMMA LooseGoto ==
    ASSUME NEW C, Loose(C), NEW t \in Threads, worker[t].pc # "loop", port' = port,
           \/ \E pc \in PCs \ {"post_read", "post_accept"} : Goto(t, pc)
           \/ Return(t)
    PROVE  \E D : Loose(D)'
<1>1. /\ worker \in [Threads -> LooseRecords(C)] /\ worker[t] \in LooseRecords(C)
      /\ WorkerOK(worker[t]) /\ 0 \in C
  BY DEF Loose
<1>2. ASSUME NEW pc \in PCs \ {"post_read", "post_accept"}, Goto(t, pc)
      PROVE  \E D : Loose(D)'
  <2>1. PICK w : w = [worker[t] EXCEPT !.pc = pc]
    OBVIOUS
  <2>2. w \in LooseRecords(C) /\ w.pc = pc /\ w.key = worker[t].key /\ w.io = worker[t].io
    BY <1>1, <2>1 DEF LooseRecords
  <2>3. worker' = [worker EXCEPT ![t] = w]
    BY <1>1, <1>2, <2>1 DEF Goto
  <2>4. WorkerOK(w)
    BY <1>1, <2>2 DEF WorkerOK
  <2>. QED  BY <2>2, <2>3, <2>4, LooseWorker
<1>3. CASE Return(t)
  <2>1. Idle \in LooseRecords(C) /\ WorkerOK(Idle)
    BY <1>1 DEF Idle, LooseRecords, PCs, WorkerOK
  <2>. QED  BY <1>3, <2>1, LooseWorker DEF Return
<1>. QED  BY <1>2, <1>3

\* Taking a buffer, with or without sending it.
LEMMA LooseBuffer ==
    ASSUME TypeOK, NEW b \in Buffers, GetIOContextBuffer(b)
    PROVE  /\ BufferTypeOK'
           /\ TypesFromPool \in [Buffers -> EventTypes]
           /\ SocketsFromPool \in [Buffers -> Sockets \cup {NoSocket}]
<1>1. PICK added \in Reallocations(FreshBuffers) :
        io_buffer_cache_' = (io_buffer_cache_ \cup added) \ {b}
  BY DEF GetIOContextBuffer, GetNextIOBufferPtr
<1>2. added \subseteq Buffers
  BY DEF Reallocations, kSubset, FreshBuffers
<1>3. io_buffer_in_use_' = io_buffer_in_use_ \cup {b} /\ UNCHANGED io_buffer_manager_inited_
  BY DEF GetIOContextBuffer, GetNextIOBufferPtr
<1>. QED  BY <1>1, <1>2, <1>3
     DEF TypeOK, BufferTypeOK, TypesFromPool, SocketsFromPool, EventTypes

\* What a callback on key k does.
LEMMA LooseSend ==
    ASSUME TypeOK, pending \subseteq LooseOperations, NEW k \in Keys \cup {Listen},
           SendDataUserInterface(k)
    PROVE  /\ pending' \subseteq LooseOperations /\ BufferTypeOK' /\ SocketPoolTypeOK'
           /\ io_event_type_' \in [Buffers -> EventTypes]
           /\ io_socket_ptr_' \in [Buffers -> Sockets \cup {NoSocket}]
<1>1. CASE UNCHANGED <<poolVars, fieldVars, pending, sends>>
  BY <1>1 DEF poolVars, bufferVars, socketPoolVars, fieldVars, TypeOK, BufferTypeOK,
              SocketPoolTypeOK
<1>2. CASE /\ \E b \in Buffers :
                /\ GetIOContextBuffer(b)
                /\ \/ UNCHANGED pending
                   \/ pending' = pending \cup {Operation("WRITE", k, b, socket_shared_ptr_[k])}
           /\ io_event_type_' = TypesFromPool
           /\ io_socket_ptr_' = SocketsFromPool
           /\ UNCHANGED socketPoolVars
  <2>1. PICK b \in Buffers :
                /\ GetIOContextBuffer(b)
                /\ \/ UNCHANGED pending
                   \/ pending' = pending \cup {Operation("WRITE", k, b, socket_shared_ptr_[k])}
    BY <1>2
  <2>2. Operation("WRITE", k, b, socket_shared_ptr_[k]) \in LooseOperations
    BY DEF Operation, LooseOperations, TypeOK
  <2>3. SocketPoolTypeOK'
    BY <1>2 DEF socketPoolVars, TypeOK, SocketPoolTypeOK
  <2>. QED  BY <1>2, <2>1, <2>2, <2>3, LooseBuffer
<1>. QED  BY <1>1, <1>2 DEF SendDataUserInterface

\* The types after the kernel's steps.
LEMMA LooseKernel ==
    ASSUME LooseTyping, KernelStep
    PROVE  LooseTyping'
<1>1. PICK C : Loose(C)
  BY DEF LooseTyping
<1>2. PICK p \in pending :
         \/ AcceptCompletes(p) \/ AcceptFails(p) \/ ReadCompletes(p)
         \/ ReadEnds(p) \/ WriteCompletes(p) \/ OperationAborts(p)
  BY DEF KernelStep
<1>3. UNCHANGED <<poolVars, fieldVars, keyVars, worker, raced, misread>>
  BY DEF KernelStep
<1>4. PICK ret, chunk : ret \in BOOLEAN /\ Complete(p, ret, chunk)
  <2>1. \E chunk : \E ret \in BOOLEAN : Complete(p, ret, chunk)
    BY <1>2 DEF AcceptCompletes, AcceptFails, ReadCompletes, ReadEnds, WriteCompletes,
                OperationAborts
  <2>. QED  BY <2>1
<1>5. PICK q : q = Packet(p, ret, chunk)
  OBVIOUS
<1>6. PICK D : D = C \cup {chunk}
  OBVIOUS
<1>7. q \in LoosePackets(D)
  BY <1>4, <1>5, <1>6 DEF Packet, LoosePackets, LooseTyping, LooseOperations
<1>8. port' = Append(port, q) /\ pending' \subseteq pending
  BY <1>4, <1>5 DEF Complete
<1>9. port \in Seq(LoosePackets(D))
  <2>1. LoosePackets(C) \subseteq LoosePackets(D)
    BY <1>6 DEF LoosePackets
  <2>. QED  BY <1>1, <2>1 DEF Loose
<1>10. port' \in Seq(LoosePackets(D))
  BY <1>7, <1>8, <1>9
<1>11. worker \in [Threads -> LooseRecords(D)]
  <2>1. LooseRecords(C) \subseteq LooseRecords(D)
    BY <1>6 DEF LooseRecords
  <2>. QED  BY <1>1, <2>1 DEF Loose
<1>12. Loose(D)'
  BY <1>1, <1>3, <1>6, <1>10, <1>11 DEF Loose, LooseRecords, LoosePackets, WorkerOK
<1>13. peer' \in [Sockets -> {"none", "up", "gone", "closed"}]
  BY <1>2 DEF LooseTyping, TypeOK, AcceptCompletes, AcceptFails, ReadCompletes, ReadEnds,
              WriteCompletes, OperationAborts
<1>14. TypeOK'
  BY <1>3, <1>13 DEF LooseTyping, TypeOK, BufferTypeOK, SocketPoolTypeOK, poolVars,
                     bufferVars, socketPoolVars, fieldVars, keyVars
<1>. QED  BY <1>8, <1>12, <1>14 DEF LooseTyping, LooseOperations

\* The types after the release of a key.
LEMMA LooseRelease ==
    ASSUME TypeOK, pending \subseteq LooseOperations, NEW k \in Keys \cup {Listen},
           ReleaseContextOf(k), resource_global_lock_' \in Keys \cup {Listen, NoKey},
           raced' \in BOOLEAN
    PROVE  TypeOK' /\ pending' \subseteq LooseOperations
<1>1. PICK s : s = socket_shared_ptr_[k]
  OBVIOUS
<1>2. socket_io_buffer_cache_[k] \in SUBSET Buffers /\ BufferTypeOK
  BY DEF TypeOK
<1>3. BufferTypeOK'
  BY <1>2, ReleasedBuffers DEF ReleaseContextOf
<1>4. pending' = {Aborted(p, s) : p \in pending}
  BY <1>1 DEF ReleaseContextOf, Aborted
<1>5. ASSUME NEW p \in pending PROVE Aborted(p, s) \in LooseOperations
  BY DEF Aborted, LooseOperations
<1>6. SocketPoolTypeOK'
  BY DEF ReleaseContextOf, CloseSockAndPush2ReusedPool, TypeOK, SocketPoolTypeOK
<1>7. /\ peer' \in [Sockets -> {"none", "up", "gone", "closed"}]
      /\ completion_key_ptr_cache_' \subseteq Keys
      /\ UNCHANGED <<io_event_type_, io_socket_ptr_, misread, socket_io_buffer_cache_,
                     socket_shared_ptr_>>
  BY DEF ReleaseContextOf, EraseKey, TypeOK, fieldVars
<1>8. TypeOK'
  BY <1>3, <1>6, <1>7 DEF TypeOK
<1>. QED  BY <1>4, <1>5, <1>8

\* The types after the steps of a worker.
LEMMA LooseWorkerStep ==
    ASSUME LooseTyping, NEW t \in Threads, WorkerStep(t)
    PROVE  LooseTyping'
<1>. USE DEF LooseTyping
<1>1. PICK C : Loose(C)
  OBVIOUS
<1>2. /\ worker \in [Threads -> LooseRecords(C)] /\ worker[t] \in LooseRecords(C)
      /\ WorkerOK(worker[t])
  BY <1>1 DEF Loose
<1>3. raced' \in BOOLEAN /\ misread' \in BOOLEAN
  BY DEF WorkerStep, FindKey, ReleaseContext, ReleaseContextOf, TypeOK
<1>4. ASSUME UNCHANGED <<poolVars, fieldVars, keyVars, peer>>
      PROVE  TypeOK'
  BY <1>3, <1>4 DEF TypeOK, BufferTypeOK, SocketPoolTypeOK, poolVars, bufferVars,
                    socketPoolVars, fieldVars, keyVars
<1>5. ASSUME UNCHANGED <<fieldVars, keyVars, peer>>, BufferTypeOK', SocketPoolTypeOK'
      PROVE  TypeOK'
  BY <1>3, <1>5 DEF TypeOK, fieldVars, keyVars
<1>6. ASSUME NEW b \in Buffers, ReleaseIOBuffers({b})
      PROVE  BufferTypeOK'
  BY <1>6, ReleasedBuffers DEF TypeOK
<1>7. UNCHANGED socketPoolVars => SocketPoolTypeOK'
  BY DEF TypeOK, SocketPoolTypeOK, socketPoolVars
<1>8. ASSUME worker[t].pc # "loop"
      PROVE  Key(t) \in Keys \cup {Listen} /\ IO(t) \in Buffers /\ ReadKey(t) \in Keys \cup {Listen}
  BY <1>2, <1>8 DEF WorkerOK, Key, IO, ReadKey, LooseRecords
<1>9. CASE Dequeue(t)
  <2>1. TypeOK' /\ pending' = pending /\ port # <<>> /\ port' = Tail(port)
    BY <1>4, <1>9 DEF Dequeue
  <2>2. PICK p : p = Head(port)
    OBVIOUS
  <2>3. p \in LoosePackets(C) /\ port' \in Seq(LoosePackets(C)) /\ 0 \in C
    BY <1>1, <2>1, <2>2 DEF Loose
  <2>4. PICK w : w = [Idle EXCEPT !.pc = "find_key", !.key = p.key, !.io = p.io,
                               !.ret = p.ret, !.chunk = p.chunk]
    OBVIOUS
  <2>5. w \in LooseRecords(C) /\ WorkerOK(w)
    BY <2>3, <2>4 DEF Idle, LooseRecords, LoosePackets, PCs, WorkerOK
  <2>6. worker' = worker \/ worker' = [worker EXCEPT ![t] = w]
    BY <1>9, <2>2, <2>4 DEF Dequeue
  <2>7. worker' \in [Threads -> LooseRecords(C)] /\ \A u \in Threads : WorkerOK(worker'[u])
    BY <1>1, <2>5, <2>6 DEF Loose
  <2>8. Loose(C)'
    BY <2>3, <2>7 DEF Loose, LooseRecords, LoosePackets, WorkerOK
  <2>. QED  BY <2>1, <2>8
<1>10. CASE FindKey(t)
  <2>1. TypeOK' /\ pending' = pending /\ port' = port /\ worker[t].pc = "find_key"
    BY <1>4, <1>10 DEF FindKey, kernelVars, At
  <2>2. \E D : Loose(D)'
    <3>1. CASE worker' = [worker EXCEPT ![t].pc = "find_io", ![t].key = Listen]
      <4>1. PICK w : w = [worker[t] EXCEPT !.pc = "find_io", !.key = Listen]
        OBVIOUS
      <4>2. worker' = [worker EXCEPT ![t] = w]
        BY <1>2, <3>1, <4>1
      <4>3. w \in LooseRecords(C) /\ WorkerOK(w)
        BY <1>2, <2>1, <4>1 DEF LooseRecords, PCs, WorkerOK
      <4>. QED  BY <1>1, <2>1, <4>2, <4>3, LooseWorker
    <3>2. CASE Goto(t, "find_io") \/ Return(t)
      BY <1>1, <2>1, <3>2, LooseGoto DEF PCs
    <3>. QED  BY <1>10, <3>1, <3>2 DEF FindKey
  <2>. QED  BY <2>1, <2>2
<1>11. CASE FindIO(t)
  <2>1. /\ worker[t].pc = "find_io" /\ port' = port /\ peer' = peer /\ UNCHANGED keyVars
        /\ \/ Return(t) \/ Goto(t, "create_context") \/ Goto(t, "callback")
           \/ Goto(t, "release_key")
    BY <1>11 DEF FindIO, At
  <2>2. \E D : Loose(D)'
    BY <1>1, <2>1, LooseGoto DEF PCs
  <2>3. \/ UNCHANGED <<poolVars, fieldVars, pending>>
        \/ SendDataUserInterface(Listen)
        \/ ReleaseIOBuffers({IO(t)}) /\ UNCHANGED <<socketPoolVars, fieldVars, pending>>
    BY <1>11 DEF FindIO, DispatchFirstData
  <2>4. CASE UNCHANGED <<poolVars, fieldVars, pending>>
    BY <1>4, <2>1, <2>2, <2>4
  <2>5. CASE SendDataUserInterface(Listen)
    BY <1>3, <2>1, <2>2, <2>5, LooseSend DEF TypeOK, keyVars
  <2>6. CASE ReleaseIOBuffers({IO(t)}) /\ UNCHANGED <<socketPoolVars, fieldVars, pending>>
    BY <1>5, <1>6, <1>7, <1>8, <2>1, <2>2, <2>6
  <2>. QED  BY <2>3, <2>4, <2>5, <2>6
<1>12. CASE CreateNewSocketContext(t)
  <2>1. PICK k \in FreshKeys :
          /\ completion_key_ptr_cache_' = completion_key_ptr_cache_ \cup {k}
          /\ socket_io_buffer_cache_' = [socket_io_buffer_cache_ EXCEPT ![k] = {}]
          /\ socket_shared_ptr_' = [socket_shared_ptr_ EXCEPT ![k] = io_socket_ptr_[IO(t)]]
          /\ worker' = [worker EXCEPT ![t].pc = "get_io", ![t].new_key = k]
    BY <1>12 DEF CreateNewSocketContext
  <2>2. /\ worker[t].pc = "create_context"
        /\ UNCHANGED <<poolVars, fieldVars, resource_global_lock_, peer, pending, port>>
    BY <1>12 DEF CreateNewSocketContext, At, kernelVars
  <2>3. k \in Keys
    BY DEF FreshKeys
  <2>4. /\ completion_key_ptr_cache_' \subseteq Keys
        /\ socket_io_buffer_cache_' \in [Keys \cup {Listen} -> SUBSET Buffers]
        /\ socket_shared_ptr_' \in [Keys \cup {Listen} -> Sockets \cup {NoSocket}]
    BY <1>8, <2>1, <2>2, <2>3 DEF TypeOK
  <2>5. TypeOK'
    BY <1>3, <2>2, <2>4 DEF TypeOK, BufferTypeOK, SocketPoolTypeOK, poolVars, bufferVars,
                            socketPoolVars, fieldVars
  <2>6. PICK w : w = [worker[t] EXCEPT !.pc = "get_io", !.new_key = k]
    OBVIOUS
  <2>7. worker' = [worker EXCEPT ![t] = w]
    BY <1>2, <2>1, <2>6
  <2>8. w \in LooseRecords(C) /\ WorkerOK(w)
    BY <1>2, <2>2, <2>3, <2>6 DEF LooseRecords, PCs, WorkerOK
  <2>9. \E D : Loose(D)'
    BY <1>1, <2>2, <2>7, <2>8, LooseWorker
  <2>. QED  BY <2>2, <2>5, <2>9
<1>13. CASE GetReadBuffer(t)
  <2>1. PICK b \in Buffers :
          /\ GetIOContextBuffer(b)
          /\ io_event_type_' = [TypesFromPool EXCEPT ![b] = "READ"]
          /\ io_socket_ptr_' = [SocketsFromPool EXCEPT ![b] = socket_shared_ptr_[ReadKey(t)]]
          /\ socket_io_buffer_cache_' = [socket_io_buffer_cache_ EXCEPT ![ReadKey(t)] = @ \cup {b}]
          /\ worker' = [worker EXCEPT ![t].pc = "post_read", ![t].new_io = b]
    BY <1>13 DEF GetReadBuffer
  <2>2. /\ worker[t].pc = "get_io"
        /\ UNCHANGED <<socketPoolVars, peer, pending, port, resource_global_lock_,
                       completion_key_ptr_cache_, socket_shared_ptr_>>
    BY <1>13 DEF GetReadBuffer, At, kernelVars
  <2>3. /\ BufferTypeOK'
        /\ io_event_type_' \in [Buffers -> EventTypes]
        /\ io_socket_ptr_' \in [Buffers -> Sockets \cup {NoSocket}]
    BY <1>8, <2>1, <2>2, LooseBuffer DEF TypeOK, EventTypes
  <2>4. socket_io_buffer_cache_' \in [Keys \cup {Listen} -> SUBSET Buffers]
    BY <1>8, <2>1, <2>2 DEF TypeOK
  <2>5. TypeOK'
    BY <1>3, <1>7, <2>2, <2>3, <2>4 DEF TypeOK
  <2>6. PICK w : w = [worker[t] EXCEPT !.pc = "post_read", !.new_io = b]
    OBVIOUS
  <2>7. worker' = [worker EXCEPT ![t] = w]
    BY <1>2, <2>1, <2>6
  <2>8. w \in LooseRecords(C) /\ WorkerOK(w)
    BY <1>2, <2>2, <2>6 DEF LooseRecords, PCs, WorkerOK
  <2>9. \E D : Loose(D)'
    BY <1>1, <2>2, <2>7, <2>8, LooseWorker
  <2>. QED  BY <2>2, <2>5, <2>9
<1>14. CASE PostReadRequestEvent(t)
  <2>1. PICK b, k : b = worker[t].new_io /\ k = ReadKey(t)
    OBVIOUS
  <2>2. /\ worker[t].pc = "post_read"
        /\ \/ /\ pending' = pending \cup {Operation("READ", k, b, socket_shared_ptr_[k])}
              /\ UNCHANGED poolVars
           \/ ReleaseIOBuffers({b}) /\ UNCHANGED <<socketPoolVars, pending>>
           \/ UNCHANGED <<poolVars, pending>>
        /\ worker' = [worker EXCEPT ![t].pc = AfterPostRead(t),
                                    ![t].new_key = NoKey, ![t].new_io = NoBuffer]
        /\ UNCHANGED <<fieldVars, keyVars, port, peer>>
    BY <1>14, <2>1 DEF PostReadRequestEvent, At
  <2>3. b \in Buffers /\ k \in Keys \cup {Listen}
    BY <1>2, <1>8, <2>1, <2>2 DEF WorkerOK
  <2>4. Operation("READ", k, b, socket_shared_ptr_[k]) \in LooseOperations
    BY <2>3 DEF Operation, LooseOperations, TypeOK
  <2>5. pending' \subseteq LooseOperations
    BY <2>2, <2>4
  <2>6. TypeOK'
    BY <1>4, <1>5, <1>6, <1>7, <2>2, <2>3
  <2>7. PICK w : w = [worker[t] EXCEPT !.pc = AfterPostRead(t),
                                       !.new_key = NoKey, !.new_io = NoBuffer]
    OBVIOUS
  <2>8. worker' = [worker EXCEPT ![t] = w]
    BY <1>2, <2>2, <2>7
  <2>9. w \in LooseRecords(C) /\ WorkerOK(w)
    BY <1>2, <2>2, <2>7 DEF LooseRecords, PCs, WorkerOK, AfterPostRead
  <2>10. \E D : Loose(D)'
    BY <1>1, <2>2, <2>8, <2>9, LooseWorker
  <2>. QED  BY <2>5, <2>6, <2>10
<1>15. CASE GetAcceptBuffer(t)
  <2>1. PICK b \in Buffers, s \in Sockets, added \in SocketReallocations(FreshSockets) :
          /\ GetIOContextBuffer(b)
          /\ GetNextUnuseSocket(s, added, FreshSockets)
          /\ io_event_type_' = [TypesFromPool EXCEPT ![b] = "ACCEPT"]
          /\ io_socket_ptr_' = [SocketsFromPool EXCEPT ![b] = s]
          /\ socket_io_buffer_cache_' = [socket_io_buffer_cache_ EXCEPT ![Listen] = @ \cup {b}]
          /\ peer' = [peer EXCEPT ![s] = "none"]
          /\ worker' = [worker EXCEPT ![t].pc = "post_accept", ![t].new_io = b]
    BY <1>15 DEF GetAcceptBuffer
  <2>2. /\ worker[t].pc = "get_accept_io"
        /\ UNCHANGED <<pending, port, resource_global_lock_,
                       completion_key_ptr_cache_, socket_shared_ptr_>>
    BY <1>15 DEF GetAcceptBuffer, At
  <2>3. /\ BufferTypeOK'
        /\ io_event_type_' \in [Buffers -> EventTypes]
        /\ io_socket_ptr_' \in [Buffers -> Sockets \cup {NoSocket}]
    BY <2>1, LooseBuffer DEF EventTypes
  <2>4. SocketPoolTypeOK'
    <3>1. added \subseteq Sockets
      BY DEF SocketReallocations, kSubset, FreshSockets
    <3>2. Cardinality(added) \in Nat
      BY <3>1, SocketsFinite, FS_Subset, FS_CardinalityType
    <3>3. CountSockets(Cardinality(added)) \in 0..PreAllocateSocketNum
      BY <3>2, SocketPoolSizes DEF CountSockets, TypeOK, SocketPoolTypeOK
    <3>. QED  BY <2>1, <3>1, <3>3 DEF GetNextUnuseSocket, TypeOK, SocketPoolTypeOK
  <2>5. /\ socket_io_buffer_cache_' \in [Keys \cup {Listen} -> SUBSET Buffers]
        /\ peer' \in [Sockets -> {"none", "up", "gone", "closed"}]
    BY <2>1 DEF TypeOK
  <2>6. TypeOK'
    BY <1>3, <2>2, <2>3, <2>4, <2>5 DEF TypeOK
  <2>7. PICK w : w = [worker[t] EXCEPT !.pc = "post_accept", !.new_io = b]
    OBVIOUS
  <2>8. worker' = [worker EXCEPT ![t] = w]
    BY <1>2, <2>1, <2>7
  <2>9. w \in LooseRecords(C) /\ WorkerOK(w)
    BY <1>2, <2>2, <2>7 DEF LooseRecords, PCs, WorkerOK
  <2>10. \E D : Loose(D)'
    BY <1>1, <2>2, <2>8, <2>9, LooseWorker
  <2>. QED  BY <2>2, <2>6, <2>10
<1>16. CASE PostAcceptEvent(t)
  <2>1. PICK b : b = worker[t].new_io
    OBVIOUS
  <2>2. /\ worker[t].pc = "post_accept"
        /\ \/ /\ pending' = pending \cup {Operation("ACCEPT", Listen, b, io_socket_ptr_[b])}
              /\ UNCHANGED poolVars
           \/ ReleaseIOBuffers({b}) /\ UNCHANGED <<socketPoolVars, pending>>
        /\ UNCHANGED <<fieldVars, keyVars, port, peer>>
    BY <1>16, <2>1 DEF PostAcceptEvent, At
  <2>3. PICK pc \in {"get_accept_io", "release_io"} :
           worker' = [worker EXCEPT ![t] = [worker[t] EXCEPT
                          !.pc = pc, !.tries = @ + 1, !.new_io = NoBuffer]]
    BY <1>16 DEF PostAcceptEvent, AfterPostAccept
  <2>4. b \in Buffers
    BY <1>2, <2>1, <2>2 DEF WorkerOK
  <2>5. Operation("ACCEPT", Listen, b, io_socket_ptr_[b]) \in LooseOperations
    BY <2>4 DEF Operation, LooseOperations, TypeOK
  <2>6. pending' \subseteq LooseOperations
    BY <2>2, <2>5
  <2>7. TypeOK'
    BY <1>4, <1>5, <1>6, <1>7, <2>2, <2>4
  <2>8. PICK w : w = [worker[t] EXCEPT !.pc = pc, !.tries = @ + 1, !.new_io = NoBuffer]
    OBVIOUS
  <2>9. w \in LooseRecords(C) /\ WorkerOK(w)
    <3>1. worker[t].tries + 1 \in Nat /\ pc \in PCs
      BY <1>2 DEF LooseRecords, PCs
    <3>2. /\ w \in LooseRecords(C) /\ w.pc = pc
          /\ w.key = worker[t].key /\ w.io = worker[t].io
      BY <1>2, <2>8, <3>1 DEF LooseRecords
    <3>. QED  BY <1>2, <2>2, <3>2 DEF WorkerOK
  <2>10. \E D : Loose(D)'
    BY <1>1, <2>2, <2>3, <2>8, <2>9, LooseWorker
  <2>. QED  BY <2>6, <2>7, <2>10
<1>17. CASE ReleaseUsedIOContext(t)
  <2>1. /\ worker[t].pc = "release_io" /\ ReleaseIOBuffers({IO(t)}) /\ Return(t)
        /\ socket_io_buffer_cache_' = [socket_io_buffer_cache_ EXCEPT ![Key(t)] = @ \ {IO(t)}]
        /\ UNCHANGED <<socketPoolVars, fieldVars, pending, port, peer, resource_global_lock_,
                       completion_key_ptr_cache_, socket_shared_ptr_>>
    BY <1>17 DEF ReleaseUsedIOContext, At, kernelVars
  <2>2. socket_io_buffer_cache_' \in [Keys \cup {Listen} -> SUBSET Buffers]
    BY <2>1 DEF TypeOK
  <2>3. BufferTypeOK' /\ SocketPoolTypeOK'
    BY <1>6, <1>7, <1>8, <2>1
  <2>4. TypeOK'
    BY <1>3, <2>1, <2>2, <2>3 DEF TypeOK, fieldVars
  <2>5. \E D : Loose(D)'
    BY <1>1, <2>1, LooseGoto
  <2>. QED  BY <2>1, <2>4, <2>5
<1>18. CASE ReadCallback(t)
  <2>1. /\ worker[t].pc = "callback" /\ SendDataUserInterface(Key(t)) /\ Goto(t, "get_io")
        /\ UNCHANGED <<keyVars, port, peer>>
    BY <1>18 DEF ReadCallback, At
  <2>2. \E D : Loose(D)'
    BY <1>1, <2>1, LooseGoto DEF PCs
  <2>. QED  BY <1>3, <1>8, <2>1, <2>2, LooseSend DEF TypeOK, keyVars
<1>19. CASE ReleaseCompletionKey(t)
  <2>1. /\ worker[t].pc = "release_key" /\ resource_global_lock_' = Key(t)
        /\ Goto(t, "release_context")
        /\ UNCHANGED <<poolVars, fieldVars, pending, port, peer, completion_key_ptr_cache_,
                       socket_io_buffer_cache_, socket_shared_ptr_>>
    BY <1>19 DEF ReleaseCompletionKey, At, kernelVars
  <2>2. TypeOK'
    BY <1>3, <1>8, <2>1 DEF TypeOK, BufferTypeOK, SocketPoolTypeOK, poolVars, bufferVars,
                            socketPoolVars, fieldVars
  <2>3. \E D : Loose(D)'
    BY <1>1, <2>1, LooseGoto DEF PCs
  <2>. QED  BY <2>1, <2>2, <2>3
<1>20. CASE ReleaseContext(t)
  <2>1. /\ worker[t].pc = "release_context" /\ ReleaseContextOf(Key(t)) /\ Return(t)
        /\ resource_global_lock_' = NoKey /\ port' = port
    BY <1>20 DEF ReleaseContext, ReleaseContextOf, At
  <2>2. \E D : Loose(D)'
    BY <1>1, <2>1, LooseGoto
  <2>. QED  BY <1>3, <1>8, <2>1, <2>2, LooseRelease
<1>. QED  BY <1>9, <1>10, <1>11, <1>12, <1>13, <1>14, <1>15, <1>16, <1>17, <1>18, <1>19,
             <1>20 DEF WorkerStep

\* The types hold to begin with.
LEMMA LooseInit == Init => LooseTyping
<1>. SUFFICES ASSUME Init PROVE LooseTyping
  OBVIOUS
<1>1. ServerInv
  BY InitInv
<1>2. TypeOK /\ pending \subseteq LooseOperations
  BY <1>1 DEF ServerInv, ServerTyping, Operations, LooseOperations
<1>3. \A t \in Threads : worker[t].pc = "loop"
  BY DEF Init, Idle
<1>4. Loose(Nat)
  BY <1>1, <1>3 DEF Loose, ServerInv, ServerTyping, WorkerRecords, LooseRecords, Packets,
                    LoosePackets, WorkerOK
<1>. QED  BY <1>2, <1>4 DEF LooseTyping

\* Every step of the server, of the collector too, preserves the types.
LEMMA LooseStep ==
    ASSUME LooseTyping, [Next]_vars \/ \E k \in Keys : Evict(k)
    PROVE  LooseTyping'
<1>1. CASE Next
  BY <1>1, LooseKernel, LooseWorkerStep DEF Next
<1>2. ASSUME NEW k \in Keys, Evict(k) PROVE LooseTyping'
  <2>1. /\ ReleaseContextOf(k) /\ resource_global_lock_' \in Keys \cup {Listen, NoKey}
        /\ raced' \in BOOLEAN /\ worker' = worker /\ port' = port
    BY <1>2 DEF Evict, ReleaseContextOf, LooseTyping, TypeOK
  <2>2. PICK C : Loose(C)
    BY DEF LooseTyping
  <2>3. Loose(C)'
    BY <2>1, <2>2 DEF Loose, LooseRecords, LoosePackets, WorkerOK
  <2>. QED  BY <2>1, <2>3, LooseRelease DEF LooseTyping
<1>3. CASE UNCHANGED vars
  <2>1. PICK C : Loose(C)
    BY DEF LooseTyping
  <2>2. Loose(C)'
    BY <1>3, <2>1 DEF Loose, LooseRecords, LoosePackets, WorkerOK, vars, kernelVars
  <2>3. TypeOK'
    BY <1>3 DEF LooseTyping, TypeOK, BufferTypeOK, SocketPoolTypeOK, vars, poolVars,
                bufferVars, socketPoolVars, fieldVars, keyVars, kernelVars
  <2>4. pending' \subseteq LooseOperations
    BY <1>3 DEF LooseTyping, vars, kernelVars
  <2>. QED  BY <2>2, <2>3, <2>4 DEF LooseTyping, LooseOperations
<1>. QED  BY <1>1, <1>2, <1>3

\* The server, with and without the collector, takes no other steps.
LEMMA StepsOfSpecs ==
    /\ [CollectorNext]_collectorVars => [Next]_vars \/ \E k \in Keys : Evict(k)
    /\ CollectorInit => Init
BY DEF CollectorNext, CollectorInit, collectorVars, vars

\* Every variable of the server keeps its type, whatever races there are:
\* GT_Resource_Manager's containers hold keys, buffers and sockets and nothing
\* else, and none of the functions is extended beyond its domain.
THEOREM ServerTypeCorrect == (Spec => []TypeOK) /\ (CollectorSpec => []TypeOK)
<1>1. LooseTyping => TypeOK
  BY DEF LooseTyping
<1>2. Init => LooseTyping
  BY LooseInit
<1>3. LooseTyping /\ [Next]_vars => LooseTyping'
  BY LooseStep
<1>4. LooseTyping /\ [CollectorNext]_collectorVars => LooseTyping'
  BY LooseStep, StepsOfSpecs
<1>5. Spec => []TypeOK
  BY <1>1, <1>2, <1>3, PTL DEF Spec
<1>6. CollectorInit => LooseTyping
  BY <1>2, StepsOfSpecs
<1>7. CollectorSpec => []TypeOK
  BY <1>1, <1>4, <1>6, PTL DEF CollectorSpec
<1>. QED  BY <1>5, <1>7

\* A step preserves the inductive invariant.
LEMMA IInvStep ==
    ASSUME TypeOK, ServerIInv, [Next]_vars \/ \E k \in Keys : Evict(k)
    PROVE  ServerIInv'
<1>. SUFFICES ASSUME Intact' PROVE ServerInv'
  BY DEF ServerIInv
<1>1. ServerInv /\ ~raced' /\ ~misread'
  BY IntactBefore DEF ServerIInv, Intact
<1>2. CASE [Next]_vars
  BY <1>1, <1>2, ServerStepInv
<1>3. ASSUME NEW k \in Keys, Evict(k) PROVE ServerInv'
  <2>1. misread' \in BOOLEAN
    BY <1>3 DEF Evict, ReleaseContextOf, TypeOK
  <2>. QED  BY <1>1, <1>3, <2>1, EvictInv
<1>. QED  BY <1>2, <1>3

\* Until a key is released under somebody's hands or a send's completion is
\* taken for that of an accept, each event of the server has its buffers, its
\* key, its socket and its place in the stream to itself.
THEOREM ServerInvariant == (Spec => []ServerIInv) /\ (CollectorSpec => []ServerIInv)
<1>1. Init => ServerIInv
  BY InitInv DEF ServerIInv
<1>2. TypeOK /\ ServerIInv /\ [Next]_vars => ServerIInv'
  BY IInvStep
<1>3. TypeOK /\ ServerIInv /\ [CollectorNext]_collectorVars => ServerIInv'
  BY IInvStep, StepsOfSpecs
<1>4. Spec => []TypeOK
  BY ServerTypeCorrect
<1>5. CollectorSpec => []TypeOK
  BY ServerTypeCorrect
<1>6. Spec => []ServerIInv
  BY <1>1, <1>2, <1>4, PTL DEF Spec
<1>7. CollectorInit => ServerIInv
  BY <1>1, StepsOfSpecs
<1>8. CollectorSpec => []ServerIInv
  BY <1>3, <1>5, <1>7, PTL DEF CollectorSpec
<1>. QED  BY <1>6, <1>8

\* No two events in progress have one buffer, and the pool does not have it
\* either, before such a race: ReleaseIOBuffer and GetNextIOBufferPtr never
\* hand a GT_IOContextBuffer to two operations.
THEOREM BuffersNotShared ==
    (Spec => []SharedOnlyAfterRace) /\ (CollectorSpec => []SharedOnlyAfterRace)
<1>1. ServerIInv => SharedOnlyAfterRace
  <2>. SUFFICES ASSUME ServerInv, NEW b \in Buffers
                PROVE  EventsOn(b) <= 1 /\ (EventsOn(b) = 1 => b \notin io_buffer_cache_)
    BY DEF ServerIInv, SharedOnlyAfterRace, OneEventPerBuffer
  <2>1. EventsOn(b) \in {0, 1} /\ (EventsOn(b) = 1 <=> \E e \in Events : b \in IOs(e))
    BY EventsOnBuffer
  <2>2. \A e \in Events : b \in IOs(e) => b \notin io_buffer_cache_
    BY DEF ServerInv, UniqueInv, Held
  <2>. QED  BY <2>1, <2>2
<1>2. Spec => []SharedOnlyAfterRace
  BY <1>1, ServerInvariant, PTL
<1>3. CollectorSpec => []SharedOnlyAfterRace
  BY <1>1, ServerInvariant, PTL
<1>. QED  BY <1>2, <1>3

\* A buffer the kernel has, or has completed, is alive when
\* GetCompletionPortEventStatus looks into it.
THEOREM CompletedBuffersAlive ==
    (Spec => []KernelBuffersAlive) /\ (CollectorSpec => []KernelBuffersAlive)
<1>1. ServerIInv => KernelBuffersAlive
  <2>. SUFFICES ASSUME ServerInv
                PROVE  /\ \A p \in pending : p.io \in LiveBuffers
                       /\ \A i \in DOMAIN port : port[i].io \in LiveBuffers
    BY DEF ServerIInv, KernelBuffersAlive
  <2>1. \A e \in Events : e.io \in io_buffer_in_use_
    <3>1. \A e \in Events : e.io \in IOs(e) /\ Held(e)
      BY ServerConstants DEF ServerInv, EventInv, EventOK, Placed, IOs, UniqueInv
    <3>. QED  BY <3>1 DEF Held
  <2>2. \A p \in pending : OpEvent(p) \in Events /\ OpEvent(p).io = p.io
    BY HolderHasEvent, EventFields
  <2>3. \A i \in DOMAIN port : PacketEvent(port[i]) \in Events
                                 /\ PacketEvent(port[i]).io = port[i].io
    <3>1. DOMAIN port = 1..Len(port)
      BY DEF ServerInv, ServerTyping
    <3>. QED  BY <3>1, HolderHasEvent, EventFields
  <2>. QED  BY <2>1, <2>2, <2>3 DEF LiveBuffers
<1>2. Spec => []KernelBuffersAlive
  BY <1>1, ServerInvariant, PTL
<1>3. CollectorSpec => []KernelBuffersAlive
  BY <1>1, ServerInvariant, PTL
<1>. QED  BY <1>2, <1>3

\* A key that can be looked up has a socket in use: no close of another
\* connection ever hits it.
THEOREM KeysHaveSockets ==
    (Spec => []KeySocketsInUse) /\ (CollectorSpec => []KeySocketsInUse)
<1>1. ServerIInv => KeySocketsInUse
  BY DEF ServerIInv, ServerInv, SocketInv, KeySocketsInUse
<1>2. Spec => []KeySocketsInUse
  BY <1>1, ServerInvariant, PTL
<1>3. CollectorSpec => []KeySocketsInUse
  BY <1>1, ServerInvariant, PTL
<1>. QED  BY <1>2, <1>3

\* The callback of a connection never runs in two workers, and no worker is
\* at it while a read request of the connection is outstanding.
THEOREM ConnectionHasOneReader == (Spec => []OneReader) /\ (CollectorSpec => []OneReader)
<1>1. ServerIInv => OneReader
  <2>. SUFFICES ASSUME ServerInv, NEW k \in completion_key_ptr_cache_
                PROVE  Cardinality({p \in pending : p.op = "READ" /\ p.key = k})
                         + Cardinality({t \in Threads : ReadKey(t) = k /\ worker[t].pc \in Reading})
                         <= 1
    BY DEF ServerIInv, OneReader
  <2>. DEFINE A == {p \in pending : p.op = "READ" /\ p.key = k}
              B == {t \in Threads : ReadKey(t) = k /\ worker[t].pc \in Reading}
  <2>1. k \in Keys
    BY DEF ServerInv, ServerTyping, TypeOK
  <2>2. ASSUME NEW p \in A
        PROVE  /\ OpEvent(p) \in OpEvents /\ OpEvent(p) \in Events
               /\ OpEvent(p).io = p.io /\ Reads(OpEvent(p), k)
    BY EventFields DEF OpEvents, Events, OpStage, Reads
  <2>3. ASSUME NEW t \in B
        PROVE  /\ WorkerEvent(worker[t]) \in WorkerEvents /\ WorkerEvent(worker[t]) \in Events
               /\ WorkerEvent(worker[t]).io = worker[t].io /\ worker[t].io # NoBuffer
               /\ Reads(WorkerEvent(worker[t]), k)
    <3>1. worker[t].pc \in Reading
      OBVIOUS
    <3>2. WorkerEvent(worker[t]) \in WorkerEvents
      BY <3>1 DEF WorkerEvents, Busy, Reading
    <3>3. PICK e \in Events : e = WorkerEvent(worker[t])
      BY <3>2 DEF Events
    <3>4. /\ e.io = worker[t].io /\ e.stage = worker[t].pc /\ e.key = worker[t].key
          /\ e.new_key = worker[t].new_key
      BY <3>3, EventFields
    <3>5. Placed(e) /\ ReaderKey(e) = k
      BY <3>4 DEF ServerInv, EventInv, EventOK, ReaderKey, ReadKey, Key
    <3>6. Reads(e, k)
      BY <3>1, <3>4, <3>5 DEF Placed, Reads, ReaderKey, Reading
    <3>. QED  BY <3>2, <3>3, <3>4, <3>5, <3>6, ServerConstants DEF Placed
  <2>4. \A e, f \in Events : Reads(e, k) /\ Reads(f, k) => e = f
    BY <2>1 DEF ServerInv, ReaderInv
  <2>5. \A x, y \in A : x = y
    <3>1. \A x, y \in A : x.io = y.io
      BY <2>2, <2>4
    <3>. QED  BY <3>1 DEF ServerInv, UniqueInv, OperationsApart
  <2>6. \A x, y \in B : x = y
    <3>1. \A x, y \in B : worker[x].io = worker[y].io /\ worker[x].io # NoBuffer
      BY <2>3, <2>4
    <3>. QED  BY <3>1 DEF ServerInv, UniqueInv, WorkersApart
  <2>7. A = {} \/ B = {}
    <3>1. OpEvents \cap WorkerEvents = {}
      BY PlacesDisjoint DEF ServerInv
    <3>. QED  BY <2>2, <2>3, <2>4, <3>1
  <2>. HIDE DEF A, B
  <2>8. /\ Cardinality(A) \in {0, 1} /\ (Cardinality(A) = 0 <=> A = {})
        /\ Cardinality(B) \in {0, 1} /\ (Cardinality(B) = 0 <=> B = {})
    BY <2>5, <2>6, AtMostOne
  <2>9. Cardinality(A) + Cardinality(B) <= 1
    BY <2>7, <2>8
  <2>. QED  BY <2>9 DEF A, B
<1>2. Spec => []OneReader
  BY <1>1, ServerInvariant, PTL
<1>3. CollectorSpec => []OneReader
  BY <1>1, ServerInvariant, PTL
<1>. QED  BY <1>2, <1>3

\* The read callback gets the data of each connection completely and in the
\* order the client sent it, whichever workers handle the completions.
THEOREM DataInOrder == (Spec => []InOrderDelivery) /\ (CollectorSpec => []InOrderDelivery)
<1>1. ServerIInv => InOrderDelivery
  <2>. SUFFICES ASSUME ServerInv
                PROVE  \A s \in Sockets : \A i \in DOMAIN dispatched[s] : dispatched[s][i] = i
    BY DEF ServerIInv, InOrderDelivery
  <2>1. \A s \in Sockets : DOMAIN dispatched[s] = 1..Len(dispatched[s])
    BY DEF ServerInv, ServerTyping
  <2>. QED  BY <2>1 DEF ServerInv, OrderInv
<1>2. Spec => []InOrderDelivery
  BY <1>1, ServerInvariant, PTL
<1>3. CollectorSpec => []InOrderDelivery
  BY <1>1, ServerInvariant, PTL
<1>. QED  BY <1>2, <1>3

=============================================================================
