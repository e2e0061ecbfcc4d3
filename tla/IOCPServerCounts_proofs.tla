---------------------- MODULE IOCPServerCounts_proofs ----------------------
(***************************************************************************)
(* The two invariants of the IOCP server at work that count: how many       *)
(* buffers are lost, and how many accept requests there are.  They rest on  *)
(* the invariant of IOCPServer_proofs, which says that every event has its  *)
(* buffers, its key and its socket to itself.                               *)
(***************************************************************************)
EXTENDS IOCPServer_proofs

-----------------------------------------------------------------------------
(* What is counted.                                                         *)

\* Buffers the manager has handed out and not got back, and those among them
\* that neither a key that can be looked up nor the listen key has.
HandedOut == io_buffer_in_use_ \ io_buffer_cache_
Unowned ==
    {b \in HandedOut : \A k \in completion_key_ptr_cache_ \cup {Listen} :
        b \notin socket_io_buffer_cache_[k]}

\* Every one of them was taken for a message.
SendInv == sends \in Nat /\ Cardinality(Unowned) <= sends

\* The event is an accept request, or the handling of one on its way to the
\* next.
Slot(e) ==
    \/ e.stage = "ACCEPT"
    \/ e.key = Listen /\ e.stage \in Accepting \cup {"packet"}

\* It has not failed.
Sound(e) == Slot(e) /\ (e.stage \in Arriving => e.ret)

Slots == {e \in Events : Slot(e)}
SoundSlots == {e \in Events : Sound(e)}

\* The listen key's cache has the buffers of the slot, so that GetIOBufferPtr
\* finds them, and the socket for the next accept is not connected, so that
\* AcceptEx fails on it only by a fault.
SlotOK(e) ==
    /\ Slot(e) => e.io \in socket_io_buffer_cache_[Listen]
    /\ e.stage = "post_accept" =>
          /\ e.new_io \in socket_io_buffer_cache_[Listen]
          /\ peer[io_socket_ptr_[e.new_io]] = "none"

\* There are as many accept requests as workers at first; none is added, and
\* each that fails or is not posted again is paid for with a fault.
SlotInv ==
    /\ faults \in Nat /\ IsFiniteSet(Threads)
    /\ Cardinality(Slots) <= Cardinality(Threads)
    /\ Cardinality(Threads) <= Cardinality(SoundSlots) + faults
    /\ \A e \in Events : SlotOK(e)

\* The strengthening of LeaksOnlySends and AcceptSlotsKept.
CountInv == SendInv /\ SlotInv
CountIInv == Intact => CountInv

-----------------------------------------------------------------------------
(* Lost buffers.                                                            *)

\* What a step does to the buffers nobody owns: it adds none, or the one of
\* the message it sends.
Loses ==
    \/ Unowned' \subseteq Unowned /\ sends' = sends
    \/ \E b \in Buffers : Unowned' \subseteq Unowned \cup {b} /\ sends' = sends + 1

\* The buffer manager hands out the one buffer that it returns, and takes back
\* all those it is given.
LEMMA HandsOut ==
    /\ \A b : GetIOContextBuffer(b) => HandedOut' \subseteq HandedOut \cup {b}
    /\ \A S : ReleaseIOBuffers(S) => HandedOut' \subseteq HandedOut \ S
    /\ UNCHANGED bufferVars => HandedOut' = HandedOut
<1>1. ASSUME NEW b, GetIOContextBuffer(b) PROVE HandedOut' \subseteq HandedOut \cup {b}
  <2>1. PICK added \in Reallocations(FreshBuffers) :
          io_buffer_cache_' = (io_buffer_cache_ \cup added) \ {b}
    BY <1>1 DEF GetIOContextBuffer, GetNextIOBufferPtr
  <2>2. io_buffer_in_use_' = io_buffer_in_use_ \cup {b}
    BY <1>1 DEF GetIOContextBuffer, GetNextIOBufferPtr
  <2>. QED  BY <2>1, <2>2 DEF HandedOut
<1>2. ASSUME NEW S, ReleaseIOBuffers(S) PROVE HandedOut' \subseteq HandedOut \ S
  <2>1. PICK kept \in SUBSET S : /\ io_buffer_cache_' = io_buffer_cache_ \cup kept
                                 /\ io_buffer_in_use_' = io_buffer_in_use_ \ (S \ kept)
    BY <1>2 DEF ReleaseIOBuffers
  <2>. QED  BY <2>1 DEF HandedOut
<1>3. UNCHANGED bufferVars => HandedOut' = HandedOut
  BY DEF bufferVars, HandedOut
<1>. QED  BY <1>1, <1>2, <1>3

\* A step that leaves the keys' caches alone loses no buffer but those the
\* manager hands out in it.
LEMMA LosesHandedOut ==
    ASSUME NEW S, HandedOut' \subseteq HandedOut \cup S,
           UNCHANGED <<completion_key_ptr_cache_, socket_io_buffer_cache_>>
    PROVE  Unowned' \subseteq Unowned \cup S
BY DEF Unowned

\* A callback loses the buffer of the message it sends.
LEMMA SendLoses ==
    ASSUME NEW k, SendDataUserInterface(k),
           UNCHANGED <<completion_key_ptr_cache_, socket_io_buffer_cache_>>
    PROVE  Loses
<1>1. CASE UNCHANGED <<poolVars, fieldVars, pending, sends>>
  <2>1. HandedOut' \subseteq HandedOut \cup {} /\ sends' = sends
    BY <1>1, HandsOut DEF poolVars
  <2>. QED  BY <2>1, LosesHandedOut DEF Loses
<1>2. CASE sends' = sends + 1 /\ \E b \in Buffers : GetIOContextBuffer(b)
  <2>1. PICK b \in Buffers : GetIOContextBuffer(b)
    BY <1>2
  <2>2. HandedOut' \subseteq HandedOut \cup {b}
    BY <2>1, HandsOut
  <2>. QED  BY <1>2, <2>2, LosesHandedOut DEF Loses
<1>. QED  BY <1>1, <1>2 DEF SendDataUserInterface

\* Nor does a step that hands out nothing and takes nothing out of a cache.
LEMMA LosesNone ==
    ASSUME HandedOut' \subseteq HandedOut, UNCHANGED <<keyVars, sends>>
    PROVE  Loses
<1>1. HandedOut' \subseteq HandedOut \cup {}
  OBVIOUS
<1>. QED  BY <1>1, LosesHandedOut DEF Loses, keyVars

\* ReleaseContext_ gives back everything the key has.
LEMMA ReleaseLoses ==
    ASSUME NEW k, ReleaseContextOf(k)
    PROVE  Loses
<1>1. /\ HandedOut' \subseteq HandedOut \ socket_io_buffer_cache_[k]
      /\ completion_key_ptr_cache_' = completion_key_ptr_cache_ \ {k}
      /\ UNCHANGED <<socket_io_buffer_cache_, sends>>
  BY HandsOut DEF ReleaseContextOf, EraseKey
<1>. QED  BY <1>1 DEF Unowned, Loses

\* The steps of a worker.
LEMMA WorkerLoses ==
    ASSUME ServerInv, NEW t \in Threads, WorkerStep(t)
    PROVE  Loses
<1>. USE DEF poolVars, kernelVars
<1>1. CASE Dequeue(t) \/ FindKey(t) \/ ReleaseCompletionKey(t)
  <2>1. UNCHANGED <<bufferVars, completion_key_ptr_cache_, socket_io_buffer_cache_, sends>>
    BY <1>1 DEF Dequeue, FindKey, ReleaseCompletionKey, keyVars
  <2>. QED  BY <2>1, HandsOut, LosesHandedOut DEF Loses
<1>2. CASE FindIO(t)
  <2>1. UNCHANGED <<keyVars, completion_key_ptr_cache_, socket_io_buffer_cache_>>
    BY <1>2 DEF FindIO, keyVars
  <2>2. \/ UNCHANGED <<bufferVars, sends>>
        \/ DispatchFirstData(io_socket_ptr_[IO(t)], worker[t].chunk)
        \/ ReleaseIOBuffers({IO(t)}) /\ UNCHANGED sends
    BY <1>2 DEF FindIO
  <2>3. \/ UNCHANGED <<bufferVars, sends>>
        \/ SendDataUserInterface(Listen)
        \/ ReleaseIOBuffers({IO(t)}) /\ UNCHANGED sends
    BY <2>2 DEF DispatchFirstData
  <2>4. CASE UNCHANGED <<bufferVars, sends>>
    BY <2>1, <2>4, HandsOut, LosesNone
  <2>5. CASE SendDataUserInterface(Listen)
    BY <2>1, <2>5, SendLoses
  <2>6. CASE ReleaseIOBuffers({IO(t)}) /\ UNCHANGED sends
    <3>1. HandedOut' \subseteq HandedOut
      BY <2>6, HandsOut
    <3>. QED  BY <2>1, <2>6, <3>1, LosesNone
  <2>. QED  BY <2>3, <2>4, <2>5, <2>6
<1>3. CASE CreateNewSocketContext(t)
  <2>1. PICK k \in FreshKeys :
          /\ completion_key_ptr_cache_' = completion_key_ptr_cache_ \cup {k}
          /\ socket_io_buffer_cache_' = [socket_io_buffer_cache_ EXCEPT ![k] = {}]
    BY <1>3 DEF CreateNewSocketContext
  <2>2. UNCHANGED <<bufferVars, sends>>
    BY <1>3 DEF CreateNewSocketContext
  <2>3. k \notin completion_key_ptr_cache_ \cup {Listen}
    BY DEF FreshKeys, LiveKeys
  <2>4. socket_io_buffer_cache_ \in [Keys \cup {Listen} -> SUBSET Buffers]
        /\ completion_key_ptr_cache_ \subseteq Keys
    BY DEF ServerInv, ServerTyping, TypeOK
  <2>5. \A l \in completion_key_ptr_cache_ \cup {Listen} :
          /\ socket_io_buffer_cache_'[l] = socket_io_buffer_cache_[l]
          /\ l \in completion_key_ptr_cache_' \cup {Listen}
    BY <2>1, <2>3, <2>4
  <2>6. HandedOut' = HandedOut
    BY <2>2, HandsOut
  <2>7. Unowned' \subseteq Unowned
    BY <2>5, <2>6 DEF Unowned
  <2>. QED  BY <2>2, <2>7 DEF Loses
<1>4. ASSUME NEW b \in Buffers, NEW k \in completion_key_ptr_cache_ \cup {Listen},
             GetIOContextBuffer(b), UNCHANGED <<completion_key_ptr_cache_, sends>>,
             socket_io_buffer_cache_' = [socket_io_buffer_cache_ EXCEPT ![k] = @ \cup {b}]
      PROVE  Loses
  <2>1. socket_io_buffer_cache_ \in [Keys \cup {Listen} -> SUBSET Buffers]
        /\ completion_key_ptr_cache_ \subseteq Keys
    BY DEF ServerInv, ServerTyping, TypeOK
  <2>2. /\ b \in socket_io_buffer_cache_'[k]
        /\ \A l \in completion_key_ptr_cache_ \cup {Listen} :
              socket_io_buffer_cache_[l] \subseteq socket_io_buffer_cache_'[l]
    BY <1>4, <2>1
  <2>3. HandedOut' \subseteq HandedOut \cup {b}
    BY <1>4, HandsOut
  <2>4. Unowned' \subseteq Unowned
    BY <1>4, <2>2, <2>3 DEF Unowned
  <2>. QED  BY <1>4, <2>4 DEF Loses
<1>5. CASE GetReadBuffer(t)
  <2>1. PICK b \in Buffers :
          /\ GetIOContextBuffer(b)
          /\ socket_io_buffer_cache_' = [socket_io_buffer_cache_ EXCEPT ![ReadKey(t)] = @ \cup {b}]
    BY <1>5 DEF GetReadBuffer
  <2>2. worker[t].pc = "get_io" /\ UNCHANGED <<completion_key_ptr_cache_, sends>>
    BY <1>5 DEF GetReadBuffer, At
  <2>3. PICK e0 : e0 = WorkerEvent(worker[t])
    OBVIOUS
  <2>4. /\ e0 \in Events /\ e0.stage = "get_io" /\ ReaderKey(e0) = ReadKey(t)
    BY <2>2, <2>3, HolderHasEvent, EventFields DEF ReaderKey, ReadKey, Key
  <2>5. ReadKey(t) \in completion_key_ptr_cache_
    BY <2>4 DEF ServerInv, EventInv, EventOK, Placed, Reads
  <2>. QED  BY <1>4, <2>1, <2>2, <2>5
<1>6. CASE GetAcceptBuffer(t)
  <2>1. PICK b \in Buffers :
          /\ GetIOContextBuffer(b)
          /\ socket_io_buffer_cache_' = [socket_io_buffer_cache_ EXCEPT ![Listen] = @ \cup {b}]
    BY <1>6 DEF GetAcceptBuffer
  <2>2. UNCHANGED <<completion_key_ptr_cache_, sends>>
    BY <1>6 DEF GetAcceptBuffer
  <2>. QED  BY <1>4, <2>1, <2>2
<1>7. CASE PostReadRequestEvent(t) \/ PostAcceptEvent(t)
  <2>1. UNCHANGED <<keyVars, sends>>
    BY <1>7 DEF PostReadRequestEvent, PostAcceptEvent
  <2>2. \/ UNCHANGED bufferVars
        \/ \E b : ReleaseIOBuffers({b})
    BY <1>7 DEF PostReadRequestEvent, PostAcceptEvent
  <2>3. HandedOut' \subseteq HandedOut
    BY <2>2, HandsOut
  <2>. QED  BY <2>1, <2>3, LosesNone
<1>8. CASE ReleaseUsedIOContext(t)
  <2>1. /\ HandedOut' \subseteq HandedOut \ {IO(t)}
        /\ socket_io_buffer_cache_' =
              [socket_io_buffer_cache_ EXCEPT ![Key(t)] = @ \ {IO(t)}]
        /\ UNCHANGED <<completion_key_ptr_cache_, sends>>
    BY <1>8, HandsOut DEF ReleaseUsedIOContext
  <2>2. socket_io_buffer_cache_ \in [Keys \cup {Listen} -> SUBSET Buffers]
        /\ completion_key_ptr_cache_ \subseteq Keys
    BY DEF ServerInv, ServerTyping, TypeOK
  <2>3. \A l \in completion_key_ptr_cache_ \cup {Listen} :
          socket_io_buffer_cache_[l] \subseteq socket_io_buffer_cache_'[l] \cup {IO(t)}
    BY <2>1, <2>2
  <2>4. Unowned' \subseteq Unowned
    BY <2>1, <2>3 DEF Unowned
  <2>. QED  BY <2>1, <2>4 DEF Loses
<1>9. CASE ReadCallback(t)
  <2>1. SendDataUserInterface(Key(t)) /\ UNCHANGED <<completion_key_ptr_cache_, socket_io_buffer_cache_>>
    BY <1>9 DEF ReadCallback, keyVars
  <2>. QED  BY <2>1, SendLoses
<1>10. CASE ReleaseContext(t)
  BY <1>10, ReleaseLoses DEF ReleaseContext
<1>. QED  BY <1>1, <1>2, <1>3, <1>5, <1>6, <1>7, <1>8, <1>9, <1>10 DEF WorkerStep

\* Every step keeps what is lost within what was sent.
LEMMA SendInvStep ==
    ASSUME ServerInv, SendInv, ServerInv', [Next]_vars \/ \E k \in Keys : Evict(k)
    PROVE  SendInv'
<1>1. Loses
  <2>1. CASE KernelStep \/ UNCHANGED vars
    <3>1. UNCHANGED <<bufferVars, keyVars, sends>>
      BY <2>1 DEF KernelStep, vars, poolVars, kernelVars, AcceptCompletes, AcceptFails,
                  ReadCompletes, ReadEnds, WriteCompletes, OperationAborts
    <3>. QED  BY <3>1, HandsOut, LosesNone
  <2>2. CASE \E t \in Threads : WorkerStep(t)
    BY <2>2, WorkerLoses
  <2>3. CASE \E k \in Keys : Evict(k)
    BY <2>3, ReleaseLoses DEF Evict
  <2>. QED  BY <2>1, <2>2, <2>3 DEF Next
<1>2. /\ Unowned \subseteq Buffers /\ Unowned' \subseteq Buffers
  BY DEF Unowned, HandedOut, ServerInv, ServerTyping, TypeOK, BufferTypeOK
<1>3. /\ IsFiniteSet(Unowned) /\ IsFiniteSet(Unowned')
      /\ Cardinality(Unowned) \in Nat /\ Cardinality(Unowned') \in Nat
  BY <1>2, BuffersFinite, FS_Subset, FS_CardinalityType
<1>4. CASE Unowned' \subseteq Unowned /\ sends' = sends
  <2>1. Cardinality(Unowned') <= Cardinality(Unowned)
    BY <1>3, <1>4, FS_Subset
  <2>. QED  BY <1>3, <1>4, <2>1 DEF SendInv
<1>5. ASSUME NEW b, Unowned' \subseteq Unowned \cup {b}, sends' = sends + 1
      PROVE  SendInv'
  <2>1. /\ IsFiniteSet(Unowned \cup {b})
        /\ Cardinality(Unowned \cup {b}) <= Cardinality(Unowned) + 1
    <3>1. IsFiniteSet(Unowned)
      BY <1>3
    <3>2. /\ IsFiniteSet(Unowned \cup {b})
          /\ Cardinality(Unowned \cup {b}) =
                IF b \in Unowned THEN Cardinality(Unowned) ELSE Cardinality(Unowned) + 1
      BY <3>1, FS_AddElement
    <3>. QED  BY <1>3, <3>2
  <2>2. /\ Cardinality(Unowned') <= Cardinality(Unowned \cup {b})
        /\ Cardinality(Unowned \cup {b}) \in Nat
    BY <1>5, <2>1, FS_Subset, FS_CardinalityType
  <2>. QED  BY <1>3, <1>5, <2>1, <2>2 DEF SendInv
<1>. QED  BY <1>1, <1>4, <1>5 DEF Loses

\* At first the listen key has every buffer that is handed out.
LEMMA SendInvInit == Init => SendInv
<1>. SUFFICES ASSUME Init PROVE SendInv
  OBVIOUS
<1>1. /\ io_buffer_in_use_ = socket_io_buffer_cache_[Listen] /\ sends = 0
  BY DEF Init
<1>2. Unowned = {}
  BY <1>1 DEF Unowned, HandedOut
<1>. QED  BY <1>1, <1>2, FS_EmptySet DEF SendInv

-----------------------------------------------------------------------------
(* Accept requests: one event's step.                                       *)

\* Every event has a buffer of its own, so there are no more of them than
\* buffers.
FiniteSlots ==
    /\ IsFiniteSet(Events) /\ IsFiniteSet(Slots) /\ IsFiniteSet(SoundSlots)
    /\ Cardinality(Slots) \in Nat /\ Cardinality(SoundSlots) \in Nat

LEMMA EventsFinite == ServerInv => FiniteSlots
<1>. SUFFICES ASSUME ServerInv PROVE FiniteSlots
  OBVIOUS
<1>1. \A e \in Events : e.io \in Buffers /\ e.io \in IOs(e)
  BY ServerConstants DEF ServerInv, EventInv, EventOK, Placed, IOs
<1>2. \A e, f \in Events : e.io = f.io => e = f
  BY <1>1 DEF ServerInv, UniqueInv, Share
<1>3. PICK f : f = [e \in Events |-> e.io]
  OBVIOUS
<1>4. f \in Injection(Events, Buffers)
  BY <1>1, <1>2, <1>3 DEF Injection, IsInjective
<1>5. IsFiniteSet(Events)
  BY <1>4, BuffersFinite, FS_Injection
<1>6. Slots \in SUBSET Events /\ SoundSlots \in SUBSET Events
  BY DEF Slots, SoundSlots
<1>7. IsFiniteSet(Slots) /\ IsFiniteSet(SoundSlots)
  BY <1>5, <1>6, FS_Subset
<1>. QED  BY <1>5, <1>7, FS_CardinalityType DEF FiniteSlots

\* Replacing one member of a finite set by at most one does not enlarge it,
\* and by one does not change its size.
LEMMA ReplaceOne ==
    ASSUME NEW S, IsFiniteSet(S), NEW x, NEW y, NEW T
    PROVE  /\ x \in S /\ T \subseteq (S \ {x}) \cup {y} =>
                 Cardinality(T) <= Cardinality(S)
           /\ T \subseteq S => Cardinality(T) <= Cardinality(S)
           /\ IsFiniteSet(T) /\ S \ {x} \subseteq T => Cardinality(S) <= Cardinality(T) + 1
           /\ IsFiniteSet(T) /\ (S \ {x}) \cup {y} \subseteq T /\ y \notin S \ {x} =>
                 Cardinality(S) <= Cardinality(T)
<1>1. /\ IsFiniteSet(S \ {x}) /\ Cardinality(S) \in Nat /\ Cardinality(S \ {x}) \in Nat
      /\ Cardinality(S \ {x}) = IF x \in S THEN Cardinality(S) - 1 ELSE Cardinality(S)
  <2>1. /\ IsFiniteSet(S \ {x})
        /\ Cardinality(S \ {x}) = IF x \in S THEN Cardinality(S) - 1 ELSE Cardinality(S)
    BY FS_RemoveElement
  <2>. QED  BY <2>1, FS_CardinalityType
<1>2. /\ IsFiniteSet((S \ {x}) \cup {y}) /\ Cardinality((S \ {x}) \cup {y}) \in Nat
      /\ Cardinality((S \ {x}) \cup {y}) =
           IF y \in S \ {x} THEN Cardinality(S \ {x}) ELSE Cardinality(S \ {x}) + 1
  <2>1. PICK R : R = S \ {x}
    OBVIOUS
  <2>2. IsFiniteSet(R)
    BY <1>1, <2>1
  <2>3. /\ IsFiniteSet(R \cup {y})
        /\ Cardinality(R \cup {y}) = IF y \in R THEN Cardinality(R) ELSE Cardinality(R) + 1
    BY <2>2, FS_AddElement
  <2>4. Cardinality(R \cup {y}) \in Nat
    BY <2>3, FS_CardinalityType
  <2>. QED  BY <2>1, <2>3, <2>4
<1>3. ASSUME x \in S, T \subseteq (S \ {x}) \cup {y}
      PROVE  Cardinality(T) <= Cardinality(S)
  <2>1. /\ IsFiniteSet(T) /\ Cardinality(T) <= Cardinality((S \ {x}) \cup {y})
    BY <1>2, <1>3, FS_Subset
  <2>2. Cardinality(T) \in Nat
    BY <2>1, FS_CardinalityType
  <2>3. Cardinality((S \ {x}) \cup {y}) <= Cardinality(S \ {x}) + 1
    BY <1>1, <1>2
  <2>4. Cardinality(S \ {x}) + 1 = Cardinality(S)
    BY <1>1, <1>3
  <2>5. Cardinality((S \ {x}) \cup {y}) \in Nat
    BY <1>2
  <2>. QED  BY <1>1, <2>1, <2>2, <2>3, <2>4, <2>5
<1>4. T \subseteq S => Cardinality(T) <= Cardinality(S)
  BY FS_Subset
<1>5. ASSUME IsFiniteSet(T), S \ {x} \subseteq T
      PROVE  Cardinality(S) <= Cardinality(T) + 1
  <2>1. Cardinality(S \ {x}) <= Cardinality(T) /\ Cardinality(T) \in Nat
    BY <1>5, FS_Subset, FS_CardinalityType
  <2>. QED  BY <1>1, <2>1
<1>6. ASSUME IsFiniteSet(T), (S \ {x}) \cup {y} \subseteq T, y \notin S \ {x}
      PROVE  Cardinality(S) <= Cardinality(T)
  <2>1. Cardinality((S \ {x}) \cup {y}) <= Cardinality(T) /\ Cardinality(T) \in Nat
    BY <1>6, FS_Subset, FS_CardinalityType
  <2>2. Cardinality((S \ {x}) \cup {y}) = Cardinality(S \ {x}) + 1
    BY <1>2, <1>6
  <2>3. Cardinality(S) <= Cardinality(S \ {x}) + 1
    BY <1>1
  <2>. QED  BY <1>1, <2>1, <2>2, <2>3
<1>. QED  BY <1>3, <1>4, <1>5, <1>6

\* What the other slots rely on stays: the listen key keeps their buffers, and
\* the sockets that are about to be handed to AcceptEx stay as they are.
Calm(e0) ==
    /\ socket_io_buffer_cache_[Listen] \ IOs(e0) \subseteq socket_io_buffer_cache_'[Listen]
    /\ \A e \in Events \ {e0} : e.stage = "post_accept" =>
          peer'[io_socket_ptr_'[e.new_io]] = peer[io_socket_ptr_[e.new_io]]

\* What the step from e0 to the events N does to the slots: N has at most one,
\* and only in the place of one; a sound one goes on as one unless there is a
\* fault.
SlotsPass(e0, N) ==
    /\ \A e \in N : Slot(e) => Slot(e0)
    /\ \A e, f \in N : Slot(e) /\ Slot(f) => e = f
    /\ \/ faults' = faults /\ (Sound(e0) => \E e \in N : Sound(e) /\ Share(e, e0))
       \/ faults' = faults + 1
    /\ \A e \in N : SlotOK(e)'
    /\ Calm(e0)

\* Such a step keeps the counts.
LEMMA SlotsKept ==
    ASSUME ServerInv, ServerInv', SlotInv, NEW e0, NEW N,
           e0 \in Events \/ (N = {} /\ IOs(e0) = {}),
           Replaced(e0, N), SlotsPass(e0, N)
    PROVE  SlotInv'
<1>1. /\ IsFiniteSet(Slots) /\ IsFiniteSet(SoundSlots)
      /\ Cardinality(Slots) \in Nat /\ Cardinality(SoundSlots) \in Nat
      /\ faults \in Nat /\ Cardinality(Threads) \in Nat
  BY EventsFinite, FS_CardinalityType DEF SlotInv, FiniteSlots
<1>2. /\ IsFiniteSet(Slots') /\ IsFiniteSet(SoundSlots')
      /\ Cardinality(Slots') \in Nat /\ Cardinality(SoundSlots') \in Nat
  <2>1. FiniteSlots'
    BY EventsFinite, PTL
  <2>. QED  BY <2>1 DEF FiniteSlots
<1>3. \A e : (Slot(e)' <=> Slot(e)) /\ (Sound(e)' <=> Sound(e))
  BY DEF Slot, Sound
<1>4. /\ Slots' = {e \in Events' : Slot(e)}
      /\ SoundSlots' = {e \in Events' : Sound(e)}
  BY <1>3 DEF Slots, SoundSlots
<1>5. Cardinality(Slots') <= Cardinality(Slots)
  <2>1. CASE \E y \in N : Slot(y)
    <3>1. PICK y \in N : Slot(y)
      BY <2>1
    <3>2. e0 \in Slots /\ Slots' \subseteq (Slots \ {e0}) \cup {y}
      BY <1>4, <3>1 DEF SlotsPass, Replaced, Slots
    <3>. QED  BY <1>1, <3>2, ReplaceOne
  <2>2. CASE \A y \in N : ~Slot(y)
    <3>1. Slots' \subseteq Slots
      BY <1>4, <2>2 DEF Replaced, Slots
    <3>. QED  BY <1>1, <3>1, ReplaceOne
  <2>. QED  BY <2>1, <2>2
<1>6. Cardinality(SoundSlots) + faults <= Cardinality(SoundSlots') + faults'
  <2>1. SoundSlots \ {e0} \subseteq SoundSlots'
    BY <1>4 DEF Replaced, SoundSlots
  <2>2. CASE faults' = faults + 1
    <3>1. Cardinality(SoundSlots) <= Cardinality(SoundSlots') + 1
      BY <1>1, <1>2, <2>1, ReplaceOne
    <3>. QED  BY <1>1, <1>2, <2>2, <3>1
  <2>3. CASE faults' = faults /\ Sound(e0)
    <3>1. PICK y \in N : Sound(y) /\ (Share(y, e0) \/ faults' = faults + 1)
      BY <1>1, <2>3 DEF SlotsPass
    <3>2. y \in SoundSlots' /\ Share(y, e0)
      BY <1>1, <1>4, <2>3, <3>1 DEF Replaced
    <3>3. y \notin SoundSlots \ {e0}
      BY <3>2 DEF ServerInv, UniqueInv, SoundSlots
    <3>4. Cardinality(SoundSlots) <= Cardinality(SoundSlots')
      BY <1>1, <1>2, <2>1, <3>2, <3>3, ReplaceOne
    <3>. QED  BY <1>1, <1>2, <2>3, <3>4
  <2>4. CASE faults' = faults /\ ~Sound(e0)
    <3>1. SoundSlots \subseteq SoundSlots'
      BY <2>1, <2>4 DEF SoundSlots
    <3>2. Cardinality(SoundSlots) <= Cardinality(SoundSlots')
      BY <1>2, <3>1, FS_Subset
    <3>. QED  BY <1>1, <1>2, <2>4, <3>2
  <2>. QED  BY <2>2, <2>3, <2>4 DEF SlotsPass
<1>7. ASSUME NEW e \in Events' PROVE SlotOK(e)'
  <2>1. CASE e \in N
    BY <2>1 DEF SlotsPass
  <2>2. CASE e \in Events \ {e0}
    <3>1. SlotOK(e) /\ Placed(e)
      BY <2>2 DEF SlotInv, ServerInv, EventInv, EventOK
    <3>2. e.io \in IOs(e) /\ (e.stage = "post_accept" => e.new_io \in IOs(e))
      BY <3>1, ServerConstants DEF Placed, IOs
    <3>3. IOs(e) \cap IOs(e0) = {}
      BY <2>2 DEF ServerInv, UniqueInv, Share
    <3>4. Slot(e) => e.io \in socket_io_buffer_cache_'[Listen]
      BY <3>1, <3>2, <3>3 DEF SlotOK, SlotsPass, Calm
    <3>5. e.stage = "post_accept" =>
            /\ e.new_io \in socket_io_buffer_cache_'[Listen]
            /\ peer'[io_socket_ptr_'[e.new_io]] = "none"
      BY <2>2, <3>1, <3>2, <3>3 DEF SlotOK, SlotsPass, Calm
    <3>. QED  BY <1>3, <3>4, <3>5 DEF SlotOK
  <2>. QED  BY <2>1, <2>2 DEF Replaced
<1>8. faults' \in Nat
  BY <1>1 DEF SlotsPass
<1>. QED  BY <1>1, <1>2, <1>5, <1>6, <1>7, <1>8 DEF SlotInv

\* The handling of e0 goes on as e1, and is no slot if e0 was none.
LEMMA EventGoesOn ==
    ASSUME ServerInv, ServerInv', SlotInv, NEW e0 \in Events, NEW e1, NEW N,
           Replaced(e0, N), e1 \in N, e1.io = e0.io, e1.stage # "post_accept",
           \A e \in N : e = e1 \/ (~Slot(e) /\ e.stage # "post_accept"),
           Slot(e1) => Slot(e0),
           (faults' = faults /\ (Sound(e0) => Sound(e1))) \/ faults' = faults + 1,
           socket_io_buffer_cache_[Listen] \subseteq socket_io_buffer_cache_'[Listen],
           Calm(e0)
    PROVE  SlotInv'
<1>1. Share(e1, e0)
  <2>1. e0.io # NoBuffer
    BY ServerConstants DEF ServerInv, EventInv, EventOK, Placed
  <2>. QED  BY <2>1 DEF Share, IOs
<1>2. ASSUME NEW e \in N PROVE SlotOK(e)'
  <2>1. Slot(e)' <=> Slot(e)
    BY DEF Slot
  <2>2. Slot(e) => e.io \in socket_io_buffer_cache_'[Listen]
    BY DEF SlotInv, SlotOK
  <2>. QED  BY <2>1, <2>2 DEF SlotOK
<1>3. SlotsPass(e0, N)
  BY <1>1, <1>2 DEF SlotsPass
<1>. QED  BY <1>3, SlotsKept

\* The handling of e0, which is not a sound slot, ends.
LEMMA EventEnds ==
    ASSUME ServerInv, ServerInv', SlotInv, NEW e0, NEW N,
           e0 \in Events \/ IOs(e0) = {}, Replaced(e0, N), N = {},
           ~Sound(e0), faults' = faults, Calm(e0)
    PROVE  SlotInv'
<1>1. SlotsPass(e0, N)
  BY DEF SlotsPass
<1>. QED  BY <1>1, SlotsKept

\* A step that leaves connections, buffers and the listen key's cache alone.
LEMMA CalmStep ==
    ASSUME UNCHANGED <<peer, io_socket_ptr_>>, NEW e0,
           socket_io_buffer_cache_[Listen] \ IOs(e0) \subseteq socket_io_buffer_cache_'[Listen]
    PROVE  Calm(e0)
BY DEF Calm

\* The same for a step that takes a buffer out of the pool.
LEMMA CalmSockets ==
    ASSUME ServerInv, NEW e0,
           \A e \in Events : \A c \in IOs(e) : io_socket_ptr_'[c] = io_socket_ptr_[c],
           \A e \in Events \ {e0} : e.stage = "post_accept" =>
              peer'[io_socket_ptr_[e.new_io]] = peer[io_socket_ptr_[e.new_io]],
           socket_io_buffer_cache_[Listen] \ IOs(e0) \subseteq socket_io_buffer_cache_'[Listen]
    PROVE  Calm(e0)
<1>1. \A e \in Events : e.stage = "post_accept" => e.new_io \in IOs(e)
  BY ServerConstants DEF ServerInv, EventInv, EventOK, Placed, IOs
<1>. QED  BY <1>1 DEF Calm

\* The socket that is about to be handed to AcceptEx is no key's and no other
\* accept's.
LEMMA NextSockets ==
    ASSUME ServerInv, NEW e \in Events, e.stage = "post_accept"
    PROVE  /\ Accepts(e) /\ AcceptSocket(e) = io_socket_ptr_[e.new_io]
           /\ io_socket_ptr_[e.new_io] \in socket_inuse_pool_
           /\ io_socket_ptr_[e.new_io] \in Sockets
           /\ \A k \in completion_key_ptr_cache_ : socket_shared_ptr_[k] # io_socket_ptr_[e.new_io]
<1>1. Accepts(e) /\ AcceptSocket(e) = io_socket_ptr_[e.new_io]
  BY DEF Accepts, AcceptSocket
<1>. QED  BY <1>1 DEF ServerInv, SocketInv, ServerTyping, TypeOK, SocketPoolTypeOK

-----------------------------------------------------------------------------
(* Accept requests: every step.                                             *)

\* The operations of the kernel that complete.  Only a failed accept, which
\* is a fault, makes a slot unsound.
LEMMA CompletionSlots ==
    ASSUME ServerInv, ServerInv', SlotInv, KernelStep
    PROVE  SlotInv'
<1>1. PICK p \in pending :
         \/ AcceptCompletes(p) \/ AcceptFails(p) \/ ReadCompletes(p)
         \/ ReadEnds(p) \/ WriteCompletes(p) \/ OperationAborts(p)
  BY DEF KernelStep
<1>2. UNCHANGED <<worker, io_socket_ptr_, socket_io_buffer_cache_>>
  BY DEF KernelStep, fieldVars, keyVars
<1>3. p \in Operations
  BY DEF ServerInv, ServerTyping
<1>4. PICK e0 : e0 = OpEvent(p)
  OBVIOUS
<1>5. /\ e0 \in Events /\ e0.io = p.io /\ e0.key = p.key /\ e0.stage = OpStage(p) /\ Placed(e0)
  BY <1>4, HolderHasEvent, EventFields DEF ServerInv, EventInv, EventOK
<1>6. /\ p.op = "ACCEPT" => e0.stage = "ACCEPT" /\ e0.key = Listen /\ Slot(e0)
      /\ p.op # "ACCEPT" => e0.stage \in {"READ", "WRITE"} /\ e0.key \in Keys /\ ~Slot(e0)
  <2>1. p.op = "ACCEPT" => e0.stage = "ACCEPT" /\ e0.key = Listen /\ Slot(e0)
    BY <1>5 DEF OpStage, Placed, Slot
  <2>2. p.op # "ACCEPT" => e0.stage \in {"READ", "WRITE"} /\ e0.key \in Keys
    BY <1>3, <1>5 DEF OpStage, Placed, Operations
  <2>. QED  BY <2>1, <2>2, ServerConstants DEF Slot
<1>7. Calm(e0)
  <2>1. \A s \in Sockets : s # p.sock => peer'[s] = peer[s]
    BY <1>1 DEF AcceptCompletes, AcceptFails, ReadCompletes, ReadEnds, WriteCompletes,
                OperationAborts, ServerInv, ServerTyping, TypeOK
  <2>2. p.op \notin {"ACCEPT", "READ"} => UNCHANGED peer
    BY <1>1 DEF AcceptCompletes, AcceptFails, ReadCompletes, ReadEnds, WriteCompletes,
                OperationAborts
  <2>3. ASSUME NEW e \in Events \ {e0}, e.stage = "post_accept", p.op \in {"ACCEPT", "READ"}
        PROVE  io_socket_ptr_[e.new_io] # p.sock
    <3>1. CASE p.op = "ACCEPT"
      <4>1. Accepts(e0) /\ AcceptSocket(e0) = p.sock
        BY <1>5, <1>6, <3>1 DEF Accepts, AcceptSocket, ServerInv, SocketInv, OperationSockets
      <4>2. Accepts(e) /\ AcceptSocket(e) = io_socket_ptr_[e.new_io]
        BY <2>3, NextSockets
      <4>3. \A x, y \in Events : Accepts(x) /\ Accepts(y) /\ AcceptSocket(x) = AcceptSocket(y) => x = y
        BY DEF ServerInv, SocketInv
      <4>. QED  BY <1>5, <2>3, <4>1, <4>2, <4>3
    <3>2. CASE p.op = "READ"
      <4>1. e0.stage = "READ" /\ p.key \in Keys /\ Reads(e0, p.key)
        BY <1>5, <1>6, <3>2 DEF OpStage, Reads
      <4>2. p.key \in completion_key_ptr_cache_
        BY <1>5, <4>1 DEF Placed
      <4>3. p.sock = socket_shared_ptr_[p.key]
        BY <3>2 DEF ServerInv, SocketInv, OperationSockets
      <4>. QED  BY <2>3, <4>2, <4>3, NextSockets
    <3>. QED  BY <2>3, <3>1, <3>2
  <2>4. ASSUME NEW e \in Events \ {e0}, e.stage = "post_accept"
        PROVE  peer'[io_socket_ptr_[e.new_io]] = peer[io_socket_ptr_[e.new_io]]
    BY <2>1, <2>2, <2>3, <2>4, NextSockets
  <2>5. /\ socket_io_buffer_cache_[Listen] \ IOs(e0) \subseteq socket_io_buffer_cache_'[Listen]
        /\ \A e \in Events : \A c \in IOs(e) : io_socket_ptr_'[c] = io_socket_ptr_[c]
    BY <1>2
  <2>. QED  BY <2>4, <2>5, CalmSockets
<1>8. ASSUME NEW ret \in BOOLEAN, NEW chunk \in Nat, Complete(p, ret, chunk),
             (p.op = "ACCEPT" /\ ret) \/ p.op # "ACCEPT" \/ faults' = faults + 1,
             faults' = faults \/ faults' = faults + 1
      PROVE  SlotInv'
  <2>1. PICK q : q = Packet(p, ret, chunk)
    OBVIOUS
  <2>2. /\ pending' = pending \ {p} /\ port' = Append(port, q)
        /\ q \in Packets /\ q.io = p.io /\ q.key = p.key /\ q.ret = ret
    BY <1>3, <1>8, <2>1 DEF Complete, Packet, Operations, Packets
  <2>3. PICK e1, N : e1 = PacketEvent(q) /\ N = {e1}
    OBVIOUS
  <2>4. Replaced(e0, N)
    BY <1>2, <1>4, <2>2, <2>3, CompletionMovesEvent
  <2>5. e1.io = e0.io /\ e1.key = e0.key /\ e1.stage = "packet" /\ e1.ret = ret
    BY <1>5, <2>2, <2>3, EventFields
  <2>6. Slot(e1) <=> Slot(e0)
    BY <1>6, <2>5, ServerConstants DEF Slot
  <2>7. ret => (Sound(e0) => Sound(e1))
    BY <2>5, <2>6 DEF Sound
  <2>8. (faults' = faults /\ (Sound(e0) => Sound(e1))) \/ faults' = faults + 1
    BY <1>6, <1>8, <2>7 DEF Sound
  <2>. QED  BY <1>2, <1>5, <1>7, <2>3, <2>4, <2>5, <2>6, <2>8, EventGoesOn
<1>9. CASE AcceptCompletes(p)
  BY <1>8, <1>9 DEF AcceptCompletes
<1>10. CASE AcceptFails(p)
  BY <1>8, <1>10 DEF AcceptFails, Fault
<1>11. CASE ReadCompletes(p)
  <2>1. received[p.sock] + 1 \in Nat
    BY <1>3 DEF ServerInv, ServerTyping, Operations
  <2>. QED  BY <1>8, <1>11, <2>1 DEF ReadCompletes
<1>12. CASE ReadEnds(p)
  <2>1. PICK ret \in BOOLEAN : Complete(p, ret, 0)
    BY <1>12 DEF ReadEnds
  <2>. QED  BY <1>8, <1>12, <2>1 DEF ReadEnds
<1>13. CASE WriteCompletes(p)
  <2>1. SentBytes \in Nat
    BY ServerConstants DEF SentBytes
  <2>. QED  BY <1>8, <1>13, <2>1 DEF WriteCompletes
<1>14. CASE OperationAborts(p)
  BY <1>8, <1>14 DEF OperationAborts
<1>. QED  BY <1>1, <1>9, <1>10, <1>11, <1>12, <1>13, <1>14

\* A packet is taken from the port.  That of an accept has a buffer of type
\* ACCEPT and is not dropped.
LEMMA DequeueSlots ==
    ASSUME ServerInv, ServerInv', SlotInv, NEW t \in Threads, Dequeue(t)
    PROVE  SlotInv'
<1>1. PICK p, e0 : p = Head(port) /\ e0 = PacketEvent(p)
  OBVIOUS
<1>2. /\ worker[t].pc = "loop" /\ port # <<>> /\ port' = Tail(port)
      /\ UNCHANGED <<pending, peer, io_socket_ptr_, socket_io_buffer_cache_, faults>>
  BY DEF Dequeue, At, fieldVars, keyVars
<1>3. /\ e0.io = p.io /\ e0.key = p.key /\ e0.stage = "packet" /\ e0.ret = p.ret
  BY <1>1, EventFields
<1>4. p \in Packets
  BY <1>1, <1>2 DEF ServerInv, ServerTyping
<1>5. Calm(e0)
  BY <1>2, CalmStep
<1>6. CASE io_event_type_[p.io] = "NULL"
  <2>1. worker' = worker
    BY <1>1, <1>6 DEF Dequeue
  <2>2. PICK N : N = {}
    OBVIOUS
  <2>3. e0 \in Events /\ Replaced(e0, N)
    BY <1>1, <1>2, <2>1, <2>2, DequeueMoves DEF Moved
  <2>4. e0.key # Listen
    <3>1. Placed(e0)
      BY <2>3 DEF ServerInv, EventInv, EventOK
    <3>. QED  BY <1>3, <1>6, <3>1 DEF Placed, Arriving
  <2>5. ~Sound(e0)
    BY <1>3, <2>4 DEF Sound, Slot
  <2>. QED  BY <1>2, <1>5, <2>2, <2>3, <2>5, EventEnds
<1>7. CASE io_event_type_[p.io] # "NULL"
  <2>1. PICK w : w = [Idle EXCEPT !.pc = "find_key", !.key = p.key, !.io = p.io,
                               !.ret = p.ret, !.chunk = p.chunk]
    OBVIOUS
  <2>2. worker' = [worker EXCEPT ![t] = w]
    BY <1>1, <1>7, <2>1 DEF Dequeue
  <2>3. /\ w \in WorkerRecords /\ w.pc = "find_key" /\ w.io = p.io /\ w.key = p.key
        /\ w.ret = p.ret
    BY <1>4, <2>1 DEF Idle, WorkerRecords, PCs, Packets
  <2>4. PICK e1, N : e1 = WorkerEvent(w) /\ N = {e1}
    OBVIOUS
  <2>5. e0 \in Events /\ Replaced(e0, N)
    BY <1>1, <1>2, <2>2, <2>3, <2>4, DequeueMoves DEF Moved
  <2>6. e1.io = e0.io /\ e1.key = e0.key /\ e1.stage = "find_key" /\ e1.ret = e0.ret
    BY <1>3, <2>3, <2>4, EventFields
  <2>7. (Slot(e1) => Slot(e0)) /\ (Sound(e0) => Sound(e1))
    BY <1>3, <2>6 DEF Slot, Sound, Accepting, Arriving
  <2>8. /\ e1 \in N /\ e1.stage # "post_accept" /\ \A e \in N : e = e1
        /\ socket_io_buffer_cache_[Listen] \subseteq socket_io_buffer_cache_'[Listen]
    BY <1>2, <2>4, <2>6
  <2>. QED  BY <1>2, <1>5, <2>5, <2>6, <2>7, <2>8, EventGoesOn
<1>. QED  BY <1>6, <1>7

\* The worker goes on at pc with the same event, having sent what is in P, and
\* does not lose or gain a slot.
LEMMA GotoSlots ==
    ASSUME ServerInv, ServerInv', SlotInv, NEW t \in Threads, worker[t].pc # "loop",
           NEW pc \in PCs \ {"loop", "post_accept"}, worker' = [worker EXCEPT ![t].pc = pc],
           NEW P, Posts(P), \A p \in P : p.op = "WRITE" /\ p.key \in Keys,
           worker[t].key = Listen /\ pc \in Accepting => worker[t].pc \in Accepting,
           worker[t].key = Listen /\ worker[t].pc \in Accepting /\ worker[t].ret
              => pc \in Accepting,
           pc \in Arriving => worker[t].pc \in Arriving,
           \A e \in Events : \A c \in IOs(e) : io_socket_ptr_'[c] = io_socket_ptr_[c],
           UNCHANGED <<peer, socket_io_buffer_cache_, faults>>,
           worker[t].key = Listen /\ worker[t].pc \in Accepting \ Arriving => pc \in Accepting
    PROVE  SlotInv'
<1>1. pc \in PCs \ {"loop"}
  OBVIOUS
<1>2. PICK e0, w, e1 : ContinuesWith(t, pc, e0, w, e1, P)
  BY <1>1, GoesOnWith
<1>3. PICK N : N = {e1} \cup Posted(P)
  OBVIOUS
<1>4. /\ WorkerGoes(t, e0, w, P, N) /\ e0 \in Events
      /\ e0.stage = worker[t].pc /\ e0.key = worker[t].key /\ e0.ret = worker[t].ret
      /\ e1.io = e0.io /\ e1.stage = pc /\ e1.key = e0.key /\ e1.ret = e0.ret
  BY <1>2, <1>3 DEF ContinuesWith, WorkerHas, SameBut
<1>5. Replaced(e0, N)
  BY <1>4, WorkerMoves
<1>6. \A e \in N : e = e1 \/ (~Slot(e) /\ e.stage # "post_accept")
  <2>1. ASSUME NEW p \in P PROVE ~Slot(OpEvent(p)) /\ OpEvent(p).stage # "post_accept"
    <3>1. OpEvent(p).stage = "WRITE" /\ OpEvent(p).key \in Keys
      BY EventFields DEF OpStage
    <3>. QED  BY <3>1, ServerConstants DEF Slot
  <2>. QED  BY <1>3, <2>1 DEF Posted
<1>7. e0.stage # "ACCEPT" /\ e0.stage # "packet" /\ pc # "ACCEPT" /\ pc # "packet"
  <2>1. worker[t].pc \in PCs
    BY DEF ServerInv, ServerTyping, WorkerRecords
  <2>. QED  BY <1>4, <2>1 DEF PCs
<1>8. /\ Slot(e0) <=> e0.key = Listen /\ e0.stage \in Accepting
      /\ Slot(e1) <=> e1.key = Listen /\ e1.stage \in Accepting
  BY <1>4, <1>7 DEF Slot
<1>9. (Slot(e1) => Slot(e0)) /\ (Sound(e0) => Sound(e1))
  BY <1>4, <1>8 DEF Sound
<1>10. Calm(e0)
  BY CalmSockets
<1>. QED  BY <1>3, <1>4, <1>5, <1>6, <1>9, <1>10, EventGoesOn

\* The worker is done with an event that is not a sound slot.
LEMMA ReturnSlots ==
    ASSUME ServerInv, ServerInv', SlotInv, NEW t \in Threads, worker[t].pc # "loop", Return(t),
           \/ worker[t].key # Listen
           \/ worker[t].pc \notin Accepting
           \/ worker[t].pc \in Arriving /\ ~worker[t].ret,
           UNCHANGED <<pending, port, peer, io_socket_ptr_, faults>>,
           socket_io_buffer_cache_[Listen] \ {worker[t].io}
              \subseteq socket_io_buffer_cache_'[Listen]
    PROVE  SlotInv'
<1>1. PICK e0 : ReturnsFrom(t, e0)
  BY Returns
<1>2. PICK N : N = {}
  OBVIOUS
<1>3. /\ WorkerGoes(t, e0, Idle, {}, N) /\ e0 \in Events /\ e0.stage = worker[t].pc
      /\ e0.key = worker[t].key /\ e0.ret = worker[t].ret /\ e0.io = worker[t].io /\ Placed(e0)
  BY <1>1, <1>2 DEF ReturnsFrom, WorkerHas, EventOK
<1>4. Replaced(e0, N)
  BY <1>3, WorkerMoves
<1>5. worker[t].pc \in PCs
  BY DEF ServerInv, ServerTyping, WorkerRecords
<1>6. ~Sound(e0)
  BY <1>3, <1>5 DEF Sound, Slot, PCs
<1>7. Calm(e0)
  <2>1. worker[t].io \in IOs(e0)
    BY <1>3, ServerConstants DEF Placed, IOs
  <2>. QED  BY <2>1, CalmStep
<1>. QED  BY <1>2, <1>3, <1>4, <1>6, <1>7, EventEnds

\* The event's key.  An accept is not taken for something else: its buffer has
\* type ACCEPT.
LEMMA FindKeySlots ==
    ASSUME ServerInv, ServerInv', SlotInv, NEW t \in Threads, FindKey(t), ~misread'
    PROVE  SlotInv'
<1>1. /\ worker[t].pc = "find_key" /\ worker[t].pc # "loop"
      /\ UNCHANGED <<pending, port, peer, io_socket_ptr_, socket_io_buffer_cache_, faults>>
  BY DEF FindKey, At, fieldVars, keyVars, kernelVars
<1>2. worker \in [Threads -> WorkerRecords]
  BY DEF ServerInv, ServerTyping
<1>3. CASE worker' = [worker EXCEPT ![t].pc = "find_io"]
  <2>1. PICK pc : pc = "find_io"
    OBVIOUS
  <2>2. /\ pc \in PCs \ {"loop", "post_accept"} /\ pc \in Accepting
        /\ worker[t].pc \in Accepting /\ worker[t].pc \in Arriving
    BY <1>1, <2>1 DEF PCs, Accepting, Arriving
  <2>3. PICK P : P = {} /\ Posts(P)
    BY <1>1, NoPosts
  <2>. QED  BY <1>1, <1>3, <2>1, <2>2, <2>3, GotoSlots
<1>4. CASE Key(t) = Listen /\ worker' = [worker EXCEPT ![t].pc = "find_io", ![t].key = Listen]
  <2>1. worker' = [worker EXCEPT ![t].pc = "find_io"]
    BY <1>2, <1>4 DEF Key, WorkerRecords
  <2>. QED  BY <1>3, <2>1
<1>5. CASE Return(t) /\ io_event_type_[IO(t)] # "ACCEPT"
  <2>1. PICK e0 : e0 = WorkerEvent(worker[t])
    OBVIOUS
  <2>2. /\ e0 \in Events /\ e0.stage = "find_key" /\ e0.key = worker[t].key
        /\ e0.io = worker[t].io
    BY <1>1, <2>1, HolderHasEvent, EventFields
  <2>3. worker[t].key # Listen
    BY <1>5, <2>2 DEF ServerInv, EventInv, EventOK, Placed, Arriving, IO
  <2>. QED  BY <1>1, <1>5, <2>3, ReturnSlots
<1>. QED  BY <1>3, <1>4, <1>5 DEF FindKey, Goto

\* What a callback sends is no accept, and changes no socket that an event has.
LEMMA SentPosts ==
    ASSUME ServerInv, NEW P, Sent(P), port' = port
    PROVE  /\ Posts(P)
           /\ \A p \in P : p.op = "WRITE" /\ p.key \in Keys
           /\ \A e \in Events : \A c \in IOs(e) : io_socket_ptr_'[c] = io_socket_ptr_[c]
<1>1. ASSUME NEW p \in P, NEW x \in pending
      PROVE  x.io # p.io
  <2>1. OpEvent(x) \in Events /\ OpEvent(x).io = x.io
    BY HolderHasEvent, EventFields
  <2>. QED  BY <2>1, ServerConstants DEF Sent, IOs
<1>. QED  BY <1>1 DEF Sent, Posts

\* The branch of the event.  The listen key has the buffer of an accept, so a
\* sound one goes on to ProcessAcceptEvent_; one that failed ends here.
LEMMA FindIOSlots ==
    ASSUME ServerInv, ServerInv', SlotInv, NEW t \in Threads, FindIO(t)
    PROVE  SlotInv'
<1>1. /\ worker[t].pc = "find_io" /\ worker[t].pc # "loop"
      /\ UNCHANGED <<port, peer, socket_io_buffer_cache_, faults>>
  BY DEF FindIO, At, keyVars
<1>2. PICK e0 : e0 = WorkerEvent(worker[t])
  OBVIOUS
<1>3. /\ e0 \in Events /\ e0.stage = "find_io" /\ e0.key = worker[t].key
      /\ e0.io = worker[t].io /\ Placed(e0) /\ SlotOK(e0)
  BY <1>1, <1>2, HolderHasEvent, EventFields DEF ServerInv, EventInv, EventOK, SlotInv
<1>4. worker[t].key = Listen =>
        io_event_type_[IO(t)] = "ACCEPT" /\ IO(t) \in socket_io_buffer_cache_[Key(t)]
  BY <1>3 DEF Placed, Arriving, SlotOK, Slot, Accepting, IO, Key
<1>5. worker[t].pc \in Accepting /\ worker[t].pc \in Arriving
  BY <1>1 DEF Accepting, Arriving
<1>6. CASE /\ DispatchFirstData(io_socket_ptr_[IO(t)], worker[t].chunk)
           /\ Goto(t, "create_context")
  <2>1. PICK P : Sent(P)
    <3>1. CASE worker[t].chunk = 0
      <4>1. Sent({})
        BY <1>6, <3>1 DEF DispatchFirstData, Sent, poolVars, bufferVars, socketPoolVars,
                  fieldVars, ServerInv, ServerTyping, TypeOK, BufferTypeOK, UniqueInv, Held, IOs
      <4>. QED  BY <4>1
    <3>2. CASE worker[t].chunk # 0
      BY <1>6, <3>2, ServerConstants, SendUsesNewBuffer DEF DispatchFirstData
    <3>. QED  BY <3>1, <3>2
  <2>2. PICK pc : pc = "create_context"
    OBVIOUS
  <2>3. pc \in PCs \ {"loop", "post_accept"} /\ pc \in Accepting /\ pc \notin Arriving
    BY <2>2 DEF PCs, Accepting, Arriving
  <2>. QED  BY <1>1, <1>5, <1>6, <2>1, <2>2, <2>3, SentPosts, GotoSlots DEF Goto
<1>7. ASSUME NEW pc \in {"callback", "release_key"}, Goto(t, pc), io_event_type_[IO(t)] = "READ",
             UNCHANGED <<fieldVars, pending>>
      PROVE  SlotInv'
  <2>1. worker[t].key # Listen
    BY <1>4, <1>7
  <2>2. pc \in PCs \ {"loop", "post_accept"} /\ pc \notin Arriving
    BY <1>7 DEF PCs, Arriving
  <2>3. PICK P : P = {} /\ Posts(P)
    BY <1>1, <1>7, NoPosts
  <2>4. io_socket_ptr_' = io_socket_ptr_
    BY <1>7 DEF fieldVars
  <2>. QED  BY <1>1, <1>7, <2>1, <2>2, <2>3, <2>4, GotoSlots DEF Goto
<1>8. ASSUME Return(t), worker[t].key # Listen \/ ~worker[t].ret, UNCHANGED <<fieldVars, pending>>
      PROVE  SlotInv'
  BY <1>1, <1>5, <1>8, ReturnSlots DEF fieldVars
<1>. QED  BY <1>4, <1>6, <1>7, <1>8 DEF FindIO, IsAccept, IsRead, IsClientExit, Key

\* The callback of a read, whose key is not the listen key.
LEMMA ReadCallbackSlots ==
    ASSUME ServerInv, ServerInv', SlotInv, NEW t \in Threads, ReadCallback(t)
    PROVE  SlotInv'
<1>1. /\ worker[t].pc = "callback" /\ worker[t].pc # "loop" /\ Goto(t, "get_io")
      /\ SendDataUserInterface(Key(t))
      /\ UNCHANGED <<port, peer, socket_io_buffer_cache_, faults>>
  BY DEF ReadCallback, At, keyVars
<1>2. PICK e0 : e0 = WorkerEvent(worker[t])
  OBVIOUS
<1>3. /\ e0 \in Events /\ e0.stage = "callback" /\ e0.key = worker[t].key /\ Placed(e0)
  BY <1>1, <1>2, HolderHasEvent, EventFields DEF ServerInv, EventInv, EventOK
<1>4. /\ Key(t) \in Keys /\ Key(t) \in completion_key_ptr_cache_ /\ HasReader(Key(t))
      /\ worker[t].key # Listen
  BY <1>3, ServerConstants DEF Placed, Reads, HasReader, Key
<1>5. PICK P : Sent(P)
  BY <1>1, <1>4, SendUsesNewBuffer
<1>6. PICK pc : pc = "get_io"
  OBVIOUS
<1>7. pc \in PCs \ {"loop", "post_accept"} /\ pc \notin Arriving
  BY <1>6 DEF PCs, Arriving
<1>. QED  BY <1>1, <1>4, <1>5, <1>6, <1>7, SentPosts, GotoSlots DEF Goto

\* The lock for the release of a key is taken.
LEMMA ReleaseCompletionKeySlots ==
    ASSUME ServerInv, ServerInv', SlotInv, NEW t \in Threads, ReleaseCompletionKey(t)
    PROVE  SlotInv'
<1>1. /\ worker[t].pc = "release_key" /\ worker[t].pc # "loop" /\ Goto(t, "release_context")
      /\ UNCHANGED <<pending, port, peer, io_socket_ptr_, socket_io_buffer_cache_, faults>>
  BY DEF ReleaseCompletionKey, At, fieldVars, kernelVars
<1>2. PICK pc : pc = "release_context"
  OBVIOUS
<1>3. /\ pc \in PCs \ {"loop", "post_accept"} /\ pc \notin Arriving /\ pc \notin Accepting
      /\ worker[t].pc \notin Accepting
  BY <1>1, <1>2 DEF PCs, Arriving, Accepting
<1>4. PICK P : P = {} /\ Posts(P)
  BY <1>1, NoPosts
<1>. QED  BY <1>1, <1>2, <1>3, <1>4, GotoSlots DEF Goto

\* The used buffer leaves its key's cache; no slot has it.
LEMMA ReleaseUsedIOContextSlots ==
    ASSUME ServerInv, ServerInv', SlotInv, NEW t \in Threads, ReleaseUsedIOContext(t)
    PROVE  SlotInv'
<1>1. /\ worker[t].pc = "release_io" /\ worker[t].pc # "loop" /\ Return(t)
      /\ socket_io_buffer_cache_' = [socket_io_buffer_cache_ EXCEPT ![Key(t)] = @ \ {IO(t)}]
      /\ UNCHANGED <<pending, port, peer, io_socket_ptr_, faults>>
  BY DEF ReleaseUsedIOContext, At, fieldVars, kernelVars
<1>2. worker[t].pc \notin Accepting
  BY <1>1 DEF Accepting
<1>3. socket_io_buffer_cache_[Listen] \ {worker[t].io} \subseteq socket_io_buffer_cache_'[Listen]
  <2>1. socket_io_buffer_cache_ \in [Keys \cup {Listen} -> SUBSET Buffers]
    BY DEF ServerInv, ServerTyping, TypeOK
  <2>. QED  BY <1>1, <2>1 DEF IO
<1>. QED  BY <1>1, <1>2, <1>3, ReturnSlots

\* The worker goes on with the record w and the same kernel.
LEMMA RecordSlots ==
    ASSUME ServerInv, ServerInv', SlotInv, NEW t \in Threads, NEW w \in WorkerRecords,
           worker[t].pc \in Accepting \ Arriving,
           w.pc \in Accepting \ (Arriving \cup {"post_accept"}),
           w.io = worker[t].io, w.key = worker[t].key,
           worker' = [worker EXCEPT ![t] = w],
           UNCHANGED <<pending, port, peer, faults>>,
           \A e \in Events : \A c \in IOs(e) : io_socket_ptr_'[c] = io_socket_ptr_[c],
           socket_io_buffer_cache_[Listen] \subseteq socket_io_buffer_cache_'[Listen]
    PROVE  SlotInv'
<1>1. worker[t].pc # "loop" /\ w.pc # "loop"
  BY DEF Accepting
<1>2. PICK e0, e1 : /\ WorkerHas(t, e0) /\ WorkerGoes(t, e0, w, {}, {e1})
                    /\ e1 = WorkerEvent(w)
  BY <1>1, GoesWith
<1>3. PICK N : N = {e1}
  OBVIOUS
<1>4. /\ e0 \in Events /\ e0.stage = worker[t].pc /\ e0.key = worker[t].key
      /\ e1.io = e0.io /\ e1.stage = w.pc /\ e1.key = e0.key
      /\ Replaced(e0, N)
  BY <1>2, <1>3, EventFields, WorkerMoves DEF WorkerHas
<1>5. (Slot(e1) => Slot(e0)) /\ (Sound(e0) => Sound(e1))
  BY <1>4 DEF Slot, Sound, Accepting
<1>6. Calm(e0)
  BY CalmSockets
<1>7. e1 \in N /\ e1.stage # "post_accept" /\ \A e \in N : e = e1
  BY <1>3, <1>4
<1>. QED  BY <1>4, <1>5, <1>6, <1>7, EventGoesOn

\* The new connection's key.
LEMMA CreateNewSocketContextSlots ==
    ASSUME ServerInv, ServerInv', SlotInv, NEW t \in Threads, CreateNewSocketContext(t)
    PROVE  SlotInv'
<1>1. PICK k \in FreshKeys :
          /\ socket_io_buffer_cache_' = [socket_io_buffer_cache_ EXCEPT ![k] = {}]
          /\ worker' = [worker EXCEPT ![t].pc = "get_io", ![t].new_key = k]
  BY DEF CreateNewSocketContext
<1>2. /\ worker[t].pc = "create_context"
      /\ UNCHANGED <<io_socket_ptr_, pending, port, peer, faults>>
  BY DEF CreateNewSocketContext, At, fieldVars, kernelVars
<1>3. k \in Keys /\ k # Listen
  BY ServerConstants DEF FreshKeys
<1>4. PICK w : w = [worker[t] EXCEPT !.pc = "get_io", !.new_key = k]
  OBVIOUS
<1>5. /\ w \in WorkerRecords /\ w.pc = "get_io" /\ w.io = worker[t].io
      /\ w.key = worker[t].key /\ worker' = [worker EXCEPT ![t] = w]
  BY <1>1, <1>3, <1>4 DEF ServerInv, ServerTyping, WorkerRecords, PCs
<1>6. socket_io_buffer_cache_[Listen] \subseteq socket_io_buffer_cache_'[Listen]
  BY <1>1, <1>3 DEF ServerInv, ServerTyping, TypeOK
<1>7. /\ worker[t].pc \in Accepting \ Arriving
      /\ w.pc \in Accepting \ (Arriving \cup {"post_accept"})
  BY <1>2, <1>5 DEF Accepting, Arriving
<1>. QED  BY <1>2, <1>5, <1>6, <1>7, RecordSlots

\* The buffer of the next read.
LEMMA GetReadBufferSlots ==
    ASSUME ServerInv, ServerInv', SlotInv, NEW t \in Threads, GetReadBuffer(t)
    PROVE  SlotInv'
<1>1. PICK k : k = ReadKey(t)
  OBVIOUS
<1>2. PICK b \in Buffers :
          /\ GetIOContextBuffer(b)
          /\ io_socket_ptr_' = [SocketsFromPool EXCEPT ![b] = socket_shared_ptr_[k]]
          /\ socket_io_buffer_cache_' = [socket_io_buffer_cache_ EXCEPT ![k] = @ \cup {b}]
          /\ worker' = [worker EXCEPT ![t].pc = "post_read", ![t].new_io = b]
  BY <1>1 DEF GetReadBuffer
<1>3. worker[t].pc = "get_io" /\ UNCHANGED <<pending, port, peer, faults>>
  BY DEF GetReadBuffer, At, kernelVars
<1>4. PICK w : w = [worker[t] EXCEPT !.pc = "post_read", !.new_io = b]
  OBVIOUS
<1>5. /\ w \in WorkerRecords /\ w.pc = "post_read" /\ w.io = worker[t].io
      /\ w.key = worker[t].key /\ worker' = [worker EXCEPT ![t] = w]
  BY <1>2, <1>4 DEF ServerInv, ServerTyping, WorkerRecords, PCs
<1>6. /\ \A e \in Events : b \notin IOs(e)
      /\ \A e \in Events : \A c \in IOs(e) : SocketsFromPool[c] = io_socket_ptr_[c]
      /\ SocketsFromPool \in [Buffers -> Sockets \cup {NoSocket}]
  BY <1>2, GotBuffer
<1>7. \A e \in Events : \A c \in IOs(e) : io_socket_ptr_'[c] = io_socket_ptr_[c]
  <2>1. \A e \in Events : \A c \in IOs(e) : c \in Buffers \ {b}
    BY <1>6 DEF ServerInv, UniqueInv, Held, ServerTyping, TypeOK, BufferTypeOK
  <2>. QED  BY <1>2, <1>6, <2>1
<1>8. socket_io_buffer_cache_[Listen] \subseteq socket_io_buffer_cache_'[Listen]
  <2>1. socket_io_buffer_cache_ \in [Keys \cup {Listen} -> SUBSET Buffers]
    BY DEF ServerInv, ServerTyping, TypeOK
  <2>. QED  BY <1>2, <2>1
<1>9. /\ worker[t].pc \in Accepting \ Arriving
      /\ w.pc \in Accepting \ (Arriving \cup {"post_accept"})
  BY <1>3, <1>5 DEF Accepting, Arriving
<1>. QED  BY <1>3, <1>5, <1>7, <1>8, <1>9, RecordSlots

\* The read request is posted or not; the accept it came with goes on to the
\* next accept request.
LEMMA PostReadRequestEventSlots ==
    ASSUME ServerInv, ServerInv', SlotInv, NEW t \in Threads, PostReadRequestEvent(t)
    PROVE  SlotInv'
<1>1. PICK k, b, s : k = ReadKey(t) /\ b = worker[t].new_io /\ s = socket_shared_ptr_[k]
  OBVIOUS
<1>2. /\ worker[t].pc = "post_read"
      /\ UNCHANGED <<io_socket_ptr_, socket_io_buffer_cache_, port, peer>>
      /\ worker' = [worker EXCEPT ![t].pc = AfterPostRead(t),
                                  ![t].new_key = NoKey, ![t].new_io = NoBuffer]
      /\ pending' = pending \cup {Operation("READ", k, b, s)} \/ pending' = pending
      /\ faults' = faults \/ faults' = faults + 1
  BY <1>1 DEF PostReadRequestEvent, At, Fault, fieldVars, keyVars
<1>3. worker[t] \in WorkerRecords /\ worker \in [Threads -> WorkerRecords]
  BY DEF ServerInv, ServerTyping
<1>4. PICK e0 : e0 = WorkerEvent(worker[t])
  OBVIOUS
<1>5. /\ e0 \in Events /\ Placed(e0)
      /\ e0.io = worker[t].io /\ e0.new_io = b
      /\ e0.key = worker[t].key /\ e0.new_key = worker[t].new_key
      /\ e0.stage = "post_read" /\ ReaderKey(e0) = k
  BY <1>1, <1>2, <1>4, HolderHasEvent, EventFields
     DEF ServerInv, EventInv, EventOK, ReaderKey, ReadKey, Key
<1>6. k \in Keys /\ b \in Buffers /\ s \in Sockets
  <2>1. k \in Keys /\ Reads(e0, k)
    BY <1>5 DEF Placed, Reads
  <2>2. s \in Sockets
    BY <1>1, <1>5, <2>1, NoSocketUsed
  <2>3. b \in Buffers
    BY <1>1, <1>3, <1>5 DEF Placed, WorkerRecords
  <2>. QED  BY <2>1, <2>2, <2>3
<1>7. PICK w : w = [worker[t] EXCEPT !.pc = AfterPostRead(t), !.new_key = NoKey,
                                     !.new_io = NoBuffer]
  OBVIOUS
<1>8. /\ w \in WorkerRecords /\ w.io = worker[t].io /\ w.key = worker[t].key
      /\ w.pc = IF worker[t].new_key # NoKey THEN "get_accept_io" ELSE "release_io"
      /\ w.pc \in {"release_io", "get_accept_io"} /\ w.pc # "loop"
      /\ worker' = [worker EXCEPT ![t] = w]
  BY <1>2, <1>3, <1>7 DEF WorkerRecords, PCs, AfterPostRead
<1>9. PICK e1 : e1 = WorkerEvent(w)
  OBVIOUS
<1>10. /\ e1.io = e0.io /\ e1.key = e0.key /\ e1.stage = w.pc /\ Continued(w) = {e1}
  BY <1>5, <1>8, <1>9, EventFields DEF Continued
<1>11. (Slot(e1) => Slot(e0)) /\ (Sound(e0) => Sound(e1))
  <2>1. e0.key = Listen => e0.new_key # NoKey
    BY <1>5, ServerConstants DEF Placed, ReaderKey
  <2>. QED  BY <1>5, <1>8, <1>10, <2>1 DEF Slot, Sound, Accepting, Arriving
<1>12. Calm(e0)
  BY <1>2, CalmStep
<1>13. ASSUME NEW P, Posts(P), \A p \in P : p.op = "READ" /\ p.key \in Keys
       PROVE  SlotInv'
  <2>1. PICK N : N = {e1} \cup Posted(P)
    OBVIOUS
  <2>2. WorkerGoes(t, e0, w, P, N)
    BY <1>2, <1>4, <1>8, <1>10, <1>13, <2>1 DEF WorkerGoes
  <2>3. Replaced(e0, N)
    BY <2>2, WorkerMoves
  <2>4. \A e \in N : e = e1 \/ (~Slot(e) /\ e.stage # "post_accept")
    <3>1. ASSUME NEW p \in P PROVE ~Slot(OpEvent(p)) /\ OpEvent(p).stage # "post_accept"
      <4>1. OpEvent(p).stage = "READ" /\ OpEvent(p).key \in Keys
        BY <1>13, EventFields DEF OpStage
      <4>. QED  BY <4>1, ServerConstants DEF Slot
    <3>. QED  BY <2>1, <3>1 DEF Posted
  <2>5. e1 \in N /\ e1.stage # "post_accept"
    BY <1>8, <1>10, <2>1
  <2>. QED  BY <1>2, <1>5, <1>10, <1>11, <1>12, <2>3, <2>4, <2>5, EventGoesOn
<1>14. CASE pending' = pending \cup {Operation("READ", k, b, s)}
  <2>1. PICK p : p = Operation("READ", k, b, s)
    OBVIOUS
  <2>2. p \in Operations /\ p.io = worker[t].new_io /\ p.op = "READ" /\ p.key \in Keys
    BY <1>1, <1>6, <2>1 DEF Operation, Operations
  <2>3. Posts({p})
    BY <1>2, <1>14, <2>1, <2>2, PostsNewBuffer
  <2>. QED  BY <1>13, <2>2, <2>3
<1>15. CASE pending' = pending
  <2>1. Posts({})
    BY <1>2, <1>15, NoPosts
  <2>. QED  BY <1>13, <2>1
<1>. QED  BY <1>2, <1>14, <1>15

\* The next accept's buffer and its socket, which no event and no key has.
LEMMA GetAcceptBufferSlots ==
    ASSUME ServerInv, ServerInv', SlotInv, NEW t \in Threads, GetAcceptBuffer(t)
    PROVE  SlotInv'
<1>1. PICK b \in Buffers, s \in Sockets, added \in SocketReallocations(FreshSockets) :
          /\ GetIOContextBuffer(b)
          /\ GetNextUnuseSocket(s, added, FreshSockets)
          /\ io_socket_ptr_' = [SocketsFromPool EXCEPT ![b] = s]
          /\ socket_io_buffer_cache_' = [socket_io_buffer_cache_ EXCEPT ![Listen] = @ \cup {b}]
          /\ peer' = [peer EXCEPT ![s] = "none"]
          /\ worker' = [worker EXCEPT ![t].pc = "post_accept", ![t].new_io = b]
  BY DEF GetAcceptBuffer
<1>2. worker[t].pc = "get_accept_io" /\ UNCHANGED <<pending, port, faults>>
  BY DEF GetAcceptBuffer, At
<1>3. s \notin socket_inuse_pool_
  BY <1>1, GotSocket
<1>4. PICK w : w = [worker[t] EXCEPT !.pc = "post_accept", !.new_io = b]
  OBVIOUS
<1>5. /\ w \in WorkerRecords /\ w.pc = "post_accept" /\ w.io = worker[t].io
      /\ w.key = worker[t].key /\ w.new_io = b
      /\ worker' = [worker EXCEPT ![t] = w]
  BY <1>1, <1>4 DEF ServerInv, ServerTyping, WorkerRecords, PCs
<1>6. PICK e0, e1 : /\ WorkerHas(t, e0) /\ WorkerGoes(t, e0, w, {}, {e1})
                    /\ e1 = WorkerEvent(w)
  BY <1>2, <1>5, GoesWith
<1>7. PICK N : N = {e1}
  OBVIOUS
<1>8. /\ e0 \in Events /\ e0.stage = "get_accept_io" /\ Placed(e0) /\ SlotOK(e0)
      /\ e1.io = e0.io /\ e1.stage = "post_accept" /\ e1.key = e0.key /\ e1.new_io = b
      /\ Replaced(e0, N)
  BY <1>2, <1>5, <1>6, <1>7, EventFields, WorkerMoves DEF WorkerHas, EventOK, SlotInv
<1>9. e0.key = Listen /\ Slot(e0) /\ Sound(e1) /\ Share(e1, e0)
  <2>1. e0.key = Listen /\ e0.io # NoBuffer
    BY <1>8, ServerConstants DEF Placed
  <2>. QED  BY <1>8, <2>1 DEF Slot, Sound, Accepting, Arriving, Share, IOs
<1>10. /\ \A e \in Events : b \notin IOs(e)
       /\ \A e \in Events : \A c \in IOs(e) : SocketsFromPool[c] = io_socket_ptr_[c]
       /\ SocketsFromPool \in [Buffers -> Sockets \cup {NoSocket}]
  BY <1>1, GotBuffer
<1>11. /\ \A e \in Events : \A c \in IOs(e) : io_socket_ptr_'[c] = io_socket_ptr_[c]
       /\ io_socket_ptr_'[b] = s
  <2>1. \A e \in Events : \A c \in IOs(e) : c \in Buffers \ {b}
    BY <1>10 DEF ServerInv, UniqueInv, Held, ServerTyping, TypeOK, BufferTypeOK
  <2>. QED  BY <1>1, <1>10, <2>1
<1>12. /\ socket_io_buffer_cache_'[Listen] = socket_io_buffer_cache_[Listen] \cup {b}
       /\ peer'[s] = "none" /\ \A x \in Sockets : x # s => peer'[x] = peer[x]
  BY <1>1 DEF ServerInv, ServerTyping, TypeOK
<1>13. Calm(e0)
  <2>1. \A e \in Events \ {e0} : e.stage = "post_accept" =>
           peer'[io_socket_ptr_[e.new_io]] = peer[io_socket_ptr_[e.new_io]]
    BY <1>3, <1>12, NextSockets
  <2>2. socket_io_buffer_cache_[Listen] \ IOs(e0) \subseteq socket_io_buffer_cache_'[Listen]
    BY <1>12
  <2>. QED  BY <1>11, <2>1, <2>2, CalmSockets
<1>14. SlotOK(e1)'
  <2>1. e1.io \in socket_io_buffer_cache_'[Listen]
    BY <1>8, <1>9, <1>12 DEF SlotOK
  <2>. QED  BY <1>8, <1>11, <1>12, <2>1 DEF SlotOK
<1>15. SlotsPass(e0, N)
  BY <1>2, <1>7, <1>9, <1>13, <1>14 DEF SlotsPass
<1>. QED  BY <1>8, <1>15, SlotsKept

\* AcceptEx: the slot passes from the worker to the kernel.  It fails only by
\* a fault, since the socket is not connected; then the worker tries once more
\* or goes on without a slot.
LEMMA PostAcceptEventSlots ==
    ASSUME ServerInv, ServerInv', SlotInv, NEW t \in Threads, PostAcceptEvent(t)
    PROVE  SlotInv'
<1>1. PICK b, s : b = worker[t].new_io /\ s = io_socket_ptr_[b]
  OBVIOUS
<1>2. /\ worker[t].pc = "post_accept"
      /\ UNCHANGED <<io_socket_ptr_, socket_io_buffer_cache_, port, peer>>
  BY DEF PostAcceptEvent, At, fieldVars, keyVars
<1>3. PICK posted \in BOOLEAN :
      /\ worker' = [worker EXCEPT ![t] = [worker[t] EXCEPT
                          !.pc = AfterPostAccept(worker[t].tries, posted),
                          !.tries = @ + 1, !.new_io = NoBuffer]]
      /\ \/ /\ posted /\ faults' = faults
            /\ pending' = pending \cup {Operation("ACCEPT", Listen, b, s)}
         \/ /\ ~posted /\ pending' = pending
            /\ peer[s] = "none" => faults' = faults + 1
  BY <1>1 DEF PostAcceptEvent, Fault
<1>4. worker[t] \in WorkerRecords /\ worker \in [Threads -> WorkerRecords]
  BY DEF ServerInv, ServerTyping
<1>5. PICK e0 : e0 = WorkerEvent(worker[t])
  OBVIOUS
<1>6. /\ e0 \in Events /\ Placed(e0) /\ SlotOK(e0)
      /\ e0.io = worker[t].io /\ e0.new_io = b /\ e0.key = worker[t].key
      /\ e0.stage = "post_accept"
  BY <1>1, <1>2, <1>5, HolderHasEvent, EventFields DEF ServerInv, EventInv, EventOK, SlotInv
<1>7. /\ e0.key = Listen /\ Slot(e0) /\ peer[s] = "none"
      /\ e0.io \in socket_io_buffer_cache_[Listen] /\ b \in socket_io_buffer_cache_[Listen]
  <2>1. e0.key = Listen
    BY <1>6 DEF Placed
  <2>2. Slot(e0)
    BY <1>6, <2>1 DEF Slot, Accepting
  <2>. QED  BY <1>1, <1>6, <2>1, <2>2 DEF SlotOK
<1>8. b \in Buffers /\ s \in Sockets /\ b # NoBuffer
  <2>1. s \in Sockets
    BY <1>1, <1>6, NextSockets
  <2>2. b \in Buffers /\ b # NoBuffer
    BY <1>1, <1>4, <1>6 DEF Placed, WorkerRecords
  <2>. QED  BY <2>1, <2>2
<1>9. PICK w : w = [worker[t] EXCEPT !.pc = AfterPostAccept(worker[t].tries, posted),
                                     !.tries = @ + 1, !.new_io = NoBuffer]
  OBVIOUS
<1>10. /\ w \in WorkerRecords /\ w.io = worker[t].io /\ w.key = worker[t].key
       /\ w.pc \in {"release_io", "get_accept_io"} /\ w.pc # "loop"
       /\ posted => w.pc = "release_io"
       /\ worker' = [worker EXCEPT ![t] = w]
  <2>1. PICK pc \in {"release_io", "get_accept_io"} :
           /\ pc = AfterPostAccept(worker[t].tries, posted)
           /\ posted => pc = "release_io"
    BY DEF AfterPostAccept
  <2>2. PICK n \in Nat : n = worker[t].tries + 1
    BY <1>4 DEF WorkerRecords
  <2>3. w = [worker[t] EXCEPT !.pc = pc, !.tries = n, !.new_io = NoBuffer]
    BY <1>4, <1>9, <2>1, <2>2 DEF WorkerRecords
  <2>4. worker' = [worker EXCEPT ![t] = w]
    BY <1>3, <1>9
  <2>5. pc \in PCs /\ pc # "loop"
    BY <2>1 DEF PCs
  <2>. QED  BY <1>4, <2>1, <2>2, <2>3, <2>4, <2>5 DEF WorkerRecords
<1>11. PICK e1 : e1 = WorkerEvent(w)
  OBVIOUS
<1>12. /\ e1.io = e0.io /\ e1.key = e0.key /\ e1.stage = w.pc /\ Continued(w) = {e1}
  BY <1>6, <1>10, <1>11, EventFields DEF Continued
<1>13. Calm(e0)
  BY <1>2, CalmStep
<1>14. CASE posted
  <2>1. PICK p : p = Operation("ACCEPT", Listen, b, s)
    OBVIOUS
  <2>2. /\ p \in Operations /\ p.io = worker[t].new_io /\ p.op = "ACCEPT"
        /\ pending' = pending \cup {p} /\ faults' = faults
    BY <1>1, <1>3, <1>8, <1>14, <2>1 DEF Operation, Operations
  <2>3. Posts({p})
    BY <1>2, <2>2, PostsNewBuffer
  <2>4. PICK e2, N : e2 = OpEvent(p) /\ N = {e1, e2}
    OBVIOUS
  <2>5. Posted({p}) = {e2} /\ e2.stage = "ACCEPT" /\ e2.io = b
    <3>1. OpEvent(p).stage = "ACCEPT" /\ OpEvent(p).io = b
      BY <1>1, <2>2, EventFields DEF OpStage
    <3>. QED  BY <2>4, <3>1 DEF Posted
  <2>6. N = Continued(w) \cup Posted({p})
    BY <1>12, <2>4, <2>5
  <2>7. WorkerGoes(t, e0, w, {p}, N)
    BY <1>2, <1>5, <1>10, <2>3, <2>6 DEF WorkerGoes
  <2>8. Replaced(e0, N)
    BY <2>7, WorkerMoves
  <2>9. ~Slot(e1) /\ e1.stage # "post_accept"
    BY <1>10, <1>12, <1>14 DEF Slot, Accepting
  <2>10. Slot(e2) /\ Sound(e2) /\ Share(e2, e0)
    BY <1>6, <1>8, <2>5 DEF Slot, Sound, Arriving, Share, IOs
  <2>11. SlotOK(e1)' /\ SlotOK(e2)'
    <3>1. (Slot(e1)' <=> Slot(e1)) /\ (Slot(e2)' <=> Slot(e2))
      BY DEF Slot
    <3>. QED  BY <1>2, <1>7, <2>5, <2>9, <3>1 DEF SlotOK
  <2>12. SlotsPass(e0, N)
    BY <1>7, <1>13, <2>2, <2>4, <2>9, <2>10, <2>11 DEF SlotsPass
  <2>. QED  BY <1>6, <2>8, <2>12, SlotsKept
<1>15. CASE ~posted
  <2>1. pending' = pending /\ faults' = faults + 1
    BY <1>3, <1>7, <1>15
  <2>2. PICK N : N = {e1}
    OBVIOUS
  <2>3. Posts({}) /\ N = Continued(w) \cup Posted({})
    BY <1>2, <1>12, <2>1, <2>2, NoPosts
  <2>4. WorkerGoes(t, e0, w, {}, N)
    BY <1>2, <1>5, <1>10, <2>3 DEF WorkerGoes
  <2>5. Replaced(e0, N)
    BY <2>4, WorkerMoves
  <2>6. e1 \in N /\ e1.stage # "post_accept" /\ \A e \in N : e = e1
    BY <1>10, <1>12, <2>2
  <2>. QED  BY <1>2, <1>6, <1>7, <1>12, <1>13, <2>1, <2>5, <2>6, EventGoesOn
<1>. QED  BY <1>14, <1>15

\* A connection that is released is no slot, and its socket is not one that is
\* about to be handed to AcceptEx.
LEMMA ReleaseSlots ==
    ASSUME ServerInv, ServerInv', SlotInv, NEW k \in completion_key_ptr_cache_, NEW e0,
           ReleaseContextOf(k), WorkersWithout(e0), LastEvent(e0, k),
           e0 \in Events \/ (IOs(e0) = {} /\ e0.stage = "loop")
    PROVE  SlotInv'
<1>1. PICK s, N : s = socket_shared_ptr_[k] /\ N = {}
  OBVIOUS
<1>2. Replaced(e0, N)
  BY <1>1, ReleaseMoves DEF Moved
<1>3. /\ peer' = [peer EXCEPT ![s] = "closed"]
      /\ UNCHANGED <<io_socket_ptr_, socket_io_buffer_cache_, faults>>
  BY <1>1 DEF ReleaseContextOf, fieldVars
<1>4. ~Sound(e0)
  <2>1. e0 \in Events => e0.key = k /\ e0.stage \in PCs /\ k \in Keys
    BY DEF LastEvent, ServerInv, ServerTyping, TypeOK
  <2>2. "ACCEPT" \notin PCs /\ "loop" \notin Accepting \cup {"packet"}
    BY DEF PCs, Accepting
  <2>. QED  BY <2>1, <2>2, ServerConstants DEF Sound, Slot
<1>5. ASSUME NEW e \in Events, e.stage = "post_accept"
      PROVE  peer'[io_socket_ptr_[e.new_io]] = peer[io_socket_ptr_[e.new_io]]
  <2>1. io_socket_ptr_[e.new_io] \in Sockets /\ s # io_socket_ptr_[e.new_io]
    BY <1>1, <1>5, NextSockets
  <2>. QED  BY <1>3, <2>1 DEF ServerInv, ServerTyping, TypeOK
<1>6. Calm(e0)
  BY <1>3, <1>5, CalmSockets
<1>. QED  BY <1>1, <1>2, <1>3, <1>4, <1>6, EventEnds

\* A step that changes nothing.
LEMMA StutterSlots ==
    ASSUME SlotInv, UNCHANGED vars
    PROVE  SlotInv'
<1>1. UNCHANGED <<worker, pending, port, peer, io_socket_ptr_, socket_io_buffer_cache_, faults>>
  BY DEF vars, fieldVars, keyVars, kernelVars
<1>2. UNCHANGED OpEvents /\ UNCHANGED PacketEvents /\ UNCHANGED WorkerEvents
  BY <1>1 DEF OpEvents, OpEvent, OpStage, PacketEvents, PacketEvent, WorkerEvents,
              WorkerEvent, Busy
<1>3. UNCHANGED Events
  BY <1>2 DEF Events
<1>4. \A e : (Slot(e)' <=> Slot(e)) /\ (Sound(e)' <=> Sound(e)) /\ (SlotOK(e)' <=> SlotOK(e))
  BY <1>1 DEF Slot, Sound, SlotOK
<1>5. UNCHANGED Slots /\ UNCHANGED SoundSlots
  BY <1>3, <1>4 DEF Slots, SoundSlots
<1>. QED  BY <1>1, <1>3, <1>4, <1>5 DEF SlotInv

\* Every step of the workers, the kernel and the collector.
LEMMA SlotInvStep ==
    ASSUME ServerInv, ServerInv', SlotInv, ~raced', ~misread',
           [Next]_vars \/ \E k \in Keys : Evict(k)
    PROVE  SlotInv'
<1>1. ASSUME NEW t \in Threads, WorkerStep(t)
      PROVE  SlotInv'
  <2>1. CASE Dequeue(t)
    BY <2>1, DequeueSlots
  <2>2. CASE FindIO(t)
    BY <2>2, FindIOSlots
  <2>3. CASE CreateNewSocketContext(t)
    BY <2>3, CreateNewSocketContextSlots
  <2>4. CASE GetReadBuffer(t)
    BY <2>4, GetReadBufferSlots
  <2>5. CASE PostReadRequestEvent(t)
    BY <2>5, PostReadRequestEventSlots
  <2>6. CASE GetAcceptBuffer(t)
    BY <2>6, GetAcceptBufferSlots
  <2>7. CASE PostAcceptEvent(t)
    BY <2>7, PostAcceptEventSlots
  <2>8. CASE ReleaseUsedIOContext(t)
    BY <2>8, ReleaseUsedIOContextSlots
  <2>9. CASE ReadCallback(t)
    BY <2>9, ReadCallbackSlots
  <2>10. CASE ReleaseCompletionKey(t)
    BY <2>10, ReleaseCompletionKeySlots
  <2>11. CASE FindKey(t)
    BY <2>11, FindKeySlots
  <2>12. CASE ReleaseContext(t)
    <3>1. PICK k \in completion_key_ptr_cache_ : \E e0 \in Events :
             ReleaseContextOf(k) /\ WorkersWithout(e0) /\ LastEvent(e0, k)
      BY <2>12, ReleaseContextEvent
    <3>2. PICK e0 \in Events : ReleaseContextOf(k) /\ WorkersWithout(e0) /\ LastEvent(e0, k)
      BY <3>1
    <3>. QED  BY <3>2, ReleaseSlots
  <2>. QED  BY <1>1, <2>1, <2>2, <2>3, <2>4, <2>5, <2>6, <2>7, <2>8, <2>9, <2>10, <2>11,
               <2>12 DEF WorkerStep
<1>2. ASSUME NEW k \in Keys, Evict(k)
      PROVE  SlotInv'
  <2>1. PICK e0 : /\ e0 \notin Events /\ IOs(e0) = {} /\ e0.stage = "loop"
                  /\ ReleaseContextOf(k) /\ WorkersWithout(e0) /\ LastEvent(e0, k)
    BY <1>2, EvictEvent
  <2>2. k \in completion_key_ptr_cache_
    BY <1>2, EvictEvent
  <2>. QED  BY <2>1, <2>2, ReleaseSlots
<1>3. CASE KernelStep
  BY <1>3, CompletionSlots
<1>4. CASE UNCHANGED vars
  BY <1>4, StutterSlots
<1>. QED  BY <1>1, <1>2, <1>3, <1>4 DEF Next

\* Sets that are matched one to one have the same size.
LEMMA Matched ==
    ASSUME NEW S, NEW T, NEW f \in Bijection(S, T), IsFiniteSet(S) \/ IsFiniteSet(T)
    PROVE  IsFiniteSet(S) /\ IsFiniteSet(T) /\ Cardinality(S) = Cardinality(T)
<1>1. f \in Injection(S, T) /\ f \in Surjection(S, T) /\ ExistsBijection(S, T)
  BY DEF Bijection, ExistsBijection
<1>2. IsFiniteSet(S)
  BY <1>1, FS_Injection
<1>. QED  BY <1>1, <1>2, FS_Bijection

\* After Initialize every worker has an accept request outstanding, and its
\* buffer is in the listen key's cache.
LEMMA SlotInvInit == Init => SlotInv
<1>. SUFFICES ASSUME Init PROVE SlotInv
  OBVIOUS
<1>1. PICK accept_io \in Injection(Threads, Buffers), sock \in Injection(Threads, Sockets) :
        LET bufs == Range(accept_io)
            SockOf(b) == sock[CHOOSE t \in Threads : accept_io[t] = b]
        IN  /\ socket_io_buffer_cache_ = [k \in Keys \cup {Listen} |->
                                            IF k = Listen THEN bufs ELSE {}]
            /\ worker = [t \in Threads |-> Idle]
            /\ pending = {Operation("ACCEPT", Listen, b, SockOf(b)) : b \in bufs}
            /\ port = <<>>
            /\ faults = 0
  BY DEF Init
<1>. DEFINE bufs == Range(accept_io)
            SockOf(b) == sock[CHOOSE t \in Threads : accept_io[t] = b]
<1>2. /\ socket_io_buffer_cache_[Listen] = bufs
      /\ worker = [t \in Threads |-> Idle] /\ port = <<>> /\ faults = 0
      /\ pending = {Operation("ACCEPT", Listen, b, SockOf(b)) : b \in bufs}
  BY <1>1
<1>3. accept_io \in Bijection(Threads, bufs)
  BY DEF Injection, Bijection, Surjection, IsInjective, Range
<1>4. IsFiniteSet(Threads)
  BY BuffersFinite, FS_Injection
<1>5. IsFiniteSet(bufs) /\ Cardinality(bufs) = Cardinality(Threads)
  BY <1>3, <1>4, Matched
<1>. HIDE DEF SockOf, bufs
<1>6. PacketEvents = {} /\ WorkerEvents = {}
  BY <1>2 DEF PacketEvents, WorkerEvents, Busy, Idle
<1>7. PICK F : F = [b \in bufs |-> OpEvent(Operation("ACCEPT", Listen, b, SockOf(b)))]
  OBVIOUS
<1>8. Events = {F[b] : b \in bufs}
  BY <1>2, <1>6, <1>7 DEF Events, OpEvents
<1>9. \A b \in bufs : F[b].io = b /\ F[b].key = Listen /\ F[b].stage = "ACCEPT"
  BY <1>7, EventFields DEF Operation, OpStage
<1>10. F \in Bijection(bufs, Events)
  BY <1>7, <1>8, <1>9 DEF Bijection, Injection, Surjection, IsInjective
<1>11. IsFiniteSet(Events) /\ Cardinality(Events) = Cardinality(bufs)
  BY <1>5, <1>10, Matched
<1>12. \A e \in Events : e.io \in bufs /\ e.stage = "ACCEPT"
  BY <1>8, <1>9
<1>13. Slots = Events /\ SoundSlots = Events
  BY <1>12 DEF Slots, SoundSlots, Slot, Sound, Arriving
<1>14. \A e \in Events : SlotOK(e)
  BY <1>2, <1>12 DEF SlotOK
<1>15. Cardinality(Threads) \in Nat
  BY <1>4, FS_CardinalityType
<1>. QED  BY <1>2, <1>4, <1>5, <1>11, <1>13, <1>14, <1>15 DEF SlotInv

-----------------------------------------------------------------------------
(* The invariant and what follows from it.                                  *)

\* A step preserves the counts.
LEMMA CountStep ==
    ASSUME TypeOK, ServerIInv, CountIInv, [Next]_vars \/ \E k \in Keys : Evict(k)
    PROVE  CountIInv'
<1>. SUFFICES ASSUME Intact' PROVE CountInv'
  BY DEF CountIInv
<1>1. ServerInv /\ CountInv /\ ~raced' /\ ~misread'
  BY IntactBefore DEF ServerIInv, CountIInv, Intact
<1>2. ServerInv'
  BY IInvStep DEF ServerIInv
<1>3. SendInv'
  BY <1>1, <1>2, SendInvStep DEF CountInv
<1>4. SlotInv'
  BY <1>1, <1>2, SlotInvStep DEF CountInv
<1>. QED  BY <1>3, <1>4 DEF CountInv

\* Until a key is released under somebody's hands or a send's completion is
\* taken for that of an accept, every buffer that has left the pool for good
\* was taken for a message, and every accept request that is missing was lost
\* to a fault.
THEOREM CountInvariant == (Spec => []CountIInv) /\ (CollectorSpec => []CountIInv)
<1>1. Init => CountIInv
  BY SendInvInit, SlotInvInit DEF CountIInv, CountInv
<1>2. TypeOK /\ ServerIInv /\ CountIInv /\ [Next]_vars => CountIInv'
  BY CountStep
<1>3. TypeOK /\ ServerIInv /\ CountIInv /\ [CollectorNext]_collectorVars => CountIInv'
  BY CountStep, StepsOfSpecs
<1>4. Spec => []TypeOK /\ []ServerIInv
  BY ServerTypeCorrect, ServerInvariant
<1>5. CollectorSpec => []TypeOK /\ []ServerIInv
  BY ServerTypeCorrect, ServerInvariant
<1>6. Spec => []CountIInv
  BY <1>1, <1>2, <1>4, PTL DEF Spec
<1>7. CollectorInit => CountIInv
  BY <1>1, StepsOfSpecs
<1>8. CollectorSpec => []CountIInv
  BY <1>3, <1>5, <1>7, PTL DEF CollectorSpec
<1>. QED  BY <1>6, <1>8

\* The buffers lost are those of the messages sent: neither a call that fails
\* in ProcessAcceptEvent_, PostAnotherAcceptEvent_ or PostAnotherReadRequest_
\* nor the end of a connection, by the client or by ResourceCollector, loses
\* another.
THEOREM OnlySendsLoseBuffers ==
    (Spec => []LeaksOnlySends) /\ (CollectorSpec => []LeaksOnlySends)
<1>1. ServerIInv /\ CountIInv => LeaksOnlySends
  <2>. SUFFICES ASSUME ServerInv, SendInv PROVE Cardinality(LeakedBuffers) <= sends
    BY DEF ServerIInv, CountIInv, CountInv, LeaksOnlySends
  <2>1. completion_key_ptr_cache_ \cup {Listen} \subseteq LiveKeys \ {NoKey}
    BY ServerConstants DEF LiveKeys, ServerInv, ServerTyping, TypeOK
  <2>2. LeakedBuffers \subseteq Unowned
    BY <2>1 DEF LeakedBuffers, Unowned, HandedOut
  <2>3. IsFiniteSet(Unowned)
    <3>1. Unowned \subseteq Buffers
      BY DEF Unowned, HandedOut, ServerInv, ServerTyping, TypeOK, BufferTypeOK
    <3>. QED  BY <3>1, BuffersFinite, FS_Subset
  <2>4. Cardinality(LeakedBuffers) <= Cardinality(Unowned) /\ IsFiniteSet(LeakedBuffers)
    BY <2>2, <2>3, FS_Subset
  <2>5. Cardinality(LeakedBuffers) \in Nat /\ Cardinality(Unowned) \in Nat
    BY <2>3, <2>4, FS_CardinalityType
  <2>. QED  BY <2>4, <2>5 DEF SendInv
<1>2. Spec => []LeaksOnlySends
  BY <1>1, ServerInvariant, CountInvariant, PTL
<1>3. CollectorSpec => []LeaksOnlySends
  BY <1>1, ServerInvariant, CountInvariant, PTL
<1>. QED  BY <1>2, <1>3

\* AcceptSlots, which counts holders of events, counts the slots.
LEMMA SlotsCounted ==
    ASSUME ServerInv, SlotInv
    PROVE  AcceptSlots = Cardinality(Slots)
<1>. USE DEF ServerInv
<1>. DEFINE A == {p \in pending : p.op = "ACCEPT"}
            B == {i \in DOMAIN port : port[i].key = Listen}
            C == {t \in Threads : /\ worker[t].key = Listen
                                  /\ worker[t].pc \in Accepting
                                  /\ worker[t].io \in socket_io_buffer_cache_[Listen]}
            X == {e \in OpEvents : Slot(e)}
            Y == {e \in PacketEvents : Slot(e)}
            Z == {e \in WorkerEvents : Slot(e)}
<1>1. DOMAIN port = 1..Len(port)
  BY DEF ServerTyping
<1>2. X \subseteq Slots /\ Y \subseteq Slots /\ Z \subseteq Slots /\ Slots = X \cup (Y \cup Z)
  BY DEF Slots, Events
<1>3. IsFiniteSet(X) /\ IsFiniteSet(Y) /\ IsFiniteSet(Z)
  <2>1. IsFiniteSet(Slots)
    BY EventsFinite DEF FiniteSlots
  <2>. HIDE DEF X, Y, Z
  <2>. QED  BY <1>2, <2>1, FS_Subset
<1>4. Cardinality(A) = Cardinality(X)
  <2>1. PICK f : f = [p \in A |-> OpEvent(p)]
    OBVIOUS
  <2>2. \A p \in pending : Slot(OpEvent(p)) <=> p.op = "ACCEPT"
    <3>1. \A p \in pending : OpStage(p) \in {"ACCEPT", "READ", "WRITE"}
                               /\ (OpStage(p) = "ACCEPT" <=> p.op = "ACCEPT")
      BY DEF ServerTyping, Operations, OpStage
    <3>2. \A p : OpEvent(p).stage = OpStage(p)
      BY EventFields
    <3>. QED  BY <3>1, <3>2 DEF Slot, Accepting
  <2>3. X = {OpEvent(p) : p \in A}
    BY <2>2 DEF OpEvents
  <2>4. \A p, q \in A : OpEvent(p) = OpEvent(q) => p = q
    <3>1. \A p, q : OpEvent(p) = OpEvent(q) => p.io = q.io
      BY EventFields
    <3>. QED  BY <3>1 DEF UniqueInv, OperationsApart
  <2>. HIDE DEF A, X
  <2>5. f \in Bijection(A, X)
    BY <2>1, <2>3, <2>4 DEF Bijection, Injection, Surjection, IsInjective
  <2>. QED  BY <1>3, <2>5, Matched
<1>5. Cardinality(B) = Cardinality(Y)
  <2>1. PICK f : f = [i \in B |-> PacketEvent(port[i])]
    OBVIOUS
  <2>2. \A i \in 1..Len(port) : Slot(PacketEvent(port[i])) <=> port[i].key = Listen
    <3>1. \A q : PacketEvent(q).stage = "packet" /\ PacketEvent(q).key = q.key
      BY EventFields
    <3>. QED  BY <3>1 DEF Slot
  <2>3. Y = {PacketEvent(port[i]) : i \in B}
    BY <1>1, <2>2 DEF PacketEvents
  <2>4. \A i, j \in B : PacketEvent(port[i]) = PacketEvent(port[j]) => i = j
    <3>1. \A p, q : PacketEvent(p) = PacketEvent(q) => p.io = q.io
      BY EventFields
    <3>. QED  BY <1>1, <3>1 DEF UniqueInv, PacketsApart
  <2>. HIDE DEF B, Y
  <2>5. f \in Bijection(B, Y)
    BY <2>1, <2>3, <2>4 DEF Bijection, Injection, Surjection, IsInjective
  <2>. QED  BY <1>3, <2>5, Matched
<1>6. Cardinality(C) = Cardinality(Z)
  <2>1. PICK f : f = [t \in C |-> WorkerEvent(worker[t])]
    OBVIOUS
  <2>2. ASSUME NEW t \in Busy
        PROVE  /\ Slot(WorkerEvent(worker[t])) <=> t \in C
               /\ worker[t].io \in Buffers
    <3>1. PICK e : e = WorkerEvent(worker[t])
      OBVIOUS
    <3>2. e \in Events
      BY <3>1 DEF Events, WorkerEvents
    <3>3. e.stage = worker[t].pc /\ e.key = worker[t].key /\ e.io = worker[t].io
      BY <3>1, EventFields
    <3>4. worker[t].pc \in PCs /\ t \in Threads
      BY DEF Busy, ServerTyping, WorkerRecords
    <3>5. SlotOK(e) /\ Placed(e)
      BY <3>2 DEF SlotInv, EventInv, EventOK
    <3>6. Slot(e) <=> e.key = Listen /\ e.stage \in Accepting
      BY <3>3, <3>4 DEF Slot, PCs
    <3>. QED  BY <3>1, <3>3, <3>4, <3>5, <3>6 DEF SlotOK, Placed
  <2>3. C \subseteq Busy
    BY DEF Busy, Accepting
  <2>4. Z = {WorkerEvent(worker[t]) : t \in C}
    BY <2>2, <2>3 DEF WorkerEvents
  <2>5. \A t, u \in C : WorkerEvent(worker[t]) = WorkerEvent(worker[u]) => t = u
    <3>1. \A v, w : WorkerEvent(v) = WorkerEvent(w) => v.io = w.io
      BY EventFields
    <3>2. \A t \in C : worker[t].io \in Buffers /\ t \in Threads
      BY <2>2, <2>3
    <3>. QED  BY <3>1, <3>2, ServerConstants DEF UniqueInv, WorkersApart
  <2>. HIDE DEF C, Z
  <2>6. f \in Bijection(C, Z)
    BY <2>1, <2>4, <2>5 DEF Bijection, Injection, Surjection, IsInjective
  <2>. QED  BY <1>3, <2>6, Matched
<1>7. X \cap (Y \cup Z) = {} /\ Y \cap Z = {}
  BY PlacesDisjoint
<1>8. AcceptSlots = Cardinality(A) + Cardinality(B) + Cardinality(C)
  BY DEF AcceptSlots
<1>. HIDE DEF A, B, C, X, Y, Z
<1>9. Cardinality(X) \in Nat /\ Cardinality(Y) \in Nat /\ Cardinality(Z) \in Nat
  BY <1>3, FS_CardinalityType
<1>10. /\ IsFiniteSet(Y \cup Z)
       /\ Cardinality(Y \cup Z) = Cardinality(Y) + Cardinality(Z)
  <2>1. IsFiniteSet(Y \cup Z)
        /\ Cardinality(Y \cup Z) = Cardinality(Y) + Cardinality(Z) - Cardinality(Y \cap Z)
    BY <1>3, FS_Union
  <2>2. Cardinality(Y \cap Z) = 0
    BY <1>7, FS_EmptySet
  <2>. QED  BY <1>9, <2>1, <2>2
<1>11. Cardinality(Slots) = Cardinality(X) + Cardinality(Y \cup Z)
  <2>1. Cardinality(X \cup (Y \cup Z)) =
           Cardinality(X) + Cardinality(Y \cup Z) - Cardinality(X \cap (Y \cup Z))
    BY <1>3, <1>10, FS_Union
  <2>2. Cardinality(X \cap (Y \cup Z)) = 0
    BY <1>7, FS_EmptySet
  <2>. QED  BY <1>2, <1>9, <1>10, <2>1, <2>2
<1>. QED  BY <1>4, <1>5, <1>6, <1>8, <1>9, <1>10, <1>11

\* The server never has more accept requests than the one per worker that
\* Initialize posted, and fewer only by the accepts and the AcceptEx calls
\* that failed: PostAnotherAcceptEvent_ posts each one again, whatever else
\* fails.
THEOREM AcceptsPostedAgain ==
    (Spec => []AcceptSlotsKept) /\ (CollectorSpec => []AcceptSlotsKept)
<1>1. ServerIInv /\ CountIInv => AcceptSlotsKept
  <2>. SUFFICES ASSUME ServerInv, SlotInv
                PROVE  /\ AcceptSlots <= Cardinality(Threads)
                       /\ AcceptSlots >= Cardinality(Threads) - faults
    BY DEF ServerIInv, CountIInv, CountInv, AcceptSlotsKept
  <2>1. AcceptSlots = Cardinality(Slots)
    BY SlotsCounted
  <2>2. /\ IsFiniteSet(Slots) /\ Cardinality(Slots) \in Nat
        /\ Cardinality(SoundSlots) \in Nat /\ Cardinality(Threads) \in Nat
    BY EventsFinite, FS_CardinalityType DEF SlotInv, FiniteSlots
  <2>3. SoundSlots \subseteq Slots
    BY DEF SoundSlots, Slots, Sound
  <2>4. Cardinality(SoundSlots) <= Cardinality(Slots)
    BY <2>2, <2>3, FS_Subset
  <2>. QED  BY <2>1, <2>2, <2>4 DEF SlotInv
<1>2. Spec => []AcceptSlotsKept
  BY <1>1, ServerInvariant, CountInvariant, PTL
<1>3. CollectorSpec => []AcceptSlotsKept
  BY <1>1, ServerInvariant, CountInvariant, PTL
<1>. QED  BY <1>2, <1>3
=============================================================================
