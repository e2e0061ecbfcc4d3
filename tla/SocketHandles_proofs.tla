------------------------ MODULE SocketHandles_proofs ------------------------
(***************************************************************************)
(* SocketHandles proved for every set of objects and handles and every      *)
(* configured size: nobody works with a handle that is closed or somebody   *)
(* else's, the in-use pool is what callers hold, and the pool is bounded.   *)
(***************************************************************************)
EXTENDS SocketHandles, FiniteSetTheorems, TLAPS

\* A socket that is handed out has left the pool, so that closing it leaves
\* the pooled ones alone.
PooledNotOwned == shared_socket_pool_ \cap owned = {}

\* As long as poolsize_ has not reached the number that Initilize compares it
\* with, it has counted every socket of the pool.
PoolIsCounted ==
    poolsize_ < PreAllocateSocketNum => Cardinality(shared_socket_pool_) <= poolsize_

\* The inductive invariant.
HandleIInv ==
    /\ HandleTypeOK
    /\ PooledNotOwned
    /\ InUseIsOwned
    /\ EachSocketOwnsItsHandle
    /\ PoolIsCounted
    /\ PoolSizeBound

-----------------------------------------------------------------------------
(* Sizes.                                                                   *)

\* A set of sockets has a natural number of elements.
LEMMA SocketSetsFinite ==
    ASSUME NEW S \in SUBSET Sockets
    PROVE  IsFiniteSet(S) /\ Cardinality(S) \in Nat
BY SocketsFinite, FS_Subset, FS_CardinalityType

\* New sockets add their number to the size of the pool.
LEMMA PoolGrows ==
    ASSUME NEW S \in SUBSET Sockets, NEW T \in SUBSET Sockets, S \cap T = {}
    PROVE  Cardinality(S \cup T) = Cardinality(S) + Cardinality(T)
<1>1. IsFiniteSet(S) /\ IsFiniteSet(T)
  BY SocketSetsFinite
<1>2. Cardinality(S \cup T) = Cardinality(S) + Cardinality(T) - Cardinality({})
  BY <1>1, FS_Union
<1>3. Cardinality(S) \in Nat /\ Cardinality(T) \in Nat /\ Cardinality({}) = 0
  BY SocketSetsFinite, FS_EmptySet
<1>. QED  BY <1>2, <1>3

\* A reallocation takes ReallocateSocketNum new objects when the pool is
\* short, and none otherwise.
LEMMA ReallocationSize ==
    ASSUME NEW added \in SocketReallocations(FreshSockets)
    PROVE  /\ added \in SUBSET FreshSockets
           /\ Cardinality(shared_socket_pool_) < SizeToReallocate
                => Cardinality(added) = ReallocateSocketNum
           /\ ~(Cardinality(shared_socket_pool_) < SizeToReallocate) => added = {}
BY DEF SocketReallocations, kSubset

-----------------------------------------------------------------------------
(* Handles.                                                                 *)

\* WSASocket gives sockets that nobody uses handles that nobody uses.
LEMMA NewSocketsOwnTheirHandles ==
    ASSUME HandleTypeOK, EachSocketOwnsItsHandle,
           NEW added \in SUBSET FreshSockets,
           WSASocket(added),
           LiveSockets' \subseteq LiveSockets \cup added
    PROVE  /\ EachSocketOwnsItsHandle'
           /\ handle' \in [Sockets -> Handles \cup {InvalidSocket}]
           /\ open_handles' \subseteq Handles
<1>1. PICK h \in [added -> (Handles \ open_handles) \cup {InvalidSocket}] :
        /\ \A s, t \in added : h[s] = h[t] => s = t \/ h[s] = InvalidSocket
        /\ handle' = [s \in Sockets |-> IF s \in added THEN h[s] ELSE handle[s]]
        /\ open_handles' = open_handles \cup ({h[s] : s \in added} \ {InvalidSocket})
  BY DEF WSASocket
<1>2. /\ handle \in [Sockets -> Handles \cup {InvalidSocket}]
      /\ open_handles \subseteq Handles
      /\ LiveSockets \subseteq Sockets
      /\ added \subseteq Sockets
      /\ added \cap LiveSockets = {}
  BY DEF HandleTypeOK, SocketPoolTypeOK, LiveSockets, FreshSockets
<1>3. ASSUME NEW s \in added
      PROVE  /\ handle'[s] = h[s]
             /\ h[s] # InvalidSocket => h[s] \in open_handles' /\ h[s] \notin open_handles
             /\ h[s] \in Handles \cup {InvalidSocket}
  BY <1>1, <1>2, <1>3
<1>4. ASSUME NEW s \in LiveSockets
      PROVE  /\ handle'[s] = handle[s]
             /\ handle[s] # InvalidSocket => handle[s] \in open_handles /\ handle[s] \in open_handles'
  BY <1>1, <1>2, <1>4 DEF EachSocketOwnsItsHandle
<1>5. handle' \in [Sockets -> Handles \cup {InvalidSocket}] /\ open_handles' \subseteq Handles
  <2>1. \A s \in Sockets : handle'[s] \in Handles \cup {InvalidSocket}
    BY <1>1, <1>2, <1>3
  <2>2. open_handles' \subseteq Handles
    BY <1>1, <1>2, <1>3
  <2>. QED  BY <1>1, <2>1, <2>2
<1>6. EachSocketOwnsItsHandle'
  <2>1. SUFFICES ASSUME NEW s \in LiveSockets', handle'[s] # InvalidSocket
                 PROVE  /\ handle'[s] \in open_handles'
                        /\ \A t \in LiveSockets' \ {s} : handle'[t] # handle'[s]
    BY DEF EachSocketOwnsItsHandle
  <2>2. s \in LiveSockets \cup added
    OBVIOUS
  <2>3. handle'[s] \in open_handles'
    BY <1>3, <1>4, <2>1, <2>2
  <2>4. ASSUME NEW t \in LiveSockets', t # s
        PROVE  handle'[t] # handle'[s]
    <3>1. t \in LiveSockets \cup added
      OBVIOUS
    <3>2. CASE s \in added /\ t \in added
      BY <1>1, <1>3, <2>1, <2>4, <3>2
    <3>3. CASE s \in added /\ t \in LiveSockets
      BY <1>3, <1>4, <2>1, <3>3
    <3>4. CASE s \in LiveSockets /\ t \in added
      BY <1>3, <1>4, <2>1, <3>4
    <3>5. CASE s \in LiveSockets /\ t \in LiveSockets
      BY <1>4, <2>1, <2>4, <3>5 DEF EachSocketOwnsItsHandle
    <3>. QED  BY <2>2, <3>1, <3>2, <3>3, <3>4, <3>5
  <2>. QED  BY <2>3, <2>4
<1>. QED  BY <1>5, <1>6

-----------------------------------------------------------------------------
(* The steps.                                                               *)

\* The pool manager that was just constructed satisfies the invariant.
LEMMA HandleInitInv == HandleInit => HandleIInv
<1>. SUFFICES ASSUME HandleInit PROVE HandleIInv
  OBVIOUS
<1>. USE SocketPoolSizes DEF HandleInit, SocketPoolInit
<1>1. HandleTypeOK /\ PooledNotOwned /\ InUseIsOwned /\ EachSocketOwnsItsHandle
  BY DEF HandleTypeOK, SocketPoolTypeOK, PooledNotOwned, InUseIsOwned,
         EachSocketOwnsItsHandle, LiveSockets
<1>2. Cardinality(shared_socket_pool_) = 0
  BY FS_EmptySet
<1>3. PoolIsCounted /\ PoolSizeBound
  BY <1>2 DEF PoolIsCounted, PoolSizeBound
<1>. QED  BY <1>1, <1>3 DEF HandleIInv

\* Initilize fills the pool up to PreAllocateSocketNum, once.
LEMMA InitilizeInv ==
    ASSUME HandleIInv, Initilize
    PROVE  HandleIInv'
<1>0. /\ HandleTypeOK /\ PooledNotOwned /\ InUseIsOwned
      /\ EachSocketOwnsItsHandle /\ PoolIsCounted /\ PoolSizeBound
  BY DEF HandleIInv
<1>1. PICK added \in SUBSET FreshSockets :
        /\ InitilizeSockets(added)
        /\ WSASocket(added)
        /\ UNCHANGED owned
  BY DEF Initilize
<1>2. /\ Cardinality(added) = PreAllocateSocketNum - poolsize_
      /\ shared_socket_pool_' = shared_socket_pool_ \cup added
      /\ poolsize_' = PreAllocateSocketNum
      /\ UNCHANGED <<socket_inuse_pool_, owned>>
  BY <1>1 DEF InitilizeSockets
<1>3. /\ shared_socket_pool_ \in SUBSET Sockets
      /\ added \in SUBSET Sockets
      /\ added \cap shared_socket_pool_ = {}
      /\ added \cap owned = {}
      /\ poolsize_ \in 0 .. PreAllocateSocketNum
  BY <1>0 DEF HandleTypeOK, SocketPoolTypeOK, FreshSockets, LiveSockets
<1>4. LiveSockets' \subseteq LiveSockets \cup added
  BY <1>2 DEF LiveSockets
<1>5. /\ EachSocketOwnsItsHandle'
      /\ handle' \in [Sockets -> Handles \cup {InvalidSocket}]
      /\ open_handles' \subseteq Handles
  BY <1>0, <1>1, <1>4, NewSocketsOwnTheirHandles
<1>6. HandleTypeOK'
  BY <1>0, <1>2, <1>3, <1>5, SocketPoolSizes DEF HandleTypeOK, SocketPoolTypeOK
<1>7. PooledNotOwned' /\ InUseIsOwned'
  BY <1>0, <1>2, <1>3 DEF PooledNotOwned, InUseIsOwned
<1>8. PoolIsCounted'
  BY <1>2, SocketPoolSizes DEF PoolIsCounted
<1>9. PoolSizeBound'
  <2>1. /\ Cardinality(shared_socket_pool_')
             = Cardinality(shared_socket_pool_) + PreAllocateSocketNum - poolsize_
        /\ Cardinality(shared_socket_pool_) \in Nat
    BY <1>2, <1>3, SocketPoolSizes, PoolGrows, SocketSetsFinite
  <2>2. CASE poolsize_ < PreAllocateSocketNum
    BY <1>0, <1>3, <2>1, <2>2, SocketPoolSizes DEF PoolIsCounted, PoolSizeBound
  <2>3. CASE poolsize_ = PreAllocateSocketNum
    <3>1. Cardinality(shared_socket_pool_') = Cardinality(shared_socket_pool_)
      BY <2>1, <2>3, SocketPoolSizes
    <3>. QED  BY <1>0, <3>1 DEF PoolSizeBound
  <2>. QED  BY <1>3, <2>2, <2>3, SocketPoolSizes
<1>. QED  BY <1>5, <1>6, <1>7, <1>8, <1>9 DEF HandleIInv

\* GetNextUnuseSocket takes a socket out of the pool, which it may have
\* refilled before, or makes a new one.
LEMMA GetInv ==
    ASSUME HandleIInv, Get
    PROVE  HandleIInv'
<1>0. /\ HandleTypeOK /\ PooledNotOwned /\ InUseIsOwned
      /\ EachSocketOwnsItsHandle /\ PoolIsCounted /\ PoolSizeBound
  BY DEF HandleIInv
<1>1. PICK added \in SocketReallocations(FreshSockets), s \in Sockets :
        /\ GetNextUnuseSocket(s, added, FreshSockets)
        /\ WSASocket(added \cup ({s} \ shared_socket_pool_))
        /\ owned' = owned \cup {s}
  BY DEF Get
<1>2. /\ \/ s \in shared_socket_pool_ \cup added
         \/ shared_socket_pool_ \cup added = {} /\ s \in FreshSockets
      /\ shared_socket_pool_' = (shared_socket_pool_ \cup added) \ {s}
      /\ socket_inuse_pool_' = socket_inuse_pool_ \cup {s}
      /\ poolsize_' = CountSockets(Cardinality(added))
  BY <1>1 DEF GetNextUnuseSocket
<1>3. /\ added \in SUBSET FreshSockets
      /\ Cardinality(shared_socket_pool_) < SizeToReallocate
           => Cardinality(added) = ReallocateSocketNum
      /\ ~(Cardinality(shared_socket_pool_) < SizeToReallocate) => added = {}
  BY ReallocationSize
<1>4. /\ shared_socket_pool_ \in SUBSET Sockets
      /\ owned \in SUBSET Sockets
      /\ socket_inuse_pool_ \in SUBSET Sockets
      /\ added \in SUBSET Sockets
      /\ shared_socket_pool_ \cap added = {}
      /\ added \cap owned = {}
      /\ poolsize_ \in 0 .. PreAllocateSocketNum
  BY <1>0, <1>3 DEF HandleTypeOK, SocketPoolTypeOK, FreshSockets, LiveSockets
<1>5. /\ EachSocketOwnsItsHandle'
      /\ handle' \in [Sockets -> Handles \cup {InvalidSocket}]
      /\ open_handles' \subseteq Handles
  <2>. DEFINE new == added \cup ({s} \ shared_socket_pool_)
  <2>1. new \in SUBSET FreshSockets
    BY <1>2, <1>3
  <2>2. LiveSockets' \subseteq LiveSockets \cup new
    BY <1>1, <1>2 DEF LiveSockets
  <2>. QED  BY <1>0, <1>1, <2>1, <2>2, NewSocketsOwnTheirHandles
<1>6. /\ Cardinality(added) \in Nat
      /\ Cardinality(shared_socket_pool_) \in Nat
      /\ Cardinality(shared_socket_pool_') \in Nat
      /\ Cardinality(shared_socket_pool_')
           <= Cardinality(shared_socket_pool_) + Cardinality(added)
      /\ s \in shared_socket_pool_ \cup added =>
           Cardinality(shared_socket_pool_')
             = Cardinality(shared_socket_pool_) + Cardinality(added) - 1
  <2>. DEFINE pool == shared_socket_pool_ \cup added
  <2>1. /\ pool \in SUBSET Sockets
        /\ pool \ {s} \in SUBSET Sockets
        /\ shared_socket_pool_' = pool \ {s}
    BY <1>2, <1>4
  <2>2. Cardinality(pool) = Cardinality(shared_socket_pool_) + Cardinality(added)
    BY <1>4, PoolGrows
  <2>3. /\ IsFiniteSet(pool)
        /\ Cardinality(pool) \in Nat
        /\ Cardinality(pool \ {s}) \in Nat
        /\ Cardinality(added) \in Nat
        /\ Cardinality(shared_socket_pool_) \in Nat
    BY <1>4, <2>1, SocketSetsFinite
  <2>4. Cardinality(pool \ {s}) = IF s \in pool THEN Cardinality(pool) - 1
                                                ELSE Cardinality(pool)
    BY <2>3, FS_RemoveElement
  <2>. HIDE DEF pool
  <2>5. Cardinality(shared_socket_pool_') <= Cardinality(pool)
    BY <2>1, <2>3, <2>4
  <2>6. s \in pool => Cardinality(shared_socket_pool_') = Cardinality(pool) - 1
    BY <2>1, <2>4
  <2>. QED  BY <2>1, <2>2, <2>3, <2>5, <2>6 DEF pool
<1>7. /\ poolsize_' \in 0 .. PreAllocateSocketNum
      /\ poolsize_' < PreAllocateSocketNum =>
           poolsize_' = poolsize_ + Cardinality(added) /\ poolsize_ < PreAllocateSocketNum
  BY <1>2, <1>4, <1>6, SocketPoolSizes DEF CountSockets
<1>8. HandleTypeOK'
  BY <1>1, <1>2, <1>4, <1>5, <1>7 DEF HandleTypeOK, SocketPoolTypeOK
<1>9. PooledNotOwned' /\ InUseIsOwned'
  BY <1>0, <1>1, <1>2, <1>4 DEF PooledNotOwned, InUseIsOwned
<1>10. PoolIsCounted'
  BY <1>0, <1>4, <1>6, <1>7, SocketPoolSizes DEF PoolIsCounted
<1>11. PoolSizeBound'
  <2>1. CASE shared_socket_pool_ \cup added = {}
    <3>1. shared_socket_pool_' = {}
      BY <1>2, <2>1
    <3>2. Cardinality(shared_socket_pool_') = 0
      BY <3>1, FS_EmptySet
    <3>. QED  BY <3>2, SocketPoolSizes DEF PoolSizeBound
  <2>2. CASE s \in shared_socket_pool_ \cup added
    <3>1. CASE Cardinality(shared_socket_pool_) < SizeToReallocate
      BY <1>3, <1>6, <2>2, <3>1, SocketPoolSizes DEF PoolSizeBound
    <3>2. CASE ~(Cardinality(shared_socket_pool_) < SizeToReallocate)
      <4>1. Cardinality(added) = 0
        BY <1>3, <3>2, FS_EmptySet
      <4>2. Cardinality(shared_socket_pool_') <= Cardinality(shared_socket_pool_)
        BY <1>6, <4>1
      <4>. QED  BY <1>0, <1>6, <4>2, SocketPoolSizes DEF PoolSizeBound
    <3>. QED  BY <3>1, <3>2
  <2>. QED  BY <1>2, <2>1, <2>2
<1>. QED  BY <1>5, <1>8, <1>9, <1>10, <1>11 DEF HandleIInv

\* Closing a socket closes no handle but its own.
LEMMA CloseInv ==
    ASSUME HandleIInv, Close
    PROVE  HandleIInv'
<1>. USE DEF HandleIInv
<1>1. PICK s \in owned :
        /\ socket_inuse_pool_' = socket_inuse_pool_ \ {s}
        /\ open_handles' = open_handles \ {handle[s]}
        /\ owned' = owned \ {s}
  BY DEF Close, CloseSockAndPush2ReusedPool, closesocket
<1>2. UNCHANGED <<handle, shared_socket_pool_, poolsize_>>
  BY DEF Close, CloseSockAndPush2ReusedPool
<1>3. HandleTypeOK'
  BY <1>1, <1>2 DEF HandleTypeOK, SocketPoolTypeOK
<1>4. PooledNotOwned' /\ InUseIsOwned'
  BY <1>1, <1>2 DEF PooledNotOwned, InUseIsOwned
<1>5. EachSocketOwnsItsHandle'
  <2>1. LiveSockets' = LiveSockets \ {s} /\ s \in LiveSockets
    BY <1>1, <1>2 DEF LiveSockets, PooledNotOwned
  <2>2. ASSUME NEW t \in LiveSockets', handle[t] # InvalidSocket
        PROVE  handle[t] \in open_handles'
    BY <1>1, <2>1, <2>2 DEF EachSocketOwnsItsHandle
  <2>. QED  BY <1>2, <2>1, <2>2 DEF EachSocketOwnsItsHandle
<1>6. PoolIsCounted' /\ PoolSizeBound'
  BY <1>2 DEF PoolIsCounted, PoolSizeBound
<1>. QED  BY <1>3, <1>4, <1>5, <1>6

\* DestroyPool leaves no socket behind.
LEMMA DestroyInv ==
    ASSUME HandleIInv, Destroy
    PROVE  HandleIInv'
<1>. USE SocketPoolSizes DEF HandleIInv
<1>1. /\ shared_socket_pool_' = {} /\ socket_inuse_pool_' = {} /\ owned' = {}
      /\ open_handles' \subseteq open_handles
      /\ UNCHANGED <<handle, poolsize_>>
  BY DEF Destroy, DestroyPool, closesocket
<1>2. HandleTypeOK' /\ PooledNotOwned' /\ InUseIsOwned' /\ EachSocketOwnsItsHandle'
  BY <1>1 DEF HandleTypeOK, SocketPoolTypeOK, PooledNotOwned, InUseIsOwned,
              EachSocketOwnsItsHandle, LiveSockets
<1>3. Cardinality(shared_socket_pool_') = 0
  BY <1>1, FS_EmptySet
<1>4. PoolIsCounted' /\ PoolSizeBound'
  BY <1>1, <1>3 DEF PoolIsCounted, PoolSizeBound, HandleTypeOK, SocketPoolTypeOK
<1>. QED  BY <1>2, <1>4

\* Every call of the pool's interface preserves the inductive invariant.
LEMMA HandleStepInv == HandleIInv /\ [HandleNext]_handleVars => HandleIInv'
<1>. SUFFICES ASSUME HandleIInv, [HandleNext]_handleVars PROVE HandleIInv'
  OBVIOUS
<1>1. CASE UNCHANGED handleVars
  BY <1>1 DEF handleVars, socketPoolVars, HandleIInv, HandleTypeOK,
              SocketPoolTypeOK, PooledNotOwned, InUseIsOwned, PoolIsCounted,
              EachSocketOwnsItsHandle, LiveSockets, PoolSizeBound
<1>. QED  BY <1>1, InitilizeInv, GetInv, CloseInv, DestroyInv DEF HandleNext

-----------------------------------------------------------------------------

\* The inductive invariant holds after any sequence of calls.
LEMMA HandleInvariance == HandleSpec => []HandleIInv
BY HandleInitInv, HandleStepInv, PTL DEF HandleSpec

\* The pools, the handles and the history variables keep their types.
THEOREM HandleTyping == HandleSpec => []HandleTypeOK
BY HandleInvariance, PTL DEF HandleIInv

\* A socket of the pool, or one that a caller works with, has an open handle
\* of its own unless WSASocket failed for it, if callers close once.
THEOREM ExclusiveHandles == HandleSpec => []EachSocketOwnsItsHandle
BY HandleInvariance, PTL DEF HandleIInv

\* DestroyPool closes every connection that callers still hold.
THEOREM InUseTracked == HandleSpec => []InUseIsOwned
BY HandleInvariance, PTL DEF HandleIInv

\* The pool holds at most what it preallocates, or what one reallocation of
\* a short pool leaves behind.
THEOREM BoundedSocketPool == HandleSpec => []PoolSizeBound
BY HandleInvariance, PTL DEF HandleIInv

=============================================================================
