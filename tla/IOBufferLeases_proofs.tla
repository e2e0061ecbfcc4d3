------------------------ MODULE IOBufferLeases_proofs ------------------------
(***************************************************************************)
(* IOBufferLeases proved for every heap and every configured size: typing,  *)
(* exclusive leases, and the bound on the memory the pool holds.            *)
(***************************************************************************)
EXTENDS IOBufferLeases, FiniteSetTheorems, TLAPS

\* The number of buffers that exist because of the pool.
Objects == io_buffer_cache_ \cup leased

\* Nothing bounds peak_leased from above except its own definition; it is
\* what connects the leases of now with the bound.
PeakIsPeak == Cardinality(leased) <= peak_leased

\* The inductive invariant.
LeaseIInv ==
    /\ LeaseTypeOK
    /\ LeasedNotCached
    /\ InUseAccountedFor
    /\ PeakIsPeak
    /\ PoolBound

\* A set of buffers has a natural number of elements.
LEMMA BufferSetsFinite ==
    ASSUME NEW S \in SUBSET Buffers
    PROVE  IsFiniteSet(S) /\ Cardinality(S) \in Nat
BY BuffersFinite, FS_Subset, FS_CardinalityType

\* Adding T to S adds at most its size to the size of S.
LEMMA UnionSize ==
    ASSUME NEW S \in SUBSET Buffers, NEW T \in SUBSET Buffers
    PROVE  Cardinality(S \cup T) <= Cardinality(S) + Cardinality(T)
<1>1. IsFiniteSet(S) /\ IsFiniteSet(T) /\ IsFiniteSet(S \cap T)
  <2>1. S \cap T \in SUBSET Buffers
    OBVIOUS
  <2>. QED  BY <2>1, BufferSetsFinite
<1>2. Cardinality(S \cup T)
        = Cardinality(S) + Cardinality(T) - Cardinality(S \cap T)
  BY <1>1, FS_Union
<1>3. /\ Cardinality(S) \in Nat
      /\ Cardinality(T) \in Nat
      /\ Cardinality(S \cap T) \in Nat
  BY <1>1, FS_CardinalityType
<1>. QED  BY <1>2, <1>3

\* A batch of new objects is a set of addresses that were free.
LEMMA BatchType ==
    ASSUME NEW fresh \in SUBSET Buffers, NEW n \in Nat,
           NEW added \in kSubset(n, fresh)
    PROVE  added \in SUBSET fresh /\ Cardinality(added) = n
BY DEF kSubset

\* A manager that was just constructed satisfies the inductive invariant.
LEMMA LeaseInitInv == LeaseInit => LeaseIInv
<1>. SUFFICES ASSUME LeaseInit PROVE LeaseIInv
  OBVIOUS
<1>. USE DEF LeaseInit, BufferManagerInit
<1>1. Cardinality({}) = 0
  BY FS_EmptySet
<1>2. LeaseTypeOK /\ LeasedNotCached /\ InUseAccountedFor
  BY DEF LeaseTypeOK, BufferTypeOK, LeasedNotCached, InUseAccountedFor
<1>3. Cardinality(io_buffer_cache_ \cup leased) = 0
  <2>1. io_buffer_cache_ \cup leased = {}
    OBVIOUS
  <2>. QED  BY <1>1, <2>1
<1>4. PeakIsPeak /\ PoolBound
  BY <1>1, <1>3, BufferSizes DEF PeakIsPeak, PoolBound
<1>. QED  BY <1>2, <1>4 DEF LeaseIInv

\* Every call of the manager's interface preserves the inductive invariant.
LEMMA LeaseStepInv == LeaseIInv /\ [LeaseNext]_leaseVars => LeaseIInv'
<1>. SUFFICES ASSUME LeaseIInv, [LeaseNext]_leaseVars PROVE LeaseIInv'
  OBVIOUS
<1>. USE DEF LeaseIInv
<1>0. /\ LeaseTypeOK /\ LeasedNotCached /\ InUseAccountedFor
      /\ PeakIsPeak /\ PoolBound
  OBVIOUS
<1>t. /\ io_buffer_cache_ \in SUBSET Buffers
      /\ io_buffer_in_use_ \in SUBSET Buffers
      /\ leased \in SUBSET Buffers
      /\ Objects \in SUBSET Buffers
      /\ FreshBuffers \in SUBSET Buffers
      /\ peak_leased \in Nat
      /\ io_buffer_manager_inited_ \in BOOLEAN
  BY <1>0 DEF LeaseTypeOK, BufferTypeOK, Objects, FreshBuffers
<1>1. CASE Initialize
  <2>1. PICK added \in kSubset(PreAllocateSize, FreshBuffers) :
            /\ io_buffer_cache_' = io_buffer_cache_ \cup added
            /\ io_buffer_manager_inited_' = (io_buffer_cache_' # {})
    BY <1>1 DEF Initialize, InitializeBuffers
  <2>2. /\ ~io_buffer_manager_inited_
        /\ UNCHANGED <<io_buffer_in_use_, leased, peak_leased>>
    BY <1>1 DEF Initialize, InitializeBuffers
  <2>3. added \in SUBSET FreshBuffers /\ Cardinality(added) = PreAllocateSize
    BY <1>t, BufferSizes, BatchType
  <2>4. LeaseTypeOK'
    BY <1>t, <2>1, <2>2, <2>3 DEF LeaseTypeOK, BufferTypeOK
  <2>5. LeasedNotCached' /\ InUseAccountedFor'
    BY <1>0, <2>1, <2>2, <2>3
    DEF LeasedNotCached, InUseAccountedFor, FreshBuffers
  <2>6. PeakIsPeak'
    BY <1>0, <2>2 DEF PeakIsPeak
  <2>7. PoolBound'
    <3>1. Objects' = Objects \cup added
      BY <2>1, <2>2 DEF Objects
    <3>2. Cardinality(Objects') <= Cardinality(Objects) + PreAllocateSize
      <4>1. added \in SUBSET Buffers
        BY <1>t, <2>3
      <4>. QED  BY <1>t, <2>3, <3>1, <4>1, UnionSize
    <3>3. Cardinality(Objects)
            <= peak_leased + SizeNeedReallocate + ReAllocateSize
      BY <1>0, <1>t, <2>2, BufferSizes, BufferSetsFinite DEF PoolBound, Objects
    <3>4. CASE io_buffer_cache_' = {}
      <4>1. Objects' = Objects
        BY <2>1, <3>1, <3>4
      <4>2. ~io_buffer_manager_inited_'
        BY <2>1, <3>4
      <4>. QED  BY <2>2, <3>3, <4>1, <4>2 DEF PoolBound, Objects
    <3>5. CASE io_buffer_cache_' # {}
      <4>1. io_buffer_manager_inited_' = TRUE
        BY <2>1, <3>5
      <4>2. Cardinality(Objects) \in Nat /\ Cardinality(Objects') \in Nat
        <5>1. Objects' \in SUBSET Buffers
          BY <1>t, <2>3, <3>1
        <5>. QED  BY <1>t, <5>1, BufferSetsFinite
      <4>3. Cardinality(Objects')
              <= peak_leased + SizeNeedReallocate + ReAllocateSize
                 + PreAllocateSize
        BY <1>t, <3>2, <3>3, <4>2, BufferSizes
      <4>. QED  BY <2>2, <4>1, <4>3 DEF PoolBound, Objects
    <3>. QED  BY <3>4, <3>5
  <2>. QED  BY <2>4, <2>5, <2>6, <2>7
<1>2. CASE Get
  <2>1. PICK b \in Buffers :
            /\ GetNextIOBufferPtr(b, FreshBuffers)
            /\ leased' = leased \cup {b}
            /\ peak_leased' = IF Cardinality(leased') > peak_leased
                              THEN Cardinality(leased') ELSE peak_leased
    BY <1>2 DEF Get
  <2>2. PICK added \in Reallocations(FreshBuffers) :
            /\ \/ b \in io_buffer_cache_ \cup added
               \/ io_buffer_cache_ \cup added = {} /\ b \in FreshBuffers
            /\ io_buffer_cache_' = (io_buffer_cache_ \cup added) \ {b}
    BY <2>1 DEF GetNextIOBufferPtr
  <2>3. /\ io_buffer_in_use_' = io_buffer_in_use_ \cup {b}
        /\ UNCHANGED io_buffer_manager_inited_
    BY <2>1 DEF GetNextIOBufferPtr
  <2>4. /\ added \in SUBSET FreshBuffers
        /\ NeedReallocate => Cardinality(added) = ReAllocateSize
        /\ ~NeedReallocate => added = {}
    BY <1>t, <2>2, BufferSizes, BatchType DEF Reallocations
  <2>5. /\ leased' \in SUBSET Buffers
        /\ added \in SUBSET Buffers
        /\ Cardinality(leased) \in Nat
        /\ Cardinality(leased') \in Nat
        /\ Cardinality(io_buffer_cache_) \in Nat
    BY <1>t, <2>1, <2>4, BufferSetsFinite
  <2>6. /\ peak_leased' \in Nat
        /\ peak_leased <= peak_leased'
        /\ PeakIsPeak'
    BY <1>t, <2>1, <2>5 DEF PeakIsPeak
  <2>7. LeaseTypeOK'
    BY <1>t, <2>2, <2>3, <2>4, <2>5, <2>6 DEF LeaseTypeOK, BufferTypeOK
  <2>8. LeasedNotCached' /\ InUseAccountedFor'
    BY <1>0, <2>1, <2>2, <2>3, <2>4
    DEF LeasedNotCached, InUseAccountedFor, FreshBuffers
  <2>9. PoolBound'
    <3>1. CASE NeedReallocate
      <4>1. Cardinality(io_buffer_cache_) <= SizeNeedReallocate
        BY <2>5, <3>1, BufferSizes, FS_EmptySet DEF NeedReallocate
      <4>2. Objects' = (io_buffer_cache_ \cup added) \cup leased'
        BY <2>1, <2>2 DEF Objects
      <4>3. /\ Cardinality(io_buffer_cache_ \cup added)
                 <= Cardinality(io_buffer_cache_) + ReAllocateSize
            /\ io_buffer_cache_ \cup added \in SUBSET Buffers
        BY <1>t, <2>4, <2>5, <3>1, UnionSize
      <4>4. Cardinality(Objects')
              <= Cardinality(io_buffer_cache_ \cup added) + Cardinality(leased')
        BY <2>5, <4>2, <4>3, UnionSize
      <4>5. /\ Cardinality(Objects') \in Nat
            /\ Cardinality(io_buffer_cache_ \cup added) \in Nat
        <5>1. Objects' \in SUBSET Buffers
          BY <2>5, <4>2, <4>3
        <5>. QED  BY <4>3, <5>1, BufferSetsFinite
      <4>6. Cardinality(Objects')
              <= peak_leased' + SizeNeedReallocate + ReAllocateSize
        BY <2>5, <2>6, <4>1, <4>3, <4>4, <4>5, BufferSizes DEF PeakIsPeak
      <4>. QED  BY <2>6, <4>5, <4>6, BufferSizes DEF PoolBound, Objects
    <3>2. CASE ~NeedReallocate
      <4>1. Objects' = Objects
        BY <2>1, <2>2, <2>4, <3>2 DEF Objects, NeedReallocate
      <4>2. Cardinality(Objects) \in Nat
        BY <1>t, BufferSetsFinite
      <4>. QED  BY <1>0, <1>t, <2>3, <2>6, <4>1, <4>2, BufferSizes
                DEF PoolBound, Objects
    <3>. QED  BY <3>1, <3>2
  <2>. QED  BY <2>6, <2>7, <2>8, <2>9
<1>3. CASE Release
  <2>1. PICK b \in leased :
            /\ ReleaseIOBuffer(b)
            /\ leased' = leased \ {b}
            /\ UNCHANGED peak_leased
    BY <1>3 DEF Release
  <2>2. PICK kept \in SUBSET {b} :
            /\ io_buffer_cache_' = io_buffer_cache_ \cup kept
            /\ io_buffer_in_use_' = io_buffer_in_use_ \ ({b} \ kept)
    BY <2>1 DEF ReleaseIOBuffer, ReleaseIOBuffers
  <2>3. UNCHANGED io_buffer_manager_inited_
    BY <2>1 DEF ReleaseIOBuffer, ReleaseIOBuffers
  <2>4. LeaseTypeOK'
    BY <1>t, <2>1, <2>2, <2>3 DEF LeaseTypeOK, BufferTypeOK
  <2>5. LeasedNotCached' /\ InUseAccountedFor'
    BY <1>0, <2>1, <2>2 DEF LeasedNotCached, InUseAccountedFor
  <2>6. PeakIsPeak'
    <3>1. Cardinality(leased') <= Cardinality(leased)
      BY <1>t, <2>1, BufferSetsFinite, FS_Subset
    <3>2. Cardinality(leased') \in Nat /\ Cardinality(leased) \in Nat
      BY <1>t, <2>1, BufferSetsFinite
    <3>. QED  BY <1>0, <1>t, <2>1, <3>1, <3>2 DEF PeakIsPeak
  <2>7. PoolBound'
    <3>1. Objects' \subseteq Objects
      BY <2>1, <2>2 DEF Objects
    <3>2. /\ Cardinality(Objects') <= Cardinality(Objects)
          /\ Cardinality(Objects) \in Nat
          /\ Cardinality(Objects') \in Nat
      BY <1>t, <3>1, BufferSetsFinite, FS_Subset
    <3>. QED  BY <1>0, <1>t, <2>1, <2>3, <3>2, BufferSizes
              DEF PoolBound, Objects
  <2>. QED  BY <2>4, <2>5, <2>6, <2>7
<1>4. CASE Finalize
  <2>1. /\ io_buffer_manager_inited_' = FALSE
        /\ io_buffer_cache_' = {}
        /\ io_buffer_in_use_' = {}
        /\ UNCHANGED <<leased, peak_leased>>
    BY <1>4 DEF Finalize, FinalizeBuffers
  <2>2. LeaseTypeOK' /\ LeasedNotCached' /\ InUseAccountedFor' /\ PeakIsPeak'
    BY <1>0, <1>t, <2>1
    DEF LeaseTypeOK, BufferTypeOK, LeasedNotCached, InUseAccountedFor, PeakIsPeak
  <2>3. PoolBound'
    <3>1. (io_buffer_cache_ \cup leased)' = leased
      BY <2>1
    <3>2. Cardinality(leased) \in Nat
      BY <1>t, BufferSetsFinite
    <3>3. Cardinality((io_buffer_cache_ \cup leased)') <= peak_leased
      BY <1>0, <3>1 DEF PeakIsPeak
    <3>. QED  BY <1>t, <2>1, <3>1, <3>2, <3>3, BufferSizes DEF PoolBound
  <2>. QED  BY <2>2, <2>3
<1>5. CASE UNCHANGED leaseVars
  BY <1>0, <1>5
  DEF leaseVars, bufferVars, LeaseTypeOK, BufferTypeOK, LeasedNotCached,
      InUseAccountedFor, PeakIsPeak, PoolBound
<1>. QED  BY <1>1, <1>2, <1>3, <1>4, <1>5 DEF LeaseNext

-----------------------------------------------------------------------------

\* The inductive invariant holds after any sequence of calls.
LEMMA LeaseInvariance == LeaseSpec => []LeaseIInv
BY LeaseInitInv, LeaseStepInv, PTL DEF LeaseSpec

\* The manager's containers and the history variables keep their types.
THEOREM LeaseTyping == LeaseSpec => []LeaseTypeOK
BY LeaseInvariance, PTL DEF LeaseIInv

\* GetNextIOBufferPtr never hands out a buffer that another caller still
\* holds, if every caller releases what it got once.
THEOREM ExclusiveLeases == LeaseSpec => []LeasedNotCached
BY LeaseInvariance, PTL DEF LeaseIInv

\* io_buffer_in_use_ holds nothing but leased and recycled buffers.
THEOREM NoForgottenBuffer == LeaseSpec => []InUseAccountedFor
BY LeaseInvariance, PTL DEF LeaseIInv

\* The pool's memory is bounded by the peak number of leases plus the three
\* configured sizes.
THEOREM BoundedPool == LeaseSpec => []PoolBound
BY LeaseInvariance, PTL DEF LeaseIInv

=============================================================================
