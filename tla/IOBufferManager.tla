--------------------------- MODULE IOBufferManager ---------------------------
(***************************************************************************)
(* GT_IOContextBuffer_Manager: the pool every overlapped operation of the   *)
(* IOCP server takes its buffer from.  All four operations run under        *)
(* io_buffer_manager_mutex_, so each is one step.                           *)
(*                                                                         *)
(* This module has the manager's state and what its operations do to it;    *)
(* who calls them is left to the modules that extend it (IOBufferLeases:    *)
(* any callers that keep a contract; IOCPServer: the callers the server     *)
(* has).  A buffer is its address.  "fresh" is the set of addresses at      *)
(* which no object is alive, from which operator new picks; the caller      *)
(* knows it, because a buffer is kept alive by whoever has a shared_ptr.    *)
(***************************************************************************)
EXTENDS Naturals, FiniteSets, FiniteSetsExt

CONSTANTS
    Buffers,            \* addresses of GT_IOContextBuffer objects
    PreAllocateSize,    \* io_buffer_cfg.pre_allocate_size
    ReAllocateSize,     \* io_buffer_cfg.reallocate_size
    SizeNeedReallocate  \* size_need_reallocate_

ASSUME BufferSizes ==
    /\ PreAllocateSize \in Nat
    /\ ReAllocateSize \in Nat
    /\ SizeNeedReallocate \in Nat

\* The address space is finite.
ASSUME BuffersFinite == IsFiniteSet(Buffers)

VARIABLES
    io_buffer_manager_inited_,
    io_buffer_cache_,   \* free buffers, handed out next
    io_buffer_in_use_   \* buffers by address, as far as the manager knows

bufferVars == <<io_buffer_manager_inited_, io_buffer_cache_, io_buffer_in_use_>>

BufferTypeOK ==
    /\ io_buffer_manager_inited_ \in BOOLEAN
    /\ io_buffer_cache_ \subseteq Buffers
    /\ io_buffer_in_use_ \subseteq Buffers

\* The object right after its constructor.
BufferManagerInit ==
    /\ io_buffer_manager_inited_ = FALSE
    /\ io_buffer_cache_ = {}
    /\ io_buffer_in_use_ = {}

-----------------------------------------------------------------------------

\* Initialize: preallocates; it fails, and the manager stays uninitialised,
\* when the cache is empty afterwards.
InitializeBuffers(fresh) ==
    /\ ~io_buffer_manager_inited_
    /\ \E added \in kSubset(PreAllocateSize, fresh) :
          /\ io_buffer_cache_' = io_buffer_cache_ \cup added
          /\ io_buffer_manager_inited_' = (io_buffer_cache_' # {})
    /\ UNCHANGED io_buffer_in_use_

\* Fault: reallocates on every call.
NeedReallocateAlways == TRUE

\* The cache is short of buffers.
NeedReallocate ==
    io_buffer_cache_ = {} \/ Cardinality(io_buffer_cache_) < SizeNeedReallocate

\* Fault: a buffer that could not be allocated is inserted all the same.
ReallocationsOfNull(fresh) == IF NeedReallocate THEN {{"nullptr"}} ELSE {{}}

\* What ReAllocateSomeIOBuffer_ may add to the cache (nothing if not needed).
Reallocations(fresh) ==
    IF NeedReallocate THEN kSubset(ReAllocateSize, fresh) ELSE {{}}

\* Fault: the buffer handed out is not erased from the cache.
GetWithoutErase(b, fresh) ==
    /\ \E added \in Reallocations(fresh) :
          /\ b \in io_buffer_cache_ \cup added
          /\ io_buffer_cache_' = io_buffer_cache_ \cup added
    /\ io_buffer_in_use_' = io_buffer_in_use_ \cup {b}
    /\ UNCHANGED io_buffer_manager_inited_

\* GetNextIOBufferPtr returns b: any member of the cache (begin() of an
\* unordered_set), or an object of its own if there is still none.
GetNextIOBufferPtr(b, fresh) ==
    /\ \E added \in Reallocations(fresh) :
          LET cache == io_buffer_cache_ \cup added
          IN  /\ \/ b \in cache
                 \/ cache = {} /\ b \in fresh
              /\ io_buffer_cache_' = cache \ {b}
    /\ io_buffer_in_use_' = io_buffer_in_use_ \cup {b}
    /\ UNCHANGED io_buffer_manager_inited_

\* Fault: a buffer that is not recycled keeps its entry as well.
ReleaseWithoutErase(S) ==
    /\ \E kept \in SUBSET S : io_buffer_cache_' = io_buffer_cache_ \cup kept
    /\ UNCHANGED <<io_buffer_in_use_, io_buffer_manager_inited_>>

\* ReleaseIOBuffer on each buffer of S in turn.  GetRandomInt decides which
\* ones are kept: those go back to the cache and stay in io_buffer_in_use_;
\* the manager forgets the others.
ReleaseIOBuffers(S) ==
    /\ \E kept \in SUBSET S :
          /\ io_buffer_cache_' = io_buffer_cache_ \cup kept
          /\ io_buffer_in_use_' = io_buffer_in_use_ \ (S \ kept)
    /\ UNCHANGED io_buffer_manager_inited_

ReleaseIOBuffer(b) == ReleaseIOBuffers({b})

\* Finalize: both containers are cleared.
FinalizeBuffers ==
    /\ io_buffer_manager_inited_' = FALSE
    /\ io_buffer_cache_' = {}
    /\ io_buffer_in_use_' = {}

=============================================================================
