--------------------------- MODULE IOBufferLeases ---------------------------
(***************************************************************************)
(* What GT_IOContextBuffer_Manager promises to callers that keep the        *)
(* contract its interface implies: a caller releases a buffer it got, and   *)
(* releases it once.  leased and peak_leased are history variables: the     *)
(* buffers handed out and not yet released, and how many there were at      *)
(* most at one time.  Whether the server's own callers keep the contract    *)
(* is checked in IOCPServer.                                                *)
(***************************************************************************)
EXTENDS IOBufferManager

VARIABLES leased, peak_leased

leaseVars == <<bufferVars, leased, peak_leased>>

LeaseTypeOK ==
    /\ BufferTypeOK
    /\ leased \subseteq Buffers
    /\ peak_leased \in Nat

\* Addresses with no object: nobody has a shared_ptr to a buffer there.
FreshBuffers ==
    Buffers \ (io_buffer_cache_ \cup io_buffer_in_use_ \cup leased)

LeaseInit ==
    /\ BufferManagerInit
    /\ leased = {}
    /\ peak_leased = 0

Initialize ==
    /\ InitializeBuffers(FreshBuffers)
    /\ UNCHANGED <<leased, peak_leased>>

Get ==
    \E b \in Buffers :
        /\ GetNextIOBufferPtr(b, FreshBuffers)
        /\ leased' = leased \cup {b}
        /\ peak_leased' = IF Cardinality(leased') > peak_leased
                          THEN Cardinality(leased') ELSE peak_leased

Release ==
    \E b \in leased :
        /\ ReleaseIOBuffer(b)
        /\ leased' = leased \ {b}
        /\ UNCHANGED peak_leased

Finalize ==
    /\ FinalizeBuffers
    /\ UNCHANGED <<leased, peak_leased>>

LeaseNext == Initialize \/ Get \/ Release \/ Finalize

LeaseSpec == LeaseInit /\ [][LeaseNext]_leaseVars

-----------------------------------------------------------------------------

\* A buffer that a caller holds is not waiting in the cache to be handed out
\* a second time: GetNextIOBufferPtr gives every event a buffer of its own.
LeasedNotCached == leased \cap io_buffer_cache_ = {}

\* io_buffer_in_use_ does not accumulate: each entry is a buffer somebody
\* holds, or one that ReleaseIOBuffer recycled without removing its entry.
InUseAccountedFor == io_buffer_in_use_ \subseteq leased \cup io_buffer_cache_

\* The memory the pool makes the program hold is bounded by the largest
\* number of buffers that were ever out at one time, whatever the sequence of
\* gets and releases: reallocation happens only when the cache is short, and
\* recycling never adds to the total.
PoolBound ==
    Cardinality(io_buffer_cache_ \cup leased)
        <= peak_leased + SizeNeedReallocate + ReAllocateSize
           + (IF io_buffer_manager_inited_ THEN PreAllocateSize ELSE 0)

=============================================================================
