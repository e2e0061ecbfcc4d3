---------------------------- MODULE IOCPCollector ----------------------------
(***************************************************************************)
(* The IOCP server with the collector thread at work on its keys.  A pass   *)
(* of ResourceCollector holds the global lock and releases the keys it      *)
(* finds idle for the second time; here it is one step for each of them.    *)
(* ConnectionTimer has the timers and the counting; here any key may be the *)
(* one whose time is up, whatever the workers and the kernel are doing with *)
(* it, since nothing in the pass looks at that.                             *)
(***************************************************************************)
EXTENDS IOCPServer

VARIABLE ended      \* the process came down

collectorVars == <<vars, ended>>

CollectorInit == Init /\ ended = FALSE

\* Somebody is still using what the release of key k gives back: a worker
\* that handles an event of the key, or an event, of whichever key, that has
\* one of the buffers in k's cache.
InUse(k) ==
    \/ \E t \in Threads : k \in {worker[t].key, worker[t].new_key}
    \/ \E b \in socket_io_buffer_cache_[k] : EventsOn(b) > 0

\* Fault: no check is the second one.
NeverEvict(k) == FALSE

\* The second check of an idle connection.  The pass erases through iterators
\* that the release has made invalid, which may bring the process down.
Evict(k) ==
    /\ resource_global_lock_ = NoKey
    /\ k \in completion_key_ptr_cache_
    /\ ReleaseContextOf(k)
    /\ raced' = (raced \/ InUse(k))
    /\ ended' \in BOOLEAN
    /\ UNCHANGED <<resource_global_lock_, worker>>

CollectorNext ==
    /\ ~ended
    /\ \/ Next /\ UNCHANGED ended
       \/ \E k \in Keys : Evict(k)

CollectorSpec == CollectorInit /\ [][CollectorNext]_collectorVars

\* No worker handles the connection and the kernel has nothing of it.
Silent(k) ==
    /\ \A t \in Threads : k \notin {worker[t].key, worker[t].new_key}
    /\ \A p \in pending : p.key # k
    /\ \A i \in DOMAIN port : port[i].key # k

\* Every worker that can go on does, the kernel completes what it owes, and a
\* connection that is silent in this sense stays so and is found idle twice as
\* passes go on.  A client need not connect, send or leave.
FairCollectorSpec ==
    /\ CollectorSpec
    /\ \A t \in Threads : WF_collectorVars(~ended /\ WorkerStep(t) /\ UNCHANGED ended)
    /\ WF_collectorVars(~ended /\ OwedCompletion /\ UNCHANGED ended)
    /\ \A k \in Keys : WF_collectorVars(~ended /\ Evict(k) /\ Silent(k))

-----------------------------------------------------------------------------

\* Whichever call fails, a connection whose client has left does not keep its
\* key: its read reports the end, or, when there is no read because WSARecv or
\* the binding failed, the collector finds it.
GoneReleased ==
    []Intact => \A k \in Keys :
        (k \in completion_key_ptr_cache_ /\ peer[socket_shared_ptr_[k]] = "gone")
            ~> (k \notin completion_key_ptr_cache_ \/ ended)

=============================================================================
