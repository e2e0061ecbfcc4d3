------------------------ MODULE ServerProcess_proofs ------------------------
(***************************************************************************)
(* ServerProcess, and the IOCPService it drives, proved for every number of *)
(* worker threads and of completions: StopService leaves no worker without  *)
(* its exit event, nobody uses resources that were cleared, and the         *)
(* callbacks are there from the start of the service to the user's yes.     *)
(***************************************************************************)
EXTENDS ServerProcess, FiniteSetTheorems, FunctionTheorems, SequenceTheorems, TLAPS

\* The states of the main thread before the service was started.
InitPhase == {"init", "init_resources", "bind", "end_collector_init",
              "notify_init", "join_collector_init", "failed", "inited"}

\* The workers have not been started, have ended, or spin away from the port.
WorkersKeptAway ==
    \A t \in Threads :
        \/ thread[t] \in {"none", "done"}
        \/ /\ thread[t] \in {"loop", "flag"}
           /\ ~is_need_continue_wait_completion_port_status_

\* Whenever the resources are, or are about to be, cleared the workers cannot
\* reach them, and afterwards the collector is gone.
ClearedInv ==
    /\ main \in InitPhase \cup {"end_collector", "notify", "join_collector"} \/ cleared
            => WorkersKeptAway
    /\ main \in {"init", "init_resources", "bind", "inited"} => ~cleared
    /\ cleared => collector \in {"none", "done"}
    /\ ~is_iocp_thread_pool_started_ => \A t \in Threads : thread[t] = "none"
    /\ main \in InitPhase => joined = {}
    /\ \A t \in joined : thread[t] = "done"

\* The worker has taken an exit event and will not wait on the port again.
TookExit(t) ==
    \/ thread[t] = "exit"
    \/ /\ thread[t] \in {"loop", "flag", "done"}
       /\ ~is_need_continue_wait_completion_port_status_

\* Every exit event that was posted is on the port, or was taken by a worker
\* of its own.
ExitsAccountedFor ==
    \E T \in SUBSET Threads :
        /\ Cardinality(T) + Cardinality(QueuedExits) = posted
        /\ \A t \in T : TookExit(t)

ExitInv ==
    /\ main \in InitPhase => posted = 0
    /\ Stopping => posted = Cardinality(Threads)
    /\ ExitsAccountedFor

\* The inductive invariant of the service.
ServiceIInv == TypeOK /\ ClearedInv /\ ExitInv

\* The callback is there between the start and the user's yes, workers in the
\* middle of a call are in the middle of an event, and main does not go on
\* before Initialize has returned.
CallbackInv ==
    /\ process \in {"start", "create_event", "wait", "ask", "spin", "unregister"}
            => read_event_call_back_
    /\ process = "initialize" => main \in InitPhase
    /\ \A t \in calling : thread[t] = "event"

\* The inductive invariant of the process.
ProcessIInv ==
    ProcessTypeOK /\ ServiceIInv /\ CallbackInv /\ CallbackThereWhileServing

-----------------------------------------------------------------------------
(* The completion port as a queue.                                          *)

Packets == {"event", "exit"}

\* Where the exit events are in a queue.
ExitsIn(q) == {n \in 1 .. Len(q) : q[n] = "exit"}

\* The exit events of a queue can be counted.
LEMMA ExitsFinite ==
    ASSUME NEW q \in Seq(Packets)
    PROVE  IsFiniteSet(ExitsIn(q)) /\ Cardinality(ExitsIn(q)) \in Nat
<1>1. Len(q) \in Nat
  OBVIOUS
<1>2. IsFiniteSet(1 .. Len(q))
  BY <1>1, FS_Interval
<1>3. ExitsIn(q) \in SUBSET (1 .. Len(q))
  BY DEF ExitsIn
<1>. QED  BY <1>2, <1>3, FS_Subset, FS_CardinalityType

\* Posting a packet adds one exit event or none.
LEMMA PostCounts ==
    ASSUME NEW q \in Seq(Packets), NEW p \in Packets
    PROVE  Cardinality(ExitsIn(Append(q, p)))
             = Cardinality(ExitsIn(q)) + (IF p = "exit" THEN 1 ELSE 0)
<1>1. /\ Len(Append(q, p)) = Len(q) + 1
      /\ \A n \in 1 .. Len(q) : Append(q, p)[n] = q[n]
      /\ Append(q, p)[Len(q) + 1] = p
      /\ Len(q) \in Nat
  OBVIOUS
<1>2. IsFiniteSet(ExitsIn(q)) /\ Cardinality(ExitsIn(q)) \in Nat
  BY ExitsFinite
<1>3. CASE p = "exit"
  <2>1. ExitsIn(Append(q, p)) = ExitsIn(q) \cup {Len(q) + 1}
    BY <1>1, <1>3 DEF ExitsIn
  <2>2. Len(q) + 1 \notin ExitsIn(q)
    BY <1>1 DEF ExitsIn
  <2>. QED  BY <1>2, <1>3, <2>1, <2>2, FS_AddElement
<1>4. CASE p # "exit"
  <2>1. ExitsIn(Append(q, p)) = ExitsIn(q)
    BY <1>1, <1>4 DEF ExitsIn
  <2>. QED  BY <1>2, <1>4, <2>1
<1>. QED  BY <1>3, <1>4

\* Taking the first packet removes it and moves the others forward.
LEMMA TakeCounts ==
    ASSUME NEW q \in Seq(Packets), q # <<>>
    PROVE  /\ Tail(q) \in Seq(Packets)
           /\ Head(q) \in Packets
           /\ Cardinality(ExitsIn(q))
                = Cardinality(ExitsIn(Tail(q))) + (IF Head(q) = "exit" THEN 1 ELSE 0)
<1>1. /\ Tail(q) \in Seq(Packets)
      /\ Head(q) \in Packets /\ Head(q) = q[1]
      /\ Len(q) \in Nat \ {0}
      /\ Len(Tail(q)) = Len(q) - 1
      /\ \A n \in 1 .. Len(Tail(q)) : Tail(q)[n] = q[n + 1]
  BY HeadTailProperties
<1>2. /\ IsFiniteSet(ExitsIn(q)) /\ Cardinality(ExitsIn(q)) \in Nat
      /\ IsFiniteSet(ExitsIn(Tail(q))) /\ Cardinality(ExitsIn(Tail(q))) \in Nat
  BY <1>1, ExitsFinite
<1>. DEFINE rest == ExitsIn(q) \ {1}
            f == [n \in ExitsIn(Tail(q)) |-> n + 1]
<1>3. f \in Bijection(ExitsIn(Tail(q)), rest)
  <2>1. \A n \in ExitsIn(Tail(q)) : n \in 1 .. Len(q) - 1 /\ n + 1 \in rest
    BY <1>1 DEF ExitsIn
  <2>2. \A m \in rest : m - 1 \in ExitsIn(Tail(q)) /\ m = (m - 1) + 1
    BY <1>1 DEF ExitsIn
  <2>3. f \in [ExitsIn(Tail(q)) -> rest]
    BY <2>1
  <2>4. \A m, n \in ExitsIn(Tail(q)) : f[m] = f[n] => m = n
    BY <2>1
  <2>5. \A m \in rest : \E n \in ExitsIn(Tail(q)) : f[n] = m
    BY <2>2
  <2>. QED  BY <2>3, <2>4, <2>5 DEF Bijection, Injection, Surjection, IsInjective
<1>4. Cardinality(rest) = Cardinality(ExitsIn(Tail(q)))
  BY <1>2, <1>3, FS_Bijection DEF ExistsBijection
<1>5. 1 \in ExitsIn(q) <=> Head(q) = "exit"
  BY <1>1 DEF ExitsIn
<1>6. Cardinality(rest) = IF 1 \in ExitsIn(q) THEN Cardinality(ExitsIn(q)) - 1
                                             ELSE Cardinality(ExitsIn(q))
  BY <1>2, FS_RemoveElement
<1>. HIDE DEF rest
<1>. QED  BY <1>1, <1>2, <1>4, <1>5, <1>6

-----------------------------------------------------------------------------
(* The service.                                                             *)

\* A worker that calls through nullptr brings the process down.
Crash ==
    /\ main # "crashed"
    /\ main' = "crashed"
    /\ UNCHANGED <<mainVars, threadVars, collectorVars, portVars>>

\* What the process can do to the service.
ServiceStep ==
    \/ InitializeStep \/ GTStartService \/ ExitGTService \/ StopServiceStep
    \/ \E t \in Threads : LoopStep(t) \/ HandleEvent(t)
    \/ CollectorStep \/ EventCompletes \/ Crash \/ UNCHANGED vars

\* A service that was just constructed satisfies its invariant.
LEMMA ServiceInitInv == Init => ServiceIInv
<1>. SUFFICES ASSUME Init PROVE ServiceIInv
  OBVIOUS
<1>. USE ServiceConstants DEF Init
<1>1. Cardinality(Threads) \in Nat
  BY FS_CardinalityType
<1>2. TypeOK
  <2>1. port \in Seq({"event", "exit"})
    OBVIOUS
  <2>2. posted \in 0 .. Cardinality(Threads) /\ events \in 0 .. MaxEvents
    BY <1>1
  <2>. QED  BY <2>1, <2>2 DEF TypeOK, MainPCs
<1>3. ClearedInv
  BY DEF ClearedInv, WorkersKeptAway, InitPhase
<1>4. ExitInv
  <2>1. QueuedExits = {}
    BY DEF QueuedExits
  <2>2. Cardinality({}) + Cardinality(QueuedExits) = posted
    BY <2>1, FS_EmptySet
  <2>3. ExitsAccountedFor
    BY <2>2 DEF ExitsAccountedFor
  <2>. QED  BY <2>3 DEF ExitInv, Stopping
<1>. QED  BY <1>2, <1>3, <1>4 DEF ServiceIInv

\* Every step leaves the service's variables in their types.
LEMMA ServiceTypeStep ==
    ASSUME TypeOK, ServiceStep
    PROVE  TypeOK'
<1>. USE DEF TypeOK, MainPCs, mainVars, threadVars, collectorVars, portVars
<1>0. Cardinality(Threads) \in Nat
  BY ServiceConstants, FS_CardinalityType
<1>1. CASE InitializeStep
  BY <1>1 DEF InitializeStep, InitFails, InitThreadPool, InitResources, BindListenSocket
<1>2. CASE GTStartService \/ ExitGTService \/ Crash
  BY <1>2 DEF GTStartService, ExitGTService, Crash
<1>3. CASE StopServiceStep
  <2>1. CASE PostExitEvent
    <3>1. posted < Cardinality(Threads) => posted + 1 \in 0 .. Cardinality(Threads)
      BY <1>0
    <3>2. Append(port, "exit") \in Seq({"event", "exit"})
      OBVIOUS
    <3>. QED  BY <2>1, <3>1, <3>2 DEF PostExitEvent, ExitEvents
  <2>2. CASE StopThread
    BY <2>2 DEF StopThread, AfterThreadPool
  <2>3. CASE JoinThread
    BY <2>3 DEF JoinThread
  <2>4. CASE EndCollector \/ NotifyCollector \/ JoinCollector
    BY <2>4 DEF EndCollector, NotifyCollector, JoinCollector
  <2>. QED  BY <1>3, <2>1, <2>2, <2>3, <2>4 DEF StopServiceStep
<1>4. ASSUME NEW t \in Threads, LoopStep(t) \/ HandleEvent(t)
      PROVE  TypeOK'
  <2>1. CASE LongTimeWorker(t) \/ TestFlag(t)
    BY <2>1 DEF LongTimeWorker, TestFlag, ThreadGoes
  <2>2. CASE HandleEvent(t) \/ HandleExit(t)
    <3>1. CASE HandleEvent(t)
      BY <3>1 DEF HandleEvent, ThreadGoes
    <3>2. CASE HandleExit(t)
      BY <3>2 DEF HandleExit, ThreadGoes
    <3>. QED  BY <2>2, <3>1, <3>2
  <2>3. CASE GetQueuedCompletionStatus(t)
    <3>1. Head(port) \in {"event", "exit"} /\ Tail(port) \in Seq({"event", "exit"})
      BY <2>3 DEF GetQueuedCompletionStatus
    <3>. QED  BY <2>3, <3>1 DEF GetQueuedCompletionStatus, ThreadGoes
  <2>. QED  BY <1>4, <2>1, <2>2, <2>3 DEF LoopStep
<1>5. CASE CollectorStep
  BY <1>5 DEF CollectorStep
<1>6. CASE EventCompletes
  BY <1>6, ServiceConstants DEF EventCompletes
<1>7. CASE UNCHANGED vars
  BY <1>7 DEF vars
<1>. QED  BY <1>1, <1>2, <1>3, <1>4, <1>5, <1>6, <1>7 DEF ServiceStep

\* Nobody gets near resources that are being cleared.
LEMMA ClearedStep ==
    ASSUME TypeOK, ClearedInv, ServiceStep
    PROVE  ClearedInv'
<1>. USE DEF TypeOK, ClearedInv, WorkersKeptAway, InitPhase, mainVars, threadVars,
             collectorVars, portVars
<1>1. CASE InitializeStep
  <2>1. CASE InitFails \/ BindListenSocket
    BY <2>1 DEF InitFails, BindListenSocket
  <2>2. CASE InitThreadPool
    BY <2>2 DEF InitThreadPool
  <2>3. CASE InitResources
    BY <2>3 DEF InitResources
  <2>. QED  BY <1>1, <2>1, <2>2, <2>3 DEF InitializeStep
<1>2. CASE GTStartService \/ ExitGTService \/ Crash
  BY <1>2 DEF GTStartService, ExitGTService, Crash
<1>3. CASE StopServiceStep
  <2>1. CASE PostExitEvent
    BY <2>1 DEF PostExitEvent
  <2>2. CASE StopThread
    BY <2>2 DEF StopThread, AfterThreadPool
  <2>3. CASE JoinThread
    BY <2>3 DEF JoinThread, Joinable
  <2>4. CASE EndCollector
    BY <2>4 DEF EndCollector
  <2>5. CASE NotifyCollector
    BY <2>5 DEF NotifyCollector
  <2>6. CASE JoinCollector
    BY <2>6 DEF JoinCollector
  <2>. QED  BY <1>3, <2>1, <2>2, <2>3, <2>4, <2>5, <2>6 DEF StopServiceStep
<1>4. ASSUME NEW t \in Threads, LoopStep(t) \/ HandleEvent(t)
      PROVE  ClearedInv'
  <2>1. CASE LongTimeWorker(t)
    BY <2>1 DEF LongTimeWorker, ThreadGoes
  <2>2. CASE TestFlag(t)
    BY <2>2 DEF TestFlag, ThreadGoes
  <2>3. CASE GetQueuedCompletionStatus(t)
    BY <2>3 DEF GetQueuedCompletionStatus, ThreadGoes
  <2>4. CASE HandleEvent(t) \/ HandleExit(t)
    BY <2>4 DEF HandleEvent, HandleExit, ThreadGoes
  <2>. QED  BY <1>4, <2>1, <2>2, <2>3, <2>4 DEF LoopStep
<1>5. CASE CollectorStep
  BY <1>5 DEF CollectorStep, TimesOut
<1>6. CASE EventCompletes
  BY <1>6 DEF EventCompletes
<1>7. CASE UNCHANGED vars
  BY <1>7 DEF vars
<1>. QED  BY <1>1, <1>2, <1>3, <1>4, <1>5, <1>6, <1>7 DEF ServiceStep

\* As long as no exit event has been posted nobody has taken one.
LEMMA NoExitsYet ==
    ASSUME TypeOK, ExitsAccountedFor, posted = 0
    PROVE  Cardinality({}) + Cardinality(QueuedExits) = posted
<1>1. PICK T \in SUBSET Threads : Cardinality(T) + Cardinality(QueuedExits) = posted
  BY DEF ExitsAccountedFor
<1>2. Cardinality(T) \in Nat
  BY ServiceConstants, FS_Subset, FS_CardinalityType
<1>3. Cardinality(QueuedExits) \in Nat
  BY ExitsFinite DEF QueuedExits, ExitsIn, TypeOK, Packets
<1>. QED  BY <1>1, <1>2, <1>3, FS_EmptySet

\* Every exit event stays accounted for: a worker takes at most one.
LEMMA ExitStep ==
    ASSUME TypeOK, ExitInv, ServiceStep
    PROVE  ExitInv'
<1>. USE DEF mainVars, threadVars, collectorVars, portVars
<1>0. /\ QueuedExits = ExitsIn(port)
      /\ QueuedExits' = ExitsIn(port')
      /\ port \in Seq(Packets)
      /\ Cardinality(ExitsIn(port)) \in Nat
      /\ posted \in Nat
  <2>1. port \in Seq(Packets) /\ QueuedExits = ExitsIn(port) /\ QueuedExits' = ExitsIn(port')
    BY DEF QueuedExits, ExitsIn, TypeOK, Packets
  <2>2. posted \in Nat
    BY ServiceConstants, FS_CardinalityType DEF TypeOK
  <2>. QED  BY <2>1, <2>2, ExitsFinite
<1>1. /\ main \in InitPhase => posted = 0
      /\ Stopping => posted = Cardinality(Threads)
      /\ ExitsAccountedFor
  BY DEF ExitInv
<1>2. PICK T \in SUBSET Threads :
        /\ Cardinality(T) + Cardinality(ExitsIn(port)) = posted
        /\ \A t \in T : TookExit(t)
  BY <1>0, <1>1 DEF ExitsAccountedFor
<1>3. IsFiniteSet(T) /\ Cardinality(T) \in Nat
  BY ServiceConstants, FS_Subset, FS_CardinalityType
<1>4. ASSUME Cardinality(T) + Cardinality(ExitsIn(port')) = posted',
             \A t \in T : TookExit(t)'
      PROVE  ExitsAccountedFor'
  BY <1>0, <1>4 DEF ExitsAccountedFor
<1>5. ASSUME UNCHANGED <<port, posted, threadVars>>
      PROVE  ExitsAccountedFor'
  BY <1>2, <1>4, <1>5 DEF TookExit
<1>6. ASSUME posted = 0, UNCHANGED <<port, posted>>
      PROVE  ExitsAccountedFor'
  <2>1. Cardinality({}) + Cardinality(QueuedExits') = posted'
    BY <1>0, <1>1, <1>6, NoExitsYet
  <2>. QED  BY <2>1 DEF ExitsAccountedFor
<1>7. CASE InitializeStep
  <2>1. main \in InitPhase /\ UNCHANGED <<port, posted>> /\ ~Stopping'
    BY <1>7 DEF InitializeStep, InitFails, InitThreadPool, InitResources,
                BindListenSocket, InitPhase, Stopping
  <2>. QED  BY <1>1, <1>6, <2>1 DEF ExitInv
<1>8. CASE GTStartService
  <2>1. main \in InitPhase /\ UNCHANGED <<port, posted>> /\ ~Stopping'
    BY <1>8 DEF GTStartService, InitPhase, Stopping
  <2>. QED  BY <1>1, <1>6, <2>1 DEF ExitInv
<1>9. CASE ExitGTService \/ Crash
  <2>1. UNCHANGED <<port, posted, threadVars>> /\ ~Stopping' /\ main' \notin InitPhase
    BY <1>9 DEF ExitGTService, Crash, InitPhase, Stopping
  <2>. QED  BY <1>5, <2>1 DEF ExitInv
<1>10. CASE StopServiceStep
  <2>1. CASE PostExitEvent
    <3>1. /\ main' \notin InitPhase /\ ~Stopping'
          /\ UNCHANGED threadVars
          /\ \/ port' = Append(port, "exit") /\ posted' = posted + 1
             \/ UNCHANGED <<port, posted>>
      BY <2>1 DEF PostExitEvent, InitPhase, Stopping
    <3>2. Cardinality(T) + Cardinality(ExitsIn(port')) = posted'
      <4>1. CASE port' = Append(port, "exit") /\ posted' = posted + 1
        <5>1. Cardinality(ExitsIn(port')) = Cardinality(ExitsIn(port)) + 1
          BY <1>0, <4>1, PostCounts DEF Packets
        <5>2. /\ Cardinality(ExitsIn(port)) \in Nat /\ Cardinality(T) \in Nat
              /\ Cardinality(T) + Cardinality(ExitsIn(port)) = posted
          BY <1>0, <1>2, <1>3
        <5>. QED  BY <4>1, <5>1, <5>2
      <4>. QED  BY <1>2, <3>1, <4>1
    <3>3. ExitsAccountedFor'
      BY <1>2, <1>4, <3>1, <3>2 DEF TookExit
    <3>. QED  BY <3>1, <3>3 DEF ExitInv
  <2>2. CASE StopThread
    <3>1. posted = Cardinality(Threads) /\ main' \notin InitPhase
      BY <1>1, <2>2 DEF StopThread, AfterThreadPool, ExitEvents, Stopping, InitPhase
    <3>2. UNCHANGED <<port, posted, thread, is_need_continue_wait_completion_port_status_>>
      BY <2>2 DEF StopThread
    <3>3. ExitsAccountedFor'
      BY <1>2, <1>4, <3>2 DEF TookExit
    <3>. QED  BY <3>1, <3>2, <3>3 DEF ExitInv
  <2>3. CASE JoinThread
    <3>1. /\ Stopping /\ main' \notin InitPhase
          /\ UNCHANGED <<port, posted, threadVars>>
      BY <2>3 DEF JoinThread, Stopping, InitPhase
    <3>. QED  BY <1>1, <1>5, <3>1 DEF ExitInv
  <2>4. CASE EndCollector \/ NotifyCollector \/ JoinCollector
    <3>1. /\ main' \in InitPhase => main \in InitPhase
          /\ ~Stopping'
          /\ UNCHANGED <<port, posted, threadVars>>
      BY <2>4 DEF EndCollector, NotifyCollector, JoinCollector, Stopping, InitPhase
    <3>. QED  BY <1>1, <1>5, <3>1 DEF ExitInv
  <2>. QED  BY <1>10, <2>1, <2>2, <2>3, <2>4 DEF StopServiceStep
<1>11. ASSUME NEW t \in Threads, LoopStep(t) \/ HandleEvent(t)
       PROVE  ExitInv'
  <2>1. UNCHANGED <<main, posted>>
    BY <1>11 DEF LoopStep, LongTimeWorker, TestFlag, GetQueuedCompletionStatus,
                 HandleEvent, HandleExit, ThreadGoes
  <2>2. SUFFICES ExitsAccountedFor'
    BY <1>1, <2>1 DEF ExitInv, Stopping
  <2>3. CASE LongTimeWorker(t)
    <3>1. \A u \in T : TookExit(u)'
      BY <1>2, <2>3 DEF LongTimeWorker, ThreadGoes, TookExit, TypeOK
    <3>. QED  BY <1>2, <1>4, <2>1, <2>3, <3>1 DEF LongTimeWorker
  <2>4. CASE TestFlag(t)
    <3>1. \A u \in T : TookExit(u)'
      BY <1>2, <2>4 DEF TestFlag, ThreadGoes, TookExit, TypeOK
    <3>. QED  BY <1>2, <1>4, <2>1, <2>4, <3>1 DEF TestFlag
  <2>5. CASE HandleEvent(t)
    <3>1. \A u \in T : TookExit(u)'
      BY <1>2, <2>5 DEF HandleEvent, ThreadGoes, TookExit, TypeOK
    <3>. QED  BY <1>2, <1>4, <2>1, <2>5, <3>1 DEF HandleEvent
  <2>6. CASE HandleExit(t)
    <3>1. \A u \in T : TookExit(u)'
      BY <1>2, <2>6 DEF HandleExit, ThreadGoes, TookExit, TypeOK
    <3>. QED  BY <1>2, <1>4, <2>1, <2>6, <3>1 DEF HandleExit
  <2>7. CASE GetQueuedCompletionStatus(t)
    <3>1. /\ port # <<>> /\ port' = Tail(port)
          /\ thread[t] = "wait"
          /\ thread' = [thread EXCEPT ![t] = Head(port)]
          /\ UNCHANGED is_need_continue_wait_completion_port_status_
      BY <2>7 DEF GetQueuedCompletionStatus, ThreadGoes
    <3>2. t \notin T
      BY <1>2, <3>1 DEF TookExit
    <3>3. \A u \in T : TookExit(u)'
      BY <1>2, <3>1, <3>2 DEF TookExit, TypeOK
    <3>4. /\ Cardinality(ExitsIn(port))
               = Cardinality(ExitsIn(port')) + (IF Head(port) = "exit" THEN 1 ELSE 0)
          /\ Cardinality(ExitsIn(port')) \in Nat
      BY <1>0, <3>1, TakeCounts, ExitsFinite
    <3>5. CASE Head(port) = "exit"
      <4>1. TookExit(t)'
        BY <3>1, <3>5 DEF TookExit, TypeOK
      <4>2. Cardinality(T \cup {t}) = Cardinality(T) + 1
        BY <1>3, <3>2, FS_AddElement
      <4>3. Cardinality(T \cup {t}) + Cardinality(QueuedExits') = posted'
        BY <1>0, <1>2, <1>3, <2>1, <3>4, <3>5, <4>2
      <4>. QED  BY <3>3, <4>1, <4>3 DEF ExitsAccountedFor
    <3>6. CASE Head(port) # "exit"
      BY <1>2, <1>4, <2>1, <3>3, <3>4, <3>6
    <3>. QED  BY <3>5, <3>6
  <2>. QED  BY <1>11, <2>3, <2>4, <2>5, <2>6, <2>7 DEF LoopStep
<1>12. CASE CollectorStep
  <2>1. UNCHANGED <<main, port, posted, threadVars>>
    BY <1>12 DEF CollectorStep
  <2>. QED  BY <1>1, <1>5, <2>1 DEF ExitInv, Stopping
<1>13. CASE EventCompletes
  <2>1. UNCHANGED <<main, posted, threadVars>> /\ port' = Append(port, "event")
    BY <1>13 DEF EventCompletes
  <2>2. Cardinality(ExitsIn(port')) = Cardinality(ExitsIn(port))
    BY <1>0, <2>1, PostCounts DEF Packets
  <2>3. ExitsAccountedFor'
    BY <1>2, <1>4, <2>1, <2>2 DEF TookExit
  <2>. QED  BY <1>1, <2>1, <2>3 DEF ExitInv, Stopping
<1>14. CASE UNCHANGED vars
  <2>1. UNCHANGED <<main, port, posted, threadVars>>
    BY <1>14 DEF vars
  <2>. QED  BY <1>1, <1>5, <2>1 DEF ExitInv, Stopping
<1>. QED
  BY <1>7, <1>8, <1>9, <1>10, <1>11, <1>12, <1>13, <1>14 DEF ServiceStep

\* Every step of the service preserves its invariant.
LEMMA ServiceStepInv ==
    ASSUME ServiceIInv, ServiceStep
    PROVE  ServiceIInv'
BY ServiceTypeStep, ClearedStep, ExitStep DEF ServiceIInv

\* With every exit event posted there is one for each worker that has not
\* taken one yet, and so for each that waits.
LEMMA EnoughExits == ServiceIInv => NoWorkerStranded
<1>. SUFFICES ASSUME ServiceIInv, Stopping
              PROVE  Cardinality(Blocked) <= Cardinality(QueuedExits)
  BY DEF NoWorkerStranded
<1>1. PICK T \in SUBSET Threads :
        /\ Cardinality(T) + Cardinality(QueuedExits) = Cardinality(Threads)
        /\ \A t \in T : TookExit(t)
  BY DEF ServiceIInv, ExitInv, ExitsAccountedFor
<1>2. Blocked \in SUBSET Threads /\ Blocked \cap T = {}
  BY <1>1 DEF Blocked, TookExit
<1>3. /\ IsFiniteSet(Blocked) /\ IsFiniteSet(T) /\ IsFiniteSet(Blocked \cup T)
      /\ Cardinality(Blocked) \in Nat /\ Cardinality(T) \in Nat
      /\ Cardinality(Blocked \cup T) <= Cardinality(Threads)
  <2>1. Blocked \cup T \in SUBSET Threads
    BY <1>2
  <2>. QED  BY <1>2, <2>1, ServiceConstants, FS_Subset, FS_CardinalityType
<1>4. Cardinality(Blocked \cup T) = Cardinality(Blocked) + Cardinality(T)
  BY <1>2, <1>3, FS_Union, FS_EmptySet
<1>5. Cardinality(QueuedExits) \in Nat /\ Cardinality(Threads) \in Nat
  BY ServiceConstants, FS_CardinalityType, ExitsFinite
  DEF QueuedExits, ExitsIn, ServiceIInv, TypeOK, Packets
<1>. QED  BY <1>1, <1>3, <1>4, <1>5

\* Whoever was kept away when the resources were cleared stays away.
LEMMA NobodyUsesCleared == ServiceIInv => NoUseAfterClear
BY DEF ServiceIInv, ClearedInv, WorkersKeptAway, NoUseAfterClear

-----------------------------------------------------------------------------
(* The process.                                                             *)

\* Whatever the process does is a step of the service or leaves it alone.
LEMMA ProcessDrivesService ==
    ASSUME [ProcessNext]_allVars
    PROVE  ServiceStep
<1>1. CASE ProcessStep
  BY <1>1 DEF ProcessStep, RegisterCallbacks, StartGTService, CreateGlobalEvent,
              WaitForSingleObject, UnregisterCallbacks, Uninitialize, ServiceStep
<1>2. CASE AnswerYes \/ AnswerNo \/ SetEvent
  BY <1>2 DEF AnswerYes, AnswerNo, SetEvent, ServiceStep
<1>3. ASSUME NEW t \in Threads, WorkerStep(t)
      PROVE  ServiceStep
  BY <1>3 DEF WorkerStep, HandleOtherEvent, TestCallback, CallCallback, Crash,
              ServiceStep
<1>4. CASE CollectorStep \/ EventCompletes
  BY <1>4 DEF ServiceStep
<1>5. CASE UNCHANGED allVars
  BY <1>5 DEF allVars, ServiceStep
<1>. QED  BY <1>1, <1>2, <1>3, <1>4, <1>5 DEF ProcessNext

\* A process that was just started satisfies the invariant.
LEMMA ProcessInitInv == ProcessInit => ProcessIInv
<1>. SUFFICES ASSUME ProcessInit PROVE ProcessIInv
  OBVIOUS
<1>1. ServiceIInv
  BY ServiceInitInv DEF ProcessInit
<1>2. ProcessTypeOK
  BY <1>1 DEF ProcessInit, ProcessTypeOK, ProcessStates, ServiceIInv
<1>3. CallbackInv /\ CallbackThereWhileServing
  BY DEF ProcessInit, Init, CallbackInv, InitPhase, CallbackThereWhileServing
<1>. QED  BY <1>1, <1>2, <1>3 DEF ProcessIInv

\* Every step leaves the variables of the process in their types.
LEMMA ProcessTypeStep ==
    ASSUME ProcessTypeOK, TypeOK', [ProcessNext]_allVars
    PROVE  ProcessTypeOK'
<1>. USE DEF ProcessTypeOK, ProcessStates, ProcessGoes, processVars
<1>1. CASE ProcessStep
  BY <1>1 DEF ProcessStep, RegisterCallbacks, StartGTService, CreateGlobalEvent,
              WaitForSingleObject, UnregisterCallbacks, Uninitialize
<1>2. CASE AnswerYes \/ AnswerNo \/ SetEvent
  BY <1>2 DEF AnswerYes, AnswerNo, SetEvent
<1>3. ASSUME NEW t \in Threads, WorkerStep(t)
      PROVE  ProcessTypeOK'
  BY <1>3 DEF WorkerStep, HandleOtherEvent, TestCallback, CallCallback
<1>4. CASE (CollectorStep \/ EventCompletes) /\ UNCHANGED processVars
  BY <1>4
<1>5. CASE UNCHANGED allVars
  BY <1>5 DEF allVars
<1>. QED  BY <1>1, <1>2, <1>3, <1>4, <1>5 DEF ProcessNext

\* Within Initialize and StopService no worker is moved out of an event, main
\* does not get from one to the other, and a crash is that of a failed
\* Initialize.
LEMMA MainStepEffects ==
    ASSUME TypeOK, ClearedInv, InitializeStep \/ StopServiceStep
    PROVE  /\ \A t \in Threads : thread[t] = "event" => thread'[t] = "event"
           /\ main \in InitPhase => main' \in InitPhase
           /\ main' = "crashed" => ~accept_key'
<1>. USE DEF TypeOK, mainVars, threadVars, collectorVars, portVars, InitPhase
<1>1. CASE InitializeStep
  BY <1>1 DEF InitializeStep, InitFails, InitThreadPool, InitResources,
              BindListenSocket, ClearedInv, WorkersKeptAway
<1>2. CASE StopServiceStep
  BY <1>2 DEF StopServiceStep, PostExitEvent, StopThread, AfterThreadPool, JoinThread,
              EndCollector, NotifyCollector, JoinCollector
<1>. QED  BY <1>1, <1>2

\* The callback stays registered while the service may use it.
LEMMA CallbackStep ==
    ASSUME ProcessIInv, [ProcessNext]_allVars
    PROVE  CallbackInv' /\ CallbackThereWhileServing'
<1>. USE DEF processVars
<1>0. /\ TypeOK /\ ClearedInv /\ CallbackInv /\ CallbackThereWhileServing
      /\ thread \in [Threads -> {"none", "loop", "flag", "wait", "event", "exit", "done"}]
      /\ calling \subseteq Threads
      /\ read_event_call_back_ \in BOOLEAN
      /\ process \in ProcessStates
  BY DEF ProcessIInv, ServiceIInv, ProcessTypeOK, TypeOK
<1>1. ASSUME NEW t \in Threads, thread[t] = "event"
      PROVE  process # "initialize"
  BY <1>0, <1>1 DEF CallbackInv, ClearedInv, WorkersKeptAway
<1>2. ASSUME NEW t \in Threads, thread[t] = "event", ~read_event_call_back_
      PROVE  process \in {"exit", "exiting"}
  BY <1>0, <1>1, <1>2 DEF CallbackInv, ProcessStates
<1>3. CASE ProcessStep
  <2>1. CASE RegisterCallbacks
    BY <1>0, <2>1 DEF RegisterCallbacks, ProcessGoes, CallbackInv,
                      CallbackThereWhileServing, vars, mainVars, threadVars
  <2>2. CASE StartGTService
    BY <1>0, <2>2 DEF StartGTService, GTStartService, ProcessGoes, CallbackInv,
                      CallbackThereWhileServing, mainVars
  <2>3. CASE CreateGlobalEvent
    BY <1>0, <2>3 DEF CreateGlobalEvent, ProcessGoes, CallbackInv,
                      CallbackThereWhileServing, vars, mainVars, threadVars
  <2>4. CASE WaitForSingleObject
    BY <1>0, <2>4 DEF WaitForSingleObject, ProcessGoes, CallbackInv,
                      CallbackThereWhileServing, vars, mainVars, threadVars
  <2>5. CASE UnregisterCallbacks
    BY <1>0, <2>5 DEF UnregisterCallbacks, ProcessGoes, CallbackInv,
                      CallbackThereWhileServing, vars, mainVars, threadVars
  <2>6. CASE Uninitialize
    BY <1>0, <2>6 DEF Uninitialize, ExitGTService, ProcessGoes, CallbackInv,
                      CallbackThereWhileServing, mainVars, threadVars
  <2>7. CASE (InitializeStep \/ StopServiceStep) /\ UNCHANGED processVars
    BY <1>0, <2>7, MainStepEffects DEF CallbackInv, CallbackThereWhileServing
  <2>. QED  BY <1>3, <2>1, <2>2, <2>3, <2>4, <2>5, <2>6, <2>7 DEF ProcessStep
<1>4. CASE AnswerYes \/ AnswerNo \/ SetEvent
  BY <1>0, <1>4 DEF AnswerYes, AnswerNo, SetEvent, ProcessGoes, CallbackInv,
                    CallbackThereWhileServing, vars, mainVars, threadVars
<1>5. ASSUME NEW t \in Threads, WorkerStep(t)
      PROVE  CallbackInv' /\ CallbackThereWhileServing'
  <2>. USE DEF mainVars
  <2>1. CASE LoopStep(t) /\ UNCHANGED processVars
    <3>1. /\ UNCHANGED <<main, accept_key>>
          /\ \A u \in Threads : thread[u] = "event" => thread'[u] = "event"
      BY <1>0, <2>1 DEF LoopStep, LongTimeWorker, TestFlag, GetQueuedCompletionStatus,
                        HandleExit, ThreadGoes
    <3>. QED  BY <1>0, <2>1, <3>1 DEF CallbackInv, CallbackThereWhileServing
  <2>2. CASE HandleOtherEvent(t)
    BY <1>0, <2>2 DEF HandleOtherEvent, HandleEvent, ThreadGoes, CallbackInv,
                      CallbackThereWhileServing
  <2>3. CASE TestCallback(t)
    <3>1. CASE read_event_call_back_
      BY <1>0, <2>3, <3>1 DEF TestCallback, CallbackInv, CallbackThereWhileServing,
                              vars, threadVars
    <3>2. CASE ~read_event_call_back_
      <4>1. process \in {"exit", "exiting"}
        BY <1>2, <2>3, <3>2 DEF TestCallback
      <4>. QED  BY <1>0, <2>3, <3>2, <4>1
                DEF TestCallback, HandleEvent, ThreadGoes, CallbackInv,
                    CallbackThereWhileServing
    <3>. QED  BY <3>1, <3>2
  <2>4. CASE CallCallback(t)
    <3>1. t \in calling /\ thread[t] = "event" /\ calling' = calling \ {t}
      BY <1>0, <2>4 DEF CallCallback, CallbackInv
    <3>2. CASE HandleEvent(t)
      BY <1>0, <2>4, <3>1, <3>2 DEF CallCallback, HandleEvent, ThreadGoes,
                                    CallbackInv, CallbackThereWhileServing
    <3>3. CASE ~HandleEvent(t)
      <4>1. process \in {"exit", "exiting"}
        BY <1>2, <2>4, <3>1, <3>3 DEF CallCallback
      <4>. QED  BY <1>0, <2>4, <3>1, <3>3, <4>1
                DEF CallCallback, CallbackInv, CallbackThereWhileServing, threadVars
    <3>. QED  BY <3>2, <3>3
  <2>. QED  BY <1>5, <2>1, <2>2, <2>3, <2>4 DEF WorkerStep
<1>6. CASE (CollectorStep \/ EventCompletes) /\ UNCHANGED processVars
  BY <1>0, <1>6 DEF CollectorStep, EventCompletes, CallbackInv,
                    CallbackThereWhileServing, mainVars, threadVars
<1>7. CASE UNCHANGED allVars
  BY <1>0, <1>7 DEF allVars, vars, mainVars, threadVars, CallbackInv,
                    CallbackThereWhileServing
<1>. QED  BY <1>3, <1>4, <1>5, <1>6, <1>7 DEF ProcessNext

-----------------------------------------------------------------------------

\* The inductive invariant holds as long as the process lives.
LEMMA ProcessInvariance == ProcessSpec => []ProcessIInv
<1>1. ProcessIInv /\ [ProcessNext]_allVars => ProcessIInv'
  <2>. SUFFICES ASSUME ProcessIInv, [ProcessNext]_allVars PROVE ProcessIInv'
    OBVIOUS
  <2>1. ServiceIInv'
    BY ProcessDrivesService, ServiceStepInv DEF ProcessIInv
  <2>2. ProcessTypeOK'
    BY <2>1, ProcessTypeStep DEF ProcessIInv, ServiceIInv
  <2>. QED  BY <2>1, <2>2, CallbackStep DEF ProcessIInv
<1>. QED  BY ProcessInitInv, <1>1, PTL DEF ProcessSpec

\* The variables of the process and of its service keep their types.
THEOREM ProcessTyping == ProcessSpec => []ProcessTypeOK
BY ProcessInvariance, PTL DEF ProcessIInv

\* StopService posts enough: when all exit events are posted there is one on
\* the port for every worker that is blocked there.
THEOREM ExitForEveryWorker == ProcessSpec => []NoWorkerStranded
BY ProcessInvariance, EnoughExits, PTL DEF ProcessIInv

\* After ClearResource_, at the end or after a failed Initialize, no worker
\* and no collector touches what was freed.
THEOREM ClearedResourcesUnused == ProcessSpec => []NoUseAfterClear
BY ProcessInvariance, NobodyUsesCleared, PTL DEF ProcessIInv

\* Until main unregisters the callbacks no event with data goes undelivered
\* and no worker calls through nullptr.
THEOREM CallbackWhileServing == ProcessSpec => []CallbackThereWhileServing
BY ProcessInvariance, PTL DEF ProcessIInv

=============================================================================
