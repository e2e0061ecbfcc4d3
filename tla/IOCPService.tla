------------------------------ MODULE IOCPService ------------------------------
(***************************************************************************)
(* The life of the IOCP service: GT_IOCPWrapper::Initialize with its ways   *)
(* to fail, GTStartService, and StopService with the worker threads         *)
(* (GT_Util_ThreadPool) and the collector thread (Collect_Worker_) that it  *)
(* has to bring to an end.  What the workers do with an event is in         *)
(* IOCPServer; here it is one step during which they use the resources.     *)
(***************************************************************************)
EXTENDS Naturals, Sequences, FiniteSets

CONSTANTS
    Threads,    \* 2 * hardware_concurrency worker threads
    MaxEvents   \* bound: completions other than exit events

ASSUME ServiceConstants ==
    /\ IsFiniteSet(Threads)
    /\ Threads # {}
    /\ MaxEvents \in Nat

VARIABLES
    main,        \* where the main thread is
    posted,      \* exit events posted so far
    joined,      \* worker threads joined so far
    is_need_continue_wait_completion_port_status_,
    is_iocp_thread_pool_started_,
    is_resource_worker_started_,
    accept_key,  \* accept_socket_completion_key_ is not nullptr
    thread,      \* where each worker thread is
    end_thread_,
    collector,   \* where the collector thread is
    end_connect_check_ato_,
    cleared,     \* ClearResource_ has run
    port, events

mainVars == <<posted, joined, is_iocp_thread_pool_started_,
              is_resource_worker_started_, accept_key, cleared>>
threadVars == <<thread, end_thread_, is_need_continue_wait_completion_port_status_>>
collectorVars == <<collector, end_connect_check_ato_>>
portVars == <<port, events>>
vars == <<main, mainVars, threadVars, collectorVars, portVars>>

MainPCs == {"init", "init_resources", "bind", "end_collector_init",
            "notify_init", "join_collector_init", "failed", "inited", "serving",
            "post_exit", "stop_thread", "join_thread", "end_collector", "notify",
            "join_collector", "stopped", "crashed"}

TypeOK ==
    /\ main \in MainPCs
    /\ posted \in 0 .. Cardinality(Threads)
    /\ joined \subseteq Threads
    /\ is_need_continue_wait_completion_port_status_ \in BOOLEAN
    /\ is_iocp_thread_pool_started_ \in BOOLEAN
    /\ is_resource_worker_started_ \in BOOLEAN
    /\ accept_key \in BOOLEAN
    /\ thread \in [Threads -> {"none", "loop", "flag", "wait", "event", "exit", "done"}]
    /\ end_thread_ \in [Threads -> BOOLEAN]
    /\ collector \in {"none", "test", "enter_wait", "wait", "pass", "done"}
    /\ end_connect_check_ato_ \in BOOLEAN
    /\ cleared \in BOOLEAN
    /\ port \in Seq({"event", "exit"})
    /\ events \in 0 .. MaxEvents

Init ==
    /\ main = "init"
    /\ posted = 0
    /\ joined = {}
    /\ is_need_continue_wait_completion_port_status_ = TRUE
    /\ is_iocp_thread_pool_started_ = FALSE
    /\ is_resource_worker_started_ = FALSE
    /\ accept_key = FALSE
    /\ thread = [t \in Threads |-> "none"]
    /\ end_thread_ = [t \in Threads |-> FALSE]
    /\ collector = "none"
    /\ end_connect_check_ato_ = FALSE
    /\ cleared = FALSE
    /\ port = <<>>
    /\ events = 0

-----------------------------------------------------------------------------
(* The main thread: GT_IOCPWrapper::Initialize.                             *)

\* Winsock, the listen socket or an extension function is not available.
InitFails ==
    /\ main = "init"
    /\ main' = "end_collector_init"
    /\ UNCHANGED <<mainVars, threadVars, collectorVars, portVars>>

\* InitThreadPool_: the workers spin, away from the port, until GTStartService.
InitThreadPool ==
    /\ main = "init"
    /\ main' = "init_resources"
    /\ is_need_continue_wait_completion_port_status_' = FALSE
    /\ thread' = [t \in Threads |-> "loop"]
    /\ is_iocp_thread_pool_started_' = TRUE
    /\ UNCHANGED <<posted, joined, is_resource_worker_started_, accept_key, cleared,
                   end_thread_, collectorVars, portVars>>

\* GT_Resource_Manager::Initialize fails, or starts the collector; then the
\* listen socket gets its completion key.
InitResources ==
    /\ main = "init_resources"
    /\ \/ /\ main' = "end_collector_init"
          /\ UNCHANGED <<collector, is_resource_worker_started_, accept_key>>
       \/ /\ main' = "bind"
          /\ collector' = "test"
          /\ is_resource_worker_started_' = TRUE
          /\ accept_key' = TRUE
    /\ UNCHANGED <<posted, joined, is_iocp_thread_pool_started_, cleared, threadVars,
                   end_connect_check_ato_, portVars>>

\* BindSocketToCompletionPort for the listen socket, and the accept requests.
BindListenSocket ==
    /\ main = "bind"
    /\ main' \in {"end_collector_init", "inited"}
    /\ UNCHANGED <<mainVars, threadVars, collectorVars, portVars>>

GTStartService ==
    /\ main = "inited"
    /\ main' = "serving"
    /\ is_need_continue_wait_completion_port_status_' = TRUE
    /\ UNCHANGED <<mainVars, thread, end_thread_, collectorVars, portVars>>

-----------------------------------------------------------------------------
(* The main thread: ExitGTService calls StopService, after a failed         *)
(* Initialize as well.                                                      *)

ExitGTService ==
    /\ main \in {"serving", "failed"}
    /\ main' = "post_exit"
    /\ UNCHANGED <<mainVars, threadVars, collectorVars, portVars>>

\* Fault: one exit event too few.
OneExitTooFew == Cardinality(Threads) - 1

\* Fault: one exit event too many.
OneExitTooMany == Cardinality(Threads) + 1

\* Exit events that PostExitEvent_ posts.
ExitEvents == Cardinality(Threads)

\* An iteration of PostExitEvent_: the event's buffer goes to the cache of the
\* listen key, which a failed Initialize may not have created.
PostExitEvent ==
    /\ main = "post_exit"
    /\ posted < ExitEvents
    /\ IF accept_key
       THEN /\ port' = Append(port, "exit")
            /\ posted' = posted + 1
            /\ UNCHANGED main
       ELSE /\ main' = "crashed"
            /\ UNCHANGED <<port, posted>>
    /\ UNCHANGED <<joined, is_iocp_thread_pool_started_, is_resource_worker_started_,
                   accept_key, cleared, threadVars, collectorVars, events>>

\* Where StopService goes when the workers are joined.
AfterThreadPool == IF is_resource_worker_started_ THEN "end_collector" ELSE "stopped"

\* An iteration of GT_Util_ThreadPool::Stop tells the next thread to end.
StopThread ==
    /\ \/ main = "post_exit" /\ posted = ExitEvents
       \/ main = "stop_thread"
    /\ IF is_iocp_thread_pool_started_ /\ joined # Threads
       THEN /\ \E t \in Threads \ joined : end_thread_' = [end_thread_ EXCEPT ![t] = TRUE]
            /\ main' = "join_thread"
       ELSE /\ main' = AfterThreadPool
            /\ UNCHANGED end_thread_
    /\ UNCHANGED <<mainVars, thread, is_need_continue_wait_completion_port_status_,
                   collectorVars, portVars>>

\* Fault: the thread is detached, not joined.
Detached(t) == end_thread_[t]

\* join on the thread that was told to end.
Joinable(t) == end_thread_[t] /\ thread[t] = "done"

JoinThread ==
    /\ main = "join_thread"
    /\ \E t \in Threads \ joined :
          /\ Joinable(t)
          /\ joined' = joined \cup {t}
    /\ main' = "stop_thread"
    /\ UNCHANGED <<posted, is_iocp_thread_pool_started_, is_resource_worker_started_,
                   accept_key, cleared, threadVars, collectorVars, portVars>>

\* GT_Resource_Manager::Finalize: tells the collector to end,
EndCollector ==
    /\ \/ main = "end_collector" /\ main' = "notify"
       \/ main = "end_collector_init" /\ main' = "notify_init"
    /\ end_connect_check_ato_' = TRUE
    /\ UNCHANGED <<mainVars, threadVars, collector, portVars>>

\* wakes it if it waits at this moment (notify_one without the mutex),
NotifyCollector ==
    /\ \/ main = "notify" /\ main' = "join_collector"
       \/ main = "notify_init" /\ main' = "join_collector_init"
    /\ collector' = IF collector = "wait" THEN "test" ELSE collector
    /\ UNCHANGED <<mainVars, threadVars, end_connect_check_ato_, portVars>>

\* joins it if it was ever started, and clears every cache and pool.
JoinCollector ==
    /\ \/ main = "join_collector" /\ main' = "stopped"
       \/ main = "join_collector_init" /\ main' = "failed"
    /\ collector \in {"none", "done"}
    /\ cleared' = TRUE
    /\ UNCHANGED <<posted, joined, is_iocp_thread_pool_started_, accept_key,
                   is_resource_worker_started_, threadVars, collectorVars, portVars>>

\* The steps within Initialize and within StopService.
InitializeStep == InitFails \/ InitThreadPool \/ InitResources \/ BindListenSocket

StopServiceStep ==
    \/ PostExitEvent \/ StopThread \/ JoinThread
    \/ EndCollector \/ NotifyCollector \/ JoinCollector

MainStep == InitializeStep \/ GTStartService \/ StopServiceStep

-----------------------------------------------------------------------------
(* A worker thread: LongTimeWorker_ around GetCompletionPortEventStatus.    *)

ThreadGoes(t, from, to) ==
    /\ main # "crashed"
    /\ thread[t] = from
    /\ thread' = [thread EXCEPT ![t] = to]
    /\ UNCHANGED <<main, mainVars, end_thread_, collectorVars, events>>

LongTimeWorker(t) ==
    /\ ThreadGoes(t, "loop", IF end_thread_[t] THEN "done" ELSE "flag")
    /\ UNCHANGED <<is_need_continue_wait_completion_port_status_, port>>

TestFlag(t) ==
    /\ ThreadGoes(t, "flag",
         IF is_need_continue_wait_completion_port_status_ THEN "wait" ELSE "loop")
    /\ UNCHANGED <<is_need_continue_wait_completion_port_status_, port>>

\* GetQueuedCompletionStatus, with no time limit.
GetQueuedCompletionStatus(t) ==
    /\ port # <<>>
    /\ ThreadGoes(t, "wait", Head(port))
    /\ port' = Tail(port)
    /\ UNCHANGED is_need_continue_wait_completion_port_status_

HandleEvent(t) ==
    /\ ThreadGoes(t, "event", "loop")
    /\ UNCHANGED <<is_need_continue_wait_completion_port_status_, port>>

HandleExit(t) ==
    /\ ThreadGoes(t, "exit", "loop")
    /\ is_need_continue_wait_completion_port_status_' = FALSE
    /\ UNCHANGED port

LoopStep(t) ==
    \/ LongTimeWorker(t) \/ TestFlag(t) \/ GetQueuedCompletionStatus(t)
    \/ HandleExit(t)

ThreadStep(t) == LoopStep(t) \/ HandleEvent(t)

-----------------------------------------------------------------------------
(* The collector thread: Collect_Worker_.                                   *)

\* Fault: wait instead of wait_for.
NeverTimesOut(from, to) == FALSE

\* wait_for ends with a timeout, and the collector makes a pass.
TimesOut(from, to) == from = "wait" /\ to = "pass"

CollectorStep ==
    /\ main # "crashed"
    /\ \E from, to \in {"test", "enter_wait", "wait", "pass", "done"} :
          /\ \/ from = "test" /\ to = (IF end_connect_check_ato_ THEN "done" ELSE "enter_wait")
             \/ from = "enter_wait" /\ to = "wait"
             \/ TimesOut(from, to)
             \/ from = "pass" /\ to = "test"
          /\ collector = from
          /\ collector' = to
    /\ UNCHANGED <<main, mainVars, threadVars, end_connect_check_ato_, portVars>>

-----------------------------------------------------------------------------

\* A client does something: an accept or a read completes.
EventCompletes ==
    /\ main \in {"inited", "serving", "post_exit", "stop_thread", "join_thread",
                 "end_collector", "notify", "join_collector"}
    /\ accept_key /\ ~cleared
    /\ events < MaxEvents
    /\ events' = events + 1
    /\ port' = Append(port, "event")
    /\ UNCHANGED <<main, mainVars, threadVars, collectorVars>>

Next ==
    \/ MainStep \/ ExitGTService
    \/ \E t \in Threads : ThreadStep(t)
    \/ CollectorStep \/ EventCompletes

\* The operating system runs every thread; when the user asks for the end is
\* up to the user.
Spec ==
    /\ Init /\ [][Next]_vars
    /\ WF_vars(MainStep)
    /\ \A t \in Threads : WF_vars(ThreadStep(t))
    /\ WF_vars(CollectorStep)

-----------------------------------------------------------------------------

Stopping == main \in {"stop_thread", "join_thread"}
Blocked == {t \in Threads : thread[t] = "wait"}
QueuedExits == {n \in 1 .. Len(port) : port[n] = "exit"}

\* When every exit event is posted, no worker that blocks on the port, or
\* will, is left without one: each worker takes at most one, because it finds
\* is_need_continue_wait_completion_port_status_ false afterwards.
NoWorkerStranded ==
    Stopping /\ is_iocp_thread_pool_started_ =>
        Cardinality(Blocked) <= Cardinality(QueuedExits)

\* Once ClearResource_ has emptied the caches and pools no worker handles an
\* event and the collector makes no pass: everybody who would use what was
\* freed has been joined, or is kept from the port by the flag.
NoUseAfterClear ==
    cleared => /\ \A t \in Threads : thread[t] \notin {"event", "exit"}
               /\ collector # "pass"

\* "when exit, should send message to exit GetQueuedCompletionStatus, so that
\* the process can exit elegant" (GT_IOCPWrapper.cpp): whenever the program
\* decides to exit, it does not crash on the way.
ExitsElegantly == main # "crashed"

=============================================================================
