---------------------------- MODULE EpollService ----------------------------
(***************************************************************************)
(* startService of the epoll server: the loop that forks worker processes   *)
(* or creates worker threads, what each worker does with its listen socket  *)
(* and epoll descriptor, and the loop that waits for them.                  *)
(*                                                                         *)
(* A child does not leave the fork loop when its worker function returns:   *)
(* it forks the processes of the rest of the loop itself.  A process is     *)
(* therefore the set of loop counters at which it and its ancestors were    *)
(* forked; {} is the process that called StartService.  In thread mode the  *)
(* thread created at i is {i}.                                              *)
(*                                                                         *)
(* epoll_ctl returns 0 when it succeeds, and a worker takes that for the    *)
(* error.  A worker waits only when its listen socket was not added, so no  *)
(* event ever arrives and the handlers of accepts, reads and sends, with    *)
(* the client map, do not run.                                              *)
(***************************************************************************)
EXTENDS Naturals, FiniteSets

CONSTANTS
    thread_or_proc_num_,    \* from the configuration
    MaxSignals,             \* bound: SIGHUPs that interrupt a wait
    MaxFailures             \* bound: calls of fork, socket and epoll_create that fail

ASSUME EpollBounds ==
    /\ thread_or_proc_num_ \in Nat \ {0}
    /\ MaxSignals \in Nat
    /\ MaxFailures \in Nat

VARIABLES
    use_multi_process_,     \* from the configuration
    pc,                     \* where each process or thread is: "none" before it
                            \* exists; "start" in the loops of startBy...;
                            \* "worker", "wait", "close" in workerFunc_;
                            \* "returned" to the caller; "ended"; "reaped"
    i,                      \* its loop counter in startByMultiprocess_ or -thread_
    fds,                    \* open descriptors of each process: [who opened it, what]
    signals,                \* SIGHUPs so far
    failures,               \* failed calls so far
    abandoned               \* processes whose waitpid a signal ended

vars == <<use_multi_process_, pc, i, fds, signals, failures, abandoned>>

Counters == 0 .. thread_or_proc_num_

\* One counter more than the loop reaches: a loop that ran too far would show.
Processes == SUBSET Counters
Main == {}

\* The process whose table holds the descriptors that w opens.
ProcessOf(w) == IF use_multi_process_ THEN w ELSE Main

Init ==
    /\ use_multi_process_ \in BOOLEAN
    /\ pc = [w \in Processes |-> IF w = Main THEN "start" ELSE "none"]
    /\ i = [w \in Processes |-> 0]
    /\ fds = [w \in Processes |-> {}]
    /\ signals = 0
    /\ failures = 0
    /\ abandoned = {}

At(w, from, to) ==
    /\ pc[w] = from
    /\ pc' = [pc EXCEPT ![w] = to]

\* n calls fail.
Fail(n) == failures + n <= MaxFailures /\ failures' = failures + n

-----------------------------------------------------------------------------
(* startByMultiprocess_ and startByMultithread_                             *)

\* Fault: the loop runs once too often.
OneMoreTurn(w) == i[w] <= thread_or_proc_num_

\* The condition of both loops.
MoreToStart(w) == i[w] < thread_or_proc_num_

\* fork: the child has a copy of the parent's descriptors and of its counter,
\* and goes into workerFunc_.
Fork(w) ==
    LET child == w \cup {i[w]} IN
    /\ use_multi_process_
    /\ pc[w] = "start"
    /\ MoreToStart(w)
    /\ pc' = [pc EXCEPT ![child] = "worker"]
    /\ i' = [i EXCEPT ![w] = @ + 1, ![child] = i[w]]
    /\ fds' = [fds EXCEPT ![child] = fds[w]]
    /\ UNCHANGED <<use_multi_process_, signals, failures, abandoned>>

\* fork returns -1, which nobody looks at.
ForkFails(w) ==
    /\ use_multi_process_
    /\ pc[w] = "start"
    /\ MoreToStart(w)
    /\ Fail(1)
    /\ i' = [i EXCEPT ![w] = @ + 1]
    /\ UNCHANGED <<use_multi_process_, pc, fds, signals, abandoned>>

\* th_vec.push_back(std::thread(...)).
CreateThread ==
    /\ ~use_multi_process_
    /\ pc[Main] = "start"
    /\ MoreToStart(Main)
    /\ pc' = [pc EXCEPT ![{i[Main]}] = "worker"]
    /\ i' = [i EXCEPT ![Main] = @ + 1]
    /\ UNCHANGED <<use_multi_process_, fds, signals, failures, abandoned>>

\* waitpid(0, ...) waits for the children of the calling process.
Children(w) ==
    {c \in {w \cup {n} : n \in {k \in Counters : \A m \in w : m < k}} : pc[c] # "none"}

\* waitpid returns a child that has ended.
Reap(w) ==
    /\ use_multi_process_
    /\ pc[w] = "start"
    /\ ~MoreToStart(w)
    /\ \E c \in Children(w) : At(c, "ended", "reaped")
    /\ UNCHANGED <<use_multi_process_, i, fds, signals, failures, abandoned>>

\* Fault: WNOHANG, with which waitpid does not wait.
NoChildHasEnded(w) == \A c \in Children(w) : pc[c] # "ended"

\* waitpid returns -1 when no child is left.
NoChildLeft(w) == \A c \in Children(w) : pc[c] = "reaped"

\* It also returns -1 when a signal arrives while it blocks, and the loop ends.
WaitForChildren(w) ==
    /\ use_multi_process_
    /\ ~MoreToStart(w)
    /\ At(w, "start", "returned")
    /\ \/ /\ NoChildLeft(w)
          /\ UNCHANGED <<signals, abandoned>>
       \/ /\ \A c \in Children(w) : pc[c] # "ended"
          /\ ~NoChildLeft(w)
          /\ signals < MaxSignals
          /\ signals' = signals + 1
          /\ abandoned' = abandoned \cup {w}
    /\ UNCHANGED <<use_multi_process_, i, fds, failures>>

\* x.join() of one thread after the other, in the order they were created.
JoinThread ==
    /\ ~use_multi_process_
    /\ pc[Main] = "start"
    /\ ~MoreToStart(Main)
    /\ IF \E t \in Children(Main) : pc[t] # "reaped"
       THEN \E n \in Counters : /\ \A m \in 0 .. n - 1 : pc[{m}] = "reaped"
                                /\ At({n}, "ended", "reaped")
       ELSE At(Main, "start", "returned")
    /\ UNCHANGED <<use_multi_process_, i, fds, signals, failures, abandoned>>

\* A forked process returns from StartService as well, into the code of the
\* caller, which ends.
Exit(w) ==
    /\ w # Main
    /\ At(w, "returned", "ended")
    /\ fds' = [fds EXCEPT ![w] = {}]
    /\ UNCHANGED <<use_multi_process_, i, signals, failures, abandoned>>

-----------------------------------------------------------------------------
(* workerFunc_                                                              *)

Opened(w, kind) == [by |-> w, kind |-> kind]

\* createListenSock_ and epoll_create return a descriptor or -1 and the worker
\* goes on with either.  epoll_ctl may fail, and does without both descriptors;
\* only then does the worker go on to epoll_wait.  Nobody else sees the worker's
\* descriptors, so the calls are one step.
SetUp(w) ==
    /\ \E new \in SUBSET {Opened(w, "listen"), Opened(w, "epoll")} :
        /\ Fail(2 - Cardinality(new))
        /\ fds' = [fds EXCEPT ![ProcessOf(w)] = @ \cup new]
        /\ \/ At(w, "worker", "wait")
           \/ Cardinality(new) = 2 /\ At(w, "worker", "close")
    /\ UNCHANGED <<use_multi_process_, i, signals, abandoned>>

IsOpen(w, kind) == Opened(w, kind) \in fds[ProcessOf(w)]

\* Fault: only an interrupted wait is left.
LeavesWhenInterrupted(w) ==
    /\ pc[w] = "wait"
    /\ signals < MaxSignals
    /\ signals' = signals + 1

\* epoll_wait returns -1, for a signal or for a bad descriptor.  (When it
\* returns 0 after two seconds the worker waits again.)
EpollWaitFails(w) ==
    /\ pc[w] = "wait"
    /\ \/ ~IsOpen(w, "epoll") /\ UNCHANGED signals
       \/ IsOpen(w, "epoll") /\ signals < MaxSignals /\ signals' = signals + 1

\* Fault: the epoll descriptor stays open.
CloseListenOnly(w) == {Opened(w, "listen")}

\* The descriptors closed at ctl_err.
Closed(w) == {Opened(w, "listen"), Opened(w, "epoll")}

\* ctl_err and the return: a thread ends, a child goes on with the next turn
\* of the fork loop.
CloseAndReturn(w) ==
    /\ \/ pc[w] = "close" /\ UNCHANGED signals
       \/ EpollWaitFails(w)
    /\ pc' = [pc EXCEPT ![w] = IF use_multi_process_ THEN "start" ELSE "ended"]
    /\ fds' = [fds EXCEPT ![ProcessOf(w)] = @ \ Closed(w)]
    /\ i' = [i EXCEPT ![w] = IF use_multi_process_ THEN @ + 1 ELSE @]
    /\ UNCHANGED <<use_multi_process_, failures, abandoned>>

-----------------------------------------------------------------------------
Step(w) ==
    \/ Fork(w) \/ ForkFails(w) \/ Reap(w) \/ WaitForChildren(w) \/ Exit(w)
    \/ SetUp(w) \/ CloseAndReturn(w)

Next == CreateThread \/ JoinThread \/ \E w \in Processes : Step(w)

\* As long as somebody can do something other than wait for a signal, somebody
\* does.  No process ever comes back to where it was, so that is enough for
\* each of them to get its turn.
Spec == Init /\ [][Next]_vars /\ WF_vars(Next /\ signals' = signals)

-----------------------------------------------------------------------------

Waiting == {w \in Processes : pc[w] = "wait"}

\* The workers that wait at the same time are at most thread_or_proc_num_
\* threads, but half of all the processes the fork loop can make: a child
\* whose worker returned forks a worker for each turn that is left.
WorkersBound ==
    IF use_multi_process_
    THEN 2 * Cardinality(Waiting) <= 2 ^ thread_or_proc_num_
    ELSE Cardinality(Waiting) <= thread_or_proc_num_

\* When StartService returns to its caller every process or thread below is
\* gone, however deep the forks went, unless a signal ended a waitpid.
ReturnsAfterAll ==
    pc[Main] = "returned" /\ abandoned = {}
        => \A w \in Processes \ {Main} : pc[w] \in {"none", "reaped"}

\* No descriptor survives its worker: a process outside workerFunc_ has none
\* open, so a child it forks inherits none; in thread mode that holds for the
\* process once all threads are joined.
NoDescriptorLeft ==
    \A w \in Processes :
        pc[w] = "returned" \/ (pc[w] = "start" /\ use_multi_process_)
            => fds[w] = {}

\* StartService returns, unless some worker waits for ever on an epoll
\* descriptor where nothing can happen: a failed fork, socket or epoll_create
\* alone keeps nobody waiting.
StartReturns ==
    \/ <>(pc[Main] = "returned")
    \/ <>[](\E w \in Waiting : IsOpen(w, "epoll"))

=============================================================================
