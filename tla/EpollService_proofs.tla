------------------------ MODULE EpollService_proofs ------------------------
(***************************************************************************)
(* The safety properties of the epoll server's startService, proved for any *)
(* number of workers, signals and failures.                                 *)
(***************************************************************************)
EXTENDS EpollService, FiniteSetTheorems, FunctionTheorems, TLAPS

Places == {"none", "start", "worker", "wait", "close", "returned", "ended", "reaped"}

\* The places in workerFunc_, and those after startService.
Working == {"worker", "wait", "close"}
Left == {"returned", "ended", "reaped"}

Descriptors == [by : Processes, kind : {"listen", "epoll"}]

Typing ==
    /\ use_multi_process_ \in BOOLEAN
    /\ pc \in [Processes -> Places]
    /\ i \in [Processes -> Nat]
    /\ fds \in [Processes -> SUBSET Descriptors]
    /\ pc[Main] \in {"start", "returned"}

-----------------------------------------------------------------------------
(* Processes.                                                               *)

\* The fork at counter n may come after those that made w.
After(w, n) == \A m \in w : m < n

\* w is an ancestor of d.
Ancestor(w, d) == w # d /\ w \subseteq d /\ \A n \in d \ w : After(w, n)

\* A process was forked below the end of the loop.  In workerFunc_ its counter
\* is that of the fork that made it, the last of its line, afterwards it is
\* beyond it.
Shape ==
    \A w \in Processes : pc[w] # "none" =>
        /\ w \subseteq 0 .. thread_or_proc_num_ - 1
        /\ i[w] <= thread_or_proc_num_
        /\ IF pc[w] \in Working THEN i[w] \in w /\ After(w, i[w] + 1) ELSE After(w, i[w])

\* Who has a child has gone past the fork that made it.
ParentPast ==
    \A w \in Processes, n \in Counters :
        After(w, n) /\ pc[w \cup {n}] # "none" => pc[w] # "none" /\ n < i[w]

\* A descendant is a child or a descendant of one.
Path ==
    \A w, d \in Processes : Ancestor(w, d) /\ pc[d] # "none" =>
        \E n \in d : /\ After(w, n) /\ pc[w \cup {n}] # "none"
                     /\ w \cup {n} = d \/ Ancestor(w \cup {n}, d)

\* Nobody leaves startService before its descendants are gone.
Descent ==
    abandoned = {} => \A w, d \in Processes :
        pc[w] \in Left /\ Ancestor(w, d) => pc[d] \in {"none", "reaped"}

\* Descriptors are open between SetUp and CloseAndReturn, and only there.
OwnDescriptors ==
    \A w \in Processes :
        fds[w] \subseteq (IF pc[w] \in {"wait", "close"} THEN Closed(w) ELSE {})

ProcessInv == Shape /\ ParentPast /\ Path /\ Descent /\ OwnDescriptors

-----------------------------------------------------------------------------
(* Threads.                                                                 *)

\* The threads that were created.
Created ==
    /\ i[Main] <= thread_or_proc_num_
    /\ \A w \in Processes \ {Main} : pc[w] # "none" =>
          /\ \E n \in 0 .. thread_or_proc_num_ - 1 : n < i[Main] /\ w = {n}
          /\ pc[w] \in Working \cup {"ended", "reaped"}

Joined ==
    pc[Main] = "returned" => \A w \in Processes \ {Main} : pc[w] \in {"none", "reaped"}

\* The process's descriptors are those of threads in workerFunc_.
SharedDescriptors ==
    /\ \A w \in Processes \ {Main} : fds[w] = {}
    /\ \A f \in fds[Main] : \E w \in Processes \ {Main} :
          f \in Closed(w) /\ pc[w] \in {"wait", "close"}

ThreadInv == Created /\ Joined /\ SharedDescriptors

EpollInv ==
    Typing /\ (use_multi_process_ => ProcessInv) /\ (~use_multi_process_ => ThreadInv)

-----------------------------------------------------------------------------

\* Of the descriptors in the table of a process, w's have the type of one.
LEMMA ClosedTyped == \A w \in Processes : Closed(w) \subseteq Descriptors
BY DEF Closed, Opened, Descriptors

\* Before anything is started the invariant holds.
LEMMA InitEpollInv == Init => EpollInv
<1> SUFFICES ASSUME Init PROVE EpollInv
    OBVIOUS
<1> USE EpollBounds
<1>1. Main \in Processes
    BY DEF Main, Processes
<1>2. Typing
    BY <1>1 DEF Init, Typing, Places
<1>3. \A w \in Processes : pc[w] # "none" <=> w = Main
    BY <1>1 DEF Init
<1>4. pc[Main] = "start" /\ i[Main] = 0 /\ \A w \in Processes : fds[w] = {}
    BY <1>1 DEF Init
<1>5. ProcessInv
    <2>1. Shape
        <3>1. Main \subseteq 0 .. thread_or_proc_num_ - 1 /\ After(Main, 0)
            BY DEF Main, After
        <3>2. i[Main] <= thread_or_proc_num_ /\ After(Main, i[Main]) /\ pc[Main] \notin Working
            BY <3>1, <1>4 DEF Working
        <3> QED BY <1>3, <3>1, <3>2 DEF Shape
    <2>2. ParentPast
        <3>1. \A w \in Processes, n \in Counters : w \cup {n} \in Processes /\ w \cup {n} # Main
            BY DEF Processes, Main
        <3> QED BY <3>1, <1>3 DEF ParentPast
    <2>3. Path
        BY <1>3 DEF Path, Ancestor, Main
    <2>4. Descent
        BY <1>3, <1>4 DEF Descent, Left
    <2>5. OwnDescriptors
        BY <1>4 DEF OwnDescriptors
    <2> QED BY <2>1, <2>2, <2>3, <2>4, <2>5 DEF ProcessInv
<1>6. ThreadInv
    BY <1>1, <1>3, <1>4 DEF ThreadInv, Created, Joined, SharedDescriptors
<1> QED BY <1>2, <1>5, <1>6 DEF EpollInv

\* Every step keeps the types; whoever called StartService is in it or has
\* returned from it.
LEMMA TypingStep == ASSUME Typing, [Next]_vars PROVE Typing'
<1> USE EpollBounds, ClosedTyped
<1>0. Main \in Processes
    BY DEF Main, Processes
<1>a. \A w \in Processes, n \in Counters : w \cup {n} \in Processes /\ w \cup {n} # Main
    BY DEF Processes, Main
<1>b. \A n \in Counters : {n} \in Processes /\ {n} # Main
    BY DEF Processes, Main
<1>c. \A n \in Nat : n < thread_or_proc_num_ => n \in Counters
    BY DEF Counters
<1>1. CASE CreateThread
    <2>1. i[Main] \in Counters
        BY <1>1, <1>0, <1>c DEF CreateThread, MoreToStart, Typing
    <2> QED BY <1>1, <2>1, <1>0, <1>b DEF CreateThread, Typing, Places
<1>2. CASE JoinThread
    <2>1. CASE At(Main, "start", "returned")
        BY <1>2, <2>1, <1>0 DEF JoinThread, At, Typing, Places
    <2>2. CASE \E n \in Counters : At({n}, "ended", "reaped")
        BY <1>2, <2>2, <1>b, <1>0 DEF JoinThread, At, Typing, Places
    <2> QED BY <1>2, <2>1, <2>2 DEF JoinThread
<1>3. ASSUME NEW w \in Processes, Step(w) PROVE Typing'
    <2>1. CASE Fork(w)
        <3> DEFINE c == w \cup {i[w]}
        <3>1. i[w] \in Counters
            BY <2>1, <1>c DEF Fork, MoreToStart, Typing
        <3>2. c \in Processes /\ c # Main
            BY <3>1, <1>a
        <3>3. pc' = [pc EXCEPT ![c] = "worker"] /\ i' = [i EXCEPT ![w] = @ + 1, ![c] = i[w]]
              /\ fds' = [fds EXCEPT ![c] = fds[w]] /\ use_multi_process_' = use_multi_process_
            BY <2>1 DEF Fork
        <3> HIDE DEF c
        <3> QED BY <3>2, <3>3, <1>0 DEF Typing, Places
    <2>2. CASE ForkFails(w)
        BY <2>2 DEF ForkFails, Typing
    <2>3. CASE Reap(w)
        <3>1. PICK c \in Children(w) : At(c, "ended", "reaped")
            BY <2>3 DEF Reap
        <3>2. c \in Processes /\ c # Main
            BY <1>a DEF Children
        <3> QED BY <2>3, <3>1, <3>2, <1>0 DEF Reap, At, Typing, Places
    <2>4. CASE WaitForChildren(w)
        BY <2>4, <1>0 DEF WaitForChildren, At, Typing, Places
    <2>5. CASE Exit(w)
        BY <2>5, <1>0 DEF Exit, At, Typing, Places
    <2>6. CASE SetUp(w)
        <3>1. PICK new \in SUBSET Closed(w) :
                /\ fds' = [fds EXCEPT ![ProcessOf(w)] = @ \cup new]
                /\ At(w, "worker", "wait") \/ At(w, "worker", "close")
            BY <2>6 DEF SetUp, Closed
        <3>2. ProcessOf(w) \in Processes
            BY <1>0 DEF ProcessOf
        <3>3. new \subseteq Descriptors
            OBVIOUS
        <3>4. fds' \in [Processes -> SUBSET Descriptors]
            BY <3>1, <3>2, <3>3 DEF Typing
        <3>5. w # Main
            BY <3>1 DEF At, Typing
        <3> QED BY <2>6, <3>1, <3>4, <3>5, <1>0 DEF SetUp, At, Typing, Places
    <2>7. CASE CloseAndReturn(w)
        <3>1. ProcessOf(w) \in Processes
            BY <1>0 DEF ProcessOf
        <3>2. fds' \in [Processes -> SUBSET Descriptors]
            BY <2>7, <3>1 DEF CloseAndReturn, Typing
        <3>3. w # Main
            BY <2>7 DEF CloseAndReturn, EpollWaitFails, Typing
        <3> QED BY <2>7, <3>2, <3>3, <1>0 DEF CloseAndReturn, Typing, Places
    <2> QED BY <1>3, <2>1, <2>2, <2>3, <2>4, <2>5, <2>6, <2>7 DEF Step
<1>4. CASE UNCHANGED vars
    BY <1>4 DEF vars, Typing
<1> QED BY <1>1, <1>2, <1>3, <1>4 DEF Next

-----------------------------------------------------------------------------
(* Threads: only the main thread creates and joins, and each thread touches *)
(* its own descriptors in the one table.                                    *)

\* The threads that exist are the children of the main thread.
LEMMA ThreadsAreChildren ==
    ASSUME Typing, Created
    PROVE  \A w \in Processes \ {Main} : pc[w] # "none" => w \in Children(Main)
<1> SUFFICES ASSUME NEW w \in Processes \ {Main}, pc[w] # "none" PROVE w \in Children(Main)
    OBVIOUS
<1>1. PICK n \in 0 .. thread_or_proc_num_ - 1 : w = {n}
    BY DEF Created
<1>2. n \in Counters
    BY EpollBounds DEF Counters
<1>3. w = Main \cup {n} /\ \A m \in Main : m < n
    BY <1>1 DEF Main
<1> QED BY <1>2, <1>3 DEF Children

\* Steps of the thread mode.
LEMMA ThreadStep ==
    ASSUME Typing, ThreadInv, ~use_multi_process_, [Next]_vars
    PROVE  ThreadInv'
<1> USE EpollBounds
<1>0. Main \in Processes
    BY DEF Main, Processes
<1>b. \A n \in Counters : {n} \in Processes /\ {n} # Main
    BY DEF Processes, Main
<1>c. Typing'
    BY TypingStep
<1>1. CASE CreateThread
    <2> DEFINE t == {i[Main]}
    <2>1. i[Main] \in Counters /\ i[Main] \in 0 .. thread_or_proc_num_ - 1
        BY <1>1, <1>0 DEF CreateThread, MoreToStart, Typing, Counters
    <2>2. t \in Processes /\ t # Main
        BY <2>1, <1>b
    <2>3. pc' = [pc EXCEPT ![t] = "worker"] /\ i' = [i EXCEPT ![Main] = @ + 1] /\ fds' = fds
          /\ pc[Main] = "start"
        BY <1>1 DEF CreateThread
    <2>4. i[Main] < i'[Main] /\ i'[Main] <= thread_or_proc_num_
        BY <2>1, <2>3, <1>0 DEF Typing
    <2>5. pc[t] = "none"
        <3>1. \A n \in Nat : n < i[Main] => {n} # t
            BY <2>1, <1>0 DEF Typing
        <3> QED BY <2>1, <2>2, <3>1 DEF ThreadInv, Created
    <2>6. Created'
        <3>1. ASSUME NEW w \in Processes \ {Main}, pc'[w] # "none"
              PROVE  /\ \E n \in 0 .. thread_or_proc_num_ - 1 : n < i'[Main] /\ w = {n}
                     /\ pc'[w] \in Working \cup {"ended", "reaped"}
            <4>1. CASE w = t
                BY <4>1, <2>1, <2>2, <2>3, <2>4 DEF Typing, Working
            <4>2. CASE w # t
                <5> HIDE DEF t
                <5>1. pc'[w] = pc[w]
                    BY <4>2, <2>3 DEF Typing
                <5>2. PICK n \in 0 .. thread_or_proc_num_ - 1 : n < i[Main] /\ w = {n}
                    BY <3>1, <5>1 DEF ThreadInv, Created
                <5>3. n < i'[Main]
                    BY <5>2, <2>4, <2>3, <1>0, <1>c DEF Typing
                <5> QED BY <3>1, <5>1, <5>2, <5>3 DEF ThreadInv, Created
            <4> QED BY <4>1, <4>2
        <3> QED BY <3>1, <2>4 DEF Created
    <2>7. Joined'
        BY <2>2, <2>3, <1>0 DEF Joined, Typing
    <2>8. SharedDescriptors'
        <3> HIDE DEF t
        <3> QED BY <2>2, <2>3, <2>5 DEF ThreadInv, SharedDescriptors, Typing
    <2> QED BY <2>6, <2>7, <2>8 DEF ThreadInv
<1>2. CASE JoinThread
    <2>0. i' = i /\ fds' = fds /\ pc[Main] = "start"
        BY <1>2 DEF JoinThread
    <2>1. CASE \E x \in Children(Main) : pc[x] # "reaped"
        <3>1. PICK n \in Counters : At({n}, "ended", "reaped")
            BY <1>2, <2>1 DEF JoinThread
        <3> DEFINE t == {n}
        <3>2. t \in Processes /\ t # Main /\ pc[t] = "ended" /\ pc' = [pc EXCEPT ![t] = "reaped"]
            BY <3>1, <1>b DEF At
        <3> HIDE DEF t
        <3>3. Created'
            BY <2>0, <3>2 DEF ThreadInv, Created, Typing
        <3>4. Joined'
            BY <2>0, <3>2, <1>0 DEF Joined, Typing
        <3>5. SharedDescriptors'
            BY <2>0, <3>2 DEF ThreadInv, SharedDescriptors, Typing
        <3> QED BY <3>3, <3>4, <3>5 DEF ThreadInv
    <2>2. CASE \A x \in Children(Main) : pc[x] = "reaped"
        <3>1. pc' = [pc EXCEPT ![Main] = "returned"]
            BY <1>2, <2>2 DEF JoinThread, At
        <3>2. \A w \in Processes \ {Main} : pc'[w] = pc[w]
            BY <3>1 DEF Typing
        <3>3. Created'
            BY <2>0, <3>2 DEF ThreadInv, Created
        <3>4. Joined'
            BY <2>2, <3>2, ThreadsAreChildren DEF ThreadInv, Joined
        <3>5. SharedDescriptors'
            BY <2>0, <3>2 DEF ThreadInv, SharedDescriptors
        <3> QED BY <3>3, <3>4, <3>5 DEF ThreadInv
    <2> QED BY <2>1, <2>2
<1>3. ASSUME NEW w \in Processes, Step(w) PROVE ThreadInv'
    <2>1. SetUp(w) \/ CloseAndReturn(w)
        <3>1. ~Exit(w)
            BY <1>0 DEF Exit, At, ThreadInv, Created, Working
        <3> QED BY <1>3, <3>1 DEF Step, Fork, ForkFails, Reap, WaitForChildren
    <2>2. pc[w] \in Working
        BY <2>1 DEF SetUp, At, CloseAndReturn, EpollWaitFails, Working
    <2>3. w # Main
        BY <2>2 DEF Typing, Working
    <2>4. pc[Main] # "returned"
        BY <2>2, <2>3 DEF ThreadInv, Joined, Working
    <2>5. CASE SetUp(w)
        <3>1. PICK new \in SUBSET Closed(w) :
                /\ fds' = [fds EXCEPT ![Main] = @ \cup new]
                /\ At(w, "worker", "wait") \/ At(w, "worker", "close")
            BY <2>5 DEF SetUp, Closed, ProcessOf
        <3>2. PICK p \in {"wait", "close"} : pc' = [pc EXCEPT ![w] = p]
            BY <3>1 DEF At
        <3>3. pc[w] = "worker" /\ i' = i
            BY <3>1, <2>5 DEF SetUp, At
        <3>4. Created'
            BY <3>2, <3>3 DEF ThreadInv, Created, Typing, Working
        <3>5. Joined'
            BY <2>3, <2>4, <3>2, <1>0 DEF Joined, Typing
        <3>6. SharedDescriptors'
            <4>1. \A v \in Processes \ {Main} : fds'[v] = {}
                BY <3>1 DEF ThreadInv, SharedDescriptors, Typing
            <4>2. ASSUME NEW f \in fds'[Main]
                  PROVE  \E v \in Processes \ {Main} : f \in Closed(v) /\ pc'[v] \in {"wait", "close"}
                <5>1. CASE f \in Closed(w)
                    BY <5>1, <2>3, <3>2 DEF Typing
                <5>2. CASE f \notin Closed(w)
                    <6>1. f \in fds[Main]
                        BY <5>2, <3>1, <1>0 DEF Typing
                    <6>2. PICK v \in Processes \ {Main} : f \in Closed(v) /\ pc[v] \in {"wait", "close"}
                        BY <6>1 DEF ThreadInv, SharedDescriptors
                    <6>3. pc'[v] = pc[v]
                        BY <6>2, <3>2, <3>3 DEF Typing
                    <6> QED BY <6>2, <6>3
                <5> QED BY <5>1, <5>2
            <4> QED BY <4>1, <4>2 DEF SharedDescriptors, Closed, Opened
        <3> QED BY <3>4, <3>5, <3>6 DEF ThreadInv
    <2>6. CASE CloseAndReturn(w)
        <3>1. /\ pc' = [pc EXCEPT ![w] = "ended"]
              /\ fds' = [fds EXCEPT ![Main] = @ \ Closed(w)]
            BY <2>6 DEF CloseAndReturn, ProcessOf
        <3>2. i'[Main] = i[Main]
            BY <2>6, <2>3, <1>0 DEF CloseAndReturn, Typing
        <3>4. Created'
            BY <3>1, <3>2, <2>2 DEF ThreadInv, Created, Typing, Working
        <3>5. Joined'
            BY <2>3, <2>4, <3>1, <1>0 DEF Joined, Typing
        <3>6. SharedDescriptors'
            <4>1. \A v \in Processes \ {Main} : fds'[v] = {}
                BY <3>1 DEF ThreadInv, SharedDescriptors, Typing
            <4>2. ASSUME NEW f \in fds'[Main]
                  PROVE  \E v \in Processes \ {Main} : f \in Closed(v) /\ pc'[v] \in {"wait", "close"}
                <5>1. f \in fds[Main] /\ f \notin Closed(w)
                    BY <3>1, <1>0 DEF Typing
                <5>2. PICK v \in Processes \ {Main} : f \in Closed(v) /\ pc[v] \in {"wait", "close"}
                    BY <5>1 DEF ThreadInv, SharedDescriptors
                <5>3. v # w
                    BY <5>1, <5>2
                <5>4. pc'[v] = pc[v]
                    BY <5>3, <3>1 DEF Typing
                <5> QED BY <5>2, <5>4
            <4> QED BY <4>1, <4>2 DEF SharedDescriptors, Closed, Opened
        <3> QED BY <3>4, <3>5, <3>6 DEF ThreadInv
    <2> QED BY <2>1, <2>5, <2>6
<1>4. CASE UNCHANGED vars
    BY <1>4 DEF vars, ThreadInv, Created, Joined, SharedDescriptors, Closed, Opened
<1> QED BY <1>1, <1>2, <1>3, <1>4 DEF Next

-----------------------------------------------------------------------------
(* Processes: the family tree.                                              *)

\* The last fork of a process's line is that of its parent: a set of counters
\* is a child of one process only.
LEMMA OneParent ==
    ASSUME NEW v \in Processes, NEW n \in Counters, After(v, n),
           NEW w \in Processes, NEW k \in Counters, After(w, k),
           v \cup {n} = w \cup {k}
    PROVE  v = w /\ n = k
<1> USE EpollBounds DEF Processes, Counters, After
<1>1. n = k
    <2>1. n \in w \cup {k} /\ k \in v \cup {n}
        OBVIOUS
    <2>2. n <= k /\ k <= n
        BY <2>1
    <2> QED BY <2>2
<1>2. n \notin v /\ k \notin w
    OBVIOUS
<1> QED BY <1>1, <1>2

\* The ancestors of a child are its parent and those of its parent.
LEMMA AncestorsOfChild ==
    ASSUME NEW w \in Processes, NEW k \in Counters, After(w, k),
           NEW a \in Processes, Ancestor(a, w \cup {k})
    PROVE  a = w \/ Ancestor(a, w)
<1> USE EpollBounds DEF Processes, Counters, After, Ancestor
<1>1. k \notin a
    <2> SUFFICES ASSUME k \in a PROVE FALSE
        OBVIOUS
    <2>1. \A n \in (w \cup {k}) \ a : k < n /\ n \in w /\ n < k
        OBVIOUS
    <2>2. (w \cup {k}) \subseteq a
        BY <2>1
    <2> QED BY <2>2
<1>2. a \subseteq w
    BY <1>1
<1> QED BY <1>2

\* A process and its ancestors are ancestors of its children.
LEMMA ChildHasAncestors ==
    ASSUME NEW w \in Processes, NEW k \in Counters, After(w, k),
           NEW a \in Processes, a = w \/ Ancestor(a, w)
    PROVE  Ancestor(a, w \cup {k})
<1> USE EpollBounds DEF Processes, Counters, After, Ancestor
<1>1. k \notin a
    OBVIOUS
<1>2. a # w \cup {k} /\ a \subseteq w \cup {k}
    BY <1>1
<1>3. \A n \in (w \cup {k}) \ a : After(a, n)
    OBVIOUS
<1> QED BY <1>2, <1>3

\* A step that makes no new process and sets no counter back keeps the tree.
LEMMA TreeKept ==
    ASSUME Typing, Typing', ParentPast, Path,
           \A w \in Processes : pc'[w] = "none" <=> pc[w] = "none",
           \A w \in Processes : i[w] <= i'[w]
    PROVE  ParentPast' /\ Path'
<1>1. \A w \in Processes, n \in Counters : w \cup {n} \in Processes
    BY DEF Processes
<1>2. ParentPast'
    <2> SUFFICES ASSUME NEW w \in Processes, NEW n \in Counters,
                        After(w, n), pc'[w \cup {n}] # "none"
                 PROVE  pc'[w] # "none" /\ n < i'[w]
        BY DEF ParentPast, After
    <2>1. pc[w] # "none" /\ n < i[w]
        BY <1>1 DEF ParentPast
    <2>2. n \in Nat /\ i[w] \in Nat /\ i'[w] \in Nat
        BY DEF Typing, Counters
    <2> QED BY <2>1, <2>2
<1>3. Path'
    <2> SUFFICES ASSUME NEW w \in Processes, NEW d \in Processes,
                        Ancestor(w, d), pc'[d] # "none"
                 PROVE  \E n \in d : /\ After(w, n) /\ pc'[w \cup {n}] # "none"
                                     /\ w \cup {n} = d \/ Ancestor(w \cup {n}, d)
        BY DEF Path, Ancestor, After
    <2>1. PICK n \in d : /\ After(w, n) /\ pc[w \cup {n}] # "none"
                         /\ w \cup {n} = d \/ Ancestor(w \cup {n}, d)
        BY DEF Path
    <2>2. n \in Counters
        BY DEF Processes
    <2> QED BY <2>1, <2>2, <1>1
<1> QED BY <1>2, <1>3

\* A process that is there and was not waited for has no ancestor that left.
LEMMA AncestorsStay ==
    ASSUME Descent, abandoned = {}, NEW d \in Processes, pc[d] \notin {"none", "reaped"},
           NEW w \in Processes, Ancestor(w, d)
    PROVE  pc[w] \notin Left
BY DEF Descent

\* fork adds a child below the process that calls it.
LEMMA ForkStep ==
    ASSUME Typing, ProcessInv, NEW w \in Processes, Fork(w)
    PROVE  ProcessInv'
<1> USE EpollBounds
<1> DEFINE k == i[w]
           c == w \cup {k}
<1>1. k \in Counters /\ k \in Nat /\ k < thread_or_proc_num_
    BY DEF Fork, MoreToStart, Typing, Counters
<1>2. c \in Processes /\ c # {} /\ k \in c
    BY <1>1 DEF Processes
<1>3. /\ pc' = [pc EXCEPT ![c] = "worker"] /\ i' = [i EXCEPT ![w] = @ + 1, ![c] = k]
      /\ fds' = [fds EXCEPT ![c] = fds[w]] /\ abandoned' = abandoned /\ pc[w] = "start"
    BY DEF Fork
<1>4. w \subseteq 0 .. thread_or_proc_num_ - 1 /\ After(w, k)
    BY <1>3 DEF ProcessInv, Shape, Working
<1>5. c # w
    BY <1>1, <1>4 DEF After
<1>6. pc[c] = "none"
    BY <1>1, <1>4 DEF ProcessInv, ParentPast
<1>7. \A v \in Processes, n \in Counters : v \cup {n} \in Processes
    BY DEF Processes
<1>8. \A a \in Processes : Ancestor(a, c) <=> a = w \/ Ancestor(a, w)
    BY <1>1, <1>4, AncestorsOfChild, ChildHasAncestors
<1>9. \A v \in Processes, n \in Counters : After(v, n) /\ v \cup {n} = c => v = w /\ n = k
    BY <1>1, <1>4, OneParent
<1>10. c \subseteq 0 .. thread_or_proc_num_ - 1
    <2>1. k \in 0 .. thread_or_proc_num_ - 1
        BY <1>1
    <2> HIDE DEF k
    <2> QED BY <2>1, <1>4
<1>11. After(w, k + 1)
    <2>1. \A m \in w : m \in Nat
        BY <1>4
    <2> QED BY <1>1, <1>4, <2>1 DEF After
<1>d. After(c, k + 1)
    BY <1>1, <1>11 DEF After
<1>c. c = w \cup {k}
    OBVIOUS
<1>12. pc'[c] = "worker" /\ \A v \in Processes : v # c => pc'[v] = pc[v]
    BY <1>2, <1>3 DEF Typing
<1>13. i'[w] = k + 1 /\ i'[c] = k /\ \A v \in Processes : v # c /\ v # w => i'[v] = i[v]
    BY <1>2, <1>3, <1>5 DEF Typing
<1>14. i[w] = k
    OBVIOUS
<1> HIDE DEF c, k
<1>15. Shape'
    <2> SUFFICES ASSUME NEW v \in Processes, pc'[v] # "none"
                 PROVE  /\ v \subseteq 0 .. thread_or_proc_num_ - 1
                        /\ i'[v] <= thread_or_proc_num_
                        /\ IF pc'[v] \in Working THEN i'[v] \in v /\ After(v, i'[v] + 1)
                           ELSE After(v, i'[v])
        BY DEF Shape, After
    <2>1. CASE v = c
        BY <2>1, <1>1, <1>2, <1>d, <1>10, <1>12, <1>13 DEF Working
    <2>2. CASE v = w
        BY <2>2, <1>1, <1>3, <1>4, <1>5, <1>11, <1>12, <1>13 DEF Working
    <2>3. CASE v # c /\ v # w
        BY <2>3, <1>12, <1>13 DEF ProcessInv, Shape
    <2> QED BY <2>1, <2>2, <2>3
<1>16. ParentPast'
    <2> SUFFICES ASSUME NEW v \in Processes, NEW n \in Counters,
                        After(v, n), pc'[v \cup {n}] # "none"
                 PROVE  pc'[v] # "none" /\ n < i'[v]
        BY DEF ParentPast, After
    <2>1. CASE v \cup {n} = c
        <3>1. v = w /\ n = k
            BY <2>1, <1>9
        <3>2. pc'[w] = "start"
            BY <1>3, <1>5, <1>12
        <3> QED BY <3>1, <3>2, <1>1, <1>13
    <2>2. CASE v \cup {n} # c
        <3>1. pc[v] # "none" /\ n < i[v]
            BY <2>2, <1>7, <1>12 DEF ProcessInv, ParentPast
        <3>2. v # c
            BY <3>1, <1>6
        <3>3. i[v] <= i'[v] /\ n \in Nat /\ i[v] \in Nat /\ i'[v] \in Nat
            BY <3>2, <1>1, <1>13, <1>14 DEF Counters, Typing
        <3> QED BY <3>1, <3>2, <3>3, <1>12
    <2> QED BY <2>1, <2>2
<1>17. Path'
    <2> SUFFICES ASSUME NEW a \in Processes, NEW d \in Processes,
                        Ancestor(a, d), pc'[d] # "none"
                 PROVE  \E n \in d : /\ After(a, n) /\ pc'[a \cup {n}] # "none"
                                     /\ a \cup {n} = d \/ Ancestor(a \cup {n}, d)
        BY DEF Path, Ancestor, After
    <2>0. \A n \in d : n \in Counters
        BY DEF Processes
    <2>1. CASE d = c /\ a = w
        BY <2>1, <1>2, <1>4, <1>12, <1>c
    <2>2. CASE d = c /\ a # w
        <3>1. Ancestor(a, w)
            BY <2>2, <1>8
        <3>2. PICK n \in w : /\ After(a, n) /\ pc[a \cup {n}] # "none"
                             /\ a \cup {n} = w \/ Ancestor(a \cup {n}, w)
            BY <3>1, <1>3 DEF ProcessInv, Path
        <3>3. n \in d /\ a \cup {n} \in Processes
            BY <2>0, <2>2, <1>7, <1>c
        <3>4. Ancestor(a \cup {n}, d)
            BY <3>2, <3>3, <2>2, <1>8
        <3>5. pc'[a \cup {n}] # "none"
            BY <3>2, <3>3, <1>12
        <3> QED BY <3>2, <3>3, <3>4, <3>5
    <2>3. CASE d # c
        <3>1. PICK n \in d : /\ After(a, n) /\ pc[a \cup {n}] # "none"
                             /\ a \cup {n} = d \/ Ancestor(a \cup {n}, d)
            BY <2>3, <1>12 DEF ProcessInv, Path
        <3>2. pc'[a \cup {n}] # "none"
            BY <3>1, <2>0, <1>7, <1>12
        <3> QED BY <3>1, <3>2
    <2> QED BY <2>1, <2>2, <2>3
<1>18. Descent'
    <2> SUFFICES ASSUME abandoned = {}, NEW a \in Processes, NEW d \in Processes,
                        pc'[a] \in Left, Ancestor(a, d)
                 PROVE  pc'[d] \in {"none", "reaped"}
        BY <1>3 DEF Descent, Ancestor, After
    <2>1. a # c /\ pc[a] \in Left
        BY <1>12 DEF Left
    <2>2. pc[d] \in {"none", "reaped"}
        BY <2>1 DEF ProcessInv, Descent
    <2>3. d # c
        <3> SUFFICES ASSUME d = c PROVE FALSE
            OBVIOUS
        <3>1. a # w
            BY <2>1, <1>3 DEF Left
        <3>2. Ancestor(a, w)
            BY <3>1, <1>8
        <3> QED BY <3>2, <2>1, <1>3, AncestorsStay DEF ProcessInv
    <2> QED BY <2>2, <2>3, <1>12
<1>19. OwnDescriptors'
    <2>1. fds[w] = {}
        BY <1>3 DEF ProcessInv, OwnDescriptors
    <2>2. fds'[c] = {} /\ \A v \in Processes : v # c => fds'[v] = fds[v]
        BY <2>1, <1>2, <1>3 DEF Typing
    <2> QED BY <2>2, <1>12 DEF ProcessInv, OwnDescriptors, Closed, Opened
<1> QED BY <1>15, <1>16, <1>17, <1>18, <1>19 DEF ProcessInv

\* A worker that sets up, or that closes and goes back to the loop, and a
\* process that leaves: one process moves on, and no ancestor of it has left.
LEMMA MoveStep ==
    ASSUME Typing, Typing', ProcessInv,
           NEW x \in Processes, NEW p \in Places \ {"none"}, pc' = [pc EXCEPT ![x] = p],
           pc[x] # "none",
           i' = i \/ i' = [i EXCEPT ![x] = @ + 1],
           i'[x] <= thread_or_proc_num_,
           IF p \in Working THEN i'[x] \in x /\ After(x, i'[x] + 1) ELSE After(x, i'[x])
    PROVE  Shape' /\ ParentPast' /\ Path'
<1>1. pc'[x] = p /\ \A v \in Processes : v # x => pc'[v] = pc[v] /\ i'[v] = i[v]
    BY DEF Typing
<1>2. \A v \in Processes : i[v] <= i'[v]
    BY DEF Typing
<1>3. Shape'
    BY <1>1 DEF ProcessInv, Shape, After
<1>4. ParentPast' /\ Path'
    BY <1>1, <1>2, TreeKept DEF ProcessInv
<1> QED BY <1>3, <1>4

\* Descent holds on when a process moves that nobody has waited for, unless it
\* leaves the loop: then its descendants have to be gone.
LEMMA DescentKept ==
    ASSUME Typing, ProcessInv,
           NEW x \in Processes, NEW p \in Places, pc' = [pc EXCEPT ![x] = p],
           pc[x] \notin {"none", "reaped"}, abandoned' = abandoned,
           p \in Left /\ pc[x] \notin Left /\ abandoned = {} =>
               \A d \in Processes : Ancestor(x, d) => pc[d] \in {"none", "reaped"}
    PROVE  Descent'
<1> SUFFICES ASSUME abandoned = {}, NEW a \in Processes, NEW d \in Processes,
                    pc'[a] \in Left, Ancestor(a, d)
             PROVE  pc'[d] \in {"none", "reaped"}
    BY DEF Descent, Ancestor, After
<1>1. pc'[x] = p /\ \A v \in Processes : v # x => pc'[v] = pc[v]
    BY DEF Typing
<1>2. pc[d] \in {"none", "reaped"}
    <2>1. CASE pc[a] \in Left
        BY <2>1 DEF ProcessInv, Descent
    <2>2. CASE pc[a] \notin Left
        BY <2>2, <1>1
    <2> QED BY <2>1, <2>2
<1>3. d # x
    BY <1>2
<1> QED BY <1>1, <1>2, <1>3

\* When all children of a process were waited for, all its descendants are gone.
LEMMA DescendantsGone ==
    ASSUME Typing, ProcessInv, abandoned = {}, NEW w \in Processes, NoChildLeft(w),
           NEW d \in Processes, Ancestor(w, d)
    PROVE  pc[d] \in {"none", "reaped"}
<1> SUFFICES ASSUME pc[d] # "none" PROVE pc[d] = "reaped"
    OBVIOUS
<1>1. PICK n \in d : /\ After(w, n) /\ pc[w \cup {n}] # "none"
                     /\ w \cup {n} = d \/ Ancestor(w \cup {n}, d)
    BY DEF ProcessInv, Path
<1>2. n \in Counters /\ w \cup {n} \in Processes
    BY DEF Processes
<1>3. w \cup {n} \in Children(w)
    BY <1>1, <1>2 DEF Children, After
<1>4. pc[w \cup {n}] = "reaped"
    BY <1>3 DEF NoChildLeft
<1>5. CASE w \cup {n} = d
    BY <1>4, <1>5
<1>6. CASE Ancestor(w \cup {n}, d)
    BY <1>2, <1>4, <1>6 DEF ProcessInv, Descent, Left
<1> QED BY <1>1, <1>5, <1>6

\* Steps of the process mode.
LEMMA ProcessStep ==
    ASSUME Typing, ProcessInv, use_multi_process_, [Next]_vars
    PROVE  ProcessInv'
<1> USE EpollBounds
<1>0. Typing'
    BY TypingStep
<1>1. ASSUME NEW w \in Processes, Step(w) PROVE ProcessInv'
    <2>1. CASE Fork(w)
        BY <2>1, ForkStep
    <2>2. CASE ForkFails(w)
        <3>1. pc' = pc /\ fds' = fds /\ abandoned' = abandoned /\ pc[w] = "start"
              /\ i' = [i EXCEPT ![w] = @ + 1]
            BY <2>2 DEF ForkFails
        <3>2. i[w] < thread_or_proc_num_ /\ i[w] \in Nat /\ i'[w] = i[w] + 1
            BY <2>2, <3>1 DEF ForkFails, MoreToStart, Typing
        <3>3. w \subseteq 0 .. thread_or_proc_num_ - 1 /\ After(w, i[w])
            BY <3>1 DEF ProcessInv, Shape, Working
        <3>4. After(w, i'[w])
            <4>1. \A m \in w : m \in Nat
                BY <3>3
            <4> QED BY <3>2, <3>3, <4>1 DEF After
        <3>5. pc' = [pc EXCEPT ![w] = "start"] /\ pc[w] # "none"
              /\ i' = [i EXCEPT ![w] = @ + 1] /\ i'[w] <= thread_or_proc_num_
            BY <3>1, <3>2 DEF Typing
        <3>6. Shape' /\ ParentPast' /\ Path'
            BY <3>4, <3>5, <1>0, MoveStep DEF Places, Working
        <3>7. Descent' /\ OwnDescriptors'
            BY <3>1 DEF ProcessInv, Descent, Ancestor, After, OwnDescriptors, Closed, Opened
        <3> QED BY <3>6, <3>7 DEF ProcessInv
    <2>3. CASE Reap(w)
        <3>1. PICK c \in Children(w) : At(c, "ended", "reaped")
            BY <2>3 DEF Reap
        <3>2. c \in Processes
            BY DEF Children, Processes
        <3>3. pc' = [pc EXCEPT ![c] = "reaped"] /\ pc[c] = "ended" /\ i' = i /\ fds' = fds
              /\ abandoned' = abandoned
            BY <2>3, <3>1 DEF Reap, At
        <3>4. i[c] <= thread_or_proc_num_ /\ After(c, i[c])
            BY <3>2, <3>3 DEF ProcessInv, Shape, Working
        <3>5. Shape' /\ ParentPast' /\ Path'
            BY <3>2, <3>3, <3>4, <1>0, MoveStep DEF Places, Working
        <3>6. Descent'
            BY <3>2, <3>3, DescentKept DEF Places, Left
        <3>7. OwnDescriptors'
            BY <3>2, <3>3 DEF ProcessInv, OwnDescriptors, Closed, Opened, Typing
        <3> QED BY <3>5, <3>6, <3>7 DEF ProcessInv
    <2>4. CASE WaitForChildren(w)
        <3>1. pc' = [pc EXCEPT ![w] = "returned"] /\ pc[w] = "start" /\ i' = i /\ fds' = fds
            BY <2>4 DEF WaitForChildren, At
        <3>2. i[w] <= thread_or_proc_num_ /\ After(w, i[w])
            BY <3>1 DEF ProcessInv, Shape, Working
        <3>3. Shape' /\ ParentPast' /\ Path'
            BY <3>1, <3>2, <1>0, MoveStep DEF Places, Working
        <3>4. Descent'
            <4>1. CASE abandoned' = abandoned /\ NoChildLeft(w)
                <5>1. abandoned = {} =>
                        \A d \in Processes : Ancestor(w, d) => pc[d] \in {"none", "reaped"}
                    BY <4>1, DescendantsGone
                <5> QED BY <3>1, <4>1, <5>1, DescentKept DEF Places
            <4>2. CASE abandoned' = abandoned \cup {w}
                BY <4>2 DEF Descent
            <4> QED BY <2>4, <4>1, <4>2 DEF WaitForChildren
        <3>5. OwnDescriptors'
            BY <3>1 DEF ProcessInv, OwnDescriptors, Closed, Opened, Typing
        <3> QED BY <3>3, <3>4, <3>5 DEF ProcessInv
    <2>5. CASE Exit(w)
        <3>1. pc' = [pc EXCEPT ![w] = "ended"] /\ pc[w] = "returned" /\ i' = i
              /\ fds' = [fds EXCEPT ![w] = {}] /\ abandoned' = abandoned
            BY <2>5 DEF Exit, At
        <3>2. i[w] <= thread_or_proc_num_ /\ After(w, i[w])
            BY <3>1 DEF ProcessInv, Shape, Working
        <3>3. Shape' /\ ParentPast' /\ Path'
            BY <3>1, <3>2, <1>0, MoveStep DEF Places, Working
        <3>4. Descent'
            BY <3>1, DescentKept DEF Places, Left
        <3>5. OwnDescriptors'
            BY <3>1 DEF ProcessInv, OwnDescriptors, Closed, Opened, Typing
        <3> QED BY <3>3, <3>4, <3>5 DEF ProcessInv
    <2>6. CASE SetUp(w)
        <3>1. PICK new \in SUBSET Closed(w) :
                /\ fds' = [fds EXCEPT ![w] = @ \cup new]
                /\ At(w, "worker", "wait") \/ At(w, "worker", "close")
            BY <2>6 DEF SetUp, Closed, ProcessOf
        <3>2. PICK p \in {"wait", "close"} : pc' = [pc EXCEPT ![w] = p]
            BY <3>1 DEF At
        <3>3. pc[w] = "worker" /\ i' = i /\ abandoned' = abandoned
            BY <3>1, <2>6 DEF SetUp, At
        <3>4. i[w] <= thread_or_proc_num_ /\ i[w] \in w /\ After(w, i[w] + 1)
            BY <3>3 DEF ProcessInv, Shape, Working
        <3>5. Shape' /\ ParentPast' /\ Path'
            BY <3>2, <3>3, <3>4, <1>0, MoveStep DEF Places, Working
        <3>6. Descent'
            BY <3>2, <3>3, DescentKept DEF Places, Left
        <3>7. OwnDescriptors'
            <4>1. fds[w] = {}
                BY <3>3 DEF ProcessInv, OwnDescriptors
            <4>2. fds'[w] \subseteq Closed(w) /\ pc'[w] \in {"wait", "close"}
                BY <4>1, <3>1, <3>2 DEF Typing
            <4>3. \A v \in Processes : v # w => fds'[v] = fds[v] /\ pc'[v] = pc[v]
                BY <3>1, <3>2 DEF Typing
            <4> QED BY <4>2, <4>3 DEF ProcessInv, OwnDescriptors, Closed, Opened
        <3> QED BY <3>5, <3>6, <3>7 DEF ProcessInv
    <2>7. CASE CloseAndReturn(w)
        <3>1. /\ pc' = [pc EXCEPT ![w] = "start"] /\ i' = [i EXCEPT ![w] = @ + 1]
              /\ fds' = [fds EXCEPT ![w] = @ \ Closed(w)] /\ abandoned' = abandoned
              /\ pc[w] \in {"wait", "close"}
            BY <2>7 DEF CloseAndReturn, ProcessOf, EpollWaitFails
        <3>2. w \subseteq 0 .. thread_or_proc_num_ - 1 /\ i[w] \in w /\ After(w, i[w] + 1)
            BY <3>1 DEF ProcessInv, Shape, Working
        <3>3. i[w] \in Nat /\ i'[w] = i[w] + 1 /\ i'[w] <= thread_or_proc_num_
            BY <3>1, <3>2 DEF Typing
        <3>4. After(w, i'[w])
            BY <3>2, <3>3
        <3>5. Shape' /\ ParentPast' /\ Path'
            BY <3>1, <3>3, <3>4, <1>0, MoveStep DEF Places, Working
        <3>6. Descent'
            BY <3>1, DescentKept DEF Places, Left
        <3>7. OwnDescriptors'
            <4>1. fds'[w] = {}
                BY <3>1 DEF ProcessInv, OwnDescriptors, Typing
            <4>2. \A v \in Processes : v # w => fds'[v] = fds[v] /\ pc'[v] = pc[v]
                BY <3>1 DEF Typing
            <4> QED BY <4>1, <4>2 DEF ProcessInv, OwnDescriptors, Closed, Opened
        <3> QED BY <3>5, <3>6, <3>7 DEF ProcessInv
    <2> QED BY <1>1, <2>1, <2>2, <2>3, <2>4, <2>5, <2>6, <2>7 DEF Step
<1>2. CASE UNCHANGED vars
    <2>1. pc' = pc /\ i' = i /\ fds' = fds /\ abandoned' = abandoned
        BY <1>2 DEF vars
    <2>2. Shape' /\ Descent' /\ OwnDescriptors'
        BY <2>1 DEF ProcessInv, Shape, Descent, OwnDescriptors, Ancestor, After, Closed, Opened
    <2>3. ParentPast' /\ Path'
        <3>1. \A v \in Processes : i[v] <= i'[v]
            BY <2>1 DEF Typing
        <3> QED BY <2>1, <3>1, <1>0, TreeKept DEF ProcessInv
    <2> QED BY <2>2, <2>3 DEF ProcessInv
<1> QED BY <1>1, <1>2 DEF Next, CreateThread, JoinThread

-----------------------------------------------------------------------------

\* The invariant of the service: in process mode what the processes are to each
\* other and which descriptors they hold, in thread mode which threads exist
\* and whose descriptors the process holds.
THEOREM ServiceInvariant == Spec => []EpollInv
<1>1. EpollInv /\ [Next]_vars => EpollInv'
    <2> SUFFICES ASSUME EpollInv, [Next]_vars PROVE EpollInv'
        OBVIOUS
    <2>1. Typing'
        BY TypingStep DEF EpollInv
    <2>2. use_multi_process_' = use_multi_process_
        BY DEF Next, Step, CreateThread, JoinThread, Fork, ForkFails, Reap, WaitForChildren,
           Exit, SetUp, CloseAndReturn, vars
    <2>3. CASE use_multi_process_
        BY <2>1, <2>2, <2>3, ProcessStep DEF EpollInv
    <2>4. CASE ~use_multi_process_
        BY <2>1, <2>2, <2>4, ThreadStep DEF EpollInv
    <2> QED BY <2>3, <2>4
<1> QED BY <1>1, InitEpollInv, PTL DEF Spec

\* A process outside workerFunc_ holds no descriptor, and neither does the
\* process that has joined its threads, whatever calls failed and whichever
\* signal ended a wait.
THEOREM DescriptorsClosed == Spec => []NoDescriptorLeft
<1>1. EpollInv => NoDescriptorLeft
    <2> SUFFICES ASSUME EpollInv, NEW w \in Processes,
                        pc[w] = "returned" \/ (pc[w] = "start" /\ use_multi_process_)
                 PROVE  fds[w] = {}
        BY DEF NoDescriptorLeft
    <2>1. CASE use_multi_process_
        BY <2>1 DEF EpollInv, ProcessInv, OwnDescriptors
    <2>2. CASE ~use_multi_process_
        <3>1. w = Main
            BY <2>2 DEF EpollInv, ThreadInv, Created, Working
        <3>2. \A v \in Processes \ {Main} : pc[v] \in {"none", "reaped"}
            BY <2>2, <3>1 DEF EpollInv, ThreadInv, Joined
        <3> QED BY <2>2, <3>1, <3>2 DEF EpollInv, ThreadInv, SharedDescriptors
    <2> QED BY <2>1, <2>2
<1> QED BY <1>1, ServiceInvariant, PTL

\* StartService does not return to its caller while a thread it created or a
\* process that it or a descendant forked is left, unless a signal ended a
\* waitpid.
THEOREM NobodyLeftBehind == Spec => []ReturnsAfterAll
<1>1. EpollInv => ReturnsAfterAll
    <2> SUFFICES ASSUME EpollInv, pc[Main] = "returned", abandoned = {},
                        NEW w \in Processes \ {Main}
                 PROVE  pc[w] \in {"none", "reaped"}
        BY DEF ReturnsAfterAll
    <2>1. CASE use_multi_process_
        <3>1. Main \in Processes /\ Ancestor(Main, w)
            BY DEF Main, Processes, Ancestor, After
        <3> QED BY <2>1, <3>1 DEF EpollInv, ProcessInv, Descent, Left
    <2>2. CASE ~use_multi_process_
        BY <2>2 DEF EpollInv, ThreadInv, Joined
    <2> QED BY <2>1, <2>2
<1> QED BY <1>1, ServiceInvariant, PTL

\* Of a process and its child at the last turn of the loop only one can be in
\* workerFunc_: the parent has left it when it forks.
LEMMA LastTurn ==
    ASSUME Typing, ProcessInv, NEW a \in Waiting,
           thread_or_proc_num_ - 1 \notin a, a \cup {thread_or_proc_num_ - 1} \in Waiting
    PROVE  FALSE
<1> USE EpollBounds
<1> DEFINE k == thread_or_proc_num_ - 1
<1>1. k \in Counters /\ k \in Nat
    BY DEF Counters
<1>2. a \in Processes /\ a \subseteq 0 .. k /\ i[a] \in a
    BY DEF Waiting, ProcessInv, Shape, Working
<1>3. After(a, k)
    BY <1>1, <1>2 DEF After
<1>4. k < i[a]
    BY <1>1, <1>2, <1>3 DEF ProcessInv, ParentPast, Waiting
<1>5. i[a] \in 0 .. k
    BY <1>2
<1> QED BY <1>1, <1>4, <1>5

\* The process whose line differs from w's in the last turn of the loop.
Sibling(w) ==
    IF thread_or_proc_num_ - 1 \in w THEN w \ {thread_or_proc_num_ - 1}
    ELSE w \cup {thread_or_proc_num_ - 1}

\* Threads that wait are at most as many as the configuration says; processes
\* that wait are at most half of the subsets of the turns of the loop.
THEOREM WaitingBounded == Spec => []WorkersBound
<1>1. ASSUME EpollInv, ~use_multi_process_
      PROVE  Cardinality(Waiting) <= thread_or_proc_num_
    <2> DEFINE T == 0 .. thread_or_proc_num_ - 1
               f == [w \in Waiting |-> CHOOSE n \in T : w = {n}]
    <2>1. IsFiniteSet(T) /\ Cardinality(T) = thread_or_proc_num_
        BY EpollBounds, FS_Interval
    <2>2. \A w \in Waiting : \E n \in T : w = {n}
        BY <1>1 DEF EpollInv, Typing, ThreadInv, Created, Waiting
    <2> HIDE DEF T
    <2>3. \A w \in Waiting : f[w] \in T /\ w = {f[w]}
        BY <2>2
    <2>4. f \in Injection(Waiting, T)
        BY <2>3 DEF Injection, IsInjective
    <2> HIDE DEF f
    <2> QED BY <2>1, <2>4, FS_Injection
<1>2. ASSUME EpollInv, use_multi_process_
      PROVE  2 * Cardinality(Waiting) <= 2 ^ thread_or_proc_num_
    <2> DEFINE k == thread_or_proc_num_ - 1
               T == 0 .. k
               V == {Sibling(w) : w \in Waiting}
               f == [w \in Waiting |-> Sibling(w)]
    <2>1. IsFiniteSet(T) /\ Cardinality(T) = thread_or_proc_num_ /\ k \in T
        BY EpollBounds, FS_Interval
    <2>2. IsFiniteSet(SUBSET T) /\ Cardinality(SUBSET T) = 2 ^ thread_or_proc_num_
        BY <2>1, FS_SUBSET
    <2>3. Waiting \in SUBSET (SUBSET T)
        BY <1>2 DEF EpollInv, ProcessInv, Shape, Waiting
    <2>4. V \in SUBSET (SUBSET T)
        <3> HIDE DEF T
        <3> QED BY <2>1, <2>3 DEF Sibling
    <2>5. Waiting \cap V = {}
        <3> SUFFICES ASSUME NEW w \in Waiting, Sibling(w) \in Waiting PROVE FALSE
            OBVIOUS
        <3>1. Typing /\ ProcessInv
            BY <1>2 DEF EpollInv
        <3>2. CASE k \in w
            <4>1. k \notin Sibling(w) /\ Sibling(w) \cup {k} = w
                BY <3>2 DEF Sibling
            <4> QED BY <3>1, <4>1, LastTurn
        <3>3. CASE k \notin w
            <4>1. Sibling(w) = w \cup {k}
                BY <3>3 DEF Sibling
            <4> QED BY <3>1, <3>3, <4>1, LastTurn
        <3> QED BY <3>2, <3>3
    <2>6. \A v, w \in Waiting : Sibling(v) = Sibling(w) => v = w
        BY DEF Sibling
    <2>7. f \in Bijection(Waiting, V)
        <3>1. f \in [Waiting -> V]
            OBVIOUS
        <3>2. \A v, w \in Waiting : f[v] = f[w] => v = w
            BY <2>6
        <3>3. \A t \in V : \E w \in Waiting : f[w] = t
            OBVIOUS
        <3> QED BY <3>1, <3>2, <3>3, Fun_IsBij
    <2> HIDE DEF V, T, f
    <2>8. IsFiniteSet(Waiting)
        BY <2>2, <2>3, FS_Subset
    <2>9. IsFiniteSet(V) /\ Cardinality(V) = Cardinality(Waiting)
        BY <2>7, <2>8, FS_Bijection DEF ExistsBijection
    <2>10. Cardinality(Waiting \cup V) = Cardinality(Waiting) + Cardinality(V)
        BY <2>5, <2>8, <2>9, FS_Union, FS_EmptySet, FS_CardinalityType
    <2>11. Cardinality(Waiting \cup V) <= 2 ^ thread_or_proc_num_
        BY <2>2, <2>3, <2>4, FS_Subset
    <2> QED BY <2>8, <2>9, <2>10, <2>11, FS_CardinalityType
<1>3. EpollInv => WorkersBound
    BY <1>1, <1>2 DEF WorkersBound
<1> QED BY <1>3, ServiceInvariant, PTL

=============================================================================
