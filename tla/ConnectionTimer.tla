---------------------------- MODULE ConnectionTimer ----------------------------
(***************************************************************************)
(* How long a silent connection lives: the timer and check_time_ of         *)
(* GT_SocketConetxt, the events that touch them, and the passes that        *)
(* ResourceCollector makes over all keys under the global lock.  Time is    *)
(* counted in ticks.                                                        *)
(***************************************************************************)
EXTENDS Naturals

CONSTANTS
    Keys,      \* addresses of GT_SocketConetxt objects
    OutDate    \* out_date_time_control_, in ticks

ASSUME OutDateAssumption == OutDate \in Nat

VARIABLES
    completion_key_ptr_cache_,
    time_control_,  \* ticks since the key's timer was reset
    check_time_,
    running,        \* the process has not been brought down
    checks,         \* history: passes that found the key idle since the last
                    \* receive or send
    seen,           \* history: passes that found it idle since it was accepted
    evicted         \* history: the values of seen with which keys were evicted

vars == <<completion_key_ptr_cache_, time_control_, check_time_, running,
          checks, seen, evicted>>

\* Durations beyond the limit are not told apart.
Durations == 0 .. OutDate + 1
Later(d) == IF d > OutDate THEN d ELSE d + 1

TypeOK ==
    /\ completion_key_ptr_cache_ \subseteq Keys
    /\ time_control_ \in [Keys -> Durations]
    /\ check_time_ \in [Keys -> 1 .. 2]
    /\ running \in BOOLEAN
    /\ checks \in [Keys -> 0 .. 2]
    /\ seen \in [Keys -> 0 .. 2]
    /\ evicted \subseteq 0 .. 2

Init ==
    /\ completion_key_ptr_cache_ = {}
    /\ time_control_ = [k \in Keys |-> 0]
    /\ check_time_ = [k \in Keys |-> 1]
    /\ running = TRUE
    /\ checks = [k \in Keys |-> 0]
    /\ seen = [k \in Keys |-> 0]
    /\ evicted = {}

-----------------------------------------------------------------------------

\* Fault: the constructor does not initialise check_time_.
AcceptKeepsCheckTime(k) ==
    /\ running
    /\ k \notin completion_key_ptr_cache_
    /\ completion_key_ptr_cache_' = completion_key_ptr_cache_ \cup {k}
    /\ time_control_' = [time_control_ EXCEPT ![k] = 0]
    /\ checks' = [checks EXCEPT ![k] = 0]
    /\ seen' = [seen EXCEPT ![k] = 0]
    /\ UNCHANGED <<check_time_, running, evicted>>

\* CreateNewSocketContext: the constructor starts the timer.
Accept(k) ==
    /\ running
    /\ k \notin completion_key_ptr_cache_
    /\ completion_key_ptr_cache_' = completion_key_ptr_cache_ \cup {k}
    /\ time_control_' = [time_control_ EXCEPT ![k] = 0]
    /\ check_time_' = [check_time_ EXCEPT ![k] = 1]
    /\ checks' = [checks EXCEPT ![k] = 0]
    /\ seen' = [seen EXCEPT ![k] = 0]
    /\ UNCHANGED <<running, evicted>>

\* ResetTimer: check_time_ stays as it is.
ResetTimer(k) ==
    /\ time_control_' = [time_control_ EXCEPT ![k] = 0]
    /\ UNCHANGED check_time_

\* A read completion with data.
ReadEvent(k) ==
    /\ running
    /\ k \in completion_key_ptr_cache_
    /\ ResetTimer(k)
    /\ checks' = [checks EXCEPT ![k] = 0]
    /\ UNCHANGED <<completion_key_ptr_cache_, running, seen, evicted>>

\* A completed send.  Its buffer never has type IO_EVENT_WRITE, because
\* SendDataUserInterface does not set it, so the branch that would reset the
\* timer is not taken.
WriteEvent(k) ==
    /\ running
    /\ k \in completion_key_ptr_cache_
    /\ checks' = [checks EXCEPT ![k] = 0]
    /\ UNCHANGED <<completion_key_ptr_cache_, time_control_, check_time_, running,
                   seen, evicted>>

\* The client leaves: ReleaseCompletionKey.
ClientExit(k) ==
    /\ running
    /\ k \in completion_key_ptr_cache_
    /\ completion_key_ptr_cache_' = completion_key_ptr_cache_ \ {k}
    /\ UNCHANGED <<time_control_, check_time_, running, checks, seen, evicted>>

Tick ==
    /\ running
    /\ time_control_' = [k \in Keys |-> Later(time_control_[k])]
    /\ UNCHANGED <<completion_key_ptr_cache_, check_time_, running, checks, seen, evicted>>

-----------------------------------------------------------------------------

\* Fault: no accepted connection ever counts as out of date.
NeverExpired(k) == FALSE

\* The timer of the connection is out of date.
Expired(k) == k \in completion_key_ptr_cache_ /\ time_control_[k] > OutDate

\* The pass releases the key.
SecondCheck(k) == Expired(k) /\ check_time_[k] = 2

\* Fault: the second check counts on instead of resetting check_time_.
KeepCounting(k) == IF Expired(k) THEN check_time_[k] + 1 ELSE check_time_[k]

\* Fault: the first check is not counted.
ForgetFirstCheck(k) == 1

\* check_time_ after a pass.
NextCheckTime(k) ==
    IF Expired(k) THEN IF check_time_[k] = 1 THEN 2 ELSE 1 ELSE check_time_[k]

\* One pass of ResourceCollector: the first check of an expired key counts
\* it, the second releases it.  pri_ReleaseCompletionKey_ has then already
\* erased both entries, and the pass erases them again through iterators that
\* are no longer valid: the process may go on or be brought down.
ResourceCollector ==
    LET out == {k \in Keys : SecondCheck(k)}
    IN  /\ running
        /\ completion_key_ptr_cache_' = completion_key_ptr_cache_ \ out
        /\ check_time_' = [k \in Keys |-> NextCheckTime(k)]
        /\ checks' = [k \in Keys |-> IF Expired(k) /\ k \notin out THEN checks[k] + 1 ELSE checks[k]]
        /\ seen' = [k \in Keys |-> IF Expired(k) THEN seen[k] + 1 ELSE seen[k]]
        /\ evicted' = evicted \cup {seen'[k] : k \in out}
        /\ running' \in (IF out = {} THEN {TRUE} ELSE BOOLEAN)
        /\ UNCHANGED time_control_

KeyEvent(k) == Accept(k) \/ ReadEvent(k) \/ WriteEvent(k) \/ ClientExit(k)

Next == Tick \/ ResourceCollector \/ \E k \in Keys : KeyEvent(k)

\* Time passes, and wait_for times out again and again.
Spec == Init /\ [][Next]_vars /\ WF_vars(Tick) /\ WF_vars(ResourceCollector)

-----------------------------------------------------------------------------

\* No connection outlives the second pass that finds it idle: as soon as the
\* collector has counted it idle once since its last traffic, check_time_ says
\* so and the next such pass evicts it.
EvictedBySecondCheck ==
    \A k \in completion_key_ptr_cache_ : checks[k] >= 1 => checks[k] = 1 /\ check_time_[k] = 2

\* A connection whose client stays silent does not live for ever: again and
\* again every key is gone or its timer is young, unless the collector has
\* brought the process down.
IdleEvicted ==
    <>[]~running \/ \A k \in Keys :
        []<>(k \notin completion_key_ptr_cache_ \/ time_control_[k] <= OutDate)

\* A connection is evicted by the second pass of its life that finds it idle,
\* also when its key has the address of one that was checked before: what is
\* left of the two checks that GT_SocketContext.h promises for one idle
\* period, since traffic does not reset check_time_.
TwoChecksInLifetime == \A n \in evicted : n = 2

=============================================================================
