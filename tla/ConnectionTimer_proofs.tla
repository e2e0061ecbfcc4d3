----------------------- MODULE ConnectionTimer_proofs -----------------------
(***************************************************************************)
(* ConnectionTimer proved for every set of keys and every time limit: the   *)
(* collector evicts a connection with the second pass that finds it idle,   *)
(* neither earlier nor later.                                               *)
(***************************************************************************)
EXTENDS ConnectionTimer, TLAPS

\* check_time_ counts the passes that found a live connection idle since it
\* was accepted, and traffic in between can only make the count since the
\* last traffic smaller.
CheckTimeCounts ==
    \A k \in completion_key_ptr_cache_ :
        /\ check_time_[k] = seen[k] + 1
        /\ checks[k] <= seen[k]

\* The inductive invariant.
TimerIInv == TypeOK /\ CheckTimeCounts /\ TwoChecksInLifetime

\* A server without connections satisfies the inductive invariant.
LEMMA TimerInitInv == Init => TimerIInv
BY OutDateAssumption
DEF Init, TimerIInv, TypeOK, Durations, CheckTimeCounts, TwoChecksInLifetime

\* A pass of ResourceCollector preserves the inductive invariant: it counts
\* the keys it finds idle for the first time and evicts the others.
LEMMA CollectorInv ==
    ASSUME TimerIInv, ResourceCollector
    PROVE  TimerIInv'
<1>. DEFINE out == {k \in Keys : SecondCheck(k)}
<1>0. /\ completion_key_ptr_cache_ \subseteq Keys
      /\ time_control_ \in [Keys -> Durations]
      /\ check_time_ \in [Keys -> 1 .. 2]
      /\ checks \in [Keys -> 0 .. 2]
      /\ seen \in [Keys -> 0 .. 2]
      /\ evicted \subseteq 0 .. 2
  BY DEF TimerIInv, TypeOK
<1>1. /\ completion_key_ptr_cache_' = completion_key_ptr_cache_ \ out
      /\ check_time_' = [k \in Keys |-> NextCheckTime(k)]
      /\ checks' = [k \in Keys |-> IF Expired(k) /\ k \notin out
                                   THEN checks[k] + 1 ELSE checks[k]]
      /\ seen' = [k \in Keys |-> IF Expired(k) THEN seen[k] + 1 ELSE seen[k]]
      /\ evicted' = evicted \cup {seen'[k] : k \in out}
      /\ running' \in BOOLEAN
      /\ UNCHANGED time_control_
  BY DEF ResourceCollector
<1>. HIDE DEF out
<1>2. \A k \in Keys : k \in out <=> SecondCheck(k)
  BY DEF out
<1>3. ASSUME NEW k \in Keys, Expired(k)
      PROVE  /\ k \in completion_key_ptr_cache_
             /\ check_time_[k] = seen[k] + 1
             /\ checks[k] <= seen[k]
             /\ seen[k] \in 0 .. 1
             /\ k \in out <=> seen[k] = 1
  BY <1>0, <1>2, <1>3 DEF Expired, SecondCheck, TimerIInv, CheckTimeCounts
<1>4. ASSUME NEW k \in Keys
      PROVE  /\ check_time_'[k] \in 1 .. 2
             /\ checks'[k] \in 0 .. 2
             /\ seen'[k] \in 0 .. 2
  BY <1>0, <1>1, <1>3 DEF NextCheckTime
<1>5. ASSUME NEW k \in out
      PROVE  seen'[k] = 2
  <2>1. k \in Keys /\ Expired(k)
    BY DEF out, SecondCheck
  <2>. QED  BY <1>0, <1>1, <1>3, <2>1
<1>6. TypeOK'
  <2>1. evicted' \subseteq 0 .. 2
    <3>1. \A n \in evicted' : n \in evicted \/ n = 2
      BY <1>1, <1>5
    <3>2. 2 \in 0 .. 2
      OBVIOUS
    <3>. QED  BY <1>0, <3>1, <3>2, Zenon
  <2>2. /\ check_time_' \in [Keys -> 1 .. 2]
        /\ checks' \in [Keys -> 0 .. 2]
        /\ seen' \in [Keys -> 0 .. 2]
    BY <1>1, <1>4
  <2>. QED  BY <1>0, <1>1, <2>1, <2>2 DEF TypeOK
<1>7. CheckTimeCounts'
  <2>1. ASSUME NEW k \in completion_key_ptr_cache_'
        PROVE  check_time_'[k] = seen'[k] + 1 /\ checks'[k] <= seen'[k]
    <3>1. k \in Keys /\ k \in completion_key_ptr_cache_ /\ k \notin out
      BY <1>0, <1>1
    <3>2. CASE Expired(k)
      <4>1. seen[k] = 0 /\ checks[k] <= 0 /\ check_time_[k] = 1
        BY <1>0, <1>3, <3>1, <3>2
      <4>. QED  BY <1>0, <1>1, <3>1, <3>2, <4>1 DEF NextCheckTime
    <3>3. CASE ~Expired(k)
      BY <1>1, <3>1, <3>3 DEF NextCheckTime, TimerIInv, CheckTimeCounts
    <3>. QED  BY <3>2, <3>3
  <2>. QED  BY <2>1 DEF CheckTimeCounts
<1>8. TwoChecksInLifetime'
  BY <1>1, <1>5 DEF TimerIInv, TwoChecksInLifetime
<1>. QED  BY <1>6, <1>7, <1>8 DEF TimerIInv

\* Every event of a connection, every tick and every pass preserves the
\* inductive invariant.
LEMMA TimerStepInv == TimerIInv /\ [Next]_vars => TimerIInv'
<1>. SUFFICES ASSUME TimerIInv, [Next]_vars PROVE TimerIInv'
  OBVIOUS
<1>. USE OutDateAssumption DEF TimerIInv
<1>1. CASE Tick
  BY <1>1 DEF Tick, Later, TypeOK, Durations, CheckTimeCounts, TwoChecksInLifetime
<1>2. CASE ResourceCollector
  BY <1>2, CollectorInv
<1>3. ASSUME NEW k \in Keys, Accept(k) PROVE TimerIInv'
  BY <1>3 DEF Accept, TypeOK, Durations, CheckTimeCounts, TwoChecksInLifetime
<1>4. ASSUME NEW k \in Keys, ReadEvent(k) PROVE TimerIInv'
  BY <1>4 DEF ReadEvent, ResetTimer, TypeOK, Durations, CheckTimeCounts,
              TwoChecksInLifetime
<1>5. ASSUME NEW k \in Keys, WriteEvent(k) PROVE TimerIInv'
  BY <1>5 DEF WriteEvent, TypeOK, CheckTimeCounts, TwoChecksInLifetime
<1>6. ASSUME NEW k \in Keys, ClientExit(k) PROVE TimerIInv'
  BY <1>6 DEF ClientExit, TypeOK, CheckTimeCounts, TwoChecksInLifetime
<1>7. CASE UNCHANGED vars
  BY <1>7 DEF vars, TypeOK, CheckTimeCounts, TwoChecksInLifetime
<1>. QED
  BY <1>1, <1>2, <1>3, <1>4, <1>5, <1>6, <1>7 DEF Next, KeyEvent

-----------------------------------------------------------------------------

\* The inductive invariant holds as long as the server runs.
LEMMA TimerInvariance == Spec => []TimerIInv
BY TimerInitInv, TimerStepInv, PTL DEF Spec

\* The timers and counters of the keys keep their types.
THEOREM TimerTyping == Spec => []TypeOK
BY TimerInvariance, PTL DEF TimerIInv

\* A connection that a pass found idle since its last traffic is marked for
\* eviction, and there is never a second such pass that leaves it alive.
THEOREM SecondCheckEvicts == Spec => []EvictedBySecondCheck
<1>1. TimerIInv => EvictedBySecondCheck
  BY DEF TimerIInv, TypeOK, CheckTimeCounts, EvictedBySecondCheck
<1>. QED  BY TimerInvariance, <1>1, PTL

\* Nobody is evicted by the first pass that finds the connection idle, even
\* if the key has the address of one that was checked before.
THEOREM TwoChecksBeforeEviction == Spec => []TwoChecksInLifetime
BY TimerInvariance, PTL DEF TimerIInv

=============================================================================
