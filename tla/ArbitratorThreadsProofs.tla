----------------------- MODULE ArbitratorThreadsProofs -----------------------
(***************************************************************************)
(* ArbitratorThreads for any timeout, log size and clock bound.  What is   *)
(* said of failures needs OneReporter: all reports and heartbeats of the   *)
(* domain come from one thread.  The run masked_failure shows why.  What   *)
(* is said of timeouts and of the drained log does not need it.            *)
(***************************************************************************)
EXTENDS ArbitratorThreads, DegradationMatrixProofs, SequenceTheorems, TLAPS

OneReporter == \A t, u \in Reporters : t = u

Labels == {"idle", "load", "revive", "clear", "stamp", "count"}

\* A failure that stands is counted, and nobody is about to revive the domain.
Standing ==
  /\ pc \in [Reporters -> Labels]
  /\ faultCount \in 0 .. FaultModulus - 1
  /\ standing \in {"none", "begun", "failed"}
  /\ standing # "none" => health = "failed"
  /\ standing = "begun" => \A t \in Reporters : pc[t] = "count"
  /\ standing = "failed" =>
       /\ faultCount # 0
       /\ \A t \in Reporters : pc[t] \in {"idle", "load", "count"}

\* The clock's readings, and the age on which the scan decided.
Times ==
  /\ now \in 0 .. MaxTime
  /\ lastHeartbeat \in 0 .. MaxTime
  /\ nowMs \in 0 .. MaxTime
  /\ TimeoutsAreReal

LEMMA TimesStep == Times /\ [Next]_vars => Times'
<1> SUFFICES ASSUME Times, [Next]_vars PROVE Times'
  OBVIOUS
<1>1. CASE Tick
  BY <1>1, NumbersAssumption
     DEF Tick, Times, TimeoutsAreReal, domainVars, loopVars
<1>2. ASSUME NEW t \in Reporters, StampRecovery(t) \/ StampHeartbeat(t) PROVE Times'
  BY <1>2 DEF StampRecovery, StampHeartbeat, Times, TimeoutsAreReal, loopVars
<1>3. CASE ReadClock
  BY <1>3 DEF ReadClock, Times, TimeoutsAreReal, domainVars
<1>4. CASE LoadBeat
  <2>1. UNCHANGED <<now, lastHeartbeat, nowMs>> /\ lastBeat' = lastHeartbeat
    BY <1>4 DEF LoadBeat, domainVars
  <2>2. CASE step' = "mask"
    BY <2>1, <2>2 DEF Times, TimeoutsAreReal
  <2>3. CASE step' # "mask"
    <3>1. /\ nowMs >= lastHeartbeat
          /\ (nowMs - lastHeartbeat) % ClockModulus > SensorTimeout
      BY <1>4, <2>3 DEF LoadBeat
    <3>2. (nowMs - lastHeartbeat) % ClockModulus = nowMs - lastHeartbeat
      BY <3>1, NumbersAssumption DEF Times
    <3>3. lastHeartbeat + SensorTimeout < nowMs
      BY <3>1, <3>2, NumbersAssumption DEF Times
    <3>4. QED
      BY <2>1, <3>3 DEF Times, TimeoutsAreReal
  <2>4. QED
    BY <2>2, <2>3
<1>5. CASE UNCHANGED <<now, lastHeartbeat, nowMs, lastBeat, step>>
  BY <1>5 DEF Times, TimeoutsAreReal
<1>6. CASE /\ UNCHANGED <<now, lastHeartbeat, nowMs, lastBeat>>
           /\ \/ step' \notin {"promote", "storeFailed", "countTimeout"}
              \/ step \in {"promote", "storeFailed", "countTimeout"}
  BY <1>6 DEF Times, TimeoutsAreReal
<1>7. CASE Report
  BY <1>2, <1>5, <1>7
     DEF Report, StoreHealth, CountFault, ClearCount, LoadCount, Revive,
         domainVars, loopVars
<1>8. CASE Loop
  BY <1>3, <1>4, <1>6, <1>8
     DEF Loop, LoadHealth, StoreFailed, CountTimeout, UpdateBitmasks, Decide,
         CountTransition, WriteRecord, StoreHead, domainVars
<1>9. CASE Drain \/ UNCHANGED vars
  BY <1>5, <1>9
     DEF Drain, LoadHead, LoadTransitionCount, Copy, vars, domainVars, loopVars
<1>10. QED
  BY <1>1, <1>7, <1>8, <1>9 DEF Next

\* A domain is timed out for silence only, whatever beats while it is scanned.
THEOREM TimeoutsCorrect == Spec => []TimeoutsAreReal
<1>1. Init => Times
  BY NumbersAssumption DEF Init, Times, TimeoutsAreReal
<1>2. Times => TimeoutsAreReal
  BY DEF Times
<1>3. QED
  BY <1>1, <1>2, TimesStep, PTL DEF Spec

-----------------------------------------------------------------------------
LEMMA BumpType ==
  ASSUME NEW n \in 0 .. FaultModulus - 1
  PROVE  Bump(n) \in 0 .. FaultModulus - 1
BY NumbersAssumption DEF Bump

LEMMA StandingReport ==
  ASSUME OneReporter, Standing, NEW t \in Reporters,
         \/ \E h \in Health : StoreHealth(t, h)
         \/ CountFault(t) \/ ClearCount(t) \/ StampRecovery(t)
         \/ StampHeartbeat(t) \/ LoadCount(t) \/ Revive(t)
  PROVE  Standing'
<1> USE DEF Standing, Goto, Labels
<1>1. \A u \in Reporters : u = t
  BY DEF OneReporter
<1>2. ASSUME NEW h \in Health, StoreHealth(t, h) PROVE Standing'
  <2>1. pc' \in [Reporters -> Labels] /\ pc'[t] \in {"clear", "count"}
    BY <1>2 DEF StoreHealth
  <2>2. CASE h # "failed"
    BY <1>2, <2>1, <2>2 DEF StoreHealth
  <2>3. CASE h = "failed"
    <3>1. pc'[t] = "count" /\ health' = "failed" /\ UNCHANGED faultCount
      BY <1>2, <2>3 DEF StoreHealth
    <3>2. standing' \in {"begun", standing}
      BY <1>2, <2>3 DEF StoreHealth
    <3>3. QED
      BY <1>1, <2>1, <3>1, <3>2
  <2>4. QED
    BY <2>2, <2>3
<1>3. CASE CountFault(t)
  <2>1. faultCount' \in 0 .. FaultModulus - 1
    BY <1>3, BumpType DEF CountFault
  <2>2. pc' \in [Reporters -> Labels] /\ pc'[t] = "idle"
    BY <1>3 DEF CountFault
  <2>3. /\ standing' \in {"none", "failed", standing} /\ UNCHANGED health
        /\ standing' = "failed" => faultCount' # 0 /\ standing # "none"
        /\ standing' # "begun"
    BY <1>3 DEF CountFault
  <2>4. QED
    BY <1>1, <2>1, <2>2, <2>3
<1>4. CASE ClearCount(t) \/ StampRecovery(t)
  BY <1>1, <1>4, NumbersAssumption DEF ClearCount, StampRecovery
<1>5. CASE StampHeartbeat(t)
  BY <1>1, <1>5 DEF StampHeartbeat
<1>6. CASE LoadCount(t)
  BY <1>1, <1>6 DEF LoadCount, domainVars
<1>7. CASE Revive(t)
  BY <1>1, <1>7 DEF Revive
<1>8. QED
  BY <1>2, <1>3, <1>4, <1>5, <1>6, <1>7

LEMMA StandingStep == OneReporter /\ Standing /\ [Next]_vars => Standing'
<1> SUFFICES ASSUME OneReporter, Standing, [Next]_vars PROVE Standing'
  OBVIOUS
<1>1. CASE Report
  BY <1>1, StandingReport DEF Report
<1>2. CASE UNCHANGED <<health, faultCount, pc, standing>>
  BY <1>2 DEF Standing
<1>3. CASE StoreFailed \/ CountTimeout
  <2>1. CASE StoreFailed
    BY <2>1 DEF StoreFailed, Standing, reportVars
  <2>2. CASE CountTimeout
    <3>1. faultCount' \in 0 .. FaultModulus - 1 /\ UNCHANGED <<pc, health>>
      BY <2>2, BumpType DEF CountTimeout, Standing
    <3>2. /\ standing' \in {"none", standing}
          /\ standing' = "failed" => faultCount' # 0
      BY <2>2 DEF CountTimeout
    <3>3. QED
      BY <3>1, <3>2 DEF Standing
  <2>3. QED
    BY <1>3, <2>1, <2>2
<1>4. CASE Loop
  BY <1>2, <1>3, <1>4
     DEF Loop, ReadClock, LoadBeat, LoadHealth, UpdateBitmasks, Decide,
         CountTransition, WriteRecord, StoreHead, domainVars, reportVars
<1>5. CASE Tick \/ Drain \/ UNCHANGED vars
  BY <1>2, <1>5
     DEF Tick, Drain, LoadHead, LoadTransitionCount, Copy, vars, domainVars, reportVars
<1>6. QED
  BY <1>1, <1>4, <1>5 DEF Next

\* With one reporter a failure that was reported is kept through heartbeats and
\* cycles until another report begins or the fault count wraps.
THEOREM FailureStays ==
  ASSUME OneReporter
  PROVE  Spec => []FailureKept
<1>1. Init => Standing
  BY NumbersAssumption DEF Init, Standing, Labels
<1>2. Standing /\ [Next]_vars => Standing'
  BY OneReporter, StandingStep
<1>3. Standing => FailureKept
  BY DEF Standing, FailureKept
<1>4. QED
  BY <1>1, <1>2, <1>3, PTL DEF Spec

-----------------------------------------------------------------------------
\* The log under a drain.  Transitions are numbered from 1; Slot(k) is where
\* transition k is recorded.
Slot(k) == (k - 1) % LogSlots

\* Quotient and remainder by the size of the log are unique.
LEMMA RemainderUnique ==
  ASSUME NEW q \in Int, NEW r \in 0..(LogSlots - 1)
  PROVE  (LogSlots * q + r) % LogSlots = r
<1> DEFINE M == LogSlots
           n == M * q + r
           p == n \div M
           s == n % M
<1> USE NumbersAssumption
<1>1. p \in Int /\ s \in 0..(M - 1) /\ M * (q - p) = s - r
  OBVIOUS
<1> HIDE DEF p, s
<1>2. CASE q - p >= 1
  <2>1. M * (q - p) >= M
    BY <1>1, <1>2
  <2>2. QED
    BY <1>1, <2>1
<1>3. CASE q - p < 0
  <2>1. M * (q - p) <= -M
    BY <1>1, <1>3
  <2>2. QED
    BY <1>1, <2>1
<1>4. CASE q - p = 0
  BY <1>1, <1>4 DEF s
<1>5. QED
  BY <1>1, <1>2, <1>3, <1>4

\* Slots follow one another around the log.
LEMMA SlotAhead ==
  ASSUME NEW k \in Int, NEW i \in 0..LogSlots
  PROVE  /\ Slot(k) \in 0..(LogSlots - 1)
         /\ Slot(k + i) = IF Slot(k) + i < LogSlots THEN Slot(k) + i
                                                    ELSE Slot(k) + i - LogSlots
<1> DEFINE M == LogSlots
           q == (k - 1) \div M
           r == (k - 1) % M
<1> USE NumbersAssumption
<1>1. k - 1 = M * q + r /\ r \in 0..(M - 1) /\ q \in Int
  OBVIOUS
<1> HIDE DEF q, r
<1>2. Slot(k) = r
  BY DEF Slot, r
<1>3. CASE r + i < M
  <2>1. (k + i) - 1 = M * q + (r + i) /\ r + i \in 0..(M - 1)
    BY <1>1, <1>3
  <2>2. QED
    BY <1>1, <1>2, <1>3, <2>1, RemainderUnique DEF Slot
<1>4. CASE ~(r + i < M)
  <2>1. (k + i) - 1 = M * (q + 1) + (r + i - M) /\ r + i - M \in 0..(M - 1)
    BY <1>1, <1>4
  <2>2. QED
    BY <1>1, <1>2, <1>4, <2>1, RemainderUnique DEF Slot
<1>5. QED
  BY <1>3, <1>4

LEMMA SlotType ==
  ASSUME NEW k \in Int
  PROVE  Slot(k) \in 0..(LogSlots - 1)
BY SlotAhead, NumbersAssumption

\* The head moves to the next slot; a drain counts slots backwards from it.
LEMMA SlotNext ==
  ASSUME NEW k \in Int
  PROVE  (Slot(k) + 1) % LogSlots = Slot(k + 1)
<1>1. /\ \A x \in 0..(LogSlots - 1) : x % LogSlots = x
      /\ LogSlots % LogSlots = 0 /\ LogSlots \in Nat \ {0}
  BY NumbersAssumption
<1>2. /\ Slot(k) \in 0..(LogSlots - 1)
      /\ Slot(k + 1) = IF Slot(k) + 1 < LogSlots THEN Slot(k) + 1
                                                 ELSE Slot(k) + 1 - LogSlots
  BY <1>1, SlotAhead
<1>3. CASE Slot(k) + 1 < LogSlots
  BY <1>1, <1>2, <1>3
<1>4. CASE Slot(k) + 1 = LogSlots
  BY <1>1, <1>2, <1>4
<1>5. QED
  BY <1>1, <1>2, <1>3, <1>4

LEMMA SlotBack ==
  ASSUME NEW k \in Int, NEW i \in 0..(LogSlots - 1)
  PROVE  (Slot(k) + LogSlots - 1 - i) % LogSlots = Slot(k - 1 - i)
<1> DEFINE M == LogSlots
           b == Slot(k - 1 - i)
<1> USE NumbersAssumption
<1>1. /\ \A x \in 0..(M - 1) : x % M = x
      /\ \A x \in M..(2 * M - 1) : x % M = x - M
  OBVIOUS
<1>2. /\ b \in 0..(M - 1)
      /\ Slot(k) = IF b + (i + 1) < M THEN b + (i + 1) ELSE b + (i + 1) - M
  <2>1. (k - 1 - i) + (i + 1) = k /\ i + 1 \in 0..M /\ k - 1 - i \in Int
    OBVIOUS
  <2>2. QED
    BY <2>1, SlotAhead
<1> HIDE DEF b
<1>3. CASE b + (i + 1) < M
  <2>1. Slot(k) + M - 1 - i = b + M
    BY <1>2, <1>3
  <2>2. QED
    BY <1>1, <1>2, <2>1 DEF b
<1>4. CASE ~(b + (i + 1) < M)
  <2>1. Slot(k) + M - 1 - i = b
    BY <1>2, <1>4
  <2>2. QED
    BY <1>1, <1>2, <2>1 DEF b
<1>5. QED
  BY <1>3, <1>4

\* Transitions fewer than LogSlots apart do not share a slot.
LEMMA SlotsDiffer ==
  ASSUME NEW j \in Int, NEW k \in Int, j < k, k < j + LogSlots
  PROVE  Slot(j) # Slot(k)
<1>1. k - j \in 0..LogSlots /\ j + (k - j) = k /\ 0 < k - j /\ k - j < LogSlots
  BY NumbersAssumption
<1>2. /\ Slot(j) \in 0..(LogSlots - 1)
      /\ Slot(k) = IF Slot(j) + (k - j) < LogSlots THEN Slot(j) + (k - j)
                   ELSE Slot(j) + (k - j) - LogSlots
  BY <1>1, SlotAhead
<1>3. QED
  BY <1>1, <1>2, NumbersAssumption

\* While transition n is being logged, its record and the head lag behind the
\* count: HeadsOf transitions have moved the head, DoneOf are recorded.
Logging == {"write", "written", "head"}
HeadsOf(n, s) == IF s \in Logging THEN n - 1 ELSE n
DoneOf(n, s) == IF s \in {"write", "written"} THEN n - 1 ELSE n

\* The state that the transitions recorded so far have led to.
Reached(s, state, before) ==
  IF s \in {"number", "write", "written"} THEN before ELSE state

Entry == Record \cup {Torn, Blank}

LogType ==
  /\ transitionCount \in Nat
  /\ step \in Logging => transitionCount > 0
  /\ currentState \in SafeState
  /\ from \in SafeState
  /\ transitionLog \in [0..(LogSlots - 1) -> Entry]
  /\ logHead = Slot(HeadsOf(transitionCount, step) + 1)

\* The records of the last transitions, the one being logged counted in, are
\* complete up to it, numbered, and each one goes on where the one before it
\* ended.
InLog(k, n, s) == k > 0 /\ k <= DoneOf(n, s) /\ k > n - LogSlots

Recorded ==
  \A k \in Nat :
    InLog(k, transitionCount, step) =>
      /\ transitionLog[Slot(k)] \in Record
      /\ transitionLog[Slot(k)].sequenceNum = k
      /\ transitionLog[Slot(k)].toState =
           IF k = DoneOf(transitionCount, step)
           THEN Reached(step, currentState, from)
           ELSE transitionLog[Slot(k + 1)].fromState

LogInv == LogType /\ Recorded

\* The steps of the cycle that leave the log alone.
LEMMA LogQuiet ==
  ASSUME LogInv, UNCHANGED logVars, step \notin Logging, step' \notin Logging,
         currentState' \in SafeState, from' \in SafeState,
         Reached(step', currentState', from') = Reached(step, currentState, from)
  PROVE  LogInv'
<1>1. /\ HeadsOf(transitionCount', step') = HeadsOf(transitionCount, step)
      /\ DoneOf(transitionCount', step') = DoneOf(transitionCount, step)
      /\ UNCHANGED <<transitionCount, transitionLog, logHead>>
  BY DEF HeadsOf, DoneOf, Logging, logVars
<1>2. LogType'
  BY <1>1 DEF LogInv, LogType
<1>3. Recorded'
  BY <1>1 DEF LogInv, Recorded, InLog
<1>4. QED
  BY <1>2, <1>3 DEF LogInv

LEMMA LogStep == LogInv /\ [Next]_vars => LogInv'
<1> SUFFICES ASSUME LogInv, [Next]_vars PROVE LogInv'
  OBVIOUS
<1> DEFINE n == transitionCount
<1>0. /\ n \in Nat /\ LogSlots \in Nat \ {0} /\ (step \in Logging => n > 0)
      /\ currentState \in SafeState /\ from \in SafeState
      /\ transitionLog \in [0..(LogSlots - 1) -> Entry]
      /\ logHead = Slot(HeadsOf(n, step) + 1)
  BY NumbersAssumption DEF LogInv, LogType
<1>1. CASE UNCHANGED <<logVars, step, currentState, from>>
  BY <1>1 DEF logVars, LogInv, LogType, Recorded
<1>2. CASE \/ ReadClock \/ LoadBeat \/ LoadHealth \/ StoreFailed \/ CountTimeout
           \/ UpdateBitmasks
  <2>1. /\ UNCHANGED <<logVars, currentState, from>>
        /\ step \notin Logging \cup {"number"}
        /\ step' \notin Logging \cup {"number"}
    BY <1>2 DEF ReadClock, LoadBeat, LoadHealth, StoreFailed, CountTimeout,
                UpdateBitmasks, Logging
  <2>2. Reached(step', currentState', from') = Reached(step, currentState, from)
    BY <2>1 DEF Reached, Logging
  <2>3. QED
    BY <1>0, <2>1, <2>2, LogQuiet
<1>3. CASE Decide
  <2>1. /\ UNCHANGED logVars /\ step = "decide" /\ step' \in {"idle", "number"}
        /\ currentState' \in SafeState /\ from' = currentState
        /\ step' = "idle" => currentState' = currentState
    BY <1>3, MatrixStateInRange DEF Decide
  <2>2. Reached(step', currentState', from') = Reached(step, currentState, from)
    BY <2>1 DEF Reached
  <2>3. QED
    BY <1>0, <2>1, <2>2, LogQuiet DEF Logging
<1>4. CASE CountTransition
  <2>1. /\ step = "number" /\ step' = "write" /\ n' = n + 1
        /\ UNCHANGED <<transitionLog, logHead, currentState, from>>
    BY <1>4 DEF CountTransition
  <2>2. /\ HeadsOf(n', step') = HeadsOf(n, step) /\ DoneOf(n', step') = DoneOf(n, step)
        /\ Reached(step', currentState', from') = Reached(step, currentState, from)
    BY <1>0, <2>1 DEF HeadsOf, DoneOf, Reached, Logging
  <2>3. LogType'
    BY <1>0, <2>1, <2>2 DEF LogType
  <2>4. \A k \in Nat : InLog(k, n', step') => InLog(k, n, step)
    BY <1>0, <2>1, <2>2 DEF InLog
  <2>5. Recorded'
    BY <2>1, <2>2, <2>4 DEF LogInv, Recorded
  <2>6. QED
    BY <2>3, <2>5 DEF LogInv
<1>5. CASE WriteRecord /\ step = "write"
  <2>1. /\ step = "write" /\ step' = "written" /\ logHead = Slot(n)
        /\ transitionLog' = [transitionLog EXCEPT ![logHead] = Torn]
        /\ UNCHANGED <<transitionCount, logHead, currentState, from>>
    BY <1>0, <1>5 DEF WriteRecord, HeadsOf, Logging
  <2>2. /\ HeadsOf(n', step') = HeadsOf(n, step) /\ DoneOf(n', step') = DoneOf(n, step)
        /\ Reached(step', currentState', from') = Reached(step, currentState, from)
    BY <2>1 DEF HeadsOf, DoneOf, Reached, Logging
  <2>3. LogType'
    BY <1>0, <2>1, <2>2 DEF LogType, Logging, Entry
  <2>4. \A k \in Nat : InLog(k, n, step) => Slot(k) # Slot(n)
    BY <1>0, <2>1, SlotsDiffer DEF InLog, DoneOf
  <2>5. \A k \in Nat : InLog(k, n, step) => transitionLog'[Slot(k)] = transitionLog[Slot(k)]
    BY <1>0, <2>1, <2>4, SlotType
  <2>6. \A k \in Nat : InLog(k, n, step) /\ k # DoneOf(n, step) => InLog(k + 1, n, step)
    BY <1>0, <2>1 DEF InLog, DoneOf
  <2>7. \A k \in Nat : InLog(k, n', step') <=> InLog(k, n, step)
    BY <2>1, <2>2 DEF InLog
  <2>8. Recorded'
    BY <2>1, <2>2, <2>5, <2>6, <2>7 DEF LogInv, Recorded
  <2>9. QED
    BY <2>3, <2>8 DEF LogInv
<1>6. CASE WriteRecord /\ step = "written"
  <2> DEFINE new == [fromState |-> from, toState |-> currentState, sequenceNum |-> n]
  <2>1. /\ step = "written" /\ step' = "head" /\ logHead = Slot(n)
        /\ transitionLog' = [transitionLog EXCEPT ![logHead] = new]
        /\ UNCHANGED <<transitionCount, logHead, currentState, from>>
    BY <1>0, <1>6 DEF WriteRecord, HeadsOf, Logging
  <2>2. new \in Record
    BY <1>0 DEF Record
  <2>3. LogType'
    BY <1>0, <2>1, <2>2 DEF LogType, Logging, Entry, HeadsOf
  <2>4. \A k \in Nat : k > 0 /\ k < n /\ k > n - LogSlots => Slot(k) # Slot(n)
    BY <1>0, SlotsDiffer
  <2>5. /\ transitionLog'[Slot(n)] = new
        /\ \A k \in Nat : k > 0 /\ k < n /\ k > n - LogSlots =>
             transitionLog'[Slot(k)] = transitionLog[Slot(k)]
    BY <1>0, <2>1, <2>4, SlotType
  <2>6. ASSUME NEW k \in Nat, InLog(k, n', step')
        PROVE  /\ transitionLog'[Slot(k)] \in Record
               /\ transitionLog'[Slot(k)].sequenceNum = k
               /\ transitionLog'[Slot(k)].toState =
                    IF k = DoneOf(n', step')
                    THEN Reached(step', currentState', from')
                    ELSE transitionLog'[Slot(k + 1)].fromState
    <3>1. k > 0 /\ k <= n /\ k > n - LogSlots /\ DoneOf(n', step') = n
      BY <2>1, <2>6 DEF InLog, DoneOf
    <3>2. CASE k = n
      BY <2>1, <2>2, <2>5, <3>1, <3>2 DEF Reached
    <3>3. CASE k # n
      <4>1. /\ InLog(k, n, step) /\ DoneOf(n, step) = n - 1
            /\ Reached(step, currentState, from) = from
        BY <1>0, <2>1, <3>1, <3>3 DEF InLog, DoneOf, Reached
      <4>2. /\ transitionLog'[Slot(k)] = transitionLog[Slot(k)]
            /\ k + 1 \in Nat
        BY <1>0, <2>5, <3>1, <3>3
      <4>3. CASE k = n - 1
        BY <1>0, <2>5, <3>1, <3>3, <4>1, <4>2, <4>3 DEF LogInv, Recorded
      <4>4. CASE k # n - 1
        <5>1. transitionLog'[Slot(k + 1)] = transitionLog[Slot(k + 1)]
          BY <1>0, <2>5, <3>1, <3>3, <4>2, <4>4
        <5>2. QED
          BY <3>1, <3>3, <4>1, <4>2, <4>4, <5>1 DEF LogInv, Recorded
      <4>5. QED
        BY <4>3, <4>4
    <3>4. QED
      BY <3>2, <3>3
  <2>7. QED
    BY <2>3, <2>6 DEF LogInv, Recorded
<1>7. CASE StoreHead
  <2>1. /\ step = "head" /\ step' = "idle" /\ logHead = Slot(n)
        /\ logHead' = (logHead + 1) % LogSlots
        /\ UNCHANGED <<transitionCount, transitionLog, currentState, from>>
    BY <1>0, <1>7 DEF StoreHead, HeadsOf, Logging
  <2>2. logHead' = Slot(n + 1)
    BY <1>0, <2>1, SlotNext
  <2>3. /\ HeadsOf(n', step') = n /\ DoneOf(n', step') = DoneOf(n, step)
        /\ Reached(step', currentState', from') = Reached(step, currentState, from)
    BY <2>1 DEF HeadsOf, DoneOf, Reached, Logging
  <2>4. LogType'
    BY <1>0, <2>1, <2>2, <2>3 DEF LogType, Logging
  <2>5. Recorded'
    BY <2>1, <2>3 DEF LogInv, Recorded, InLog
  <2>6. QED
    BY <2>4, <2>5 DEF LogInv
<1>8. CASE Loop
  BY <1>2, <1>3, <1>4, <1>5, <1>6, <1>7, <1>8 DEF Loop, WriteRecord
<1>9. CASE Tick \/ Report \/ Drain \/ UNCHANGED vars
  BY <1>1, <1>9
     DEF Tick, Report, StoreHealth, CountFault, ClearCount, StampRecovery,
         StampHeartbeat, LoadCount, Revive, Drain, LoadHead,
         LoadTransitionCount, Copy, vars, loopVars
<1>10. QED
  BY <1>8, <1>9 DEF Next

\* The drain loaded the head when `n - overlapping` transitions had moved it.
\* Copied: the i-th entry it copied is what the slot of the i-th newest of these
\* transitions still holds, unless two transitions had a part meanwhile.
DrainLocals ==
  /\ overlapping \in 0..transitionCount
  /\ overlapping = 0 => step \notin Logging
  /\ head = Slot(transitionCount - overlapping + 1)
  /\ count \in Nat
  /\ drain = "copy" => count <= transitionCount
  /\ buffer \in Seq(Entry)
  /\ Len(buffer) <= transitionCount

Copied ==
  overlapping <= 1 =>
    \A i \in 1..Len(buffer) :
      i < LogSlots /\ i <= transitionCount - overlapping =>
        buffer[i] = transitionLog[Slot(transitionCount - overlapping + 1 - i)]

DrainInv == LogInv /\ DrainLocals /\ Copied

\* The slots a drain reads are not written while at most one transition has a
\* part.
LEMMA LogStepCopied ==
  ASSUME DrainInv, Loop
  PROVE  DrainLocals' /\ Copied'
<1> DEFINE n == transitionCount
           o == overlapping
<1>0. /\ n \in Nat /\ LogSlots \in Nat \ {0} /\ o \in 0..n
      /\ transitionLog \in [0..(LogSlots - 1) -> Entry]
      /\ logHead = Slot(HeadsOf(n, step) + 1)
      /\ head = Slot(n - o + 1) /\ count \in Nat
      /\ buffer \in Seq(Entry) /\ Len(buffer) \in Nat /\ Len(buffer) <= n
      /\ drain = "copy" => count <= n
      /\ o = 0 => step \notin Logging
      /\ UNCHANGED drainVars
  BY NumbersAssumption, EmptySeq, LenProperties
     DEF DrainInv, DrainLocals, LogInv, LogType, Loop, ReadClock, LoadBeat, LoadHealth,
         StoreFailed, CountTimeout, UpdateBitmasks, Decide, CountTransition,
         WriteRecord, StoreHead
<1>1. CASE CountTransition
  <2>1. /\ n' = n + 1 /\ o' = o + 1 /\ UNCHANGED <<transitionLog, head, count, drain, buffer>>
    BY <1>0, <1>1 DEF CountTransition, drainVars
  <2>2. n' - o' = n - o
    BY <1>0, <2>1
  <2>3. DrainLocals'
    <3>1. o' \in 0..n' /\ o' # 0 /\ Len(buffer) <= n' /\ (drain = "copy" => count <= n')
      BY <1>0, <2>1
    <3>2. head' = Slot(n' - o' + 1)
      BY <1>0, <2>1, <2>2
    <3>3. QED
      BY <1>0, <2>1, <3>1, <3>2 DEF DrainLocals
  <2>4. Copied'
    <3>1. o' <= 1 => o <= 1
      BY <1>0, <2>1
    <3>2. QED
      BY <2>1, <2>2, <3>1 DEF DrainInv, Copied
  <2>5. QED
    BY <2>3, <2>4
<1>2. CASE WriteRecord
  <2>1. /\ step \in {"write", "written"} /\ logHead = Slot(n)
        /\ UNCHANGED <<transitionCount, overlapping, head, count, drain, buffer>>
        /\ \A j \in 0..(LogSlots - 1) :
             j # logHead => transitionLog'[j] = transitionLog[j]
    BY <1>0, <1>2 DEF WriteRecord, HeadsOf, Logging, drainVars
  <2>2. o # 0
    BY <1>0, <2>1 DEF Logging
  <2>3. DrainLocals'
    BY <1>0, <2>1, <2>2 DEF DrainLocals
  <2>4. Copied'
    <3> SUFFICES ASSUME o <= 1, NEW i \in 1..Len(buffer), i < LogSlots, i <= n - o
                 PROVE  buffer[i] = transitionLog'[Slot(n - o + 1 - i)]
      BY <2>1 DEF Copied
    <3>1. o = 1 /\ n - o + 1 - i = n - i /\ n - i \in Int
      BY <1>0, <2>2
    <3>2. Slot(n - i) # Slot(n)
      BY <1>0, <3>1, SlotsDiffer
    <3>3. Slot(n - i) \in 0..(LogSlots - 1)
      BY <3>1, SlotType
    <3>4. transitionLog'[Slot(n - i)] = transitionLog[Slot(n - i)]
      BY <2>1, <3>2, <3>3
    <3>5. QED
      BY <1>0, <3>1, <3>4 DEF DrainInv, Copied
  <2>5. QED
    BY <2>3, <2>4
<1>3. CASE ~CountTransition /\ ~WriteRecord
  <2>1. /\ UNCHANGED <<transitionCount, transitionLog, overlapping, head, count, drain, buffer>>
        /\ step \notin Logging => step' \notin Logging
    BY <1>3
       DEF Loop, ReadClock, LoadBeat, LoadHealth, StoreFailed, CountTimeout,
           UpdateBitmasks, Decide, StoreHead, drainVars, logVars, Logging
  <2>2. DrainLocals'
    BY <1>0, <2>1 DEF DrainLocals
  <2>3. Copied'
    BY <2>1 DEF DrainInv, Copied
  <2>4. QED
    BY <2>2, <2>3
<1>4. QED
  BY <1>1, <1>2, <1>3

\* The head is loaded, the buffer emptied: every transition that has moved the
\* head is before this drain, one that is being logged overlaps it.
LEMMA LoadHeadDrain ==
  ASSUME DrainInv, LoadHead
  PROVE  DrainLocals' /\ Copied'
<1>1. /\ head' = logHead /\ buffer' = << >> /\ drain' = "count"
      /\ overlapping' = IF step \in Logging THEN 1 ELSE 0
      /\ UNCHANGED <<transitionCount, transitionLog, step, count>>
  BY DEF LoadHead, loopVars, logVars, Logging
<1>2. /\ transitionCount \in Nat /\ (step \in Logging => transitionCount > 0)
      /\ logHead = Slot(HeadsOf(transitionCount, step) + 1)
      /\ count \in Nat
  BY DEF DrainInv, DrainLocals, LogInv, LogType
<1>3. /\ overlapping' \in 0..transitionCount
      /\ transitionCount - overlapping' = HeadsOf(transitionCount, step)
  BY <1>1, <1>2 DEF HeadsOf
<1>4. << >> \in Seq(Entry) /\ Len(<< >>) = 0
  OBVIOUS
<1>5. DrainLocals'
  BY <1>1, <1>2, <1>3, <1>4 DEF DrainLocals
<1>6. Copied'
  BY <1>1, <1>4 DEF Copied
<1>7. QED
  BY <1>5, <1>6

\* One record more is copied, from the slot of the transition before.
LEMMA CopyDrain ==
  ASSUME DrainInv, Copy
  PROVE  DrainLocals' /\ Copied'
<1> DEFINE n == transitionCount
           o == overlapping
           len == Len(buffer)
           next == transitionLog[(head + LogSlots - 1 - len) % LogSlots]
<1>0. /\ n \in Nat /\ LogSlots \in Nat \ {0} /\ o \in 0..n
      /\ transitionLog \in [0..(LogSlots - 1) -> Entry]
      /\ head = Slot(n - o + 1) /\ head \in Int /\ count \in Nat
      /\ buffer \in Seq(Entry) /\ len \in Nat /\ len <= n
      /\ drain = "copy" /\ count <= n
      /\ o = 0 => step \notin Logging
      /\ UNCHANGED <<transitionCount, transitionLog, step, overlapping, head, count>>
  BY NumbersAssumption, LenProperties, SlotType
     DEF DrainInv, DrainLocals, LogInv, LogType, Copy, loopVars, logVars
<1>1. CASE UNCHANGED buffer
  <2>1. DrainLocals'
    BY <1>0, <1>1 DEF DrainLocals
  <2>2. Copied'
    BY <1>0, <1>1 DEF DrainInv, Copied
  <2>3. QED
    BY <2>1, <2>2
<1>2. CASE buffer' # buffer
  <2>1. len < count /\ buffer' = Append(buffer, next) /\ drain' = drain
    <3>1. \/ /\ len < (IF count < BufferSize THEN count ELSE BufferSize)
             /\ buffer' = Append(buffer, next) /\ UNCHANGED drain
          \/ UNCHANGED buffer
      BY DEF Copy
    <3>2. QED
      BY <1>0, <1>2, <3>1, NumbersAssumption
  <2>2. next \in Entry
    <3>1. (head + LogSlots - 1 - len) % LogSlots \in 0..(LogSlots - 1)
      BY <1>0
    <3>2. QED
      BY <1>0, <3>1
  <2> HIDE DEF next
  <2>3. /\ buffer' \in Seq(Entry) /\ Len(buffer') = len + 1
        /\ \A i \in 1..len : buffer'[i] = buffer[i]
        /\ buffer'[len + 1] = next
    BY <1>0, <2>1, <2>2
  <2>4. DrainLocals'
    BY <1>0, <2>1, <2>3 DEF DrainLocals
  <2>5. Copied'
    <3> SUFFICES ASSUME o <= 1, NEW i \in 1..(len + 1), i < LogSlots, i <= n - o
                 PROVE  buffer'[i] = transitionLog[Slot(n - o + 1 - i)]
      BY <1>0, <2>3 DEF Copied
    <3>1. CASE i = len + 1
      <4> DEFINE m == n - o + 1
      <4>1. /\ m \in Int /\ head = Slot(m)
            /\ m - 1 - len = n - o + 1 - i /\ len \in 0..(LogSlots - 1)
        BY <1>0, <3>1
      <4> HIDE DEF m
      <4>2. (Slot(m) + LogSlots - 1 - len) % LogSlots = Slot(m - 1 - len)
        <5> HIDE DEF len
        <5>1. QED
          BY <4>1, SlotBack
      <4>3. next = transitionLog[Slot(n - o + 1 - i)]
        BY <4>1, <4>2, Zenon DEF next
      <4>4. buffer'[i] = next
        BY <2>3, <3>1, Zenon
      <4>5. QED
        BY <4>3, <4>4, Zenon
    <3>2. CASE i \in 1..len
      BY <1>0, <2>3, <3>2 DEF DrainInv, Copied
    <3>3. QED
      BY <1>0, <3>1, <3>2
  <2>6. QED
    BY <2>4, <2>5
<1>3. QED
  BY <1>1, <1>2

LEMMA DrainStep == DrainInv /\ [Next]_vars => DrainInv'
<1> SUFFICES ASSUME DrainInv, [Next]_vars PROVE DrainInv'
  OBVIOUS
<1>1. LogInv'
  BY LogStep DEF DrainInv
<1>2. CASE Loop
  BY <1>1, <1>2, LogStepCopied DEF DrainInv
<1>3. CASE LoadHead
  BY <1>1, <1>3, LoadHeadDrain DEF DrainInv
<1>4. CASE Copy
  BY <1>1, <1>4, CopyDrain DEF DrainInv
<1>5. CASE LoadTransitionCount
  <2>1. UNCHANGED <<transitionCount, transitionLog, step, overlapping, head, buffer>>
    BY <1>5 DEF LoadTransitionCount, loopVars, logVars
  <2>2. transitionCount \in Nat /\ LogSlots \in Nat \ {0} /\ count \in Nat
    BY NumbersAssumption DEF DrainInv, DrainLocals, LogInv, LogType
  <2>3. count' \in Nat /\ (drain' = "copy" => count' <= transitionCount)
    BY <1>5, <2>2 DEF LoadTransitionCount
  <2>4. DrainLocals'
    BY <2>1, <2>3 DEF DrainInv, DrainLocals
  <2>5. Copied'
    BY <2>1 DEF DrainInv, Copied
  <2>6. QED
    BY <1>1, <2>4, <2>5 DEF DrainInv
<1>6. CASE Tick \/ Report \/ UNCHANGED vars
  <2>1. UNCHANGED <<transitionCount, transitionLog, step, overlapping, drainVars>>
    BY <1>6
       DEF Tick, Report, StoreHealth, CountFault, ClearCount, StampRecovery,
           StampHeartbeat, LoadCount, Revive, vars, loopVars, logVars
  <2>2. DrainLocals' /\ Copied'
    BY <2>1 DEF DrainInv, DrainLocals, Copied, drainVars
  <2>3. QED
    BY <1>1, <2>2 DEF DrainInv
<1>7. QED
  BY <1>2, <1>3, <1>4, <1>5, <1>6 DEF Next, Drain

\* What is copied is sound: the log still holds what a drain with at most one
\* transition beside it read of the transitions before it.
LEMMA CopiedSound == DrainInv => DrainedAllButOldest
<1> SUFFICES ASSUME DrainInv, overlapping <= 1,
                    NEW i \in 1..Len(buffer),
                    i < LogSlots, i <= transitionCount - overlapping
             PROVE  /\ buffer[i] \notin {Torn, Blank}
                    /\ i > 1 => /\ buffer[i - 1].fromState = buffer[i].toState
                                /\ buffer[i - 1].sequenceNum = buffer[i].sequenceNum + 1
  BY DEF DrainedAllButOldest
<1> DEFINE n == transitionCount
           o == overlapping
           k == n - o + 1 - i
<1>1. /\ n \in Nat /\ LogSlots \in Nat \ {0} /\ o \in 0..n
      /\ Len(buffer) \in Nat /\ Len(buffer) <= n
      /\ o = 0 => step \notin Logging
  BY NumbersAssumption, LenProperties DEF DrainInv, DrainLocals, LogInv, LogType
<1>2. i <= n - o /\ k \in Nat /\ k > 0 /\ k > n - LogSlots /\ k <= n - o /\ i - 1 \in Nat
  BY <1>1
<1>3. n - o <= DoneOf(n, step)
  BY <1>1 DEF DoneOf, Logging
<1>4. InLog(k, n, step)
  BY <1>1, <1>2, <1>3 DEF InLog, DoneOf
<1>5. buffer[i] = transitionLog[Slot(k)]
  BY <1>2 DEF DrainInv, Copied
<1>6. transitionLog[Slot(k)] \in Record /\ transitionLog[Slot(k)].sequenceNum = k
  BY <1>2, <1>4 DEF DrainInv, LogInv, Recorded
<1>7. ASSUME i > 1
      PROVE  /\ buffer[i - 1].fromState = buffer[i].toState
             /\ buffer[i - 1].sequenceNum = buffer[i].sequenceNum + 1
  <2>1. /\ i - 1 \in 1..Len(buffer) /\ i - 1 < LogSlots /\ i - 1 <= n - o
        /\ n - o + 1 - (i - 1) = k + 1 /\ k + 1 <= n - o /\ k + 1 \in Nat
    BY <1>1, <1>2, <1>7
  <2>2. buffer[i - 1] = transitionLog[Slot(k + 1)]
    <3>1. buffer[i - 1] = transitionLog[Slot(n - o + 1 - (i - 1))]
      BY <2>1 DEF DrainInv, Copied
    <3>2. QED
      BY <2>1, <3>1
  <2>3. InLog(k + 1, n, step) /\ k # DoneOf(n, step)
    BY <1>1, <1>2, <1>3, <2>1 DEF InLog, DoneOf
  <2>4. /\ transitionLog[Slot(k + 1)].sequenceNum = k + 1
        /\ transitionLog[Slot(k)].toState = transitionLog[Slot(k + 1)].fromState
    BY <1>2, <1>4, <2>1, <2>3 DEF DrainInv, LogInv, Recorded
  <2>5. QED
    BY <1>5, <1>6, <2>2, <2>4
<1>8. QED
  BY <1>5, <1>6, <1>7, MarksAssumption

\* A drain beside one transition at most hands out complete records that continue
\* one another, for every transition that was in the log when it began but for the
\* one whose slot is written next: for every size of log and buffer, and however
\* the accesses interleave.
THEOREM DrainSound == Spec => []DrainedAllButOldest
<1>1. Init => DrainInv
  <2> SUFFICES ASSUME Init PROVE DrainInv
    OBVIOUS
  <2>1. LogSlots \in Nat \ {0} /\ Slot(1) = 0
    BY NumbersAssumption DEF Slot
  <2>2. LogInv
    BY <2>1
       DEF Init, LogInv, LogType, Recorded, InLog, DoneOf, HeadsOf, Logging,
           Entry, SafeState, FullOperation
  <2>3. DrainLocals /\ Copied
    BY <2>1 DEF Init, DrainLocals, Copied, Logging
  <2>4. QED
    BY <2>2, <2>3 DEF DrainInv
<1>2. QED
  BY <1>1, DrainStep, CopiedSound, PTL DEF Spec
=============================================================================
